\* Two calls, two pins, a crash or a fatal race, a restart.
SPECIFICATION Spec
CONSTANTS
  Threads = {a, b}
  Keys = {k1, k2}
  Values = {v}
  Nothing = Nothing
  Torn = Torn
  Interval = 2
  MaxTime = 3
  MaxStarts = 1
SYMMETRY Symmetry
INVARIANT TypeOK
PROPERTIES QuietSaveSurvives ThrottleHolds
\* The bound on restarts leaves the process down.
CHECK_DEADLOCK FALSE
