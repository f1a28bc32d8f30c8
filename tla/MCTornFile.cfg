\* Two calls save at once.
SPECIFICATION Spec
CONSTANTS
  Threads = {a, b}
  Keys = {k1, k2}
  Values = {v}
  Nothing = Nothing
  Torn = Torn
  Interval = 2
  MaxTime = 1
  MaxStarts = 0
INVARIANT SavedFileParses
\* The process may be down for good.
CHECK_DEADLOCK FALSE
