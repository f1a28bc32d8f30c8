\* A pin is written while another call saves.
SPECIFICATION Spec
CONSTANTS
  Threads = {a, b}
  Keys = {k1, k2}
  Values = {v}
  Nothing = Nothing
  Torn = Torn
  Interval = 2
  MaxTime = 1
  MaxStarts = 0
INVARIANT NeverFatal
\* The process may be down for good.
CHECK_DEADLOCK FALSE
