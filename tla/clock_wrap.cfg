\* The clock reaches the end of its range.
CONSTANTS
  NChunks = 2
  Capacity = 2
  SeqSpace = 2
  Nodes = {1, 2}
  ClockSpace = 6
  MaxTime = 8
  Sizes = {2}
  TIMER = 3
  Second = 2
SPECIFICATION Spec
INVARIANTS
  ResendsOnlyExpired
\* The caller may free the window and stop.
CHECK_DEADLOCK FALSE
