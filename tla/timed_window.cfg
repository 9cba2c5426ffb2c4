\* Every operation on a list of up to three nodes, and the timers, while the
\* clock is below the end of its range.
CONSTANTS
  NChunks = 3
  Capacity = 3
  SeqSpace = 3
  Nodes = {n1, n2, n3}
  ClockSpace = 7
  MaxTime = 4
  Sizes = {1, 3, 4}
  TIMER = 2
  Second = 2
SYMMETRY NodeSymmetry
SPECIFICATION Spec
INVARIANTS
  ListIntact
  QueriesAgree
  ResendsOnlyExpired
  LateByDelayOnly
PROPERTIES
  ImplementsWindow
  ClockIsStrict
  StampsIncrease
\* The caller may free the window and stop.
CHECK_DEADLOCK FALSE
