\* One DATA packet is lost, and a timer may expire before its answer is there.
CONSTANTS
  NChunks = 3
  Capacity = 3
  SeqSpace = 8
  MaxStamp = 7
  MaxFaults = 1
  Faults <- LateAnswers
SPECIFICATION Spec
INVARIANTS
  QuitsOnlyWhenDelivered
\* The sender returns from main, and a process that failed is gone; the
\* receiver then waits in recv for ever.
CHECK_DEADLOCK FALSE
