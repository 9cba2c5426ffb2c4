\* A file longer than the sequence space; two answers are lost.
CONSTANTS
  NChunks = 9
  Capacity = 3
  SeqSpace = 6
  MaxStamp = 14
  MaxFaults = 2
  Faults <- LosesAnswers
SPECIFICATION Spec
INVARIANTS
  WrittenIsPrefix
\* The sender returns from main, and a process that failed is gone; the
\* receiver then waits in recv for ever.
CHECK_DEADLOCK FALSE
