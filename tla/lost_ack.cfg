\* One answer is lost.
CONSTANTS
  NChunks = 3
  Capacity = 3
  SeqSpace = 8
  MaxStamp = 7
  MaxFaults = 1
  Faults <- LosesAnswers
SPECIFICATION Spec
INVARIANTS
  NeverWedged
\* The sender returns from main, and a process that failed is gone; the
\* receiver then waits in recv for ever.
CHECK_DEADLOCK FALSE
