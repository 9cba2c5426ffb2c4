\* Only DATA packets are lost or truncated.
CONSTANTS
  NChunks = 5
  Capacity = 4
  SeqSpace = 10
  MaxStamp = 9
  MaxFaults = 3
  Faults <- LosesData
SPECIFICATION FairSpec
INVARIANTS
  RetransmissionsAnswerFaults
PROPERTIES
  Completes
\* The sender returns from main, and a process that failed is gone; the
\* receiver then waits in recv for ever.
CHECK_DEADLOCK FALSE
