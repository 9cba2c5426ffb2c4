\* A file longer than the sequence space over a perfect path.
CONSTANTS
  NChunks = 9
  Capacity = 4
  SeqSpace = 8
  MaxStamp = 14
  MaxFaults = 0
  Faults <- Perfect
SPECIFICATION FairSpec
PROPERTIES
  Completes
\* The sender returns from main, and a process that failed is gone; the
\* receiver then waits in recv for ever.
CHECK_DEADLOCK FALSE
