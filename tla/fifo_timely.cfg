\* A path that loses and truncates, but keeps the order and answers in time.
CONSTANTS
  NChunks = 6
  Capacity = 4
  SeqSpace = 10
  MaxStamp = 11
  MaxFaults = 4
  Faults <- LosesBoth
SPECIFICATION Spec
INVARIANTS
  TypeOK
  NoUnackedDrop
  WithinReceiverWindow
PROPERTIES
  Implements
  SendingWindowAdvances
\* The sender returns from main, and a process that failed is gone; the
\* receiver then waits in recv for ever.
CHECK_DEADLOCK FALSE
