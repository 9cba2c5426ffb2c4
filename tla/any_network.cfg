\* Everything the network and the processes may do wrong.
CONSTANTS
  NChunks = 4
  Capacity = 3
  SeqSpace = 8
  MaxStamp = 5
  MaxFaults = 2
  Faults <- AnyNetwork
SPECIFICATION Spec
INVARIANTS
  WrittenIsPrefix
  RoomInReceiver
  TimestampsIdentify
  AcksAreTrue
PROPERTIES
  WedgeIsPermanent
\* The sender returns from main, and a process that failed is gone; the
\* receiver then waits in recv for ever.
CHECK_DEADLOCK FALSE
