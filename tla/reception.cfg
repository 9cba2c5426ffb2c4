\* Two senders and a receiver start and exchange a packet each; two datagrams
\* are damaged, cut or truncated.
CONSTANTS
  Senders = {s1, s2}
  Receiver = r
  PortArgs = {0, 1, 4}
  PortSpace = 4
  MAX_PAYLOAD_SIZE = 2
  MAX_WINDOW_SIZE = 1
  Bytes = {0, 1}
  Payloads <- Chunks
  Stale <- Leftovers
  MaxSent = 1
  MaxFaults = 2
SYMMETRY SenderSymmetry
SPECIFICATION Spec
INVARIANTS
  TypeOK
  EncodesAsDeclared
  DecodesExactlyValid
  AcceptedIsSent
  NoOverread
  LoopsConnected
  PeekedIsNext
\* All processes may have exited, or wait in recv.
CHECK_DEADLOCK FALSE
