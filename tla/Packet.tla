------------------------------- MODULE Packet -------------------------------
(***************************************************************************)
(* The packets of src/packet_implem.c as the two programs fill them in:    *)
(* records of the fields that the protocol reads.  The chunk of a DATA     *)
(* packet stands for its payload: chunk c of a file of NChunks chunks,     *)
(* counted from 0, and NChunks itself for the empty payload that announces *)
(* the end of the file.                                                    *)
(***************************************************************************)
EXTENDS Integers

CONSTANT NChunks   \* the length of the file: a bound of the model

ASSUME PacketAssumption == NChunks \in Nat

Eof == NChunks

\* The sender leaves the window field of a DATA packet zero.
Data(seqnum, timestamp, chunk) ==
  [tr |-> FALSE, seqnum |-> seqnum, timestamp |-> timestamp, chunk |-> chunk]

Ack(window, seqnum, timestamp) ==
  [type |-> "ack", window |-> window, seqnum |-> seqnum,
   timestamp |-> timestamp]

\* The receiver never gives a NACK a timestamp: pkt_new left it zero.
Nack(window, seqnum) ==
  [type |-> "nack", window |-> window, seqnum |-> seqnum, timestamp |-> 0]
=============================================================================
