------------------------------ MODULE Network -------------------------------
(***************************************************************************)
(* The two directions of the UDP path between the sender and the receiver. *)
(* None of this is code of the repository: it is the environment in which  *)
(* send_packet, send and recv of src/util.c, src/sender.c and              *)
(* src/receiver.c run.                                                     *)
(*                                                                         *)
(* Faults selects what the path and the processes may do wrong:            *)
(*   "lose_data", "lose_ack"  a datagram disappears in one direction; a    *)
(*                            corrupted one, which pkt_decode refuses and  *)
(*                            both loops ignore, counts as lost            *)
(*   "truncate"   a router cuts the payload of a DATA packet and sets TR   *)
(*   "duplicate"  a datagram is copied                                     *)
(*   "reorder"    a datagram overtakes those sent before it                *)
(*   "late"       an answer may arrive after the timer of its packet: used *)
(*                by the sender, see InTime there                          *)
(*   "fail"       a process exits on an error of a system call             *)
(* At most MaxFaults losses, truncations, copies and failures happen.      *)
(***************************************************************************)
EXTENDS Packet, SequencesExt

CONSTANTS
  Faults,
  MaxFaults   \* a bound of the model

ASSUME NetworkAssumption == MaxFaults \in Nat

VARIABLES
  toReceiver,   \* the DATA packets on their way, in the order they were sent
  toSender,     \* the ACK and NACK packets on their way
  faults        \* the number of faults so far

netVars == <<toReceiver, toSender, faults>>

NetworkInit ==
  /\ toReceiver = <<>>
  /\ toSender = <<>>
  /\ faults = 0

\* The positions of a channel from which the network may take a datagram.
Deliverable(channel) ==
  IF "reorder" \in Faults THEN DOMAIN channel ELSE DOMAIN channel \cap {1}

Fault(kind) ==
  /\ kind \in Faults
  /\ faults < MaxFaults
  /\ faults' = faults + 1

LoseData ==
  /\ Fault("lose_data")
  /\ \E i \in Deliverable(toReceiver) : toReceiver' = RemoveAt(toReceiver, i)
  /\ UNCHANGED toSender

LoseAnswer ==
  /\ Fault("lose_ack")
  /\ \E i \in Deliverable(toSender) : toSender' = RemoveAt(toSender, i)
  /\ UNCHANGED toReceiver

\* The copy travels right behind the original.
DuplicateData ==
  /\ Fault("duplicate")
  /\ \E i \in Deliverable(toReceiver) :
       toReceiver' = InsertAt(toReceiver, i, toReceiver[i])
  /\ UNCHANGED toSender

DuplicateAnswer ==
  /\ Fault("duplicate")
  /\ \E i \in Deliverable(toSender) :
       toSender' = InsertAt(toSender, i, toSender[i])
  /\ UNCHANGED toReceiver

Truncate ==
  /\ Fault("truncate")
  /\ \E i \in DOMAIN toReceiver :
       toReceiver' = [toReceiver EXCEPT ![i].tr = TRUE]
  /\ UNCHANGED toSender

NetworkNext ==
  \/ LoseData
  \/ LoseAnswer
  \/ DuplicateData
  \/ DuplicateAnswer
  \/ Truncate
=============================================================================
