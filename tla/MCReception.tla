---------------------------- MODULE MCReception -----------------------------
(***************************************************************************)
(* The values for which Reception is model-checked.                        *)
(***************************************************************************)
EXTENDS Reception, TLC

\* A full chunk, a shorter one, and the end of the file.
Chunks == {<<1, 0>>, <<1>>, <<>>}

\* The buffer of a loop: zeros, or what the first packet of a sender left in it,
\* which is just what a cut copy of that packet lacks.
Leftovers ==
  {[i \in 1 .. MAX_PACKET_SIZE |->
      IF i <= Len(data) THEN data[i] ELSE Cell(0)] :
     data \in {WithCrc1(pkt_new)} \cup {pkt_encode(NewData(0, 1, payload).pkt,
                                     MAX_PACKET_SIZE).data : payload \in Chunks}}

\* The senders all run the same program.
SenderSymmetry == Permutations(Senders)
=============================================================================
