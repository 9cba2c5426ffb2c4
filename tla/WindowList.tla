----------------------------- MODULE WindowList -----------------------------
(***************************************************************************)
(* The buffer of src/window.c as it is written: a singly linked list of    *)
(* nodes on the heap, whose length is counted in bufsize, and operations   *)
(* that remove a node through a pointer to the pointer to it.              *)
(*                                                                         *)
(* heap is a function whose domain is the set of allocated nodes.  A       *)
(* pointer to a node is the node, or NULL; a pointer to a pointer is       *)
(* FrontRef, for &w->front, or the node n, for &n->next.  A node holds its *)
(* packet itself, as a packet is in one buffer only.                       *)
(***************************************************************************)
EXTENDS Window, SequencesExt

CONSTANT Nodes   \* the heap: a bound of the model

VARIABLES
  size,       \* w->size
  pos,        \* w->pos
  bufsize,    \* w->bufsize
  front,      \* w->front
  heap,       \* the allocated nodes
  pushed,     \* the number of packets pushed so far
  freed       \* window_free has been called

window == <<size, pos, bufsize, front, heap>>

windowVars == <<window, pushed, freed>>

NULL == 0
FrontRef == -1

ASSUME ListAssumption ==
  NULL \notin Nodes /\ FrontRef \notin Nodes /\ IsFiniteSet(Nodes)

node(packet, succ) == [pkt |-> packet, next |-> succ]

WindowInit ==
  /\ size \in {1, Capacity}
  /\ pos = 0
  /\ bufsize = 0
  /\ front = NULL
  /\ heap = <<>>
  /\ pushed = 0
  /\ freed = FALSE

-----------------------------------------------------------------------------
(* Walking the list.                                                       *)

\* The k-th value of `cur' in the loops over the list.
cur[k \in Nat] ==
  IF k = 0 THEN front
  ELSE LET n == cur[k - 1] IN IF n = NULL THEN NULL ELSE heap[n].next

\* The nodes of the list up to NULL, front first.
Walk == [k \in {i \in 1 .. Cardinality(DOMAIN heap) : cur[i - 1] # NULL} |-> cur[k - 1]]

\* Their packets.
Pkts == LET walk == Walk IN [i \in DOMAIN walk |-> heap[walk[i]].pkt]

\* What the location loc points to.
Deref(loc) == IF loc = FrontRef THEN front ELSE heap[loc].next

\* The location that points to the i-th node.  The searches begin with the
\* front as their result, which is their result too if they find nothing, i = 0.
LocationOf(i) == IF i <= 1 THEN FrontRef ELSE Walk[i - 1]

\* A mistake: the last of several minima.
BUG_window_find_min_timestamp ==
  LocationOf(SelectLastInSeq(Pkts, LAMBDA p :
               \A n \in DOMAIN heap : p.timestamp <= heap[n].pkt.timestamp))

window_find_min_timestamp ==
  LocationOf(SelectInSeq(Pkts, LAMBDA p :
               \A n \in DOMAIN heap : p.timestamp <= heap[n].pkt.timestamp))

window_find_min_seqnum ==
  LocationOf(SelectInSeq(Pkts, LAMBDA p :
               \A n \in DOMAIN heap : p.seqnum <= heap[n].pkt.seqnum))

\* `match' at the end of the search of window_pop_timestamp.
timestamp_match(timestamp) ==
  LocationOf(SelectInSeq(Pkts, LAMBDA p : p.timestamp = timestamp))

-----------------------------------------------------------------------------
(* The operations that only look.  A pointer to a packet is the set of     *)
(* that packet, empty for NULL.                                            *)

list_full == bufsize = Capacity \/ bufsize >= size

list_empty == bufsize = 0

list_available == IF size < bufsize THEN 0 ELSE size - bufsize

list_find_seqnum(seqnum) ==
  LET i == SelectInSeq(Pkts, LAMBDA p : p.seqnum = seqnum)
  IN  IF i = 0 THEN {} ELSE {Pkts[i]}

peek(loc) == IF Deref(loc) = NULL THEN {} ELSE {heap[Deref(loc)].pkt}

list_peek_min_timestamp == peek(window_find_min_timestamp)

list_peek_min_seqnum == peek(window_find_min_seqnum)

-----------------------------------------------------------------------------
(* The operations that change the window.                                  *)

Resize(new_size) ==
  /\ ~freed
  /\ size' = IF new_size > Capacity THEN size ELSE new_size
  /\ UNCHANGED <<pos, bufsize, front, heap, pushed, freed>>

Moved(new_pos) ==
  /\ ~freed
  /\ pos' = new_pos
  /\ UNCHANGED <<size, bufsize, front, heap, pushed, freed>>

Slide == Moved((pos + 1) % SeqSpace)

\* The assertion lets only sequence numbers through.
SlideTo(new_pos) == new_pos < SeqSpace /\ Moved(new_pos)

\* Any free node may be the new one.  If calloc fails the packet is refused, as
\* it is by a full window.
Push(seqnum, timestamp) ==
  /\ ~freed
  /\ ~list_full
  /\ bufsize' = bufsize + 1
  /\ \E n \in Nodes \ DOMAIN heap :
       /\ heap' = [m \in DOMAIN heap \cup {n} |->
                     IF m = n THEN node(Data(seqnum, timestamp, pushed), front)
                     ELSE heap[m]]
       /\ front' = n
  /\ pushed' = pushed + 1
  /\ UNCHANGED <<size, pos, freed>>

\* A mistake: the list is cut off behind the node.
BUG_window_pop_node(loc) ==
  /\ ~freed
  /\ bufsize' = bufsize - 1
  /\ Deref(loc) # NULL
  /\ front' = IF loc = FrontRef THEN NULL ELSE front
  /\ heap' = [n \in DOMAIN heap \ {Deref(loc)} |->
                IF n = loc THEN node(heap[n].pkt, NULL) ELSE heap[n]]
  /\ UNCHANGED <<size, pos, pushed, freed>>

\* Unlinks and frees the node that loc points to; nothing if that is NULL.
window_pop_node(loc) ==
  /\ ~freed
  /\ bufsize' = bufsize - 1
  /\ Deref(loc) # NULL
  /\ LET tmp == Deref(loc)
     IN  /\ front' = IF loc = FrontRef THEN heap[tmp].next ELSE front
         /\ heap' = [n \in DOMAIN heap \ {tmp} |->
                       IF n = loc THEN node(heap[n].pkt, heap[tmp].next)
                       ELSE heap[n]]
  /\ UNCHANGED <<size, pos, pushed, freed>>

\* A mistake: the search does not stop at the first match.
BUG_PopTimestamp(timestamp) ==
  window_pop_node(
    LocationOf(SelectLastInSeq(Pkts, LAMBDA p : p.timestamp = timestamp)))

PopTimestamp(timestamp) == window_pop_node(timestamp_match(timestamp))

PopMinTimestamp == window_pop_node(window_find_min_timestamp)

PopMinSeqnum == window_pop_node(window_find_min_seqnum)

\* pkt_set_timestamp on the i-th packet of the list, if there is one.
Restamp(i, timestamp) ==
  /\ ~freed
  /\ UNCHANGED <<size, pos, bufsize, front, pushed, freed>>
  /\ i # 0
  /\ heap' = [heap EXCEPT ![Walk[i]].pkt.timestamp = timestamp]

UpdateTimestamp(old_time, new_time) ==
  Restamp(SelectInSeq(Pkts, LAMBDA p : p.timestamp = old_time), new_time)

\* The caller changes the packet that window_find_seqnum returns.
FindAndRestamp(seqnum, timestamp) ==
  Restamp(SelectInSeq(Pkts, LAMBDA p : p.seqnum = seqnum), timestamp)

\* The nodes are freed one after the other, then the window.
Free ==
  /\ ~freed
  /\ heap' = [n \in DOMAIN heap \ ToSet(Walk) |-> heap[n]]
  /\ freed' = TRUE
  /\ UNCHANGED <<size, pos, bufsize, front, pushed>>
=============================================================================
