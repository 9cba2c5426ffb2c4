------------------------- MODULE TimedWindowProofs --------------------------
(***************************************************************************)
(* window_has decides membership in the window, wherever it wraps around;  *)
(* get_monotime is strict, however the sender uses it and however the      *)
(* clock of the system behaves, as long as the time fits into its result.  *)
(* The list of the buffer is intact, and its operations are those that     *)
(* WindowSpec declares, for any heap and any sequence of operations.  Its  *)
(* timers expire in time: what is resent has expired, select waits no      *)
(* longer than for the first of them, and no timestamp is used twice.      *)
(***************************************************************************)
EXTENDS TimedWindow, FiniteSetTheorems, WellFoundedInduction, TLAPS

-----------------------------------------------------------------------------
(* Membership in the window.                                               *)

\* Arithmetic of one turn around the sequence space.
LEMMA OneTurn ==
  ASSUME NEW n \in Nat, n < 2 * SeqSpace
  PROVE  n % SeqSpace = IF n < SeqSpace THEN n ELSE n - SeqSpace
<1>1. SeqSpace \in Nat \ {0}
  BY WindowAssumption
<1>2. CASE n < SeqSpace
  BY <1>1, <1>2
<1>3. CASE ~(n < SeqSpace)
  BY <1>1, <1>3
<1> QED BY <1>2, <1>3

\* The test that window_has makes of its two ends, which is another one if the
\* window wraps around, tells exactly the sequence numbers that window.h calls
\* "within the window", for every size up to the whole sequence space.
THEOREM HasIsMembership ==
  ASSUME NEW w, w.size \in 0 .. Capacity, w.pos \in SeqNums,
         NEW seqnum \in SeqNums
  PROVE  window_has(w, seqnum) <=> WS!Has(w, seqnum)
<1> DEFINE bound == w.pos + (w.size - 1)
<1>0. /\ SeqSpace \in Nat \ {0} /\ w.size \in Nat /\ w.size <= SeqSpace
      /\ w.pos \in Nat /\ w.pos < SeqSpace
      /\ seqnum \in Nat /\ seqnum < SeqSpace
  BY WindowAssumption DEF SeqNums
<1>1. \A i \in 0 .. (w.size - 1) :
        (w.pos + i) % SeqSpace =
          IF w.pos + i < SeqSpace THEN w.pos + i ELSE w.pos + i - SeqSpace
  BY <1>0, OneTurn
<1>2. CASE w.size = 0
  BY <1>0, <1>2 DEF window_has, WS!Has, WS!SeqNumsOf
<1>3. CASE w.size # 0
  <2>1. window_end(w) = IF bound < SeqSpace THEN bound ELSE bound - SeqSpace
    BY <1>0, <1>3, OneTurn DEF window_end
  <2>2. ASSUME window_has(w, seqnum)
        PROVE  WS!Has(w, seqnum)
    <3>1. CASE w.pos <= seqnum
      <4>1. seqnum - w.pos \in 0 .. (w.size - 1)
        BY <1>0, <1>3, <2>1, <2>2, <3>1 DEF window_has
      <4>2. seqnum = (w.pos + (seqnum - w.pos)) % SeqSpace
        BY <1>0, <1>1, <4>1
      <4> QED BY <4>1, <4>2 DEF WS!Has, WS!SeqNumsOf
    <3>2. CASE seqnum < w.pos
      <4> DEFINE i == seqnum + SeqSpace - w.pos
      <4>1. i \in 0 .. (w.size - 1)
        BY <1>0, <1>3, <2>1, <2>2, <3>2 DEF window_has
      <4>2. seqnum = (w.pos + i) % SeqSpace
        BY <1>0, <1>1, <4>1
      <4> QED BY <4>1, <4>2 DEF WS!Has, WS!SeqNumsOf
    <3> QED BY <1>0, <3>1, <3>2
  <2>3. ASSUME WS!Has(w, seqnum)
        PROVE  window_has(w, seqnum)
    <3>1. PICK i \in 0 .. (w.size - 1) : seqnum = (w.pos + i) % SeqSpace
      BY <2>3 DEF WS!Has, WS!SeqNumsOf
    <3> QED BY <1>0, <1>1, <1>3, <2>1, <3>1 DEF window_has
  <2> QED BY <2>2, <2>3
<1> QED BY <1>2, <1>3

-----------------------------------------------------------------------------
(* The clock.                                                              *)

\* The inductive invariant: first_call tells whether there has been a call, and
\* the two static variables are in order and within the bound of the model.
ClockInv ==
  /\ os \in Nat /\ first \in Nat /\ last \in Nat /\ calls \in Nat
  /\ first_call \in BOOLEAN
  /\ first_call <=> calls = 0
  /\ ~first_call => first <= last /\ last <= MaxTime

-----------------------------------------------------------------------------
\* A step of the program reads the clock or leaves it alone, or time passes.
LEMMA StepOfClock ==
  ASSUME [Next]_vars
  PROVE  ReadClock \/ Tick \/ UNCHANGED clockVars
<1>1. CASE \E s \in SeqNums : SendNew(s)
  BY <1>1 DEF SendNew
<1>2. CASE \E s \in SeqNums : HandleNack(s)
  BY <1>2 DEF HandleNack
<1>3. CASE StartRetransmitting
  BY <1>3 DEF StartRetransmitting
<1>4. CASE RetransmitOne
  BY <1>4 DEF RetransmitOne
<1>5. CASE StopRetransmitting
  BY <1>5 DEF StopRetransmitting
<1>6. CASE GetTimeout
  BY <1>6 DEF GetTimeout
<1>7. CASE Select
  BY <1>7 DEF Select
<1>8. CASE OtherCall
  BY <1>8 DEF OtherCall
<1>9. CASE TimePasses
  BY <1>9 DEF TimePasses
<1>10. CASE UNCHANGED vars
  BY <1>10 DEF vars
<1> QED
  BY <1>1, <1>2, <1>3, <1>4, <1>5, <1>6, <1>7, <1>8, <1>9, <1>10 DEF Next

\* A call returns a later time than the one before, and 0 at first.
LEMMA ReadIsStrict ==
  ASSUME ClockInv, ReadClock
  PROVE  /\ first' \in Nat /\ last' \in Nat
         /\ first' <= last' /\ last' <= MaxTime
         /\ first_call => LastRead' = 0
         /\ ~first_call => LastRead' > LastRead
<1>1. MaxTime \in Nat
  BY ClockAssumption
<1>2. CASE first_call
  BY <1>1, <1>2 DEF ClockInv, ReadClock, Now, Elapsed, LastRead
<1>3. CASE ~first_call
  <2>1. Now \in Nat /\ Now > last
    BY <1>3 DEF ClockInv, Now
  <2>2. first' = first /\ last' = Now
    BY <1>3, <2>1 DEF ClockInv, ReadClock, Elapsed
  <2> QED BY <1>1, <1>3, <2>1, <2>2 DEF ClockInv, ReadClock, LastRead
<1> QED BY <1>2, <1>3 DEF ClockInv

\* Before the first call the static variables are zero.
LEMMA ClockInvInit == Init => ClockInv
BY DEF Init, ClockInit, ClockInv

\* The invariant is inductive.
LEMMA ClockInvStep ==
  ASSUME ClockInv, [Next]_vars
  PROVE  ClockInv'
<1>1. CASE ReadClock
  <2>1. /\ first' \in Nat /\ last' \in Nat
        /\ first' <= last' /\ last' <= MaxTime
    BY <1>1, ReadIsStrict
  <2>2. os' \in Nat /\ calls' \in Nat /\ calls' # 0 /\ first_call' = FALSE
    BY <1>1 DEF ClockInv, ReadClock
  <2> QED BY <2>1, <2>2 DEF ClockInv
<1>2. CASE Tick
  BY <1>2, ClockAssumption DEF ClockInv, Tick
<1>3. CASE UNCHANGED clockVars
  BY <1>3 DEF ClockInv, clockVars
<1> QED BY <1>1, <1>2, <1>3, StepOfClock

\* The remainder of what fits.
LEMMA Fits ==
  ASSUME MaxTime < ClockSpace, NEW n \in 0 .. MaxTime
  PROVE  n % ClockSpace = n
<1>1. MaxTime \in Nat /\ ClockSpace \in Nat \ {0}
  BY ClockAssumption
<1> QED BY <1>1

\* A call of get_monotime is a call of the strict clock.
LEMMA ClockStepImplements ==
  ASSUME MaxTime < ClockSpace, ClockInv, [Next]_vars
  PROVE  [SC!FirstCall \/ SC!LaterCall]_(SC!vars)
<1>1. CASE ReadClock
  <2>0. MaxTime \in Nat
    BY ClockAssumption
  <2>1. LastRead' \in 0 .. MaxTime /\ LastRead' % ClockSpace = LastRead'
    BY <1>1, <2>0, ReadIsStrict, Fits DEF LastRead
  <2>2. CASE first_call
    <3>1. calls = 0 /\ calls' = 1 /\ first_call' = FALSE
      BY <1>1, <2>2 DEF ClockInv, ReadClock
    <3>2. LastRead' = 0
      BY <1>1, <2>2, ReadIsStrict
    <3> QED BY <2>1, <3>1, <3>2 DEF SC!FirstCall
  <2>3. CASE ~first_call
    <3>1. LastRead \in 0 .. MaxTime /\ LastRead % ClockSpace = LastRead
      BY <2>0, <2>3, Fits DEF ClockInv, LastRead
    <3>2. calls > 0 /\ calls' = calls + 1 /\ first_call' = FALSE
      BY <1>1, <2>3 DEF ClockInv, ReadClock
    <3>3. LastRead' > LastRead
      BY <1>1, <2>3, ReadIsStrict
    <3> QED BY <2>1, <2>3, <3>1, <3>2, <3>3 DEF SC!LaterCall
  <2> QED BY <2>2, <2>3 DEF ClockInv
<1>2. CASE UNCHANGED <<first_call, first, last, calls>>
  BY <1>2 DEF SC!vars, LastRead
<1> QED BY <1>1, <1>2, StepOfClock DEF Tick, clockVars

\* The clock of the sender implements the strict one that util.h declares, as
\* long as it is read before its range is over, with any clock of the system
\* that does not run backwards, and whatever the sender does between two calls.
THEOREM ClockStaysStrict ==
  ASSUME MaxTime < ClockSpace
  PROVE  Spec => ClockIsStrict
<1>1. Init => ClockInv
  BY ClockInvInit
<1>2. ClockInv /\ [Next]_vars => ClockInv'
  BY ClockInvStep
<1>3. ClockInv /\ [Next]_vars => [SC!FirstCall \/ SC!LaterCall]_(SC!vars)
  BY ClockStepImplements
<1>4. Init => SC!Init
  BY DEF Init, ClockInit, SC!Init, SC!NoReading
<1> QED BY <1>1, <1>2, <1>3, <1>4, PTL DEF Spec, ClockIsStrict, SC!Spec

-----------------------------------------------------------------------------
(* The list.                                                               *)

\* What follows the i-th of the n nodes of a list, and what the list begins
\* with for i = 0.
Succ(q, n, i) == IF i < n THEN q[i + 1] ELSE NULL

\* The packets that are in the buffer when k have been pushed.
Pushed(k) == [tr : {FALSE}, seqnum : SeqNums, timestamp : Stamps, chunk : 0 .. (k - 1)]

\* q are the n nodes of the heap h in the order of the list that begins with
\* fr; the packets are in it in the order in which they were pushed, the last
\* one first.
IsList(q, n, fr, h, k) ==
  /\ n \in Nat /\ k \in Nat
  /\ q \in [1 .. n -> Nodes]
  /\ \A i, j \in 1 .. n : q[i] = q[j] => i = j
  /\ h = [x \in DOMAIN h |-> h[x]]
  /\ DOMAIN h = {q[i] : i \in 1 .. n}
  /\ \A i \in 1 .. n : /\ h[q[i]] = node(h[q[i]].pkt, Succ(q, n, i))
                       /\ h[q[i]].pkt \in Pushed(k)
  /\ \A i, j \in 1 .. n : i < j => h[q[i]].pkt.chunk > h[q[j]].pkt.chunk
  /\ fr = Succ(q, n, 0)

\* The nodes of the present list.
Listed(q) == IsList(q, bufsize, front, heap, pushed)

\* The least element of a set of numbers is one of them.
LEMMA LeastOf ==
  ASSUME NEW I \in SUBSET Nat, I # {}
  PROVE  Min(I) \in I /\ \A j \in I : Min(I) <= j
<1> DEFINE R == OpToRel(<, Nat)
<1>0. R = {ss \in Nat \X Nat : ss[1] < ss[2]}
  BY Zenon DEF OpToRel
<1>3. IsWellFoundedOn(R, Nat)
  BY NatLessThanWellFounded, Zenon
<1> HIDE DEF R
<1>1. PICK x \in I : \A y \in I : <<y, x>> \notin R
  BY <1>3, WFMin, Zenon
<1>2. ASSUME NEW y \in I PROVE x <= y
  <2>1. x \in Nat /\ y \in Nat /\ <<y, x>> \in Nat \X Nat
    OBVIOUS
  <2>2. ~(y < x)
    BY <1>0, <1>1, <2>1
  <2> QED BY <2>1, <2>2
<1> QED BY <1>2 DEF Min

\* NULL is no node.
LEMMA NodesDiffer == NULL \notin Nodes /\ FrontRef \notin Nodes /\ NULL # FrontRef
BY ListAssumption DEF NULL, FrontRef

\* The parts of a list.
LEMMA ListParts ==
  ASSUME NEW q, Listed(q)
  PROVE  /\ bufsize \in Nat /\ pushed \in Nat
         /\ q \in [1 .. bufsize -> Nodes]
         /\ front = Succ(q, bufsize, 0)
         /\ \A x \in DOMAIN heap : \E i \in 1 .. bufsize : x = q[i]
         /\ \A i, j \in 1 .. bufsize : q[i] = q[j] => i = j
         /\ \A i \in 1 .. bufsize : /\ q[i] \in Nodes /\ q[i] # NULL /\ q[i] \in DOMAIN heap
                                   /\ heap[q[i]].next = Succ(q, bufsize, i)
                                   /\ heap[q[i]].pkt \in Pushed(pushed)
<1>1. \A p, s : node(p, s).next = s
  BY DEF node
<1>2. \A i \in 1 .. bufsize : heap[q[i]].next = Succ(q, bufsize, i)
  BY <1>1 DEF Listed, IsList
<1> QED BY <1>2, NodesDiffer DEF Listed, IsList

\* The definition of cur, a function that is defined by itself, is satisfied:
\* a walk along a list reaches its nodes one after the other, and then NULL.
LEMMA CurWalks ==
  ASSUME NEW q, Listed(q)
  PROVE  \A k \in Nat : cur[k] = Succ(q, bufsize, k)
<1> DEFINE n == bufsize
           Next1(f, k) == IF k = 0 THEN front
                          ELSE LET x == f[k - 1]
                               IN  IF x = NULL THEN NULL ELSE heap[x].next
           walk == [k \in Nat |-> Succ(q, n, k)]
<1>1. n \in Nat /\ front = Succ(q, n, 0)
      /\ \A i \in 1 .. n : q[i] \in Nodes /\ heap[q[i]].next = Succ(q, n, i)
  BY ListParts
<1>2. ASSUME NEW k \in Nat \ {0}
      PROVE  Succ(q, n, k) = IF Succ(q, n, k - 1) = NULL THEN NULL
                             ELSE heap[Succ(q, n, k - 1)].next
  <2>1. CASE k <= n
    <3>1. Succ(q, n, k - 1) = q[k] /\ k \in 1 .. n
      BY <1>1, <2>1 DEF Succ
    <3> QED BY <1>1, <3>1, NodesDiffer
  <2>2. CASE k > n
    <3>1. Succ(q, n, k - 1) = NULL /\ Succ(q, n, k) = NULL
      BY <1>1, <2>2 DEF Succ
    <3> QED BY <3>1
  <2> QED BY <1>1, <2>1, <2>2
<1> HIDE DEF n
<1>3. walk = [k \in Nat |-> Next1(walk, k)]
  <2>1. ASSUME NEW k \in Nat PROVE walk[k] = Next1(walk, k)
    <3>1. CASE k = 0
      BY <1>1, <3>1
    <3>2. CASE k # 0
      <4>1. k \in Nat \ {0} /\ k - 1 \in Nat
        BY <3>2
      <4>2. walk[k - 1] = Succ(q, n, k - 1) /\ walk[k] = Succ(q, n, k)
        BY <4>1
      <4> QED BY <1>2, <3>2, <4>1, <4>2
    <3> QED BY <3>1, <3>2
  <2> QED BY <2>1
<1>4. cur = CHOOSE f : f = [k \in Nat |-> Next1(f, k)]
  BY DEF cur
<1> HIDE DEF walk
<1>5. cur = [k \in Nat |-> Next1(cur, k)]
  BY <1>3, <1>4
<1>6. \A k \in Nat : cur[k] = Next1(cur, k)
  BY <1>5
<1> DEFINE Wrong == {k \in Nat : cur[k] # Succ(q, n, k)}
<1>7. Wrong = {}
  <2> SUFFICES ASSUME Wrong # {} PROVE FALSE
    OBVIOUS
  <2>1. PICK k \in Wrong : \A j \in Wrong : k <= j
    BY LeastOf
  <2>2. k # 0
    BY <1>1, <1>6, <2>1
  <2>3. k - 1 \in Nat /\ k - 1 \notin Wrong /\ k \in Nat \ {0}
    BY <2>1, <2>2
  <2>4. cur[k - 1] = Succ(q, n, k - 1)
    BY <2>3
  <2>5. cur[k] = Succ(q, n, k)
    BY <1>2, <1>6, <2>2, <2>3, <2>4
  <2> QED BY <2>1, <2>5
<1> QED BY <1>7 DEF n

\* So the walk is the list.
LEMMA WalkIsList ==
  ASSUME NEW q, Listed(q)
  PROVE  /\ Walk = q /\ Len(Walk) = bufsize /\ DOMAIN Walk = 1 .. bufsize
         /\ cur[bufsize] = NULL
         /\ Cardinality(DOMAIN heap) = bufsize
<1>1. /\ bufsize \in Nat /\ q \in [1 .. bufsize -> Nodes]
      /\ DOMAIN heap = {q[i] : i \in 1 .. bufsize}
      /\ \A i, j \in 1 .. bufsize : q[i] = q[j] => i = j
  BY DEF Listed, IsList
<1>2. Cardinality(DOMAIN heap) = bufsize
  <2>1. q \in Bijection(1 .. bufsize, DOMAIN heap)
    BY <1>1 DEF Bijection, Injection, Surjection, IsInjective
  <2>2. ExistsBijection(1 .. bufsize, DOMAIN heap)
    BY <2>1 DEF ExistsBijection
  <2>3. IsFiniteSet(1 .. bufsize) /\ Cardinality(1 .. bufsize) = bufsize
    BY <1>1, FS_Interval
  <2> QED BY <2>2, <2>3, FS_Bijection
<1>3. \A i \in 1 .. bufsize : cur[i - 1] = q[i] /\ q[i] # NULL
  BY <1>1, CurWalks, NodesDiffer DEF Succ
<1>4. {i \in 1 .. Cardinality(DOMAIN heap) : cur[i - 1] # NULL} = 1 .. bufsize
  BY <1>2, <1>3
<1>5. Walk = [k \in 1 .. bufsize |-> q[k]]
  BY <1>3, <1>4 DEF Walk
<1>6. Walk = q
  BY <1>1, <1>5
<1>7. q \in Seq(Nodes) /\ Len(q) = bufsize
  BY <1>1
<1>8. cur[bufsize] = NULL
  BY <1>1, CurWalks DEF Succ
<1> QED BY <1>1, <1>2, <1>6, <1>7, <1>8

\* The packet at the i-th node of a list.
PktAt(q, i) == heap[q[i]].pkt

\* The fields of a packet are numbers.
LEMMA PushedTypes ==
  ASSUME NEW k \in Nat, NEW p \in Pushed(k)
  PROVE  /\ p.seqnum \in Nat /\ p.timestamp \in Nat /\ p.chunk \in Nat /\ p.chunk < k
         /\ p.timestamp \in Stamps
BY ClockAssumption, WindowAssumption DEF Pushed, SeqNums, Stamps

\* The set of the packets of the list.
LEMMA PacketsOfList ==
  ASSUME NEW q, Listed(q)
  PROVE  /\ \A i \in 1 .. bufsize : Pkts[i] = PktAt(q, i)
         /\ Len(Pkts) = bufsize
         /\ \A i \in 1 .. bufsize : PktAt(q, i) \in Win.buf
         /\ \A p \in Win.buf : \E i \in 1 .. bufsize : p = PktAt(q, i)
         /\ \A i, j \in 1 .. bufsize : i < j => PktAt(q, i).chunk > PktAt(q, j).chunk
         /\ \A i \in 1 .. bufsize : PktAt(q, i) \in Pushed(pushed)
<1>1. Pkts = [i \in 1 .. bufsize |-> PktAt(q, i)]
  BY WalkIsList DEF Pkts, PktAt
<1>2. bufsize \in Nat /\ DOMAIN heap = {q[i] : i \in 1 .. bufsize}
  BY DEF Listed, IsList
<1>3. Len(Pkts) = bufsize
  BY <1>1, <1>2
<1>4. Win.buf = {PktAt(q, i) : i \in 1 .. bufsize}
  BY <1>2 DEF Win, PktAt
<1> QED BY <1>1, <1>3, <1>4, ListParts DEF Listed, IsList, PktAt

\* i is the place in the list of the packet of S that was pushed last, 0 if there
\* is none.
FindsFront(q, i, S) ==
  /\ i \in 0 .. bufsize
  /\ i = 0 => S = {} /\ window_front(S) = {}
  /\ i # 0 => PktAt(q, i) \in S /\ window_front(S) = {PktAt(q, i)}

\* A search through the list finds what window_front says.
LEMMA SearchFindsFront ==
  ASSUME NEW q, Listed(q), NEW S \in SUBSET Win.buf,
         NEW I, I = {i \in 1 .. bufsize : PktAt(q, i) \in S},
         NEW k, k = IF I # {} THEN Min(I) ELSE 0
  PROVE  FindsFront(q, k, S)
<1>1. bufsize \in Nat
  BY ListParts
<1>2. \A p \in S : \E i \in I : p = PktAt(q, i)
  BY PacketsOfList
<1>3. CASE I = {}
  BY <1>1, <1>2, <1>3 DEF FindsFront, window_front
<1>4. CASE I # {}
  <2>1. I \in SUBSET Nat
    OBVIOUS
  <2>2. k \in I /\ \A j \in I : k <= j
    BY <1>4, <2>1, LeastOf
  <2>3. \A p \in S : PktAt(q, k).chunk > p.chunk \/ p = PktAt(q, k)
    <3> TAKE p \in S
    <3>1. PICK i \in I : p = PktAt(q, i)
      BY <1>2
    <3>2. k = i \/ k < i
      BY <2>1, <2>2
    <3> QED BY <2>2, <3>1, <3>2, PacketsOfList
  <2>4. \A p \in S : p.chunk \in Nat
    <3>3. \A i \in I : PktAt(q, i).chunk \in Nat
      BY PacketsOfList, ListParts, PushedTypes
    <3> QED BY <1>2, <3>3
  <2>5. PktAt(q, k) \in S /\ k \in 1 .. bufsize
    BY <2>2
  <2>6. window_front(S) = {PktAt(q, k)}
    <3>1. window_front(S) \subseteq {PktAt(q, k)}
      <4>1. ASSUME NEW p \in S, \A r \in S : r.chunk <= p.chunk PROVE p = PktAt(q, k)
        BY <2>3, <2>4, <2>5, <4>1
      <4> QED BY <4>1 DEF window_front
    <3>2. PktAt(q, k) \in window_front(S)
      <4>1. \A p \in S : p.chunk <= PktAt(q, k).chunk
        BY <2>3, <2>4, <2>5
      <4> QED BY <2>5, <4>1 DEF window_front
    <3> QED BY <3>1, <3>2
  <2> QED BY <1>1, <2>5, <2>6 DEF FindsFront
<1> QED BY <1>3, <1>4

\* The search for a timestamp.
LEMMA FindTimestamp ==
  ASSUME NEW q, Listed(q), NEW t
  PROVE  FindsFront(q, SelectInSeq(Pkts, LAMBDA p : p.timestamp = t),
               {p \in Win.buf : p.timestamp = t})
<1>1. PICK I : I = {i \in 1 .. Len(Pkts) : Pkts[i].timestamp = t}
  OBVIOUS
<1>2. SelectInSeq(Pkts, LAMBDA p : p.timestamp = t) = IF I # {} THEN Min(I) ELSE 0
  BY <1>1 DEF SelectInSeq
<1>3. I = {i \in 1 .. bufsize : PktAt(q, i) \in {p \in Win.buf : p.timestamp = t}}
  BY <1>1, PacketsOfList
<1> QED BY <1>2, <1>3, SearchFindsFront

\* The search for a sequence number.
LEMMA FindSeqnum ==
  ASSUME NEW q, Listed(q), NEW s
  PROVE  FindsFront(q, SelectInSeq(Pkts, LAMBDA p : p.seqnum = s), window_find_seqnum(Win, s))
<1>1. PICK I : I = {i \in 1 .. Len(Pkts) : Pkts[i].seqnum = s}
  OBVIOUS
<1>2. SelectInSeq(Pkts, LAMBDA p : p.seqnum = s) = IF I # {} THEN Min(I) ELSE 0
  BY <1>1 DEF SelectInSeq
<1>3. I = {i \in 1 .. bufsize : PktAt(q, i) \in window_find_seqnum(Win, s)}
  BY <1>1, PacketsOfList DEF window_find_seqnum
<1> QED BY <1>2, <1>3, SearchFindsFront DEF window_find_seqnum

\* The search for the least timestamp, which finds one unless there is nothing.
LEMMA FindMinTimestamp ==
  ASSUME NEW q, Listed(q),
         NEW k, k = SelectInSeq(Pkts, LAMBDA p :
                      \A n \in DOMAIN heap : p.timestamp <= heap[n].pkt.timestamp)
  PROVE  /\ FindsFront(q, k, window_peek_min_timestamp(Win))
         /\ bufsize # 0 => k # 0
<1>1. PICK I : I = {i \in 1 .. Len(Pkts) :
                      \A n \in DOMAIN heap : Pkts[i].timestamp <= heap[n].pkt.timestamp}
  OBVIOUS
<1>2. k = IF I # {} THEN Min(I) ELSE 0
  BY <1>1 DEF SelectInSeq
<1>3. DOMAIN heap = {q[i] : i \in 1 .. bufsize} /\ bufsize \in Nat
  BY DEF Listed, IsList
<1>4. I = {i \in 1 .. bufsize :
             \A j \in 1 .. bufsize : PktAt(q, i).timestamp <= PktAt(q, j).timestamp}
  <2>1. \A t : (\A n \in DOMAIN heap : t <= heap[n].pkt.timestamp) <=>
               (\A j \in 1 .. bufsize : t <= PktAt(q, j).timestamp)
    BY ListParts DEF PktAt
  <2> QED BY <1>1, <2>1, PacketsOfList
<1>5. I = {i \in 1 .. bufsize : PktAt(q, i) \in window_peek_min_timestamp(Win)}
  BY <1>4, PacketsOfList DEF window_peek_min_timestamp
<1>6. window_peek_min_timestamp(Win) \in SUBSET Win.buf
  BY DEF window_peek_min_timestamp
<1>7. FindsFront(q, k, window_peek_min_timestamp(Win))
  BY <1>2, <1>5, <1>6, SearchFindsFront
<1>8. ASSUME bufsize # 0 PROVE k # 0
  <2> DEFINE T == {PktAt(q, i).timestamp : i \in 1 .. bufsize}
  <2>1. T \in SUBSET Nat
    <3>1. \A i \in 1 .. bufsize : PktAt(q, i).timestamp \in Nat
      BY PacketsOfList, ListParts, PushedTypes
    <3> QED BY <3>1
  <2>2. T # {}
    <3>1. 1 \in 1 .. bufsize
      BY <1>3, <1>8
    <3> QED BY <3>1
  <2>3. PICK i \in 1 .. bufsize : PktAt(q, i).timestamp = Min(T)
    BY <2>1, <2>2, LeastOf
  <2>4. \A j \in 1 .. bufsize : Min(T) <= PktAt(q, j).timestamp
    BY <2>1, <2>2, LeastOf
  <2>5. i \in I
    BY <1>4, <2>3, <2>4
  <2>6. I \in SUBSET Nat /\ I # {} /\ 0 \notin I
    BY <1>4, <2>5
  <2> QED BY <1>2, <2>6, LeastOf
<1> QED BY <1>7, <1>8

\* The search for the least sequence number.
LEMMA FindMinSeqnum ==
  ASSUME NEW q, Listed(q),
         NEW k, k = SelectInSeq(Pkts, LAMBDA p :
                      \A n \in DOMAIN heap : p.seqnum <= heap[n].pkt.seqnum)
  PROVE  /\ FindsFront(q, k, window_peek_min_seqnum(Win))
         /\ bufsize # 0 => k # 0
<1>1. PICK I : I = {i \in 1 .. Len(Pkts) :
                      \A n \in DOMAIN heap : Pkts[i].seqnum <= heap[n].pkt.seqnum}
  OBVIOUS
<1>2. k = IF I # {} THEN Min(I) ELSE 0
  BY <1>1 DEF SelectInSeq
<1>3. DOMAIN heap = {q[i] : i \in 1 .. bufsize} /\ bufsize \in Nat
  BY DEF Listed, IsList
<1>4. I = {i \in 1 .. bufsize :
             \A j \in 1 .. bufsize : PktAt(q, i).seqnum <= PktAt(q, j).seqnum}
  <2>1. \A t : (\A n \in DOMAIN heap : t <= heap[n].pkt.seqnum) <=>
               (\A j \in 1 .. bufsize : t <= PktAt(q, j).seqnum)
    BY ListParts DEF PktAt
  <2> QED BY <1>1, <2>1, PacketsOfList
<1>5. I = {i \in 1 .. bufsize : PktAt(q, i) \in window_peek_min_seqnum(Win)}
  BY <1>4, PacketsOfList DEF window_peek_min_seqnum
<1>6. window_peek_min_seqnum(Win) \in SUBSET Win.buf
  BY DEF window_peek_min_seqnum
<1>7. FindsFront(q, k, window_peek_min_seqnum(Win))
  BY <1>2, <1>5, <1>6, SearchFindsFront
<1>8. ASSUME bufsize # 0 PROVE k # 0
  <2> DEFINE T == {PktAt(q, i).seqnum : i \in 1 .. bufsize}
  <2>1. T \in SUBSET Nat
    <3>1. \A i \in 1 .. bufsize : PktAt(q, i).seqnum \in Nat
      BY PacketsOfList, ListParts, PushedTypes
    <3> QED BY <3>1
  <2>2. T # {}
    <3>1. 1 \in 1 .. bufsize
      BY <1>3, <1>8
    <3> QED BY <3>1
  <2>3. PICK i \in 1 .. bufsize : PktAt(q, i).seqnum = Min(T)
    BY <2>1, <2>2, LeastOf
  <2>4. \A j \in 1 .. bufsize : Min(T) <= PktAt(q, j).seqnum
    BY <2>1, <2>2, LeastOf
  <2>5. i \in I
    BY <1>4, <2>3, <2>4
  <2>6. I \in SUBSET Nat /\ I # {} /\ 0 \notin I
    BY <1>4, <2>5
  <2> QED BY <1>2, <2>6, LeastOf
<1> QED BY <1>7, <1>8

\* The location loc points to the m-th node.
PointsTo(q, loc, m) ==
  /\ m \in 1 .. bufsize
  /\ loc = IF m = 1 THEN FrontRef ELSE q[m - 1]
  /\ Deref(loc) = q[m]

\* The location a search returns points to the node it found, or to the front
\* if it found none.
LEMMA LocationMeans ==
  ASSUME NEW q, Listed(q), NEW i \in 0 .. bufsize
  PROVE  /\ bufsize = 0 => Deref(LocationOf(i)) = NULL
         /\ bufsize # 0 => PointsTo(q, LocationOf(i), IF i = 0 THEN 1 ELSE i)
<1>1. bufsize \in Nat /\ front = Succ(q, bufsize, 0) /\ Walk = q
  BY ListParts, WalkIsList
<1>2. CASE i <= 1
  <2>1. LocationOf(i) = FrontRef /\ Deref(FrontRef) = front
    BY <1>2 DEF LocationOf, Deref
  <2>2. bufsize # 0 => front = q[1]
    BY <1>1 DEF Succ
  <2> QED BY <1>1, <1>2, <2>1, <2>2 DEF PointsTo, Succ
<1>3. CASE i > 1
  <2>1. LocationOf(i) = q[i - 1] /\ i - 1 \in 1 .. bufsize
    BY <1>1, <1>3 DEF LocationOf
  <2>2. q[i - 1] # FrontRef /\ heap[q[i - 1]].next = Succ(q, bufsize, i - 1)
    BY <2>1, ListParts, NodesDiffer
  <2>3. Deref(LocationOf(i)) = q[i]
    BY <1>1, <1>3, <2>1, <2>2 DEF Deref, Succ
  <2> QED BY <1>1, <1>3, <2>1, <2>3 DEF PointsTo
<1> QED BY <1>2, <1>3

-----------------------------------------------------------------------------
(* The operations.                                                         *)

\* What a node consists of.
LEMMA NodeParts == \A p, s : node(p, s).pkt = p /\ node(p, s).next = s
BY DEF node

\* A node is unlinked: the list closes up behind it.
LEMMA PopNode ==
  ASSUME NEW q, Listed(q), NEW loc, NEW m, PointsTo(q, loc, m), window_pop_node(loc)
  PROVE  /\ \E r : Listed(r)'
         /\ Win'.buf = Win.buf \ {PktAt(q, m)}
         /\ Win'.size = Win.size /\ Win'.pos = Win.pos
         /\ pushed' = pushed /\ freed' = freed
<1>1. PICK r : r = [k \in 1 .. (bufsize - 1) |-> IF k < m THEN q[k] ELSE q[k + 1]]
  OBVIOUS
<1>2. /\ m \in 1 .. bufsize /\ bufsize \in Nat /\ pushed \in Nat
      /\ loc = IF m = 1 THEN FrontRef ELSE q[m - 1]
      /\ Deref(loc) = q[m]
  BY ListParts DEF PointsTo
<1>3. /\ heap' = [x \in DOMAIN heap \ {q[m]} |->
                    IF x = loc THEN node(heap[x].pkt, heap[q[m]].next) ELSE heap[x]]
      /\ front' = IF loc = FrontRef THEN heap[q[m]].next ELSE front
      /\ bufsize' = bufsize - 1 /\ UNCHANGED <<size, pos, pushed, freed>>
  BY <1>2 DEF window_pop_node
<1>4. ASSUME NEW i \in 1 .. (bufsize - 1)
      PROVE  \E j \in 1 .. bufsize : /\ j = IF i < m THEN i ELSE i + 1
                                     /\ j # m /\ r[i] = q[j] /\ q[j] # q[m]
  <2>1. PICK j \in 1 .. bufsize : j = IF i < m THEN i ELSE i + 1
    BY <1>2
  <2>2. j # m /\ r[i] = q[j]
    BY <1>1, <1>2, <2>1
  <2> QED BY <1>2, <2>1, <2>2, ListParts
<1>5. ASSUME NEW j \in 1 .. bufsize, j # m
      PROVE  \E i \in 1 .. (bufsize - 1) : r[i] = q[j]
  <2>1. PICK i \in 1 .. (bufsize - 1) : i = IF j < m THEN j ELSE j - 1
    BY <1>2, <1>5
  <2>2. r[i] = IF i < m THEN q[i] ELSE q[i + 1]
    BY <1>1
  <2>3. j = IF i < m THEN i ELSE i + 1
    BY <1>2, <1>5, <2>1
  <2> QED BY <2>2, <2>3
<1>6. \A x \in DOMAIN heap \ {q[m]} : x \in DOMAIN heap' /\ heap'[x].pkt = heap[x].pkt
  BY <1>3, NodeParts
<1>7. r \in [1 .. (bufsize - 1) -> Nodes]
  <2>1. \A i \in 1 .. (bufsize - 1) : r[i] \in Nodes
    BY <1>4, ListParts
  <2> QED BY <1>1, <2>1
<1>8. \A i, j \in 1 .. (bufsize - 1) : r[i] = r[j] => i = j
  <2> SUFFICES ASSUME NEW i \in 1 .. (bufsize - 1), NEW j \in 1 .. (bufsize - 1),
                      r[i] = r[j]
               PROVE  i = j
    OBVIOUS
  <2>1. PICK a \in 1 .. bufsize : a = (IF i < m THEN i ELSE i + 1) /\ r[i] = q[a]
    BY <1>4
  <2>2. PICK b \in 1 .. bufsize : b = (IF j < m THEN j ELSE j + 1) /\ r[j] = q[b]
    BY <1>4
  <2>3. a = b
    <3>1. \A x, y \in 1 .. bufsize : q[x] = q[y] => x = y
      BY ListParts
    <3>2. q[a] = q[b]
      BY <2>1, <2>2
    <3> QED BY <3>1, <3>2
  <2>4. (IF i < m THEN i ELSE i + 1) = (IF j < m THEN j ELSE j + 1)
    BY <2>1, <2>2, <2>3
  <2>5. i \in Int /\ j \in Int /\ m \in Int
    BY <1>2
  <2> QED BY <2>4, <2>5
<1>9. DOMAIN heap' = {r[i] : i \in 1 .. (bufsize - 1)}
  <2>1. \A x \in DOMAIN heap' : \E i \in 1 .. (bufsize - 1) : x = r[i]
    BY <1>3, <1>5, ListParts
  <2>2. \A i \in 1 .. (bufsize - 1) : r[i] \in DOMAIN heap'
    BY <1>3, <1>4, ListParts
  <2> QED BY <2>1, <2>2
<1>10. ASSUME NEW i \in 1 .. (bufsize - 1)
       PROVE  /\ heap'[r[i]] = node(heap'[r[i]].pkt, Succ(r, bufsize - 1, i))
              /\ heap'[r[i]].pkt \in Pushed(pushed)
  <2>1. PICK j \in 1 .. bufsize : /\ j = IF i < m THEN i ELSE i + 1
                                  /\ j # m /\ r[i] = q[j] /\ q[j] # q[m]
    BY <1>4
  <2>2. /\ heap[q[j]] = node(heap[q[j]].pkt, Succ(q, bufsize, j))
        /\ heap[q[j]].pkt \in Pushed(pushed) /\ q[j] \in DOMAIN heap
    BY ListParts DEF Listed, IsList
  <2>3. heap[q[m]].next = Succ(q, bufsize, m)
    BY <1>2, ListParts
  <2>4. CASE j = m - 1
    <3>1. q[j] = loc
      BY <1>2, <2>4
    <3>2. heap'[q[j]] = node(heap[q[j]].pkt, Succ(q, bufsize, m))
      BY <1>3, <2>1, <2>2, <2>3, <3>1
    <3>3. Succ(r, bufsize - 1, i) = Succ(q, bufsize, m)
      BY <1>1, <1>2, <2>1, <2>4 DEF Succ
    <3> QED BY <2>1, <2>2, <3>2, <3>3, NodeParts
  <2>5. CASE j # m - 1
    <3>1. q[j] # loc
      <4>1. CASE m = 1
        BY <1>2, <4>1, ListParts, NodesDiffer
      <4>2. CASE m # 1
        <5>1. m - 1 \in 1 .. bufsize /\ loc = q[m - 1]
          BY <1>2, <4>2
        <5> QED BY <2>5, <5>1, ListParts
      <4> QED BY <4>1, <4>2
    <3>2. heap'[q[j]] = heap[q[j]]
      BY <1>3, <2>1, <2>2, <3>1
    <3>3. Succ(r, bufsize - 1, i) = Succ(q, bufsize, j)
      BY <1>1, <1>2, <2>1, <2>5 DEF Succ
    <3> QED BY <2>1, <2>2, <3>2, <3>3
  <2> QED BY <2>4, <2>5
<1>11. \A i, j \in 1 .. (bufsize - 1) : i < j => heap'[r[i]].pkt.chunk > heap'[r[j]].pkt.chunk
  <2> SUFFICES ASSUME NEW i \in 1 .. (bufsize - 1), NEW j \in 1 .. (bufsize - 1), i < j
               PROVE  heap'[r[i]].pkt.chunk > heap'[r[j]].pkt.chunk
    OBVIOUS
  <2>1. PICK a \in 1 .. bufsize : a = (IF i < m THEN i ELSE i + 1) /\ r[i] = q[a] /\ q[a] # q[m]
    BY <1>4
  <2>2. PICK b \in 1 .. bufsize : b = (IF j < m THEN j ELSE j + 1) /\ r[j] = q[b] /\ q[b] # q[m]
    BY <1>4
  <2>3. a < b
    BY <1>2, <2>1, <2>2
  <2>4. heap[q[a]].pkt.chunk > heap[q[b]].pkt.chunk
    BY <2>3 DEF Listed, IsList
  <2>5. heap'[q[a]].pkt = heap[q[a]].pkt /\ heap'[q[b]].pkt = heap[q[b]].pkt
    BY <1>6, <2>1, <2>2, ListParts
  <2> QED BY <2>1, <2>2, <2>4, <2>5
<1>12. front' = Succ(r, bufsize - 1, 0)
  <2>1. heap[q[m]].next = Succ(q, bufsize, m) /\ front = Succ(q, bufsize, 0)
    BY <1>2, ListParts
  <2>2. CASE m = 1
    BY <1>1, <1>2, <1>3, <2>1, <2>2 DEF Succ
  <2>3. CASE m # 1
    <3>1. loc # FrontRef
      BY <1>2, <2>3, ListParts, NodesDiffer
    <3>2. front' = q[1]
      BY <1>2, <1>3, <2>1, <3>1 DEF Succ
    <3> QED BY <1>1, <1>2, <2>3, <3>2 DEF Succ
  <2> QED BY <2>2, <2>3
<1>13. Listed(r)'
  <2>1. bufsize - 1 \in Nat
    BY <1>2
  <2>2. heap' = [x \in DOMAIN heap' |-> heap'[x]]
    BY <1>3
  <2>3. IsList(r, bufsize - 1, front', heap', pushed)
    BY <1>2, <1>7, <1>8, <1>9, <1>10, <1>11, <1>12, <2>1, <2>2 DEF IsList
  <2> QED BY <1>3, <2>3 DEF Listed
<1>14. Win'.buf = Win.buf \ {PktAt(q, m)}
  <2>1. Win'.buf = {heap'[x].pkt : x \in DOMAIN heap'} /\ Win.buf = {heap[x].pkt : x \in DOMAIN heap}
    BY DEF Win
  <2>2. DOMAIN heap' = DOMAIN heap \ {q[m]} /\ q[m] \in DOMAIN heap
    BY <1>2, <1>3, ListParts
  <2>3. ASSUME NEW x \in DOMAIN heap, x # q[m] PROVE heap[x].pkt # PktAt(q, m)
    <3>1. PICK j \in 1 .. bufsize : x = q[j]
      BY ListParts
    <3>2. j < m \/ m < j
      BY <1>2, <2>3, <3>1
    <3>3. PktAt(q, j).chunk \in Nat /\ PktAt(q, m).chunk \in Nat
      BY <1>2, PacketsOfList, PushedTypes
    <3>4. PktAt(q, j).chunk # PktAt(q, m).chunk
      BY <1>2, <3>2, <3>3, PacketsOfList
    <3> QED BY <3>1, <3>4 DEF PktAt
  <2> QED BY <1>6, <2>1, <2>2, <2>3 DEF PktAt
<1> QED BY <1>3, <1>13, <1>14 DEF Win

\* A packet stays as it is while others are pushed.
LEMMA PushedGrows ==
  ASSUME NEW k \in Nat
  PROVE  Pushed(k) \subseteq Pushed(k + 1)
<1>1. ASSUME NEW p \in Pushed(k)
      PROVE  p \in Pushed(k + 1)
  <2>1. \A c \in 0 .. (k - 1) : c \in 0 .. ((k + 1) - 1)
    OBVIOUS
  <2> QED BY <2>1, Zenon DEF Pushed
<1> QED BY <1>1

\* What is known of a packet that is pushed.
LEMMA NewPacket ==
  ASSUME NEW k \in Nat, NEW s \in SeqNums, NEW t \in Stamps
  PROVE  Data(s, t, k) \in Pushed(k + 1) /\ Data(s, t, k).chunk = k
BY DEF Data, Pushed

\* A node is pushed: it comes before the others.
LEMMA PushNode ==
  ASSUME NEW q, Listed(q), NEW s \in SeqNums, NEW t \in Stamps, Push(s, t)
  PROVE  /\ \E r : Listed(r)'
         /\ Win'.buf = Win.buf \cup {Data(s, t, pushed)}
         /\ Win'.size = Win.size /\ Win'.pos = Win.pos
         /\ pushed' = pushed + 1 /\ freed' = freed
<1>0. bufsize \in Nat /\ pushed \in Nat /\ front = Succ(q, bufsize, 0)
  BY ListParts
<1>1. PICK n \in Nodes \ DOMAIN heap :
        /\ heap' = [m \in DOMAIN heap \cup {n} |->
                      IF m = n THEN node(Data(s, t, pushed), front) ELSE heap[m]]
        /\ front' = n
  BY DEF Push
<1>2. /\ bufsize' = bufsize + 1 /\ pushed' = pushed + 1
      /\ UNCHANGED <<size, pos, freed>>
  BY DEF Push
<1>3. PICK r : r = [i \in 1 .. (bufsize + 1) |-> IF i = 1 THEN n ELSE q[i - 1]]
  OBVIOUS
<1>4. heap'[n] = node(Data(s, t, pushed), front)
  BY <1>1
<1>5. \A x \in DOMAIN heap : x # n /\ heap'[x] = heap[x]
  BY <1>1
<1>6. r[1] = n
  BY <1>0, <1>3
<1>7. \A i \in 1 .. bufsize : r[i + 1] = q[i] /\ q[i] # n
  BY <1>0, <1>3, <1>5, ListParts
<1>8. \A i \in 1 .. (bufsize + 1) : i = 1 \/ (i - 1 \in 1 .. bufsize /\ r[i] = q[i - 1])
  BY <1>0, <1>3
<1>9. r \in [1 .. (bufsize + 1) -> Nodes]
  <2>1. \A j \in 1 .. bufsize : q[j] \in Nodes
    BY ListParts
  <2>2. \A i \in 1 .. (bufsize + 1) : r[i] \in Nodes
    BY <1>6, <1>8, <2>1
  <2> QED BY <1>3, <2>2
<1>10. \A i, j \in 1 .. (bufsize + 1) : r[i] = r[j] => i = j
  <2> SUFFICES ASSUME NEW i \in 1 .. (bufsize + 1), NEW j \in 1 .. (bufsize + 1), r[i] = r[j]
               PROVE  i = j
    OBVIOUS
  <2>1. CASE i = 1
    BY <1>6, <1>7, <1>8, <2>1
  <2>2. CASE j = 1
    BY <1>6, <1>7, <1>8, <2>2
  <2>3. CASE i # 1 /\ j # 1
    <3>1. i - 1 = j - 1
      BY <1>8, <2>3, ListParts
    <3> QED BY <3>1
  <2> QED BY <2>1, <2>2, <2>3
<1>11. DOMAIN heap' = {r[i] : i \in 1 .. (bufsize + 1)}
  <2>1. \A x \in DOMAIN heap' : \E i \in 1 .. (bufsize + 1) : x = r[i]
    <3> TAKE x \in DOMAIN heap'
    <3>1. CASE x = n
      BY <1>0, <1>6, <3>1
    <3>2. CASE x # n
      <4>1. PICK i \in 1 .. bufsize : x = q[i]
        BY <1>1, <3>2, ListParts
      <4>2. i + 1 \in 1 .. (bufsize + 1) /\ r[i + 1] = x
        BY <1>0, <1>7, <4>1
      <4> QED BY <4>2
    <3> QED BY <3>1, <3>2
  <2>2. n \in DOMAIN heap' /\ \A j \in 1 .. bufsize : q[j] \in DOMAIN heap'
    BY <1>1, ListParts
  <2>3. \A i \in 1 .. (bufsize + 1) : r[i] \in DOMAIN heap'
    BY <1>6, <1>8, <2>2
  <2> QED BY <2>1, <2>3
<1>12. \A i \in 1 .. bufsize : /\ heap[q[i]] = node(heap[q[i]].pkt, Succ(q, bufsize, i))
                               /\ heap[q[i]].pkt \in Pushed(pushed)
                               /\ heap'[q[i]] = heap[q[i]]
  BY <1>5, ListParts DEF Listed, IsList
<1>13. \A i \in 0 .. bufsize : Succ(r, bufsize + 1, i + 1) = Succ(q, bufsize, i)
  BY <1>0, <1>3 DEF Succ
<1>14. ASSUME NEW i \in 1 .. (bufsize + 1)
       PROVE  /\ heap'[r[i]] = node(heap'[r[i]].pkt, Succ(r, bufsize + 1, i))
              /\ heap'[r[i]].pkt \in Pushed(pushed + 1)
  <2>1. CASE i = 1
    <3>1. Succ(r, bufsize + 1, 1) = front
      <4>1. 0 \in 0 .. bufsize /\ 0 + 1 = 1
        BY <1>0
      <4> QED BY <1>0, <1>13, <4>1
    <3> QED BY <1>0, <1>4, <1>6, <2>1, <3>1, NodeParts, NewPacket
  <2>2. CASE i # 1
    <3>1. PICK j \in 1 .. bufsize : i = j + 1 /\ r[i] = q[j]
      <4>1. i - 1 \in 1 .. bufsize /\ i = (i - 1) + 1
        BY <1>0, <2>2
      <4> QED BY <1>8, <2>2, <4>1
    <3>2. Succ(r, bufsize + 1, i) = Succ(q, bufsize, j)
      BY <1>13, <3>1
    <3> QED BY <1>0, <1>12, <3>1, <3>2, PushedGrows
  <2> QED BY <2>1, <2>2
<1>15. \A i, j \in 1 .. (bufsize + 1) : i < j => heap'[r[i]].pkt.chunk > heap'[r[j]].pkt.chunk
  <2> SUFFICES ASSUME NEW i \in 1 .. (bufsize + 1), NEW j \in 1 .. (bufsize + 1), i < j
               PROVE  heap'[r[i]].pkt.chunk > heap'[r[j]].pkt.chunk
    OBVIOUS
  <2>1. PICK b \in 1 .. bufsize : b = j - 1 /\ r[j] = q[b]
    <3>1. j # 1
      OBVIOUS
    <3> QED BY <1>8, <3>1
  <2>2. heap'[r[j]].pkt = heap[q[b]].pkt /\ heap[q[b]].pkt \in Pushed(pushed)
    BY <1>12, <2>1
  <2>3. CASE i = 1
    <3>1. heap'[r[i]].pkt.chunk = pushed
      BY <1>0, <1>4, <1>6, <2>3, NodeParts, NewPacket
    <3> QED BY <1>0, <2>2, <3>1, PushedTypes
  <2>4. CASE i # 1
    <3>1. PICK a \in 1 .. bufsize : a = i - 1 /\ r[i] = q[a]
      BY <1>8, <2>4
    <3>2. a < b
      BY <2>1, <3>1
    <3>3. heap[q[a]].pkt.chunk > heap[q[b]].pkt.chunk
      BY <3>2 DEF Listed, IsList
    <3> QED BY <1>12, <2>2, <3>1, <3>3
  <2> QED BY <2>3, <2>4
<1>16. front' = Succ(r, bufsize + 1, 0)
  BY <1>0, <1>1, <1>6 DEF Succ
<1>17. Listed(r)'
  <2>1. bufsize + 1 \in Nat /\ pushed + 1 \in Nat
    BY <1>0
  <2>2. heap' = [x \in DOMAIN heap' |-> heap'[x]]
    BY <1>1
  <2>3. IsList(r, bufsize + 1, front', heap', pushed + 1)
    BY <1>9, <1>10, <1>11, <1>14, <1>15, <1>16, <2>1, <2>2 DEF IsList
  <2> QED BY <1>2, <2>3 DEF Listed
<1>18. Win'.buf = Win.buf \cup {Data(s, t, pushed)}
  <2>1. Win'.buf = {heap'[x].pkt : x \in DOMAIN heap'} /\ Win.buf = {heap[x].pkt : x \in DOMAIN heap}
    BY DEF Win
  <2>2. DOMAIN heap' = DOMAIN heap \cup {n}
    BY <1>1
  <2>3. heap'[n].pkt = Data(s, t, pushed)
    BY <1>4, NodeParts
  <2> QED BY <1>5, <2>1, <2>2, <2>3
<1> QED BY <1>2, <1>17, <1>18 DEF Win

\* The packet p with the timestamp t.
At(p, t) == [p EXCEPT !.timestamp = t]

\* A packet keeps its other fields.
LEMMA AtParts ==
  ASSUME NEW k, NEW p \in Pushed(k), NEW t \in Stamps
  PROVE  At(p, t) \in Pushed(k) /\ At(p, t).chunk = p.chunk /\ At(p, t).timestamp = t
BY DEF At, Pushed

\* A packet gets another timestamp: the list stays as it is.
LEMMA RestampNode ==
  ASSUME NEW q, Listed(q), NEW i \in 1 .. bufsize, NEW t \in Stamps, Restamp(i, t)
  PROVE  /\ Listed(q)'
         /\ Win'.buf = (Win.buf \ {PktAt(q, i)}) \cup {At(PktAt(q, i), t)}
         /\ Win'.size = Win.size /\ Win'.pos = Win.pos
         /\ pushed' = pushed /\ freed' = freed
         /\ heap'[q[i]].pkt = At(PktAt(q, i), t)
<1>0. bufsize \in Nat /\ pushed \in Nat /\ front = Succ(q, bufsize, 0)
      /\ q[i] \in DOMAIN heap
  BY ListParts
<1>1. /\ heap' = [heap EXCEPT ![q[i]].pkt.timestamp = t]
      /\ UNCHANGED <<size, pos, bufsize, front, pushed, freed>>
  BY WalkIsList DEF Restamp
<1>2. heap' = [x \in DOMAIN heap |-> IF x = q[i] THEN heap'[q[i]] ELSE heap[x]]
  <2>1. heap = [x \in DOMAIN heap |-> heap[x]]
    BY DEF Listed, IsList
  <2> QED BY <1>0, <1>1, <2>1
<1>3. heap[q[i]] = node(PktAt(q, i), Succ(q, bufsize, i)) /\ PktAt(q, i) \in Pushed(pushed)
  BY ListParts DEF Listed, IsList, PktAt
<1>4. heap'[q[i]] = node(At(PktAt(q, i), t), Succ(q, bufsize, i))
  <2>1. heap'[q[i]] = [heap[q[i]] EXCEPT !.pkt.timestamp = t]
    BY <1>0, <1>1
  <2> QED BY <1>3, <2>1 DEF node, At
<1>5. \A x \in DOMAIN heap : x # q[i] => heap'[x] = heap[x]
  BY <1>2
<1>6. \A j \in 1 .. bufsize : /\ heap'[q[j]] = node(heap'[q[j]].pkt, Succ(q, bufsize, j))
                              /\ heap'[q[j]].pkt \in Pushed(pushed)
                              /\ heap'[q[j]].pkt.chunk = heap[q[j]].pkt.chunk
  <2> TAKE j \in 1 .. bufsize
  <2>1. CASE q[j] = q[i]
    <3>1. j = i
      BY <2>1, ListParts
    <3> QED BY <1>3, <1>4, <3>1, NodeParts, AtParts DEF PktAt
  <2>2. CASE q[j] # q[i]
    <3>1. heap'[q[j]] = heap[q[j]]
      BY <1>5, <2>2, ListParts
    <3> QED BY <3>1, ListParts DEF Listed, IsList
  <2> QED BY <2>1, <2>2
<1>7. Listed(q)'
  <2>1. DOMAIN heap' = DOMAIN heap /\ heap' = [x \in DOMAIN heap' |-> heap'[x]]
    BY <1>2
  <2>2. IsList(q, bufsize, front, heap', pushed)
    BY <1>6, <2>1 DEF Listed, IsList
  <2> QED BY <1>1, <2>2 DEF Listed
<1>8. Win'.buf = (Win.buf \ {PktAt(q, i)}) \cup {At(PktAt(q, i), t)}
  <2>1. Win'.buf = {heap'[x].pkt : x \in DOMAIN heap'} /\ Win.buf = {heap[x].pkt : x \in DOMAIN heap}
    BY DEF Win
  <2>2. DOMAIN heap' = DOMAIN heap
    BY <1>2
  <2>3. heap'[q[i]].pkt = At(PktAt(q, i), t)
    BY <1>4, NodeParts
  <2>4. ASSUME NEW x \in DOMAIN heap, x # q[i] PROVE heap[x].pkt # PktAt(q, i)
    <3>1. PICK j \in 1 .. bufsize : x = q[j]
      BY ListParts
    <3>2. i < j \/ j < i
      BY <2>4, <3>1
    <3>3. PktAt(q, j).chunk \in Nat /\ PktAt(q, i).chunk \in Nat
      BY <1>0, PacketsOfList, PushedTypes
    <3>4. PktAt(q, j).chunk # PktAt(q, i).chunk
      BY <3>2, <3>3, PacketsOfList
    <3> QED BY <3>1, <3>4 DEF PktAt
  <2>5. heap[q[i]].pkt = PktAt(q, i)
    BY DEF PktAt
  <2> QED BY <1>0, <1>5, <2>1, <2>2, <2>3, <2>4, <2>5
<1> QED BY <1>1, <1>4, <1>7, <1>8, NodeParts DEF Win

\* Nothing is left of a heap without nodes.
LEMMA EmptyHeap ==
  ASSUME NEW S, S = {}, NEW h, h = [x \in S |-> heap[x]]
  PROVE  h = <<>>
OBVIOUS

\* As many packets are in the buffer as nodes in the list.
LEMMA BufferSize ==
  ASSUME NEW q, Listed(q)
  PROVE  window_buffer_size(Win) = bufsize /\ (Win.buf = {} <=> bufsize = 0)
<1>1. PICK f : f = [i \in 1 .. bufsize |-> PktAt(q, i)]
  OBVIOUS
<1>2. bufsize \in Nat
  BY ListParts
<1>3. \A i, j \in 1 .. bufsize : f[i] = f[j] => i = j
  <2> SUFFICES ASSUME NEW i \in 1 .. bufsize, NEW j \in 1 .. bufsize,
                      i # j, PktAt(q, i) = PktAt(q, j)
               PROVE  FALSE
    BY <1>1
  <2>1. i < j \/ j < i
    OBVIOUS
  <2>2. PktAt(q, i).chunk \in Nat
    BY <1>2, PacketsOfList, ListParts, PushedTypes
  <2> QED BY <2>1, <2>2, PacketsOfList
<1>4. f \in Bijection(1 .. bufsize, Win.buf)
  <2>1. f \in [1 .. bufsize -> Win.buf]
    BY <1>1, PacketsOfList
  <2>2. \A p \in Win.buf : \E i \in 1 .. bufsize : f[i] = p
    BY <1>1, PacketsOfList
  <2> QED BY <1>3, <2>1, <2>2 DEF Bijection, Injection, Surjection, IsInjective
<1>5. ExistsBijection(1 .. bufsize, Win.buf)
  BY <1>4 DEF ExistsBijection
<1>6. IsFiniteSet(1 .. bufsize) /\ Cardinality(1 .. bufsize) = bufsize
  BY <1>2, FS_Interval
<1>7. IsFiniteSet(Win.buf) /\ Cardinality(Win.buf) = bufsize
  BY <1>5, <1>6, FS_Bijection
<1> QED BY <1>7, FS_EmptySet DEF window_buffer_size

\* The node in front has the packet that was pushed last.
LEMMA FrontOfAll ==
  ASSUME NEW q, Listed(q), bufsize # 0
  PROVE  FindsFront(q, 1, Win.buf)
<1>1. bufsize \in Nat /\ 1 \in 1 .. bufsize
  BY ListParts
<1>2. PICK I : I = {i \in 1 .. bufsize : PktAt(q, i) \in Win.buf}
  OBVIOUS
<1>3. I = 1 .. bufsize
  BY <1>2, PacketsOfList
<1>4. I \in SUBSET Nat /\ I # {}
  BY <1>1, <1>3
<1>5. Min(I) = 1
  <2>1. Min(I) \in I /\ Min(I) <= 1
    BY <1>1, <1>3, <1>4, LeastOf
  <2> QED BY <1>3, <2>1
<1> QED BY <1>2, <1>4, <1>5, SearchFindsFront

\* The packet that goes if a search for one of S is followed by a removal.
Popped(S) == window_front(IF S = {} THEN Win.buf ELSE S)

\* A removal after a search.
LEMMA PopFound ==
  ASSUME NEW q, Listed(q), NEW k, NEW S, FindsFront(q, k, S),
         window_pop_node(LocationOf(k))
  PROVE  /\ \E r : Listed(r)'
         /\ Win'.buf = Win.buf \ Popped(S)
         /\ Win'.size = Win.size /\ Win'.pos = Win.pos
         /\ pushed' = pushed /\ freed' = freed
         /\ bufsize # 0
<1>1. k \in 0 .. bufsize
  BY DEF FindsFront
<1>2. bufsize # 0
  <2>1. Deref(LocationOf(k)) # NULL
    BY DEF window_pop_node
  <2> QED BY <1>1, <2>1, LocationMeans
<1>3. PICK m : m = IF k = 0 THEN 1 ELSE k
  OBVIOUS
<1>4. PointsTo(q, LocationOf(k), m)
  BY <1>1, <1>2, <1>3, LocationMeans
<1>5. Popped(S) = {PktAt(q, m)}
  <2>1. CASE k = 0
    BY <1>2, <1>3, <2>1, FrontOfAll DEF FindsFront, Popped
  <2>2. CASE k # 0
    <3>1. S # {} /\ window_front(S) = {PktAt(q, k)}
      BY <2>2 DEF FindsFront
    <3> QED BY <1>3, <2>2, <3>1 DEF Popped
  <2> QED BY <2>1, <2>2
<1> QED BY <1>2, <1>4, <1>5, PopNode

-----------------------------------------------------------------------------
(* The operations are those of the window.                                 *)

\* The list is intact and the numbers of the window are in range; when it has
\* been freed, nothing is left of it and the sender uses it no longer.
ListInv ==
  /\ size \in 0 .. Capacity /\ pos \in SeqNums /\ pushed \in Nat /\ freed \in BOOLEAN
  /\ IF freed THEN heap = <<>> /\ loop_now = NoTime /\ timeout_us = NoTime
     ELSE \E q : Listed(q)

\* A walk along the list reaches every node of the heap.
LEMMA WalkReachesAll ==
  ASSUME NEW q, Listed(q)
  PROVE  ToSet(Walk) = DOMAIN heap
<1>1. ToSet(Walk) = {Walk[i] : i \in DOMAIN Walk}
  BY DEF ToSet
<1>2. Walk = q /\ DOMAIN Walk = 1 .. bufsize
  BY WalkIsList
<1>3. DOMAIN heap = {q[i] : i \in 1 .. bufsize}
  BY DEF Listed, IsList
<1> QED BY <1>1, <1>2, <1>3

\* What an operation leaves of ListInv.
Kept ==
  /\ size' \in 0 .. Capacity /\ pos' \in SeqNums /\ pushed' \in Nat /\ freed' = FALSE
  /\ (\E r : Listed(r))'

\* The window that the list stands for, part by part.
LEMMA WinParts ==
  /\ Win = [size |-> size, pos |-> pos, buf |-> Win.buf]
  /\ Win' = [size |-> size', pos |-> pos', buf |-> Win'.buf]
BY DEF Win

\* WindowSpec is written with the same operators of Window.
LEMMA SameOperators ==
  /\ \A s, t, c : WS!Data(s, t, c) = Data(s, t, c)
  /\ \A w, p : WS!window_push(w, p) = window_push(w, p)
  /\ \A w, n : WS!window_slide(w, n) = window_slide(w, n)
  /\ \A w, n : WS!window_slide_to(w, n) = window_slide_to(w, n)
  /\ \A w, n : WS!window_resize(w, n) = window_resize(w, n)
  /\ \A w : WS!window_full(w) <=> window_full(w)
  /\ \A S : WS!window_front(S) = window_front(S)
  /\ \A w, n : WS!window_find_seqnum(w, n) = window_find_seqnum(w, n)
  /\ \A w : WS!window_peek_min_timestamp(w) = window_peek_min_timestamp(w)
  /\ \A w : WS!window_peek_min_seqnum(w) = window_peek_min_seqnum(w)
<1>1. \A S : WS!window_front(S) = window_front(S)
  BY DEF WS!window_front, window_front
<1>2. \A w : WS!window_full(w) <=> window_full(w)
  BY DEF WS!window_full, window_full, WS!window_buffer_size, window_buffer_size,
         WS!Cardinality, Cardinality
<1>3. /\ \A w, p : WS!window_push(w, p) = window_push(w, p)
      /\ \A w, n : WS!window_slide(w, n) = window_slide(w, n)
      /\ \A w, n : WS!window_slide_to(w, n) = window_slide_to(w, n)
      /\ \A w, n : WS!window_resize(w, n) = window_resize(w, n)
  BY DEF WS!window_push, window_push, WS!window_slide, window_slide,
         WS!window_slide_to, window_slide_to, WS!window_resize, window_resize
<1>4. /\ \A w, n : WS!window_find_seqnum(w, n) = window_find_seqnum(w, n)
      /\ \A w : WS!window_peek_min_timestamp(w) = window_peek_min_timestamp(w)
      /\ \A w : WS!window_peek_min_seqnum(w) = window_peek_min_seqnum(w)
  BY DEF WS!window_find_seqnum, window_find_seqnum,
         WS!window_peek_min_timestamp, window_peek_min_timestamp,
         WS!window_peek_min_seqnum, window_peek_min_seqnum
<1>5. \A s, t, c : WS!Data(s, t, c) = Data(s, t, c)
  BY DEF WS!Data, Data
<1> QED BY <1>1, <1>2, <1>3, <1>4, <1>5

\* A window of which only the buffer changes.
LEMMA BufBecomes ==
  ASSUME NEW B, Win'.buf = B, Win'.size = Win.size, Win'.pos = Win.pos
  PROVE  /\ Win' = [Win EXCEPT !.buf = B]
         /\ size' = size /\ pos' = pos
BY DEF Win

\* window_push.
LEMMA PushImplements ==
  ASSUME ListInv, ~freed, NEW s \in SeqNums, NEW t \in Stamps, Push(s, t)
  PROVE  Kept /\ WS!Push(s, t) /\ pushed' = pushed + 1
<1>1. PICK q : Listed(q)
  BY DEF ListInv
<1>2. /\ \E r : Listed(r)'
      /\ Win'.buf = Win.buf \cup {Data(s, t, pushed)}
      /\ Win'.size = Win.size /\ Win'.pos = Win.pos
      /\ pushed' = pushed + 1 /\ freed' = freed
  BY <1>1, PushNode
<1>3. /\ Win' = [Win EXCEPT !.buf = Win.buf \cup {Data(s, t, pushed)}]
      /\ size' = size /\ pos' = pos
  BY <1>2, BufBecomes
<1>4. ~window_full(Win)
  <2>1. window_buffer_size(Win) = bufsize /\ Win.size = size
    BY <1>1, BufferSize DEF Win
  <2> QED BY <2>1 DEF Push, list_full, window_full
<1>5. WS!Push(s, t)
  BY <1>2, <1>3, <1>4, SameOperators DEF WS!Push, window_push
<1> QED BY <1>2, <1>3, <1>5 DEF Kept, ListInv

\* A removal.
LEMMA PopKeeps ==
  ASSUME ListInv, ~freed, NEW q, Listed(q), NEW k, NEW S, FindsFront(q, k, S),
         window_pop_node(LocationOf(k))
  PROVE  Kept /\ WS!Becomes(WS!Without(Popped(S))) /\ bufsize # 0 /\ pushed' = pushed
<1>1. /\ \E r : Listed(r)'
      /\ Win'.buf = Win.buf \ Popped(S)
      /\ Win'.size = Win.size /\ Win'.pos = Win.pos
      /\ pushed' = pushed /\ freed' = freed
      /\ bufsize # 0
  BY PopFound
<1>2. Win' = [Win EXCEPT !.buf = Win.buf \ Popped(S)] /\ size' = size /\ pos' = pos
  BY <1>1, BufBecomes
<1>3. WS!Becomes(WS!Without(Popped(S)))
  BY <1>1, <1>2 DEF WS!Becomes, WS!Without
<1> QED BY <1>1, <1>2, <1>3 DEF Kept, ListInv

\* window_pop_timestamp.  If no packet has the timestamp, it does not do what
\* the header declares.
LEMMA PopTimestampImplements ==
  ASSUME ListInv, ~freed, NEW t, PopTimestamp(t)
  PROVE  /\ Kept /\ pushed' = pushed
         /\ (\E p \in Win.buf : p.timestamp = t) => WS!PopTimestamp(t)
<1>1. PICK q : Listed(q)
  BY DEF ListInv
<1>2. PICK k : k = SelectInSeq(Pkts, LAMBDA p : p.timestamp = t)
  OBVIOUS
<1>3. PICK S : S = {p \in Win.buf : p.timestamp = t}
  OBVIOUS
<1>4. FindsFront(q, k, S)
  BY <1>1, <1>2, <1>3, FindTimestamp
<1>5. window_pop_node(LocationOf(k))
  BY <1>2 DEF PopTimestamp, timestamp_match
<1>6. Kept /\ WS!Becomes(WS!Without(Popped(S))) /\ pushed' = pushed
  BY <1>1, <1>4, <1>5, PopKeeps
<1>7. ASSUME NEW p \in Win.buf, p.timestamp = t PROVE WS!PopTimestamp(t)
  <2>1. S # {} /\ Popped(S) = window_front(S)
    BY <1>3, <1>7 DEF Popped
  <2> QED BY <1>3, <1>6, <2>1, SameOperators DEF WS!PopTimestamp
<1> QED BY <1>6, <1>7

\* window_pop_min_timestamp.
LEMMA PopMinTimestampImplements ==
  ASSUME ListInv, ~freed, PopMinTimestamp
  PROVE  Kept /\ WS!PopMinTimestamp /\ pushed' = pushed
<1>1. PICK q : Listed(q)
  BY DEF ListInv
<1>2. PICK k : k = SelectInSeq(Pkts, LAMBDA p :
                     \A n \in DOMAIN heap : p.timestamp <= heap[n].pkt.timestamp)
  OBVIOUS
<1>3. PICK S : S = window_peek_min_timestamp(Win)
  OBVIOUS
<1>4. FindsFront(q, k, S) /\ (bufsize # 0 => k # 0)
  BY <1>1, <1>2, <1>3, FindMinTimestamp
<1>5. window_pop_node(LocationOf(k))
  BY <1>2 DEF PopMinTimestamp, window_find_min_timestamp
<1>6. Kept /\ WS!Becomes(WS!Without(Popped(S))) /\ bufsize # 0 /\ pushed' = pushed
  BY <1>1, <1>4, <1>5, PopKeeps
<1>7. Popped(S) = window_front(S)
  BY <1>4, <1>6 DEF Popped, FindsFront
<1> QED BY <1>3, <1>6, <1>7, SameOperators DEF WS!PopMinTimestamp

\* window_pop_min_seqnum.
LEMMA PopMinSeqnumImplements ==
  ASSUME ListInv, ~freed, PopMinSeqnum
  PROVE  Kept /\ WS!PopMinSeqnum /\ pushed' = pushed
<1>1. PICK q : Listed(q)
  BY DEF ListInv
<1>2. PICK k : k = SelectInSeq(Pkts, LAMBDA p :
                     \A n \in DOMAIN heap : p.seqnum <= heap[n].pkt.seqnum)
  OBVIOUS
<1>3. PICK S : S = window_peek_min_seqnum(Win)
  OBVIOUS
<1>4. FindsFront(q, k, S) /\ (bufsize # 0 => k # 0)
  BY <1>1, <1>2, <1>3, FindMinSeqnum
<1>5. window_pop_node(LocationOf(k))
  BY <1>2 DEF PopMinSeqnum, window_find_min_seqnum
<1>6. Kept /\ WS!Becomes(WS!Without(Popped(S))) /\ bufsize # 0 /\ pushed' = pushed
  BY <1>1, <1>4, <1>5, PopKeeps
<1>7. Popped(S) = window_front(S)
  BY <1>4, <1>6 DEF Popped, FindsFront
<1> QED BY <1>3, <1>6, <1>7, SameOperators DEF WS!PopMinSeqnum

\* The packet a search found gets another timestamp.
LEMMA RestampKeeps ==
  ASSUME ListInv, ~freed, NEW q, Listed(q), NEW k, NEW S, FindsFront(q, k, S),
         NEW t \in Stamps, Restamp(k, t)
  PROVE  /\ Kept /\ Listed(q)' /\ k \in 1 .. bufsize /\ pushed' = pushed
         /\ PktAt(q, k) \in S
         /\ Win'.buf = (Win.buf \ {PktAt(q, k)}) \cup {At(PktAt(q, k), t)}
         /\ heap'[q[k]].pkt = At(PktAt(q, k), t)
         /\ WS!Becomes(WS!Restamped(window_front(S), t))
<1>1. k \in 1 .. bufsize /\ PktAt(q, k) \in S /\ window_front(S) = {PktAt(q, k)}
  BY DEF Restamp, FindsFront
<1>2. /\ Listed(q)'
      /\ Win'.buf = (Win.buf \ {PktAt(q, k)}) \cup {At(PktAt(q, k), t)}
      /\ Win'.size = Win.size /\ Win'.pos = Win.pos
      /\ pushed' = pushed /\ freed' = freed
      /\ heap'[q[k]].pkt = At(PktAt(q, k), t)
  BY <1>1, RestampNode
<1>3. PICK B : B = (Win.buf \ {PktAt(q, k)}) \cup {At(PktAt(q, k), t)}
  OBVIOUS
<1>4. Win' = [Win EXCEPT !.buf = B] /\ size' = size /\ pos' = pos
  BY <1>2, <1>3, BufBecomes
<1>5. B = (Win.buf \ {PktAt(q, k)}) \cup {[p EXCEPT !.timestamp = t] : p \in {PktAt(q, k)}}
  BY <1>3 DEF At
<1>6. WS!Becomes(WS!Restamped(window_front(S), t))
  BY <1>1, <1>2, <1>4, <1>5, SameOperators DEF WS!Becomes, WS!Restamped
<1> QED BY <1>1, <1>2, <1>4, <1>6 DEF Kept, ListInv

\* window_update_timestamp.
LEMMA UpdateTimestampImplements ==
  ASSUME ListInv, ~freed, NEW old_time, NEW t \in Stamps, UpdateTimestamp(old_time, t)
  PROVE  WS!UpdateTimestamp(old_time, t)
<1>1. PICK q : Listed(q)
  BY DEF ListInv
<1>2. PICK k : k = SelectInSeq(Pkts, LAMBDA p : p.timestamp = old_time)
  OBVIOUS
<1>3. PICK S : S = {p \in Win.buf : p.timestamp = old_time}
  OBVIOUS
<1>4. FindsFront(q, k, S)
  BY <1>1, <1>2, <1>3, FindTimestamp
<1>5. Restamp(k, t)
  BY <1>2 DEF UpdateTimestamp
<1>6. WS!Becomes(WS!Restamped(window_front(S), t))
  BY <1>1, <1>4, <1>5, RestampKeeps
<1> QED BY <1>3, <1>6, SameOperators DEF WS!UpdateTimestamp

\* pkt_set_timestamp on what window_find_seqnum returns.
LEMMA FindAndRestampImplements ==
  ASSUME ListInv, ~freed, NEW s, NEW t \in Stamps, FindAndRestamp(s, t)
  PROVE  WS!FindAndRestamp(s, t)
<1>1. PICK q : Listed(q)
  BY DEF ListInv
<1>2. PICK k : k = SelectInSeq(Pkts, LAMBDA p : p.seqnum = s)
  OBVIOUS
<1>3. PICK S : S = window_find_seqnum(Win, s)
  OBVIOUS
<1>4. FindsFront(q, k, S)
  BY <1>1, <1>2, <1>3, FindSeqnum
<1>5. Restamp(k, t)
  BY <1>2 DEF FindAndRestamp
<1>6. WS!Becomes(WS!Restamped(window_front(S), t))
  BY <1>1, <1>4, <1>5, RestampKeeps
<1> QED BY <1>3, <1>6, SameOperators DEF WS!FindAndRestamp

\* window_resize, which refuses a size that is too large.
LEMMA ResizeImplements ==
  ASSUME ListInv, ~freed, NEW new_size \in Nat, Resize(new_size)
  PROVE  Kept /\ pushed' = pushed /\ WS!Resize(new_size)
<1>1. /\ size' = IF new_size > Capacity THEN size ELSE new_size
      /\ UNCHANGED <<pos, bufsize, front, heap, pushed, freed>>
  BY DEF Resize
<1>2. Capacity \in Nat
  BY WindowAssumption
<1>3. Kept
  <2>1. size' \in 0 .. Capacity
    BY <1>1, <1>2 DEF ListInv
  <2>2. \A q : Listed(q) <=> Listed(q)'
    BY <1>1 DEF Listed
  <2> QED BY <1>1, <2>1, <2>2 DEF Kept, ListInv
<1>4. Win'.buf = Win.buf
  BY <1>1 DEF Win
<1>5. CASE new_size <= Capacity
  <2>1. size' = new_size
    BY <1>1, <1>2, <1>5
  <2>2. Win' = [Win EXCEPT !.size = new_size]
    BY <1>1, <1>4, <2>1, WinParts
  <2>3. ~(new_size > Capacity)
    BY <1>2, <1>5
  <2> QED BY <1>1, <1>3, <2>2, <2>3, SameOperators DEF WS!Resize, WS!Becomes, window_resize
<1>6. CASE new_size > Capacity
  <2>1. Win' = Win
    BY <1>1, <1>4, <1>6, WinParts
  <2> QED BY <1>1, <1>3, <1>6, <2>1 DEF WS!Resize, WS!Becomes
<1> QED BY <1>2, <1>5, <1>6

\* The sequence number after another.
LEMMA NextSeqNum == \A p \in SeqNums : (p + 1) % SeqSpace \in SeqNums
BY WindowAssumption DEF SeqNums

\* Both slides.
LEMMA MovedImplements ==
  ASSUME ListInv, ~freed, NEW p \in SeqNums, Moved(p)
  PROVE  Kept /\ WS!Becomes([Win EXCEPT !.pos = p]) /\ pushed' = pushed
<1>1. pos' = p /\ UNCHANGED <<size, bufsize, front, heap, pushed, freed>>
  BY DEF Moved
<1>2. \A q : Listed(q) <=> Listed(q)'
  BY <1>1 DEF Listed
<1>3. Win' = [Win EXCEPT !.pos = p]
  <2>1. Win'.buf = Win.buf
    BY <1>1 DEF Win
  <2> QED BY <1>1, <2>1, WinParts
<1> QED BY <1>1, <1>2, <1>3 DEF Kept, ListInv, WS!Becomes

\* window_slide.
LEMMA SlideImplements ==
  ASSUME ListInv, ~freed, Slide
  PROVE  Kept /\ WS!Slide /\ pushed' = pushed
<1>1. Moved((pos + 1) % SeqSpace) /\ (pos + 1) % SeqSpace \in SeqNums
  BY NextSeqNum DEF Slide, ListInv
<1>2. Kept /\ WS!Becomes([Win EXCEPT !.pos = (pos + 1) % SeqSpace]) /\ pushed' = pushed
  BY <1>1, MovedImplements
<1>3. window_slide(Win, 1) = [Win EXCEPT !.pos = (pos + 1) % SeqSpace]
  BY WinParts DEF window_slide
<1> QED BY <1>2, <1>3, SameOperators DEF WS!Slide

\* window_slide_to.
LEMMA SlideToImplements ==
  ASSUME ListInv, ~freed, NEW s \in SeqNums, SlideTo(s)
  PROVE  Kept /\ WS!SlideTo(s) /\ pushed' = pushed
<1>1. Kept /\ WS!Becomes([Win EXCEPT !.pos = s]) /\ pushed' = pushed
  BY MovedImplements DEF SlideTo
<1> QED BY <1>1, SameOperators DEF WS!SlideTo, window_slide_to

\* window_free.
LEMMA FreeImplements ==
  ASSUME ListInv, ~freed, Free
  PROVE  heap' = <<>> /\ freed' /\ UNCHANGED <<size, pos, pushed>> /\ WS!Free
<1>1. PICK q : Listed(q)
  BY DEF ListInv
<1>2. ToSet(Walk) = DOMAIN heap
  BY <1>1, WalkReachesAll
<1>3. DOMAIN heap \ ToSet(Walk) = {}
  BY <1>2
<1>4. heap' = [n \in DOMAIN heap \ ToSet(Walk) |-> heap[n]] /\ freed' = TRUE
      /\ UNCHANGED <<size, pos, pushed>>
  BY DEF Free
<1>5. heap' = <<>>
  BY <1>3, <1>4, EmptyHeap
<1>6. DOMAIN heap' = {}
  BY <1>3, <1>4
<1>7. Win'.buf = {}
  BY <1>6 DEF Win
<1>8. Win' = [Win EXCEPT !.buf = {}]
  BY <1>4, <1>7, WinParts
<1> QED BY <1>4, <1>5, <1>8 DEF WS!Free

\* The times that the sender uses are those a packet can have.
LEMMA TimesAreStamps ==
  ASSUME ClockInv
  PROVE  /\ get_monotime \in Stamps
         /\ Elapsed \in Nat
         /\ Plus(get_monotime, TIMER) \in Stamps
<1>1. ClockSpace \in Nat \ {0} /\ TIMER \in Nat
  BY ClockAssumption, TimerAssumption
<1>2. Elapsed \in Nat
  BY DEF ClockInv, Elapsed, Now
<1>3. get_monotime \in Stamps
  BY <1>1, <1>2 DEF get_monotime, Stamps
<1>4. get_monotime \in Nat
  BY <1>1, <1>3 DEF Stamps
<1>5. Plus(get_monotime, TIMER) \in Stamps
  <2>1. get_monotime + TIMER \in Nat
    BY <1>1, <1>4
  <2> QED BY <1>1, <2>1 DEF Plus, Stamps
<1> QED BY <1>2, <1>3, <1>5

\* What is left of ListInv by an operation that does not free the window.
LEMMA KeptIsEnough == Kept => ListInv'
BY DEF Kept, ListInv

\* The initial list is empty.
LEMMA ListInvInit ==
  ASSUME Init
  PROVE  ListInv /\ WS!Init
<1>1. /\ size \in {1, Capacity} /\ pos = 0 /\ bufsize = 0 /\ front = NULL
      /\ heap = <<>> /\ pushed = 0 /\ freed = FALSE
  BY DEF Init, WindowInit
<1>2. size \in 0 .. Capacity /\ pos \in SeqNums
  BY <1>1, WindowAssumption DEF SeqNums
<1>3. Listed(<<>>)
  BY <1>1 DEF Listed, IsList, Succ
<1>4. ListInv
  BY <1>1, <1>2, <1>3 DEF ListInv
<1>5. Win = [size |-> size, pos |-> 0, buf |-> {}]
  <2>1. Win.buf = {}
    BY <1>1 DEF Win
  <2> QED BY <1>1, <2>1, WinParts
<1>6. Win \in {WS!window_create(n) : n \in 0 .. Capacity}
  BY <1>2, <1>5 DEF WS!window_create
<1> QED BY <1>1, <1>4, <1>6 DEF WS!Init

\* An operation of OtherCall.
LEMMA OtherCallKeeps ==
  ASSUME ListInv, OtherCall
  PROVE  ListInv' /\ pushed' = pushed
<1>0. /\ ~freed /\ loop_now = NoTime /\ timeout_us = NoTime
      /\ loop_now' = loop_now /\ timeout_us' = timeout_us
  BY DEF OtherCall, Idle, timeoutVars
<1>1. ASSUME NEW n \in Sizes, Resize(n)
      PROVE  ListInv' /\ pushed' = pushed
  <2>1. n \in Nat
    BY TimerAssumption
  <2> QED BY <1>0, <1>1, <2>1, ResizeImplements, KeptIsEnough
<1>2. ASSUME Slide
      PROVE  ListInv' /\ pushed' = pushed
  BY <1>0, <1>2, SlideImplements, KeptIsEnough
<1>3. ASSUME NEW s \in SeqNums, SlideTo(s)
      PROVE  ListInv' /\ pushed' = pushed
  BY <1>0, <1>3, SlideToImplements, KeptIsEnough
<1>4. ASSUME NEW t \in Stamps, PopTimestamp(t)
      PROVE  ListInv' /\ pushed' = pushed
  BY <1>0, <1>4, PopTimestampImplements, KeptIsEnough
<1>5. ASSUME PopMinTimestamp
      PROVE  ListInv' /\ pushed' = pushed
  BY <1>0, <1>5, PopMinTimestampImplements, KeptIsEnough
<1>6. ASSUME PopMinSeqnum
      PROVE  ListInv' /\ pushed' = pushed
  BY <1>0, <1>6, PopMinSeqnumImplements, KeptIsEnough
<1>7. ASSUME Free
      PROVE  ListInv' /\ pushed' = pushed
  <2>1. heap' = <<>> /\ freed' /\ UNCHANGED <<size, pos, pushed>>
    BY <1>0, <1>7, FreeImplements
  <2>2. freed' \in BOOLEAN
    BY <1>7 DEF Free
  <2> QED BY <1>0, <2>1, <2>2 DEF ListInv
<1> QED BY <1>1, <1>2, <1>3, <1>4, <1>5, <1>6, <1>7 DEF OtherCall

\* The packet that retransmit_packets goes on with, if there is one: it is at the
\* place k of the list, where the search for its timestamp finds it.
LEMMA PeekedAt ==
  ASSUME NEW q, Listed(q), NEW p \in list_peek_min_timestamp
  PROVE  \E k \in 1 .. bufsize :
           /\ p = PktAt(q, k)
           /\ list_peek_min_timestamp = {p}
           /\ Deref(window_find_min_timestamp) = q[k]
           /\ FindsFront(q, k, window_peek_min_timestamp(Win))
<1>1. PICK k : k = SelectInSeq(Pkts, LAMBDA r :
                     \A n \in DOMAIN heap : r.timestamp <= heap[n].pkt.timestamp)
  OBVIOUS
<1>2. FindsFront(q, k, window_peek_min_timestamp(Win)) /\ (bufsize # 0 => k # 0)
  BY <1>1, FindMinTimestamp
<1>3. window_find_min_timestamp = LocationOf(k) /\ k \in 0 .. bufsize
  BY <1>1, <1>2 DEF window_find_min_timestamp, FindsFront
<1>4. Deref(LocationOf(k)) # NULL /\ p = heap[Deref(LocationOf(k))].pkt
      /\ list_peek_min_timestamp = {p}
  BY <1>3 DEF list_peek_min_timestamp, peek
<1>5. bufsize # 0
  BY <1>3, <1>4, LocationMeans
<1>6. k \in 1 .. bufsize /\ Deref(LocationOf(k)) = q[k]
  BY <1>2, <1>3, <1>5, LocationMeans, ListParts DEF PointsTo
<1> QED BY <1>2, <1>3, <1>4, <1>6 DEF PktAt

\* The nodes of a list hold different packets.
LEMMA PacketsDiffer ==
  ASSUME NEW q, Listed(q), NEW i \in 1 .. bufsize, NEW j \in 1 .. bufsize, i # j
  PROVE  PktAt(q, i).chunk # PktAt(q, j).chunk
<1>1. i < j \/ j < i
  BY ListParts
<1>2. PktAt(q, i).chunk \in Nat /\ PktAt(q, j).chunk \in Nat
  BY ListParts, PacketsOfList, PushedTypes
<1> QED BY <1>1, <1>2, PacketsOfList

\* The packet whose timestamp window_update_timestamp changes, the first with
\* that timestamp, is the one that was peeked at and is sent.
LEMMA ResendsWhatItPeeked ==
  ASSUME ListInv, ClockInv, RetransmitOne, NEW q, Listed(q),
         NEW t, t = Plus(get_monotime, TIMER)
  PROVE  /\ Kept /\ Listed(q)' /\ pushed' = pushed
         /\ \E p \in Expired :
              /\ p \in Win.buf
              /\ \A r \in Win.buf : p.timestamp <= r.timestamp
              /\ Win'.buf = (Win.buf \ {p}) \cup {At(p, t)}
              /\ Transmitted(At(p, t))
<1>1. PICK p \in Expired : UpdateTimestamp(p.timestamp, t)
  BY DEF RetransmitOne
<1>2. p \in list_peek_min_timestamp
  BY <1>1 DEF Expired
<1>3. PICK k \in 1 .. bufsize :
        /\ p = PktAt(q, k)
        /\ Deref(window_find_min_timestamp) = q[k]
        /\ FindsFront(q, k, window_peek_min_timestamp(Win))
  BY <1>2, PeekedAt
<1>4. k # 0 /\ p \in window_peek_min_timestamp(Win)
      /\ window_front(window_peek_min_timestamp(Win)) = {p}
  BY <1>3, ListParts DEF FindsFront
<1>5. p \in Win.buf /\ \A r \in Win.buf : p.timestamp <= r.timestamp
  BY <1>4 DEF window_peek_min_timestamp
<1>6. \A r \in Win.buf : r.timestamp \in Nat
  BY PacketsOfList, ListParts, PushedTypes
<1>7. PICK S : S = {r \in Win.buf : r.timestamp = p.timestamp}
  OBVIOUS
<1>8. S = window_peek_min_timestamp(Win)
  BY <1>5, <1>6, <1>7 DEF window_peek_min_timestamp
<1>9. PICK j : j = SelectInSeq(Pkts, LAMBDA r : r.timestamp = p.timestamp)
  OBVIOUS
<1>10. FindsFront(q, j, S)
  BY <1>7, <1>9, FindTimestamp
<1>11. Restamp(j, t)
  BY <1>1, <1>9 DEF UpdateTimestamp
<1>12. t \in Stamps /\ ~freed
  BY <1>11, TimesAreStamps DEF Restamp
<1>13. /\ Kept /\ Listed(q)' /\ j \in 1 .. bufsize /\ pushed' = pushed
       /\ PktAt(q, j) \in S
       /\ Win'.buf = (Win.buf \ {PktAt(q, j)}) \cup {At(PktAt(q, j), t)}
       /\ heap'[q[j]].pkt = At(PktAt(q, j), t)
  BY <1>10, <1>11, <1>12, RestampKeeps
<1>14. PktAt(q, j) = p /\ j = k
  <2>1. window_front(S) = {PktAt(q, j)}
    BY <1>10, <1>13, ListParts DEF FindsFront
  <2>2. PktAt(q, j) = p
    BY <1>4, <1>8, <2>1
  <2> QED BY <1>3, <1>13, <2>2, PacketsDiffer
<1>15. Transmitted(At(p, t))
  <2>1. Transmitted(heap'[Deref(window_find_min_timestamp)].pkt)
    BY DEF RetransmitOne
  <2> QED BY <1>3, <1>13, <1>14, <2>1
<1> QED BY <1>1, <1>5, <1>13, <1>14, <1>15

\* A NACK is handled: the packet it names gets the present time.
LEMMA NackRestamps ==
  ASSUME ListInv, ClockInv, NEW s \in SeqNums, HandleNack(s), NEW q, Listed(q)
  PROVE  /\ Kept /\ Listed(q)' /\ pushed' = pushed
         /\ \E p \in Win.buf :
              /\ Win'.buf = (Win.buf \ {p}) \cup {At(p, get_monotime)}
              /\ SetTimer(p.chunk, Elapsed)
<1>1. PICK p \in list_find_seqnum(s) :
        /\ FindAndRestamp(s, get_monotime)
        /\ SetTimer(p.chunk, Elapsed)
  BY DEF HandleNack
<1>2. PICK k : k = SelectInSeq(Pkts, LAMBDA r : r.seqnum = s)
  OBVIOUS
<1>3. PICK S : S = window_find_seqnum(Win, s)
  OBVIOUS
<1>4. FindsFront(q, k, S)
  BY <1>2, <1>3, FindSeqnum
<1>5. list_find_seqnum(s) = IF k = 0 THEN {} ELSE {Pkts[k]}
  BY <1>2 DEF list_find_seqnum
<1>6. Restamp(k, get_monotime)
  BY <1>1, <1>2 DEF FindAndRestamp
<1>7. get_monotime \in Stamps /\ ~freed
  BY <1>6, TimesAreStamps DEF Restamp
<1>8. /\ Kept /\ Listed(q)' /\ k \in 1 .. bufsize /\ pushed' = pushed
      /\ PktAt(q, k) \in S
      /\ Win'.buf = (Win.buf \ {PktAt(q, k)}) \cup {At(PktAt(q, k), get_monotime)}
  BY <1>4, <1>6, <1>7, RestampKeeps
<1>9. p = PktAt(q, k) /\ p \in Win.buf
  BY <1>1, <1>5, <1>8, PacketsOfList
<1> QED BY <1>1, <1>8, <1>9

\* Every step of the sender leaves the list intact.
LEMMA ListInvStep ==
  ASSUME ListInv, ClockInv, [Next]_vars
  PROVE  ListInv'
<1>1. ASSUME UNCHANGED windowVars, (freed => UNCHANGED <<loop_now, timeout_us>>)
      PROVE  ListInv'
  <2>1. UNCHANGED <<size, pos, bufsize, front, heap, pushed, freed>>
    BY <1>1 DEF windowVars, window
  <2>2. \A q : Listed(q) <=> Listed(q)'
    BY <2>1 DEF Listed
  <2> QED BY <1>1, <2>1, <2>2 DEF ListInv
<1>2. ASSUME NEW s \in SeqNums, SendNew(s)
      PROVE  ListInv'
  <2>1. PICK t \in Stamps : Push(s, t)
    BY <1>2, TimesAreStamps DEF SendNew
  <2>2. ~freed
    BY <1>2 DEF SendNew, Idle
  <2> QED BY <2>1, <2>2, PushImplements, KeptIsEnough
<1>3. ASSUME NEW s \in SeqNums, HandleNack(s)
      PROVE  ListInv'
  <2>1. ~freed
    BY <1>3 DEF HandleNack, Idle
  <2>2. PICK q : Listed(q)
    BY <2>1 DEF ListInv
  <2> QED BY <1>3, <2>2, NackRestamps, KeptIsEnough
<1>4. ASSUME StartRetransmitting
      PROVE  ListInv'
  BY <1>1, <1>4 DEF StartRetransmitting, Idle
<1>5. ASSUME RetransmitOne
      PROVE  ListInv'
  <2>1. ~freed
    BY <1>5 DEF RetransmitOne, ListInv
  <2>2. PICK q : Listed(q)
    BY <2>1 DEF ListInv
  <2>3. PICK t : t = Plus(get_monotime, TIMER)
    OBVIOUS
  <2> QED BY <1>5, <2>2, <2>3, ResendsWhatItPeeked, KeptIsEnough
<1>6. ASSUME StopRetransmitting
      PROVE  ListInv'
  <2>1. ~freed
    BY <1>6 DEF StopRetransmitting, ListInv
  <2> QED BY <1>1, <1>6, <2>1 DEF StopRetransmitting
<1>7. ASSUME GetTimeout
      PROVE  ListInv'
  BY <1>1, <1>7 DEF GetTimeout, Idle
<1>8. ASSUME Select
      PROVE  ListInv'
  <2>1. ~freed
    BY <1>8 DEF Select, ListInv
  <2> QED BY <1>1, <1>8, <2>1 DEF Select
<1>9. ASSUME OtherCall
      PROVE  ListInv'
  BY <1>9, OtherCallKeeps
<1>10. ASSUME TimePasses \/ UNCHANGED vars
       PROVE  ListInv'
  BY <1>1, <1>10 DEF TimePasses, vars, timeoutVars
<1> QED
  BY <1>2, <1>3, <1>4, <1>5, <1>6, <1>7, <1>8, <1>9, <1>10 DEF Next

\* The two inductive invariants together.
LEMMA SpecKeepsList == Spec => [](ListInv /\ ClockInv)
<1>1. Init => ListInv /\ ClockInv
  BY ListInvInit, ClockInvInit
<1>2. ListInv /\ ClockInv /\ [Next]_vars => (ListInv /\ ClockInv)'
  BY ListInvStep, ClockInvStep
<1> QED BY <1>1, <1>2, PTL DEF Spec

\* The buffer of src/window.c, a list of nodes on the heap whose operations
\* relink pointers, is intact after any sequence of its operations: of any
\* length, with any number of nodes and any sequence numbers and timestamps.
THEOREM ListIsIntact == Spec => []ListIntact
<1>1. ListInv => ListIntact
  <2> SUFFICES ASSUME ListInv PROVE ListIntact
    OBVIOUS
  <2>1. CASE freed
    <3>1. heap = <<>> /\ DOMAIN heap = {}
      BY <2>1 DEF ListInv
    <3>2. Cardinality(DOMAIN heap) = 0
      BY <3>1, FS_EmptySet
    <3>3. DOMAIN Walk = {}
      <4>1. 1 .. 0 = {}
        OBVIOUS
      <4> QED BY <3>2, <4>1 DEF Walk
    <3>4. ToSet(Walk) = {}
      BY <3>3 DEF ToSet
    <3> QED BY <2>1, <3>1, <3>4 DEF ListIntact
  <2>2. CASE ~freed
    <3>1. PICK q : Listed(q)
      BY <2>2 DEF ListInv
    <3> QED BY <2>2, <3>1, WalkReachesAll, WalkIsList DEF ListIntact
  <2> QED BY <2>1, <2>2
<1> QED BY <1>1, SpecKeepsList, PTL

\* The packets of the buffer have sequence numbers and timestamps.
Typed == \A p \in Win.buf : p.seqnum \in SeqNums /\ p.timestamp \in Stamps

\* They were pushed with them, or restamped.
LEMMA BufferTyped == ListInv => Typed
<1> SUFFICES ASSUME ListInv, NEW p \in Win.buf
             PROVE  p.seqnum \in SeqNums /\ p.timestamp \in Stamps
  BY DEF Typed
<1>1. ~freed
  <2> SUFFICES ASSUME freed PROVE FALSE
    OBVIOUS
  <2>1. DOMAIN heap = {}
    BY DEF ListInv
  <2> QED BY <2>1 DEF Win
<1>2. PICK q : Listed(q)
  BY <1>1 DEF ListInv
<1>3. PICK i \in 1 .. bufsize : p = PktAt(q, i)
  BY <1>2, PacketsOfList
<1>4. p \in Pushed(pushed)
  BY <1>2, <1>3, PacketsOfList
<1> QED BY <1>4 DEF Pushed

\* The operations that change the pointers are those that the header declares.
LEMMA HeapImplements ==
  ASSUME ListInv, Typed'
  PROVE  /\ \A q \in Win'.buf :
              /\ Push(q.seqnum, q.timestamp) => WS!Push(q.seqnum, q.timestamp)
              /\ FindAndRestamp(q.seqnum, q.timestamp) =>
                   WS!FindAndRestamp(q.seqnum, q.timestamp)
              /\ \A p \in Win.buf :
                   UpdateTimestamp(p.timestamp, q.timestamp) =>
                     WS!UpdateTimestamp(p.timestamp, q.timestamp)
         /\ \A p \in Win.buf :
              PopTimestamp(p.timestamp) => WS!PopTimestamp(p.timestamp)
         /\ PopMinTimestamp => WS!PopMinTimestamp
         /\ PopMinSeqnum => WS!PopMinSeqnum
         /\ Free => WS!Free
<1>1. \A q \in Win'.buf : q.seqnum \in SeqNums /\ q.timestamp \in Stamps
  BY DEF Typed
<1>2. ASSUME NEW q \in Win'.buf, Push(q.seqnum, q.timestamp)
      PROVE  WS!Push(q.seqnum, q.timestamp)
  <2>1. ~freed
    BY <1>2 DEF Push
  <2> QED BY <1>1, <1>2, <2>1, PushImplements
<1>3. ASSUME NEW q \in Win'.buf, FindAndRestamp(q.seqnum, q.timestamp)
      PROVE  WS!FindAndRestamp(q.seqnum, q.timestamp)
  <2>1. ~freed
    BY <1>3 DEF FindAndRestamp, Restamp
  <2> QED BY <1>1, <1>3, <2>1, FindAndRestampImplements
<1>4. ASSUME NEW q \in Win'.buf, NEW p \in Win.buf,
             UpdateTimestamp(p.timestamp, q.timestamp)
      PROVE  WS!UpdateTimestamp(p.timestamp, q.timestamp)
  <2>1. ~freed
    BY <1>4 DEF UpdateTimestamp, Restamp
  <2> QED BY <1>1, <1>4, <2>1, UpdateTimestampImplements
<1>5. ASSUME NEW p \in Win.buf, PopTimestamp(p.timestamp)
      PROVE  WS!PopTimestamp(p.timestamp)
  <2>1. ~freed
    BY <1>5 DEF PopTimestamp, window_pop_node
  <2> QED BY <1>5, <2>1, PopTimestampImplements
<1>6. PopMinTimestamp => WS!PopMinTimestamp
  BY PopMinTimestampImplements DEF PopMinTimestamp, window_pop_node
<1>7. PopMinSeqnum => WS!PopMinSeqnum
  BY PopMinSeqnumImplements DEF PopMinSeqnum, window_pop_node
<1>8. Free => WS!Free
  BY FreeImplements DEF Free
<1> QED BY <1>2, <1>3, <1>4, <1>5, <1>6, <1>7, <1>8

\* Each operation of src/window.c, with its pointers, is for every argument the
\* one that src/window.h declares, whatever the list has become;
\* window_pop_timestamp if a packet of the buffer has the timestamp.
THEOREM ListImplementsWindow == Spec => ImplementsWindow
<1>1. Init => WS!Init
  BY ListInvInit
<1>2. ListInv /\ [Next]_vars => [\A n \in Sizes : Resize(n) => WS!Resize(n)]_vars
  <2> SUFFICES ASSUME ListInv, NEW n \in Sizes, Resize(n) PROVE WS!Resize(n)
    OBVIOUS
  <2>1. n \in Nat /\ ~freed
    BY TimerAssumption DEF Resize
  <2> QED BY <2>1, ResizeImplements
<1>3. ListInv /\ [Next]_vars =>
        [pos' # pos =>
           /\ Slide => WS!Slide
           /\ \A s \in SeqNums : SlideTo(s) => WS!SlideTo(s)]_vars
  <2> SUFFICES ASSUME ListInv
               PROVE  /\ Slide => WS!Slide
                      /\ \A s \in SeqNums : SlideTo(s) => WS!SlideTo(s)
    OBVIOUS
  <2>1. Slide => WS!Slide
    BY SlideImplements DEF Slide, Moved
  <2>2. ASSUME NEW s \in SeqNums, SlideTo(s) PROVE WS!SlideTo(s)
    <3>1. ~freed
      BY <2>2 DEF SlideTo, Moved
    <3> QED BY <2>2, <3>1, SlideToImplements
  <2> QED BY <2>1, <2>2
<1>4. ListInv /\ Typed' /\ [Next]_vars =>
        [heap' # heap =>
           /\ \A q \in Win'.buf :
                /\ Push(q.seqnum, q.timestamp) => WS!Push(q.seqnum, q.timestamp)
                /\ FindAndRestamp(q.seqnum, q.timestamp) =>
                     WS!FindAndRestamp(q.seqnum, q.timestamp)
                /\ \A p \in Win.buf :
                     UpdateTimestamp(p.timestamp, q.timestamp) =>
                       WS!UpdateTimestamp(p.timestamp, q.timestamp)
           /\ \A p \in Win.buf :
                PopTimestamp(p.timestamp) => WS!PopTimestamp(p.timestamp)
           /\ PopMinTimestamp => WS!PopMinTimestamp
           /\ PopMinSeqnum => WS!PopMinSeqnum
           /\ Free => WS!Free]_vars
  BY HeapImplements
<1> QED BY <1>1, <1>2, <1>3, <1>4, BufferTyped, SpecKeepsList, PTL DEF Spec, ImplementsWindow

\* What the two peeks return.
LEMMA PeekIsFront ==
  ASSUME NEW q, Listed(q), NEW k, NEW S, FindsFront(q, k, S), bufsize # 0 => k # 0
  PROVE  peek(LocationOf(k)) = window_front(S)
<1>1. k \in 0 .. bufsize
  BY DEF FindsFront
<1>2. CASE bufsize = 0
  <2>1. k = 0 /\ Deref(LocationOf(k)) = NULL
    BY <1>1, <1>2, LocationMeans
  <2> QED BY <2>1 DEF peek, FindsFront
<1>3. CASE bufsize # 0
  <2>1. k \in 1 .. bufsize /\ Deref(LocationOf(k)) = q[k] /\ q[k] # NULL
    BY <1>1, <1>3, LocationMeans, ListParts DEF PointsTo
  <2>2. window_front(S) = {PktAt(q, k)}
    BY <2>1 DEF FindsFront
  <2> QED BY <2>1, <2>2 DEF peek, PktAt
<1> QED BY <1>2, <1>3

\* What window_pop_timestamp is about to remove.
LEMMA MatchIsPopped ==
  ASSUME NEW q, Listed(q), NEW t
  PROVE  peek(timestamp_match(t)) = window_pop_timestamp(Win, t)
<1>1. PICK k : k = SelectInSeq(Pkts, LAMBDA p : p.timestamp = t)
  OBVIOUS
<1>2. PICK S : S = {p \in Win.buf : p.timestamp = t}
  OBVIOUS
<1>3. FindsFront(q, k, S)
  BY <1>1, <1>2, FindTimestamp
<1>4. timestamp_match(t) = LocationOf(k)
  BY <1>1 DEF timestamp_match
<1>5. window_pop_timestamp(Win, t) = Popped(S)
  BY <1>2 DEF window_pop_timestamp, Popped
<1>6. CASE S # {}
  <2>1. k # 0
    BY <1>3, <1>6 DEF FindsFront
  <2> QED BY <1>3, <1>4, <1>5, <1>6, <2>1, PeekIsFront DEF Popped
<1>7. CASE S = {} /\ bufsize # 0
  <2>1. k = 0
    BY <1>3, <1>7 DEF FindsFront
  <2>2. FindsFront(q, 1, Win.buf)
    BY <1>7, FrontOfAll
  <2>3. LocationOf(k) = LocationOf(1)
    BY <2>1 DEF LocationOf
  <2>4. peek(LocationOf(1)) = window_front(Win.buf)
    BY <2>2, PeekIsFront
  <2> QED BY <1>4, <1>5, <1>7, <2>3, <2>4 DEF Popped
<1>8. CASE S = {} /\ bufsize = 0
  <2>1. Win.buf = {} /\ Popped(S) = window_front(S)
    BY <1>8, BufferSize DEF Popped
  <2> QED BY <1>3, <1>4, <1>5, <1>8, <2>1, PeekIsFront
<1> QED BY <1>6, <1>7, <1>8

\* Truth values that are equivalent are equal.
LEMMA SameTruth ==
  ASSUME NEW P \in BOOLEAN, NEW Q \in BOOLEAN, P <=> Q
  PROVE  P = Q
OBVIOUS

\* Each operation that only looks returns what its definition as a set does.
LEMMA QueriesFollow ==
  ASSUME ListInv
  PROVE  QueriesAgree
<1> SUFFICES ASSUME ~freed PROVE QueriesAgree
  BY DEF QueriesAgree
<1>1. PICK q : Listed(q)
  BY DEF ListInv
<1>2. /\ bufsize \in Nat /\ window_buffer_size(Win) = bufsize /\ Win.size = size
      /\ Win.pos = pos /\ (Win.buf = {} <=> bufsize = 0)
  BY <1>1, BufferSize, ListParts DEF Win
<1>3. list_full = window_full(Win)
  BY <1>2 DEF list_full, window_full
<1>4. list_empty = window_empty(Win)
  BY <1>2 DEF list_empty, window_empty
<1>5. list_available = window_available(Win)
  BY <1>2 DEF list_available, window_available
<1>6. ASSUME NEW s \in SeqNums
      PROVE  /\ list_find_seqnum(s) = window_front(window_find_seqnum(Win, s))
             /\ window_has(Win, s) = WS!Has(Win, s)
  <2>1. PICK k : k = SelectInSeq(Pkts, LAMBDA p : p.seqnum = s)
    OBVIOUS
  <2>2. FindsFront(q, k, window_find_seqnum(Win, s))
    BY <1>1, <2>1, FindSeqnum
  <2>3. list_find_seqnum(s) = IF k = 0 THEN {} ELSE {Pkts[k]}
    BY <2>1 DEF list_find_seqnum
  <2>4. list_find_seqnum(s) = window_front(window_find_seqnum(Win, s))
    <3>1. CASE k = 0
      BY <2>2, <2>3, <3>1 DEF FindsFront
    <3>2. CASE k # 0
      <4>1. k \in 1 .. bufsize
        BY <1>2, <2>2, <3>2 DEF FindsFront
      <4>2. Pkts[k] = PktAt(q, k)
        BY <1>1, <4>1, PacketsOfList
      <4> QED BY <2>2, <2>3, <3>2, <4>2 DEF FindsFront
    <3> QED BY <3>1, <3>2
  <2>5. window_has(Win, s) <=> WS!Has(Win, s)
    <3>1. Win.size \in 0 .. Capacity /\ Win.pos \in SeqNums
      BY <1>2 DEF ListInv
    <3> QED BY <3>1, HasIsMembership
  <2>6. window_has(Win, s) \in BOOLEAN /\ WS!Has(Win, s) \in BOOLEAN
    BY DEF window_has, WS!Has
  <2>7. window_has(Win, s) = WS!Has(Win, s)
    BY <2>5, <2>6, SameTruth
  <2> QED BY <2>4, <2>7
<1>7. list_peek_min_timestamp = window_front(window_peek_min_timestamp(Win))
  <2>1. PICK k : k = SelectInSeq(Pkts, LAMBDA p :
                       \A n \in DOMAIN heap : p.timestamp <= heap[n].pkt.timestamp)
    OBVIOUS
  <2>2. FindsFront(q, k, window_peek_min_timestamp(Win)) /\ (bufsize # 0 => k # 0)
    BY <1>1, <2>1, FindMinTimestamp
  <2>3. list_peek_min_timestamp = peek(LocationOf(k))
    BY <2>1 DEF list_peek_min_timestamp, window_find_min_timestamp
  <2> QED BY <1>1, <2>2, <2>3, PeekIsFront
<1>8. list_peek_min_seqnum = window_front(window_peek_min_seqnum(Win))
  <2>1. PICK k : k = SelectInSeq(Pkts, LAMBDA p :
                       \A n \in DOMAIN heap : p.seqnum <= heap[n].pkt.seqnum)
    OBVIOUS
  <2>2. FindsFront(q, k, window_peek_min_seqnum(Win)) /\ (bufsize # 0 => k # 0)
    BY <1>1, <2>1, FindMinSeqnum
  <2>3. list_peek_min_seqnum = peek(LocationOf(k))
    BY <2>1 DEF list_peek_min_seqnum, window_find_min_seqnum
  <2> QED BY <1>1, <2>2, <2>3, PeekIsFront
<1>9. \A t \in Stamps : peek(timestamp_match(t)) = window_pop_timestamp(Win, t)
  BY <1>1, MatchIsPopped
<1> QED BY <1>3, <1>4, <1>5, <1>6, <1>7, <1>8, <1>9 DEF QueriesAgree

\* The operations of the list that only look return what the models of the two
\* programs take them to return, whatever the list has become.
THEOREM QueriesAreRight == Spec => []QueriesAgree
BY QueriesFollow, SpecKeepsList, PTL

-----------------------------------------------------------------------------
(* The timers.                                                             *)

\* The timestamp of each buffered packet is the time its timer really expires.
TimersTell ==
  /\ \A p \in Win.buf : p.chunk \in DOMAIN deadline /\ deadline[p.chunk] = p.timestamp
  /\ \A c \in DOMAIN deadline : \E p \in Win.buf : c = p.chunk

\* The times that the sender keeps are behind the clock: that of the loop, and
\* but for the length of a timer that of the last transmission.
TimesAreBehind ==
  /\ loop_now # NoTime => loop_now \in Nat /\ ~first_call /\ loop_now <= LastRead
  /\ stamp # NoTime => stamp \in Nat /\ ~first_call /\ stamp <= LastRead + TIMER

\* Between get_timeout and select, the time that select is about to wait is no
\* longer than until the first timer expires, but for the time gone by since.
WaitsInTime ==
  /\ delay \in Nat
  /\ timeout_us = NoTime => delay = 0
  /\ timeout_us # NoTime => timeout_us \in Nat /\ loop_now = NoTime
  /\ timeout_us > 0 => \A p \in Win.buf : os + timeout_us <= first + p.timestamp + delay

\* The inductive invariant of the timers.
TimerInv == pushed <= NChunks /\ TimersTell /\ TimesAreBehind /\ WaitsInTime

\* A step that reads the clock, of which the result and the timer that begins
\* with it fit into a uint32_t.
LEMMA ReadFits ==
  ASSUME MaxTime + TIMER < ClockSpace, ClockInv, ReadClock
  PROVE  /\ Elapsed \in Nat /\ get_monotime = Elapsed
         /\ Plus(get_monotime, TIMER) = Elapsed + TIMER
         /\ LastRead' = Elapsed /\ first_call' = FALSE
         /\ ~first_call => LastRead' > LastRead /\ LastRead \in Nat
         /\ os - Elapsed <= first'
<1>1. ClockSpace \in Nat \ {0} /\ TIMER \in Nat /\ MaxTime \in Nat
  BY ClockAssumption, TimerAssumption
<1>2. Elapsed \in Nat /\ Now \in Nat /\ os <= Now /\ Elapsed <= Now
  BY DEF ClockInv, Elapsed, Now
<1>3. first' = Now - Elapsed /\ last' = Now /\ first_call' = FALSE /\ Now <= MaxTime
  BY DEF ReadClock
<1>4. LastRead' = Elapsed
  BY <1>2, <1>3 DEF LastRead
<1>5. get_monotime = Elapsed
  BY <1>1, <1>2, <1>3 DEF get_monotime
<1>6. Plus(get_monotime, TIMER) = Elapsed + TIMER
  <2>1. Elapsed + TIMER \in Nat /\ Elapsed + TIMER < ClockSpace
    BY <1>1, <1>2, <1>3
  <2>2. \A n \in Nat : n < ClockSpace => n % ClockSpace = n
    BY <1>1
  <2> QED BY <1>5, <2>1, <2>2 DEF Plus
<1>7. ASSUME ~first_call PROVE LastRead' > LastRead /\ LastRead \in Nat
  <2>1. LastRead \in Nat
    BY <1>7 DEF ClockInv, LastRead
  <2> QED BY <1>7, <2>1, ReadIsStrict
<1>8. os - Elapsed <= first'
  BY <1>2, <1>3 DEF ClockInv
<1> QED BY <1>2, <1>3, <1>4, <1>5, <1>6, <1>7, <1>8

\* What SetTimer says of the packets of the buffer.
LEMMA TimersAfter ==
  ASSUME NEW c, NEW time, SetTimer(c, time)
  PROVE  /\ \A p \in Win'.buf :
              /\ p.chunk \in DOMAIN deadline'
              /\ deadline'[p.chunk] = IF p.chunk = c THEN time ELSE deadline[p.chunk]
         /\ \A d \in DOMAIN deadline' : \E p \in Win'.buf : d = p.chunk
<1>1. Win'.buf = {heap'[x].pkt : x \in DOMAIN heap'}
  BY DEF Win
<1>2. PICK D : D = {heap'[n].pkt.chunk : n \in DOMAIN heap'}
  OBVIOUS
<1>3. deadline' = [d \in D |-> IF d = c THEN time ELSE deadline[d]]
  BY <1>2 DEF SetTimer
<1>4. \A p \in Win'.buf : p.chunk \in D
  BY <1>1, <1>2
<1>5. \A d \in D : \E p \in Win'.buf : d = p.chunk
  BY <1>1, <1>2
<1> QED BY <1>3, <1>4, <1>5

\* The packets of the buffer are told apart by their chunks.
LEMMA BufferParts ==
  ASSUME ListInv, NEW p \in Win.buf
  PROVE  /\ p \in Pushed(pushed) /\ pushed \in Nat
         /\ p.chunk \in Nat /\ p.chunk < pushed /\ p.timestamp \in Nat
         /\ \A r \in Win.buf : r.chunk = p.chunk => r = p
<1>1. ~freed
  <2> SUFFICES ASSUME freed PROVE FALSE
    OBVIOUS
  <2>1. DOMAIN heap = {}
    BY DEF ListInv
  <2> QED BY <2>1 DEF Win
<1>2. PICK q : Listed(q)
  BY <1>1 DEF ListInv
<1>3. PICK i \in 1 .. bufsize : p = PktAt(q, i)
  BY <1>2, PacketsOfList
<1>4. p \in Pushed(pushed) /\ pushed \in Nat
  BY <1>2, <1>3, PacketsOfList, ListParts
<1>5. ASSUME NEW r \in Win.buf, r.chunk = p.chunk PROVE r = p
  <2>1. PICK j \in 1 .. bufsize : r = PktAt(q, j)
    BY <1>2, PacketsOfList
  <2> QED BY <1>2, <1>3, <1>5, <2>1, PacketsDiffer
<1> QED BY <1>4, <1>5, PushedTypes

\* A packet of the buffer is transmitted again, or a NACK arrives for it.
LEMMA RestampedTimer ==
  ASSUME ListInv, TimersTell, NEW p \in Win.buf, NEW t \in Stamps,
         Win'.buf = (Win.buf \ {p}) \cup {At(p, t)}, SetTimer(p.chunk, t)
  PROVE  TimersTell'
<1>1. At(p, t).chunk = p.chunk /\ At(p, t).timestamp = t
  BY BufferParts, AtParts
<1>2. ASSUME NEW r \in Win'.buf
      PROVE  r.chunk \in DOMAIN deadline' /\ deadline'[r.chunk] = r.timestamp
  <2>1. /\ r.chunk \in DOMAIN deadline'
        /\ deadline'[r.chunk] = IF r.chunk = p.chunk THEN t ELSE deadline[r.chunk]
    BY <1>2, TimersAfter
  <2>2. CASE r = At(p, t)
    BY <1>1, <2>1, <2>2
  <2>3. CASE r \in Win.buf /\ r # p
    <3>1. r.chunk # p.chunk
      BY <2>3, BufferParts
    <3> QED BY <2>1, <2>3, <3>1 DEF TimersTell
  <2> QED BY <1>2, <2>2, <2>3
<1>3. \A d \in DOMAIN deadline' : \E r \in Win'.buf : d = r.chunk
  BY TimersAfter
<1> QED BY <1>2, <1>3 DEF TimersTell

\* The other operations leave packets out of the buffer, and add none.
LEMMA OnlyRemoves ==
  ASSUME OtherCall
  PROVE  Win'.buf \subseteq Win.buf
<1>1. ASSUME UNCHANGED heap PROVE Win'.buf \subseteq Win.buf
  BY <1>1 DEF Win
<1>2. ASSUME NEW loc, window_pop_node(loc) PROVE Win'.buf \subseteq Win.buf
  <2>1. /\ DOMAIN heap' \subseteq DOMAIN heap
        /\ \A n \in DOMAIN heap' :
             heap'[n] = IF n = loc THEN node(heap[n].pkt, heap[Deref(loc)].next) ELSE heap[n]
    BY <1>2 DEF window_pop_node
  <2>2. \A n \in DOMAIN heap' : n \in DOMAIN heap /\ heap'[n].pkt = heap[n].pkt
    BY <2>1, NodeParts
  <2> QED BY <2>2 DEF Win
<1>3. ASSUME Free PROVE Win'.buf \subseteq Win.buf
  <2>1. \A n \in DOMAIN heap' : n \in DOMAIN heap /\ heap'[n] = heap[n]
    BY <1>3 DEF Free
  <2> QED BY <2>1 DEF Win
<1>4. (\E n \in Sizes : Resize(n)) => UNCHANGED heap
  BY DEF Resize
<1>5. Slide \/ (\E s \in SeqNums : SlideTo(s)) => UNCHANGED heap
  BY DEF Slide, SlideTo, Moved
<1>6. (\E t \in Stamps : PopTimestamp(t)) \/ PopMinTimestamp \/ PopMinSeqnum =>
        \E loc : window_pop_node(loc)
  BY DEF PopTimestamp, PopMinTimestamp, PopMinSeqnum
<1> QED BY <1>1, <1>2, <1>3, <1>4, <1>5, <1>6 DEF OtherCall

\* A time that was behind the clock stays behind it.
LEMMA BehindKept ==
  ASSUME MaxTime + TIMER < ClockSpace, ClockInv, TimesAreBehind,
         ReadClock \/ UNCHANGED <<first_call, first, last>>,
         loop_now' \in {loop_now, NoTime}, stamp' = stamp
  PROVE  TimesAreBehind'
<1>0. TIMER \in Nat
  BY TimerAssumption
<1>1. CASE ReadClock
  BY <1>0, <1>1, ReadFits DEF TimesAreBehind
<1>2. CASE UNCHANGED <<first_call, first, last>>
  <2>1. LastRead' = LastRead /\ first_call' = first_call
    BY <1>2 DEF LastRead
  <2> QED BY <2>1 DEF TimesAreBehind
<1> QED BY <1>1, <1>2

\* A transmission gets a later timestamp than the one before.
LEMMA TransmittedLater ==
  ASSUME MaxTime + TIMER < ClockSpace, ClockInv, TimesAreBehind, ReadClock,
         stamp' = Plus(get_monotime, TIMER), loop_now' = loop_now
  PROVE  TimesAreBehind' /\ stamp' > stamp
<1>0. TIMER \in Nat
  BY TimerAssumption
<1>1. /\ Elapsed \in Nat /\ stamp' = Elapsed + TIMER
      /\ LastRead' = Elapsed /\ first_call' = FALSE
      /\ ~first_call => LastRead' > LastRead /\ LastRead \in Nat
  BY ReadFits
<1>2. stamp' > stamp
  <2>1. CASE stamp = NoTime
    BY <1>0, <1>1, <2>1 DEF NoTime
  <2>2. CASE stamp # NoTime
    BY <1>0, <1>1, <2>2 DEF TimesAreBehind
  <2> QED BY <2>1, <2>2
<1>3. TimesAreBehind'
  BY <1>0, <1>1 DEF TimesAreBehind
<1> QED BY <1>2, <1>3

\* Elsewhere there is nothing to say of what select waits for.
LEMMA Awake == timeout_us' = NoTime /\ delay' = 0 => WaitsInTime'
<1>1. ~(NoTime > 0)
  BY DEF NoTime
<1> QED BY <1>1 DEF WaitsInTime

\* A step that begins and ends elsewhere.
LEMMA AwakeKept ==
  ASSUME TimerInv, timeout_us = NoTime, UNCHANGED timeoutVars
  PROVE  WaitsInTime'
<1>1. delay = 0
  BY DEF TimerInv, WaitsInTime
<1> QED BY <1>1, Awake DEF timeoutVars

\* A new packet.
LEMMA SendNewTimer ==
  ASSUME MaxTime + TIMER < ClockSpace, ClockInv, ListInv, TimerInv,
         NEW s \in SeqNums, SendNew(s)
  PROVE  TimerInv' /\ stamp' > stamp
<1>1. PICK t \in Stamps :
        /\ t = Plus(get_monotime, TIMER)
        /\ Push(s, t) /\ Transmitted(Data(s, t, pushed))
  BY TimesAreStamps DEF SendNew
<1>2. /\ ReadClock /\ loop_now' = loop_now /\ UNCHANGED timeoutVars /\ pushed < NChunks
      /\ ~freed /\ timeout_us = NoTime
  BY DEF SendNew, Idle
<1>3. PICK q : Listed(q)
  BY <1>2 DEF ListInv
<1>4. Win'.buf = Win.buf \cup {Data(s, t, pushed)} /\ pushed' = pushed + 1 /\ pushed \in Nat
  BY <1>1, <1>3, PushNode, ListParts
<1>5. Data(s, t, pushed).chunk = pushed /\ Data(s, t, pushed).timestamp = t
  BY DEF Data
<1>6. SetTimer(pushed, t) /\ stamp' = t
  BY <1>1, <1>2, <1>5, ReadFits DEF Transmitted
<1>7. TimersTell'
  <2>1. ASSUME NEW r \in Win'.buf
        PROVE  r.chunk \in DOMAIN deadline' /\ deadline'[r.chunk] = r.timestamp
    <3>1. /\ r.chunk \in DOMAIN deadline'
          /\ deadline'[r.chunk] = IF r.chunk = pushed THEN t ELSE deadline[r.chunk]
      BY <1>6, TimersAfter
    <3>2. CASE r = Data(s, t, pushed)
      BY <1>5, <3>1, <3>2
    <3>3. CASE r \in Win.buf
      <4>1. r.chunk # pushed
        BY <1>4, <3>3, BufferParts
      <4> QED BY <3>1, <3>3, <4>1 DEF TimerInv, TimersTell
    <3> QED BY <1>4, <3>2, <3>3
  <2>2. \A d \in DOMAIN deadline' : \E r \in Win'.buf : d = r.chunk
    BY <1>6, TimersAfter
  <2> QED BY <2>1, <2>2 DEF TimersTell
<1>8. TimesAreBehind' /\ stamp' > stamp
  BY <1>1, <1>2, <1>6, TransmittedLater DEF TimerInv
<1>9. pushed' <= NChunks
  BY <1>2, <1>4, PacketAssumption
<1> QED BY <1>2, <1>7, <1>8, <1>9, AwakeKept DEF TimerInv

\* A retransmission.
LEMMA RetransmitTimer ==
  ASSUME MaxTime + TIMER < ClockSpace, ClockInv, ListInv, TimerInv, RetransmitOne
  PROVE  TimerInv' /\ stamp' > stamp
<1>1. ReadClock /\ loop_now' = loop_now /\ UNCHANGED timeoutVars /\ loop_now # NoTime
  BY DEF RetransmitOne
<1>2. timeout_us = NoTime /\ ~freed
  BY <1>1 DEF TimerInv, WaitsInTime, ListInv
<1>3. PICK q : Listed(q)
  BY <1>2 DEF ListInv
<1>4. PICK t \in Stamps : t = Plus(get_monotime, TIMER)
  BY TimesAreStamps
<1>5. PICK p \in Win.buf :
        Win'.buf = (Win.buf \ {p}) \cup {At(p, t)} /\ Transmitted(At(p, t))
  BY <1>3, <1>4, ResendsWhatItPeeked
<1>6. pushed' = pushed
  BY <1>3, <1>4, ResendsWhatItPeeked
<1>7. At(p, t).chunk = p.chunk /\ At(p, t).timestamp = t
  BY BufferParts, AtParts
<1>8. SetTimer(p.chunk, t) /\ stamp' = t
  BY <1>1, <1>4, <1>5, <1>7, ReadFits DEF Transmitted
<1>9. TimersTell'
  BY <1>5, <1>8, RestampedTimer DEF TimerInv
<1>10. TimesAreBehind' /\ stamp' > stamp
  BY <1>1, <1>4, <1>8, TransmittedLater DEF TimerInv
<1> QED BY <1>1, <1>2, <1>6, <1>9, <1>10, AwakeKept DEF TimerInv

\* A NACK.
LEMMA NackTimer ==
  ASSUME MaxTime + TIMER < ClockSpace, ClockInv, ListInv, TimerInv,
         NEW s \in SeqNums, HandleNack(s)
  PROVE  TimerInv' /\ pushed' = pushed
<1>1. /\ ReadClock /\ UNCHANGED <<loop_now, stamp>> /\ UNCHANGED timeoutVars
      /\ ~freed /\ timeout_us = NoTime
  BY DEF HandleNack, Idle
<1>2. PICK q : Listed(q)
  BY <1>1 DEF ListInv
<1>3. get_monotime \in Stamps /\ get_monotime = Elapsed
  BY <1>1, TimesAreStamps, ReadFits
<1>4. PICK p \in Win.buf :
        /\ Win'.buf = (Win.buf \ {p}) \cup {At(p, get_monotime)}
        /\ SetTimer(p.chunk, get_monotime)
  BY <1>2, <1>3, NackRestamps
<1>5. pushed' = pushed
  BY <1>2, NackRestamps
<1>6. TimersTell'
  BY <1>3, <1>4, RestampedTimer DEF TimerInv
<1>7. TimesAreBehind'
  BY <1>1, BehindKept DEF TimerInv
<1> QED BY <1>1, <1>5, <1>6, <1>7, AwakeKept DEF TimerInv

\* A step that leaves the buffer alone.
LEMMA BufferLeft ==
  ASSUME TimerInv, UNCHANGED windowVars, deadline' = deadline
  PROVE  pushed' <= NChunks /\ TimersTell' /\ Win'.buf = Win.buf /\ pushed' = pushed
<1>1. Win'.buf = Win.buf /\ pushed' = pushed
  BY DEF windowVars, window, Win
<1> QED BY <1>1 DEF TimerInv, TimersTell

\* The seconds and the microseconds of a timeval are the time.
LEMMA Quotient ==
  ASSUME NEW n \in Nat, NEW m \in Nat, m # 0
  PROVE  (n \div m) * m + (n % m) = n
OBVIOUS

\* get_timeout returns the time until the first timer expires, if that is to come.
LEMMA GetTimeoutTimer ==
  ASSUME MaxTime + TIMER < ClockSpace, ClockInv, ListInv, TimerInv, GetTimeout
  PROVE  TimerInv' /\ pushed' = pushed
<1>1. /\ UNCHANGED windowVars /\ UNCHANGED <<loop_now, deadline, stamp, delay>>
      /\ ~freed /\ loop_now = NoTime /\ timeout_us = NoTime
      /\ ReadClock \/ UNCHANGED clockVars
  BY DEF GetTimeout, Idle
<1>2. pushed' <= NChunks /\ TimersTell' /\ Win'.buf = Win.buf /\ pushed' = pushed
  BY <1>1, BufferLeft
<1>3. TimesAreBehind'
  BY <1>1, BehindKept DEF TimerInv, clockVars
<1>4. delay = 0 /\ delay' = 0
  BY <1>1 DEF TimerInv, WaitsInTime
<1>5. CASE timeout_us' = 0
  <2>1. WaitsInTime'
    BY <1>1, <1>4, <1>5 DEF WaitsInTime, NoTime
  <2> QED BY <1>2, <1>3, <2>1 DEF TimerInv
<1>6. CASE timeout_us' # 0
  <2>1. PICK p \in first_timer :
          /\ p.timestamp > get_monotime
          /\ timeout_us' = p.timestamp - get_monotime
          /\ ReadClock
    BY <1>6 DEF GetTimeout
  <2>2. PICK q : Listed(q)
    BY <1>1 DEF ListInv
  <2>3. p \in Win.buf /\ \A r \in Win.buf : p.timestamp <= r.timestamp
    <3>1. PICK k \in 1 .. bufsize :
            p = PktAt(q, k) /\ FindsFront(q, k, window_peek_min_timestamp(Win))
      BY <2>1, <2>2, PeekedAt DEF first_timer
    <3>2. p \in window_peek_min_timestamp(Win)
      BY <2>2, <3>1, ListParts DEF FindsFront
    <3> QED BY <3>2 DEF window_peek_min_timestamp
  <2>4. p.timestamp \in Nat /\ \A r \in Win.buf : r.timestamp \in Nat
    BY <2>3, BufferParts
  <2>5. Elapsed \in Nat /\ get_monotime = Elapsed /\ os - Elapsed <= first'
    BY <2>1, ReadFits
  <2>6. first' \in Nat /\ os \in Nat /\ os' = os
    BY <2>1, ReadIsStrict DEF ClockInv, ReadClock
  <2>7. timeout_us' \in Nat /\ timeout_us' # NoTime
    BY <2>1, <2>4, <2>5 DEF NoTime
  <2>8. \A r \in Win.buf : os' + timeout_us' <= first' + r.timestamp + delay'
    BY <1>4, <2>1, <2>3, <2>4, <2>5, <2>6
  <2>9. WaitsInTime'
    BY <1>1, <1>2, <1>4, <2>7, <2>8 DEF WaitsInTime
  <2> QED BY <1>2, <1>3, <2>9 DEF TimerInv
<1> QED BY <1>5, <1>6

\* Nothing else is sent, and no timer expires later than before.
LEMMA OtherCallTimer ==
  ASSUME MaxTime + TIMER < ClockSpace, ClockInv, ListInv, TimerInv, OtherCall
  PROVE  TimerInv' /\ pushed' = pushed
<1>1. /\ UNCHANGED <<clockVars, loop_now, stamp>> /\ UNCHANGED timeoutVars
      /\ timeout_us = NoTime /\ SetTimer(NChunks, NoTime)
  BY DEF OtherCall, Idle
<1>2. Win'.buf \subseteq Win.buf
  BY OnlyRemoves
<1>3. pushed' = pushed
  BY OtherCallKeeps
<1>4. TimersTell'
  <2>1. ASSUME NEW r \in Win'.buf
        PROVE  r.chunk \in DOMAIN deadline' /\ deadline'[r.chunk] = r.timestamp
    <3>1. /\ r.chunk \in DOMAIN deadline'
          /\ deadline'[r.chunk] = IF r.chunk = NChunks THEN NoTime ELSE deadline[r.chunk]
      BY <1>1, TimersAfter
    <3>2. r \in Win.buf
      BY <1>2
    <3>3. r.chunk # NChunks
      BY <3>2, BufferParts, PacketAssumption DEF TimerInv
    <3> QED BY <3>1, <3>2, <3>3 DEF TimerInv, TimersTell
  <2>2. \A d \in DOMAIN deadline' : \E r \in Win'.buf : d = r.chunk
    BY <1>1, TimersAfter
  <2> QED BY <2>1, <2>2 DEF TimersTell
<1>5. TimesAreBehind'
  BY <1>1, BehindKept DEF TimerInv, clockVars
<1> QED BY <1>1, <1>3, <1>4, <1>5, AwakeKept DEF TimerInv

\* The loop of retransmit_packets begins with the time at which it is called.
LEMMA StartTimer ==
  ASSUME MaxTime + TIMER < ClockSpace, ClockInv, ListInv, TimerInv, StartRetransmitting
  PROVE  TimerInv' /\ pushed' = pushed
<1>1. /\ ReadClock /\ loop_now' = get_monotime /\ timeout_us = NoTime
      /\ UNCHANGED windowVars /\ UNCHANGED timeoutVars /\ UNCHANGED <<deadline, stamp>>
  BY DEF StartRetransmitting, Idle
<1>2. pushed' <= NChunks /\ TimersTell' /\ pushed' = pushed
  BY <1>1, BufferLeft
<1>3. TimesAreBehind'
  <2>1. /\ Elapsed \in Nat /\ get_monotime = Elapsed
        /\ LastRead' = Elapsed /\ first_call' = FALSE
        /\ ~first_call => LastRead' > LastRead /\ LastRead \in Nat
    BY <1>1, ReadFits
  <2>2. TIMER \in Nat
    BY TimerAssumption
  <2> QED BY <1>1, <2>1, <2>2 DEF TimerInv, TimesAreBehind
<1> QED BY <1>1, <1>2, <1>3, AwakeKept DEF TimerInv

\* A step that leaves the buffer and what the clock has returned alone.
LEMMA QuietTimer ==
  ASSUME MaxTime + TIMER < ClockSpace, ClockInv, TimerInv,
         UNCHANGED windowVars, UNCHANGED <<first_call, first, last, deadline, stamp>>,
         loop_now' \in {loop_now, NoTime}, WaitsInTime'
  PROVE  TimerInv' /\ pushed' = pushed
<1>1. pushed' <= NChunks /\ TimersTell' /\ pushed' = pushed
  BY BufferLeft
<1>2. TimesAreBehind'
  BY BehindKept DEF TimerInv
<1> QED BY <1>1, <1>2 DEF TimerInv

\* Time that passes before select is called is counted.
LEMMA TimePassesTimer ==
  ASSUME MaxTime + TIMER < ClockSpace, ClockInv, ListInv, TimerInv, TimePasses
  PROVE  TimerInv' /\ pushed' = pushed
<1>1. /\ UNCHANGED windowVars /\ UNCHANGED <<first_call, first, last, deadline, stamp>>
      /\ loop_now' = loop_now /\ timeout_us' = timeout_us
  BY DEF TimePasses, Tick
<1>2. Win'.buf = Win.buf
  BY <1>1, BufferLeft
<1>3. WaitsInTime
  BY DEF TimerInv
<1>4. os \in Nat /\ os' \in Nat /\ os < os' /\ first \in Nat
  BY ClockAssumption DEF ClockInv, TimePasses, Tick
<1>5. CASE timeout_us > 0
  <2>1. delay' = delay + (os' - os) /\ delay \in Nat /\ timeout_us # NoTime
    BY <1>3, <1>5 DEF TimePasses, WaitsInTime, NoTime
  <2>2. delay' \in Nat /\ timeout_us \in Nat
    <3>1. os' - os \in Nat
      <4>1. \A a, b \in Nat : a < b => b - a \in Nat
        OBVIOUS
      <4> QED BY <1>4, <4>1
    <3>2. timeout_us \in Nat
      BY <1>3, <2>1 DEF WaitsInTime
    <3> QED BY <2>1, <3>1, <3>2
  <2>3. ASSUME NEW p \in Win.buf
        PROVE  os' + timeout_us <= first + p.timestamp + delay'
    <3>1. os + timeout_us <= first + p.timestamp + delay
      BY <1>3, <1>5, <2>3 DEF WaitsInTime
    <3>2. p.timestamp \in Nat
      BY <2>3, BufferParts
    <3> QED BY <1>4, <2>1, <2>2, <3>1, <3>2
  <2>4. WaitsInTime'
    BY <1>1, <1>2, <1>3, <2>1, <2>2, <2>3 DEF WaitsInTime
  <2> QED BY <1>1, <2>4, QuietTimer
<1>6. CASE ~(timeout_us > 0)
  <2>1. delay' = 0
    BY <1>6 DEF TimePasses
  <2>2. WaitsInTime'
    BY <1>1, <1>3, <1>6, <2>1 DEF WaitsInTime
  <2> QED BY <1>1, <2>2, QuietTimer
<1> QED BY <1>5, <1>6

\* The invariant of the timers is inductive, and each transmission is stamped
\* later than the one before.
LEMMA TimerInvStep ==
  ASSUME MaxTime + TIMER < ClockSpace, ClockInv, ListInv, TimerInv, [Next]_vars
  PROVE  TimerInv' /\ (RetransmitOne \/ pushed' # pushed => stamp' > stamp)
<1>1. CASE RetransmitOne
  BY <1>1, RetransmitTimer
<1>2. CASE \E s \in SeqNums : SendNew(s)
  BY <1>2, SendNewTimer
<1>3. ASSUME ~RetransmitOne, ~(\E s \in SeqNums : SendNew(s))
      PROVE  TimerInv' /\ pushed' = pushed
  <2>1. CASE \E s \in SeqNums : HandleNack(s)
    BY <2>1, NackTimer
  <2>2. CASE StartRetransmitting
    BY <2>2, StartTimer
  <2>3. CASE StopRetransmitting
    <3>1. UNCHANGED timeoutVars /\ loop_now # NoTime
      BY <2>3 DEF StopRetransmitting
    <3>2. timeout_us = NoTime
      BY <3>1 DEF TimerInv, WaitsInTime
    <3>3. WaitsInTime'
      BY <3>1, <3>2, AwakeKept
    <3> QED BY <2>3, <3>3, QuietTimer DEF StopRetransmitting, clockVars
  <2>4. CASE GetTimeout
    BY <2>4, GetTimeoutTimer
  <2>5. CASE Select
    <3>1. WaitsInTime'
      BY <2>5, Awake DEF Select
    <3> QED BY <2>5, <3>1, QuietTimer DEF Select, clockVars
  <2>6. CASE OtherCall
    BY <2>6, OtherCallTimer
  <2>7. CASE TimePasses
    BY <2>7, TimePassesTimer
  <2>8. CASE UNCHANGED vars
    <3>1. /\ UNCHANGED windowVars /\ UNCHANGED clockVars
          /\ UNCHANGED <<loop_now, timeout_us, delay, deadline, stamp>>
      BY <2>8 DEF vars, timeoutVars
    <3>2. Win'.buf = Win.buf
      BY <3>1, BufferLeft
    <3>3. WaitsInTime'
      BY <3>1, <3>2 DEF TimerInv, WaitsInTime, clockVars
    <3> QED BY <3>1, <3>3, QuietTimer DEF clockVars
  <2> QED BY <1>3, <2>1, <2>2, <2>3, <2>4, <2>5, <2>6, <2>7, <2>8 DEF Next
<1> QED BY <1>1, <1>2, <1>3

\* Nothing has been sent at first.
LEMMA TimerInvInit == Init => TimerInv
<1> SUFFICES ASSUME Init PROVE TimerInv
  OBVIOUS
<1>1. /\ heap = <<>> /\ pushed = 0 /\ loop_now = NoTime /\ timeout_us = NoTime
      /\ deadline = <<>> /\ stamp = NoTime /\ delay = 0
  BY DEF Init, WindowInit
<1>2. Win.buf = {} /\ DOMAIN deadline = {}
  BY <1>1 DEF Win
<1> QED
  BY <1>1, <1>2, PacketAssumption DEF TimerInv, TimersTell, TimesAreBehind, WaitsInTime

\* The inductive invariants of the list, the clock and the timers together.
LEMMA SpecKeepsTimers ==
  ASSUME MaxTime + TIMER < ClockSpace
  PROVE  Spec => [](ListInv /\ ClockInv /\ TimerInv)
<1>1. Init => TimerInv
  BY TimerInvInit
<1>2. ListInv /\ ClockInv /\ TimerInv /\ [Next]_vars => TimerInv'
  BY TimerInvStep
<1> QED BY <1>1, <1>2, SpecKeepsList, PTL DEF Spec

\* While the time, and the timer that begins with it, fit into a uint32_t,
\* retransmit_packets resends only what has expired, though its own time is older
\* than the clock and the packets it looks up are found by their timestamps.
THEOREM OnlyExpiredIsResent ==
  ASSUME MaxTime + TIMER < ClockSpace
  PROVE  Spec => []ResendsOnlyExpired
<1>1. ListInv /\ ClockInv /\ TimerInv => ResendsOnlyExpired
  <2> SUFFICES ASSUME ListInv, ClockInv, TimerInv, loop_now # NoTime,
                      NEW p \in Expired
               PROVE  deadline[p.chunk] <= LastRead
    BY DEF ResendsOnlyExpired
  <2>1. ~freed
    BY DEF ListInv
  <2>2. PICK q : Listed(q)
    BY <2>1 DEF ListInv
  <2>3. p \in list_peek_min_timestamp /\ p.timestamp <= loop_now
    BY DEF Expired
  <2>4. p \in Win.buf
    BY <2>2, <2>3, PeekedAt, PacketsOfList
  <2>5. deadline[p.chunk] = p.timestamp /\ p.timestamp \in Nat
    BY <2>4, BufferParts DEF TimerInv, TimersTell
  <2>6. loop_now \in Nat /\ loop_now <= LastRead /\ LastRead \in Nat
    BY DEF TimerInv, TimesAreBehind, ClockInv, LastRead
  <2> QED BY <2>3, <2>5, <2>6
<1> QED BY <1>1, SpecKeepsTimers, PTL

\* select sleeps past a timer by no more than the time between the reading of the
\* clock in get_timeout and its own call: the limit is computed from that
\* reading, which may be ahead of the clock of the system, and is taken apart
\* into seconds and microseconds.
THEOREM SelectIsLateByDelayOnly ==
  ASSUME MaxTime + TIMER < ClockSpace
  PROVE  Spec => []LateByDelayOnly
<1>1. ListInv /\ ClockInv /\ TimerInv => LateByDelayOnly
  <2> SUFFICES ASSUME ListInv, ClockInv, TimerInv, timeout_us > 0, NEW c \in DOMAIN deadline
               PROVE  wake <= first + deadline[c] + delay
    BY DEF LateByDelayOnly
  <2>1. PICK p \in Win.buf : c = p.chunk
    BY DEF TimerInv, TimersTell
  <2>2. deadline[c] = p.timestamp
    BY <2>1 DEF TimerInv, TimersTell
  <2>3. timeout_us \in Nat /\ os + timeout_us <= first + p.timestamp + delay
    BY DEF TimerInv, WaitsInTime, NoTime
  <2>4. (timeout_us \div Second) * Second + (timeout_us % Second) = timeout_us
    <3>1. Second \in Nat /\ Second # 0
      BY TimerAssumption
    <3> QED BY <2>3, <3>1, Quotient
  <2>5. wake = os + (timeout_us \div Second) * Second + (timeout_us % Second)
    BY DEF wake, micro_to_timeval
  <2>6. wake = os + timeout_us
    <3>1. /\ timeout_us \div Second \in Nat /\ timeout_us % Second \in Nat
          /\ Second \in Nat /\ os \in Nat
      BY <2>3, TimerAssumption DEF ClockInv
    <3>2. (timeout_us \div Second) * Second \in Nat
      BY <3>1
    <3> QED BY <2>3, <2>4, <2>5, <3>1, <3>2
  <2> QED BY <2>2, <2>3, <2>6
<1> QED BY <1>1, SpecKeepsTimers, PTL

\* No two transmissions share a timestamp, whether of new packets or of old ones
\* and in whatever order the timers expire.
THEOREM StampsAlwaysIncrease ==
  ASSUME MaxTime + TIMER < ClockSpace
  PROVE  Spec => StampsIncrease
<1>1. ListInv /\ ClockInv /\ TimerInv /\ [Next]_vars =>
        [RetransmitOne \/ pushed' # pushed => stamp' > stamp]_vars
  BY TimerInvStep
<1> QED BY <1>1, SpecKeepsTimers, PTL DEF Spec, StampsIncrease
=============================================================================
