-------------------------- MODULE ConnectionProofs --------------------------
(***************************************************************************)
(* How far the start-up of the two programs can be relied on, for any      *)
(* number of senders, any ports, any order of their steps and any fault of *)
(* the path.                                                               *)
(***************************************************************************)
EXTENDS Reception, SequenceTheorems, TLAPS

Names == {"nobody", "args", "file", "address", "socket", "wait", "loop", "exit"}

\* The fields of a socket, whatever they hold.
IsSocket(s) ==
  /\ s = [open |-> s.open, local |-> s.local, peer |-> s.peer,
          remote |-> s.remote, queue |-> s.queue]
  /\ s.queue \in Seq(ToSet(s.queue))

SocketsInv ==
  /\ step = [p \in Procs |-> step[p]]
  /\ port = [p \in Procs |-> port[p]]
  /\ sock = [p \in Procs |-> sock[p]]
  /\ \A p \in Procs : IsSocket(sock[p])

\* A sender that is past its arguments has a port, and one that is past its
\* socket is connected.
SenderInv ==
  \A s \in Senders :
    /\ step[s] \in {"address", "socket", "file", "loop"} => port[s] > 0
    /\ step[s] \in {"file", "loop"} => sock[s].peer = Receiver

\* The receiver is in its loop only after connect.
ReceiverInv == step[Receiver] = "loop" => sock[Receiver].peer \in Senders

ConnectionInv == SocketsInv /\ SenderInv /\ ReceiverInv /\ PeekedIsNext

-----------------------------------------------------------------------------
\* No process is called like a step of main.
LEMMA NamesDiffer ==
  /\ \A p \in Procs : p \notin Names
  /\ Receiver \notin Senders /\ Receiver \in Procs /\ Senders \subseteq Procs
BY ConnectionAssumption DEF Procs, Names

\* The socket of a process that has none.
LEMMA ClosedIsSocket == IsSocket(Closed)
BY DEF IsSocket, Closed, ToSet, Nobody

\* At the start no process has a socket.
LEMMA InvInit == ConnectionInit => ConnectionInv
<1> SUFFICES ASSUME ConnectionInit PROVE ConnectionInv
  OBVIOUS
<1>1. SocketsInv
  BY ClosedIsSocket DEF ConnectionInit, SocketsInv
<1> QED BY <1>1, NamesDiffer
        DEF ConnectionInit, ConnectionInv, SenderInv, ReceiverInv, PeekedIsNext, Names

\* A step that leaves all sockets alone.
LEMMA SocketsStay ==
  ASSUME ConnectionInv, UNCHANGED sock, NEW p \in Procs, NEW x, NEW q \in Procs, NEW n,
         step' = [step EXCEPT ![p] = x],
         port' = port \/ port' = [port EXCEPT ![q] = n]
  PROVE  SocketsInv'
BY DEF ConnectionInv, SocketsInv, IsSocket

\* A step of one process keeps the invariant if it does at that process.
LEMMA OneProcessMoves ==
  ASSUME ConnectionInv, SocketsInv', NEW p \in Procs,
         \A q \in Procs : q # p => /\ step'[q] = step[q]
                                  /\ port'[q] = port[q]
                                  /\ sock'[q] = sock[q],
         p \in Senders =>
           /\ step'[p] \in {"address", "socket", "file", "loop"} => port'[p] > 0
           /\ step'[p] \in {"file", "loop"} => sock'[p].peer = Receiver,
         p = Receiver => ReceiverInv' /\ PeekedIsNext'
  PROVE  ConnectionInv'
<1>1. SenderInv'
  BY NamesDiffer DEF ConnectionInv, SenderInv
<1>2. ReceiverInv' /\ PeekedIsNext'
  BY NamesDiffer DEF ConnectionInv, ReceiverInv, PeekedIsNext
<1> QED BY <1>1, <1>2 DEF ConnectionInv

\* parse_args lets no port 0 through.
LEMMA ParsedPort ==
  ASSUME NEW arg \in PortArgs, parse_args(arg).ok
  PROVE  parse_args(arg).port > 0
<1>1. arg % PortSpace \in Nat
  BY ConnectionAssumption
<1>2. parse_args(arg).ok = (arg % PortSpace # 0 /\ arg % PortSpace < PortSpace)
  BY Zenon DEF parse_args
<1>3. parse_args(arg).port = arg % PortSpace
  BY DEF parse_args
<1>4. arg % PortSpace # 0
  BY <1>2, Zenon
<1> QED BY <1>1, <1>3, <1>4

\* A process that goes on from its arguments has a port.
LEMMA InvParseArgs ==
  ASSUME ConnectionInv, NEW p \in Procs, ParseArgs(p), step'[p] # "exit"
  PROVE  ConnectionInv'
<1>1. PICK arg \in PortArgs :
        /\ parse_args(arg).ok
        /\ port' = [port EXCEPT ![p] = parse_args(arg).port]
        /\ GoOn(p, IF p = Receiver THEN "file" ELSE "address")
        /\ UNCHANGED <<sock, refused>>
  BY DEF ParseArgs, Exit, ConnectionInv, SocketsInv
<1>2. parse_args(arg).port > 0
  BY <1>1, ParsedPort
<1>3. sock' = sock /\ SocketsInv'
  BY <1>1, SocketsStay DEF GoOn
<1>4. port'[p] > 0 /\ step'[p] = IF p = Receiver THEN "file" ELSE "address"
  BY <1>1, <1>2 DEF GoOn, ConnectionInv, SocketsInv
<1>5. \A q \in Procs : q # p => step'[q] = step[q] /\ port'[q] = port[q]
  BY <1>1 DEF GoOn, ConnectionInv, SocketsInv
<1>6. p = Receiver => ReceiverInv' /\ PeekedIsNext'
  BY <1>4, NamesDiffer DEF ReceiverInv, PeekedIsNext, Names
<1>7. p \in Senders => step'[p] = "address"
  BY <1>4, NamesDiffer
<1> QED BY <1>3, <1>4, <1>5, <1>6, <1>7, OneProcessMoves

\* An exit, wherever it happens, closes the socket.
LEMMA InvExit ==
  ASSUME ConnectionInv, NEW p \in Procs, Exit(p)
  PROVE  ConnectionInv'
<1>1. SocketsInv'
  BY ClosedIsSocket DEF Exit, ConnectionInv, SocketsInv
<1>2. step'[p] = "exit"
  BY DEF Exit, ConnectionInv, SocketsInv
<1>3. \A q \in Procs : q # p => /\ step'[q] = step[q]
                               /\ port'[q] = port[q]
                               /\ sock'[q] = sock[q]
  BY DEF Exit, ConnectionInv, SocketsInv
<1>4. p = Receiver => ReceiverInv' /\ PeekedIsNext'
  BY <1>2, NamesDiffer DEF ReceiverInv, PeekedIsNext, Names
<1> QED BY <1>1, <1>2, <1>3, <1>4, OneProcessMoves

\* Opening the file and resolving the address leave the socket alone.
LEMMA InvOpenFile ==
  ASSUME ConnectionInv, NEW p \in Procs, OpenFile(p) \/ real_address(p)
  PROVE  ConnectionInv'
<1>0. port' = port /\ sock' = sock
  BY DEF OpenFile, real_address
<1>1. \/ /\ step[p] = "file"
         /\ GoOn(p, IF p = Receiver THEN "address" ELSE "loop")
      \/ step[p] = "address" /\ GoOn(p, "socket")
  BY DEF OpenFile, real_address
<1>2. SocketsInv'
  BY <1>0, <1>1, SocketsStay DEF GoOn
<1>3. /\ step'[p] \in {"socket", "address", "loop"}
      /\ step'[p] = "loop" => p # Receiver /\ step[p] = "file"
  BY <1>1 DEF GoOn, ConnectionInv, SocketsInv
<1>4. \A q \in Procs : q # p => step'[q] = step[q]
  BY <1>1 DEF GoOn, ConnectionInv, SocketsInv
<1>5. p \in Senders =>
        /\ port[p] > 0
        /\ step'[p] \in {"file", "loop"} => sock[p].peer = Receiver
  BY <1>1, <1>3 DEF GoOn, ConnectionInv, SenderInv
<1>6. p = Receiver => ReceiverInv' /\ PeekedIsNext'
  BY <1>3, NamesDiffer DEF ReceiverInv, PeekedIsNext, Names
<1> QED BY <1>0, <1>2, <1>4, <1>5, <1>6, OneProcessMoves

\* The socket of a sender is connected at once, as its port is not 0.
LEMMA InvCreateSocket ==
  ASSUME ConnectionInv, NEW p \in Procs, CreateSocket(p)
  PROVE  ConnectionInv'
<1>1. \A a, b, c : IsSocket(create_socket(a, b, c))
  BY ClosedIsSocket DEF IsSocket, create_socket, Closed
<1>2. SocketsInv'
  BY <1>1 DEF CreateSocket, GoOn, ConnectionInv, SocketsInv
<1>3. step'[p] = IF p = Receiver THEN "wait" ELSE "file"
  BY DEF CreateSocket, GoOn, ConnectionInv, SocketsInv
<1>4. \A q \in Procs : q # p => /\ step'[q] = step[q]
                               /\ port'[q] = port[q]
                               /\ sock'[q] = sock[q]
  BY DEF CreateSocket, GoOn, ConnectionInv, SocketsInv
<1>5. p \in Senders => port'[p] > 0 /\ sock'[p].peer = Receiver
  <2> SUFFICES ASSUME p \in Senders PROVE port'[p] > 0 /\ sock'[p].peer = Receiver
    OBVIOUS
  <2>1. port' = port /\ port[p] > 0
    BY DEF CreateSocket, ConnectionInv, SenderInv
  <2>2. sock'[p] = create_socket(0, Receiver, port[p])
    BY NamesDiffer DEF CreateSocket, ConnectionInv, SocketsInv
  <2> QED BY <2>1, <2>2 DEF create_socket
<1>6. p = Receiver => ReceiverInv' /\ PeekedIsNext'
  BY <1>3, NamesDiffer DEF ReceiverInv, PeekedIsNext, Names
<1> QED BY <1>2, <1>4, <1>5, <1>6, OneProcessMoves

\* The datagram peeked at stays in the queue.
LEMMA InvPeek ==
  ASSUME ConnectionInv, NEW from \in Senders, Peek(from)
  PROVE  ConnectionInv'
<1>1. sock' = sock
  BY NamesDiffer DEF Peek, AfterPeek, ConnectionInv, SocketsInv, IsSocket
<1>2. SocketsInv'
  BY <1>1, SocketsStay, NamesDiffer DEF Peek, GoOn
<1>3. step'[Receiver] = from
  BY NamesDiffer DEF Peek, GoOn, ConnectionInv, SocketsInv
<1>4. \A q \in Procs : q # Receiver => step'[q] = step[q]
  BY DEF Peek, GoOn, ConnectionInv, SocketsInv
<1>5. ReceiverInv'
  BY <1>3, NamesDiffer DEF ReceiverInv, Names
<1>6. PeekedIsNext'
  BY <1>1, <1>3 DEF Peek, PeekedIsNext
<1>7. port' = port
  BY DEF Peek
<1> QED BY <1>1, <1>2, <1>4, <1>5, <1>6, <1>7, NamesDiffer, OneProcessMoves

\* The receiver connects to the address it was given.
LEMMA InvConnect ==
  ASSUME ConnectionInv, NEW from \in Senders, Connect(from)
  PROVE  ConnectionInv'
<1>1. SocketsInv'
  <2>1. \A s : IsSocket(s) => IsSocket([s EXCEPT !.peer = from])
    BY DEF IsSocket
  <2>2. sock'[Receiver] = [sock[Receiver] EXCEPT !.peer = from]
    BY NamesDiffer DEF Connect, ConnectionInv, SocketsInv
  <2>3. \A p \in Procs : p # Receiver => sock'[p] = sock[p]
    BY DEF Connect, ConnectionInv, SocketsInv
  <2>4. \A p \in Procs : IsSocket(sock'[p])
    BY <2>1, <2>2, <2>3, NamesDiffer DEF ConnectionInv, SocketsInv
  <2> QED BY <2>4, NamesDiffer DEF Connect, GoOn, ConnectionInv, SocketsInv
<1>2. /\ sock'[Receiver].peer = from
      /\ \A s \in Senders : step'[s] = step[s] /\ sock'[s] = sock[s]
      /\ step'[Receiver] = "loop"
  BY NamesDiffer DEF Connect, GoOn, ConnectionInv, SocketsInv, IsSocket
<1> QED BY <1>1, <1>2, NamesDiffer
        DEF Connect, ConnectionInv, SenderInv, ReceiverInv, PeekedIsNext, Names

\* A sequence over any set is one over its elements.
LEMMA SequenceOfItsElements ==
  ASSUME NEW S, NEW q \in Seq(S)
  PROVE  q \in Seq(ToSet(q))
<1>1. Len(q) \in Nat /\ DOMAIN q = 1 .. Len(q) /\ q \in [1 .. Len(q) -> S]
  BY LenProperties
<1>2. q \in [1 .. Len(q) -> ToSet(q)]
  BY <1>1 DEF ToSet
<1> QED BY <1>1, <1>2, SeqDef

\* What is appended to a queue leaves its first element where it is.
LEMMA AppendKeepsHead ==
  ASSUME NEW q, q \in Seq(ToSet(q)), NEW m
  PROVE  /\ Append(q, m) \in Seq(ToSet(Append(q, m)))
         /\ q # <<>> => Append(q, m) # <<>> /\ Head(Append(q, m)) = Head(q)
<1> DEFINE S == ToSet(q) \cup {m}
<1>1. q \in Seq(S)
  BY DEF ToSet
<1>2. Append(q, m) \in Seq(S) /\ Len(Append(q, m)) = Len(q) + 1
  BY <1>1
<1>3. q # <<>> => Append(q, m) # <<>> /\ Head(Append(q, m)) = Head(q)
  BY <1>1, <1>2
<1>4. Append(q, m) \in Seq(ToSet(Append(q, m)))
  BY <1>2, SequenceOfItsElements
<1> QED BY <1>3, <1>4

\* What is left of a queue is a queue.
LEMMA TailIsSequence ==
  ASSUME NEW q, q \in Seq(ToSet(q)), q # <<>>
  PROVE  Tail(q) \in Seq(ToSet(Tail(q)))
<1>1. Tail(q) \in Seq(ToSet(q))
  OBVIOUS
<1> QED BY <1>1, SequenceOfItsElements

\* A datagram joins the queue behind those that are there.
LEMMA InvArrive ==
  ASSUME ConnectionInv, NEW m, Arrive(m)
  PROVE  ConnectionInv'
<1>1. CASE m.to \in Procs /\ sock' = [sock EXCEPT ![m.to].queue = Append(@, m)]
  <2>1. SocketsInv'
    BY <1>1, AppendKeepsHead DEF Arrive, ConnectionInv, SocketsInv, IsSocket
  <2>2. \A p \in Procs :
          /\ sock'[p].peer = sock[p].peer
          /\ sock[p].queue # <<>> =>
               /\ sock'[p].queue # <<>>
               /\ Head(sock'[p].queue) = Head(sock[p].queue)
    <3> TAKE p \in Procs
    <3>1. CASE p = m.to
      <4>1. sock'[p] = [sock[p] EXCEPT !.queue = Append(@, m)]
        BY <1>1, <3>1 DEF ConnectionInv, SocketsInv
      <4>2. sock'[p].peer = sock[p].peer /\ sock'[p].queue = Append(sock[p].queue, m)
        BY <4>1 DEF ConnectionInv, SocketsInv, IsSocket
      <4> QED BY <4>2, AppendKeepsHead DEF ConnectionInv, SocketsInv, IsSocket
    <3>2. CASE p # m.to
      BY <1>1, <3>2 DEF ConnectionInv, SocketsInv
    <3> QED BY <3>1, <3>2
  <2> QED BY <2>1, <2>2, NamesDiffer
          DEF Arrive, ConnectionInv, SenderInv, ReceiverInv, PeekedIsNext
<1>2. CASE sock' = sock
  BY <1>2 DEF Arrive, ConnectionInv, SocketsInv, IsSocket, SenderInv, ReceiverInv, PeekedIsNext
<1> QED BY <1>1, <1>2 DEF Arrive, ConnectionInv, SocketsInv

\* Only a process in its loop takes from its queue.
LEMMA InvRecv ==
  ASSUME ConnectionInv, NEW p \in Procs, NEW m, Recv(p, m)
  PROVE  ConnectionInv'
<1>1. SocketsInv'
  BY TailIsSequence DEF Recv, ConnectionInv, SocketsInv, IsSocket
<1>2. \A q \in Procs : sock'[q].peer = sock[q].peer
  BY DEF Recv, ConnectionInv, SocketsInv, IsSocket
<1>3. \A q \in Procs : q # p => sock'[q] = sock[q]
  BY DEF Recv, ConnectionInv, SocketsInv
<1>4. p = Receiver => step[Receiver] \notin Senders
  BY NamesDiffer DEF Recv, Names
<1> QED BY <1>1, <1>2, <1>3, <1>4, NamesDiffer
        DEF Recv, ConnectionInv, SenderInv, ReceiverInv, PeekedIsNext

-----------------------------------------------------------------------------
\* The invariant is inductive.
LEMMA InvStep ==
  ASSUME ConnectionInv, [Next]_vars
  PROVE  ConnectionInv'
<1>1. CASE StartUp
  <2>1. CASE \E s \in Senders : Peek(s) \/ Connect(s)
    BY <2>1, InvPeek, InvConnect
  <2>2. ASSUME NEW p \in Procs,
               \/ ParseArgs(p)
               \/ OpenFile(p) \/ real_address(p)
               \/ CreateSocket(p)
               \/ StartFails(p) \/ Refused(p)
        PROVE  ConnectionInv'
    <3>1. CASE ParseArgs(p)
      BY <3>1, InvParseArgs, InvExit, NamesDiffer
         DEF ParseArgs, GoOn, ConnectionInv, SocketsInv
    <3>2. CASE OpenFile(p) \/ real_address(p)
      BY <3>2, InvOpenFile
    <3>3. CASE CreateSocket(p)
      BY <3>3, InvCreateSocket
    <3>4. CASE StartFails(p) \/ Refused(p)
      BY <3>4, InvExit DEF StartFails, Refused
    <3> QED BY <2>2, <3>1, <3>2, <3>3, <3>4
  <2> QED BY <1>1, <2>1, <2>2 DEF StartUp
<1>2. ASSUME NEW s \in Senders, Send(s)
      PROVE  ConnectionInv'
  <2>1. UNCHANGED connectionVars \/ Exit(s)
    BY <1>2 DEF Send
  <2>2. s \in Procs
    BY NamesDiffer
  <2>3. CASE UNCHANGED connectionVars
    BY <2>3 DEF connectionVars, ConnectionInv, SocketsInv, IsSocket, SenderInv, ReceiverInv, PeekedIsNext
  <2> QED BY <2>1, <2>2, <2>3, InvExit
<1>3. ASSUME NEW s \in Senders, HandleAnswer(s)
      PROVE  ConnectionInv'
  BY <1>3, InvRecv, NamesDiffer DEF HandleAnswer, Handle
<1>4. CASE HandleData
  BY <1>4, InvRecv, NamesDiffer DEF HandleData, Handle
<1>5. CASE Damage \/ Lose \/ UNCHANGED vars
  <2>1. UNCHANGED connectionVars
    BY <1>5 DEF Damage, Lose, vars
  <2> QED BY <2>1 DEF connectionVars, ConnectionInv, SocketsInv, IsSocket, SenderInv, ReceiverInv, PeekedIsNext
<1>6. CASE Deliver
  BY <1>6, InvArrive DEF Deliver
<1> QED BY <1>1, <1>2, <1>3, <1>4, <1>5, <1>6 DEF Next

\* The invariant holds.
LEMMA InvAlways == Spec => []ConnectionInv
<1>1. Init => ConnectionInv
  BY InvInit DEF Init
<1>2. ConnectionInv /\ [Next]_vars => ConnectionInv'
  BY InvStep
<1> QED BY <1>1, <1>2, PTL DEF Spec

\* No process calls send on a socket that is not connected, whatever port it is
\* given, whichever step of its start-up fails and whoever else is there.
THEOREM LoopsAreConnected == Spec => []LoopsConnected
<1>1. ConnectionInv => LoopsConnected
  BY NamesDiffer DEF ConnectionInv, SenderInv, ReceiverInv, LoopsConnected, Procs, Names, Nobody
<1> QED BY <1>1, InvAlways, PTL

\* The datagram the receiver peeked at is the first that its loop takes, however
\* many senders there are and whatever arrives between peek and connect.
THEOREM PeekedStaysNext == Spec => []PeekedIsNext
<1>1. ConnectionInv => PeekedIsNext
  BY DEF ConnectionInv
<1> QED BY <1>1, InvAlways, PTL
=============================================================================
