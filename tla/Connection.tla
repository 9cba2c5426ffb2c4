----------------------------- MODULE Connection -----------------------------
(***************************************************************************)
(* How the two programs come to be connected: their start in main of       *)
(* src/sender.c and src/receiver.c, with parse_args, real_address,         *)
(* create_socket and wait_for_client, and the UDP sockets of the kernel.   *)
(* There may be several senders for the one receiver.                      *)
(***************************************************************************)
EXTENDS Integers, Sequences

CONSTANTS
  Senders,
  Receiver,
  PortArgs,    \* the ports given on a command line
  PortSpace    \* 2^16

\* The names of the steps of main, and of nobody, are no process's.
ASSUME ConnectionAssumption ==
  /\ Receiver \notin Senders
  /\ (Senders \cup {Receiver}) \cap
       {"nobody", "args", "file", "address", "socket", "wait", "loop", "exit"} = {}
  /\ PortArgs \subseteq Nat
  /\ PortSpace \in Nat \ {0}

Procs == Senders \cup {Receiver}

VARIABLES
  step,      \* where each process is in its main, "exit" after it
  port,      \* the port it has been given
  sock,      \* its socket
  refused    \* the processes one of whose datagrams was refused

connectionVars == <<step, port, sock, refused>>

Nobody == "nobody"

\* local is 0 if the socket is not bound to a port, remote is the port of peer.
Closed == [open |-> FALSE, local |-> 0, peer |-> Nobody, remote |-> 0,
           queue |-> <<>>]

ConnectionInit ==
  /\ step = [p \in Procs |-> "args"]
  /\ port = [p \in Procs |-> 0]
  /\ sock = [p \in Procs |-> Closed]
  /\ refused = {}

-----------------------------------------------------------------------------
(* The process.                                                            *)

GoOn(p, next) == step' = [step EXCEPT ![p] = next]

\* exit, exit_msg, exit_perror, exit_usage: the kernel closes the socket.
Exit(p) ==
  /\ step' = [step EXCEPT ![p] = "exit"]
  /\ sock' = [sock EXCEPT ![p] = Closed]
  /\ refused' = refused \ {p}
  /\ UNCHANGED port

\* A mistake: the port is checked before it becomes a uint16_t.
BUG_parse_args(arg) == [ok |-> arg # 0, port |-> arg % PortSpace]

\* A mistake: the port is kept in an int.
BUG_port_in_an_int(arg) == [ok |-> arg # 0, port |-> arg]

\* The argument becomes a uint16_t, and then is compared with 0 and 2^16.
parse_args(arg) ==
  LET p == arg % PortSpace
  IN  [ok |-> p # 0 /\ p < PortSpace, port |-> p]

ParseArgs(p) ==
  /\ step[p] = "args"
  /\ \E arg \in PortArgs :
       \/ /\ parse_args(arg).ok
          /\ port' = [port EXCEPT ![p] = parse_args(arg).port]
          /\ GoOn(p, IF p = Receiver THEN "file" ELSE "address")
          /\ UNCHANGED <<sock, refused>>
       \/ ~parse_args(arg).ok /\ Exit(p)

\* The file is opened; the sender does so last.
OpenFile(p) ==
  /\ step[p] = "file"
  /\ GoOn(p, IF p = Receiver THEN "address" ELSE "loop")
  /\ UNCHANGED <<port, sock, refused>>

real_address(p) ==
  /\ step[p] = "address"
  /\ GoOn(p, "socket")
  /\ UNCHANGED <<port, sock, refused>>

\* A socket, bound to a port if src_port > 0 and connected if dst_port > 0.
create_socket(src_port, dest, dst_port) ==
  [open |-> TRUE, local |-> src_port,
   peer |-> IF dst_port > 0 THEN dest ELSE Nobody, remote |-> dst_port,
   queue |-> <<>>]

CreateSocket(p) ==
  /\ step[p] = "socket"
  /\ sock' = [sock EXCEPT ![p] =
       IF p = Receiver THEN create_socket(port[p], Nobody, 0)
                       ELSE create_socket(0, Receiver, port[p])]
  /\ GoOn(p, IF p = Receiver THEN "wait" ELSE "file")
  /\ UNCHANGED <<port, refused>>

\* Opening, resolving, socket, bind, connect or recvfrom fails.
StartFails(p) == step[p] \notin {"args", "loop", "exit"} /\ Exit(p)

-----------------------------------------------------------------------------
(* wait_for_client.                                                        *)

\* A mistake: the first datagram is received instead of peeked at.
BUG_AfterPeek(queue) == Tail(queue)

\* The queue after recvfrom with MSG_PEEK.
AfterPeek(queue) == queue

\* recvfrom returns the address of the first datagram.
Peek(from) ==
  /\ step[Receiver] = "wait"
  /\ sock[Receiver].queue # <<>>
  /\ from = Head(sock[Receiver].queue).from
  /\ sock' = [sock EXCEPT ![Receiver].queue = AfterPeek(@)]
  /\ GoOn(Receiver, from)
  /\ UNCHANGED <<port, refused>>

\* connect, to the address that recvfrom returned.
Connect(from) ==
  /\ step[Receiver] = from
  /\ sock' = [sock EXCEPT ![Receiver].peer = from]
  /\ GoOn(Receiver, "loop")
  /\ UNCHANGED <<port, refused>>

-----------------------------------------------------------------------------
(* The kernel.                                                             *)

\* The socket of p takes datagrams from the socket of q.
Takes(p, q) ==
  /\ sock[p].open
  /\ sock[p].peer \in {Nobody, q}
  /\ p = Receiver => sock[p].local # 0 /\ sock[p].local = port[q]

\* A datagram m arrives at its destination.  If there is no socket for it, its
\* sender is told, if it still has a socket.
Arrive(m) ==
  /\ IF Takes(m.to, m.from)
     THEN /\ sock' = [sock EXCEPT ![m.to].queue = Append(@, m)]
          /\ UNCHANGED refused
     ELSE /\ refused' = refused \cup {p \in {m.from} : sock[p].open}
          /\ UNCHANGED sock
  /\ UNCHANGED <<step, port>>

\* recv in the loop of p takes the first datagram.
Recv(p, m) ==
  /\ step[p] = "loop"
  /\ p \notin refused
  /\ sock[p].queue # <<>>
  /\ m = Head(sock[p].queue)
  /\ sock' = [sock EXCEPT ![p].queue = Tail(@)]
  /\ UNCHANGED <<step, port, refused>>

\* recv or send reports that a datagram was refused, and the process exits.
Refused(p) == step[p] = "loop" /\ p \in refused /\ Exit(p)
=============================================================================
