# A verification of lossless-transport

The repository holds two programs, `sender` and `receiver`, that copy one file
over UDP with a selective-repeat protocol: a sliding window on each side,
cumulative ACKs that also echo a timestamp, NACKs for packets a router
truncated, and one retransmission timer per packet. This directory models the
protocol in TLA+, model-checks it with TLC on small instances, and proves
theorems about it with TLAPS for every value of the constants.

The source files are named as in the repository (`src/sender.c`...).

## Inventory

| component | source | state | operations |
|---|---|---|---|
| window and packet buffer | `src/window.c`, `src/window.h` | capacity, size, position, largest sequence number; a singly linked list of packets, newest first | create, slide, slide to, resize, has, push, full, empty, available, find by sequence number, peek/pop the least sequence number or timestamp, pop by timestamp, update a timestamp |
| sender | `src/sender.c` | sending window with the unacknowledged packets, `next`, `sent_eof`, the position in the file | `main_loop`: select, one answer (`handle_ack`, `handle_nack`, resize), `retransmit_packets`, one new chunk; `main`: until the end of file is acknowledged |
| receiver | `src/receiver.c` | receiving window with the packets that came ahead of their turn, the output file | `main_loop`: one datagram; ignore, NACK, or store, write what is in sequence, and ACK; for ever |
| packet format | `src/packet_implem.c`, `src/packet_interface.h` | a packet's fields, numbers in network byte order | `pkt_decode`, `pkt_encode`, getters and setters with range checks |
| clock | `src/util.c` | the time of the first call and of the last one | `get_monotime`: microseconds in 32 bits, strictly increasing; `micro_to_timeval` |
| connection set-up | `src/util.c`, `wait_for_client` in `src/receiver.c` | sockets, with a queue in the kernel | `parse_args`, `real_address`, `create_socket`; the receiver peeks at the first datagram and connects to its sender |
| command line, logging, exits | `src/util.c` | - | the port argument; exits, at which the kernel closes the socket; the rest is pure input and output |
| tests | `tests/` | - | unit tests of the window and of the packet format; none of the two loops |

The two programs share nothing but the datagrams. Each is sequential; what is
concurrent is sender, receiver and network. There are no callbacks and no
locks, and nothing is persisted: a program that exits is not restarted.

What is hard about it, and hence what the properties are about:

- *ordering*: cumulative ACKs that are old, or that overtake each other, change
  the sender's buffer and its window;
- *timers against answers*: a packet sent again gets a new timestamp, and the
  timestamp is what an ACK is matched by;
- *sequence numbers that wrap around* after 256 packets;
- *loss of answers*: the receiver does not answer packets out of its window;
- *limits*: the window the receiver advertises is out of date when it arrives;
- *progress*: both programs sleep until something arrives or expires;
- *the clock*: it must be strict although the clock of the system may stand
  still, and is computed with in 32 bits;
- *the decoder*: everything it lets through is taken for the peer's word, and
  the length it trusts comes from the datagram itself;
- *the start*: the two programs start in any order, each of their steps may
  fail, and there may be other senders.

What makes each component correct:

- *window*: the window may wrap around and still has exactly `size` sequence
  numbers; the buffer never exceeds its capacity; popping by timestamp or
  sequence number yields the packet asked for or none;
- *sender*: never forgets a packet the receiver does not have, never sends
  beyond the receiver's window, does not retransmit without a cause, ends
  exactly when all is acknowledged;
- *receiver*: writes every chunk once and in order, acknowledges only what it
  has, never runs out of buffer;
- *packet format*: what is encoded is decoded again, and exactly the datagrams
  `packet_interface.h` allows are decoded, without reading beyond them;
- *clock*: no two readings are equal; a timer does not ring early, and is slept
  through by no more than the delay before `select` is called;
- *connection set-up*: no loop runs on a socket without a peer, and the first
  packet the receiver sees is that of the sender it is connected to;
- *both together*: the output file is always a prefix of the input file, and is
  the input file in the end.

The full list of hazards, each at its line and with the properties that would
notice it going wrong, is `hazards` in `PROJECT.json`.

## Modules

| module | extends | models |
|---|---|---|
| `Packet` | | the fields of DATA, ACK and NACK packets the protocol reads |
| `Window` | `Packet` | the operations of `src/window.c` as operators on a record `[size, pos, buf]` |
| `Network` | `Packet` | the two directions of the path and its faults; external to the code |
| `Sender` | `Window`, `Network` | `src/sender.c` |
| `Receiver` | `Window`, `Network` | `src/receiver.c` |
| `FileCopy` | | the abstract specification: an output file that grows by the next chunks of the input file, and a sender that quits only when it is whole |
| `Transport` | `Sender`, `Receiver` | the composition and all properties |
| `MCTransport` | `Transport` | the kinds of networks the runs use |
| `WindowSpec` | `Window` | what `src/window.h` declares: one action per operation that changes a window |
| `WindowList` | `Window` | `src/window.c`: the linked list with its nodes and pointers |
| `StrictClock` | | the abstract specification of `get_monotime` in `src/util.h` |
| `Monotime` | | `get_monotime` in `src/util.c`, and the clock of the system |
| `TimedWindow` | `WindowList`, `Monotime` | the list and the clock as the sender's timers use them; the properties of both |
| `MCTimedWindow` | `TimedWindow` | the symmetry of the run `timed_window` |
| `PacketInterface` | | what `src/packet_interface.h` declares: sizes, types, codes, the layout of a datagram and which ones are valid |
| `PacketCodec` | `PacketInterface` | `src/packet_implem.c`: getters, setters, `pkt_encode`, `pkt_decode` |
| `Connection` | | the start of both programs, and the sockets of the kernel |
| `Reception` | `Connection`, `PacketCodec` | a packet's way from one program into the other; the properties of both |
| `MCReception` | `Reception` | the payloads and the symmetry the runs use |
| `TransportProofs` | `Transport` | type correctness and the lemmas shared by the next four |
| `DeliveryProofs` | `TransportProofs` | the output file, the room in the receiver, the wedge |
| `AnswerProofs` | `DeliveryProofs` | timestamps and ACKs |
| `OrderProofs` | `AnswerProofs` | over a path that keeps the order: nothing is lost, the window advances |
| `CopyProofs` | `OrderProofs` | flow control, retransmissions, and the refinement of `FileCopy` |
| `TimedWindowProofs` | `TimedWindow` | the list and its operations against `WindowSpec`, the clock, the timers |
| `ConnectionProofs` | `Reception` | the start |
| `CodecProofs` | `ConnectionProofs` | encoding, damage and decoding |

Three compositions are checked: `Transport` (the protocol, with the window as a
set and time as an order), `TimedWindow` (the window as a list and time as a
32-bit number) and `Reception` (packets as datagrams and peers as sockets). The
first abstracts from what the other two are about; `WindowSpec` and
`StrictClock` are the joints: `TimedWindow` is checked and proved to implement
them with the same operators of `Window` that `Transport` is built from.

### How state and actions correspond to the code

**Window.** `buf` is the *set* of buffered packets, where the code has a list.
The order of the list shows only where an operation returns the first of
several candidates, or the front when there is none (`window_pop_timestamp`);
the sender pushes chunks in order and only changes timestamps afterwards, so
the front is the packet with the largest chunk (`window_front`). `Window`, from
which `Sender` and `Receiver` are built, does what `window.c` does;
`WindowSpec` says what `window.h` declares. The two differ in one place:
`window_pop_timestamp` with a timestamp that no packet has is declared to return
NULL and change nothing, but pops the front (finding 3).

`ImplementsWindow` of `TimedWindow` says that every operation of the list, with its
arguments, is the operation of the same name in `WindowSpec`;
`window_pop_timestamp` if a packet has the timestamp. It is stated operation by
operation because a refinement mapping does not see arguments: a call that pops
the front by mistake could pass for one with the front's own timestamp. That
the list also pops what `Window` says when no packet has the timestamp, so that
`Sender` does with it what the code does, is part of `QueriesAgree`.

**The list.** In `WindowList` a node has an address out of `Nodes`, the heap maps
the allocated addresses to nodes, and `calloc` may return any free one, also one
just freed (`timed_window` takes the addresses to be symmetric). `window_pop_node` and its callers work on a pointer to a pointer:
`FrontRef` for `&w->front`, else the node whose `next` it points to. `cur[i]`
is the pointer of a walk after `i` steps. An operation is one action; so is
`handle_nack`'s finding a packet and restamping it. The caller obeys the
assertions of `window.c` (it resizes within the capacity, does not push into a
full window and does not use the window after `window_free`).

**Clock.** `Monotime` counts microseconds from the start of the system's clock
(`os`), which may stand still or jump ahead between two calls. `first` and
`last` are the static variables of `get_monotime`, whose result is `last - first`
modulo `ClockSpace` (2^32). When `os` has not passed `last`, the call returns one
more than last time. The clock can so run ahead of the system's.

**Timers.** `TimedWindow` sends, restamps, resends and sleeps like the sender,
but leaves open when it does which: in between it may call any operation of the
window. `GetTimeout` reads the clock and computes the time limit, `Select`
starts to wait for that long; any time may pass between the two, as between any
other two steps (`TimePasses`). `deadline`, `stamp` and `delay` are history
variables: the real time at which a packet's timer expires, the last timestamp
sent, and the time since `get_timeout` while `select` is still to be called.

**Datagrams.** In `PacketCodec` a datagram is a sequence of cells. The first
holds the header, the second its checksum, and each further one a byte of the
payload or a checksum. A checksum is the record of what it is computed from,
with TR cleared for CRC1 as the code does: two contents never share one. The
two bytes of a length, and the four of a timestamp, are swapped by `htons` and
`htonl`, so that using a number in the wrong order shows. A setter returns its
code and the packet.

**Start.** In `Connection` a process is at a step of its `main`, named after the
call it makes next (`"args"`, `"address"`, `"socket"`, `"file"`, `"wait"`,
`"loop"`); the receiver between peek and connect is at the name of the sender it
has seen. Every step may fail and exit. A socket takes datagrams of anyone
before it is connected, and of its peer afterwards; what is in its queue stays
there (`connect` discards nothing). A datagram without a socket to go to is
refused, and the next `recv` or `send` of its sender fails.

**Reception.** Between `pkt_encode` and `pkt_decode` a datagram may be lost,
overtaken, damaged in one cell, cut to any length, or truncated by a router.
Each of these counts as a fault; a packet whose TR bit is damaged, say, needs
one and a truncated packet with a damaged length two. The buffer of `recv` is not
initialized: behind the datagram it holds what it held before, one of `Stale`.
In the runs that is zeros or any packet of a sender, which is exactly what a cut
datagram lacks; in the proofs `Stale` is any set of buffers.

**Packets.** A chunk of the file is its number; `NChunks` stands for the empty
payload that announces the end of the file. Checksums are not modelled: a
datagram that `pkt_decode` refuses is ignored by both loops and counts as lost.
(It does wake the sender, which then runs an iteration without effect.)

**Sender.** One iteration of `main_loop` is
`SelectTimeout` or `SelectAnswer`, then `RetransmitOne` for each packet
`retransmit_packets` sends again, then `SendNext` or `EndIteration`, the last of
which also evaluates the loop condition of `main`. The receiver and the network
act between any two of them. `SelectAnswer` is the whole handling of an
answer: `handle_ack` or `handle_nack`, then the resizing of the window.
`SenderFails` stands for every `exit_perror` and `exit_msg`.

**Receiver.** One action per path through `main_loop`, from `recv` to the end:
`IgnoreOutOfWindow`, `RefuseTruncated`, `AcceptData`. The `while` loop that
writes packets is described by its number of iterations `n`: the next `n`
sequence numbers are in the buffer (`IsRun`) and the loop has no reason to go on
(`RunEnds`). `FailDelivering` stops it after any number of iterations, with the
chunks written so far in the file. A chunk is written whole or not at all.

**Time.** The code stamps a packet with the time its timer expires, and the
receiver echoes that stamp, so a stamp is both a deadline and the identity of a
transmission. Both uses depend only on the order of stamps. They are therefore
numbered 1, 2, 3... in the order of transmissions, and a reading of the clock is
the last stamp that has expired by then (`loop_now`). `get_monotime` never
returns the same time twice, which is what makes stamps distinct (`ClockIsStrict`
and `StampsIncrease` of `TimedWindow`); its wrap-around after 2^32 microseconds
shows in `TimedWindow` only. A timer may expire in any order
relative to the network if `"late"` is among the faults. Without it `InTime`
says that a round trip is shorter than `TIMER`: a timer expires only when
neither its packet nor the answer is on its way.

**Network.** Each direction is a sequence of datagrams. The constant `Faults`
selects what may go wrong (loss per direction, truncation of DATA packets,
copies, reordering, late answers, failing processes); at most `MaxFaults`
losses, truncations, copies and failures happen in a behaviour. Reordering and
lateness are not counted.

**Bounds of the models.** In `Transport`: `NChunks`, `MaxFaults` and `MaxStamp`
(the number of transmissions; a transmission beyond it is disabled). In
`TimedWindow`: `NChunks` (the packets pushed), `MaxTime` (the clock of the system
stops there, and the program's is not read beyond it), `Nodes` and `Sizes` (what
the window is resized to). In `Reception`: `MaxSent` per sender, `MaxFaults`,
`Payloads`, `Bytes` and `Stale`. `Capacity` (31 in the code), `SeqSpace` (256),
`ClockSpace` (2^32), `TIMER`, `Second`, `PortSpace` (2^16), `MAX_PAYLOAD_SIZE` (512)
and `MAX_WINDOW_SIZE` (31) are parameters of the program.

**Mistakes.** The definitions named `BUG_...` are plausible mistakes: the form a
definition would have with one detail missing. Nothing uses them. Putting one in
place of the definition it belongs to must make a property fail, which shows
that the property depends on that detail (`mutants` in `PROJECT.json`).

## The runs

Constants of `Transport` are written
`NChunks / Capacity / SeqSpace / MaxStamp / MaxFaults`.

| run | constants | network | checks |
|---|---|---|---|
| `fifo_timely` | 6/4/10/11/4 | loses both ways, truncates; in order and in time | `TypeOK`, `NoUnackedDrop`, `WithinReceiverWindow`, `SendingWindowAdvances`, `Implements` |
| `any_network` | 4/3/8/5/2 | everything, and processes fail | `WrittenIsPrefix`, `RoomInReceiver`, `TimestampsIdentify`, `AcksAreTrue`, `WedgeIsPermanent` |
| `lossy_data` | 5/4/10/9/3 | loses and truncates DATA only | `RetransmissionsAnswerFaults`, `Completes` |
| `wrap_lossless` | 9/4/8/14/0 | perfect; the file wraps the sequence space | `Completes` |
| `wrap_corrupts` | 9/3/6/14/2 | loses answers; the file wraps | `WrittenIsPrefix` is violated |
| `wrap_quits_early` | 9/4/8/14/0 | perfect; the file wraps | `QuitsOnlyWhenDelivered` is violated |
| `late_answer` | 3/3/8/7/1 | loses one DATA packet, answers late | `QuitsOnlyWhenDelivered` is violated |
| `lost_ack` | 3/3/8/7/1 | loses one answer | `NeverWedged` is violated |

| run | constants | checks |
|---|---|---|
| `timed_window` | 3 packets, capacity 3, 3 sequence numbers, 3 nodes, `MaxTime` 4, `ClockSpace` 7, `TIMER` 2, sizes 1, 3 and 4 | `ListIntact`, `QueriesAgree`, `ImplementsWindow`, `ClockIsStrict`, `StampsIncrease`, `ResendsOnlyExpired`, `LateByDelayOnly` |
| `clock_wrap` | 2 packets, capacity 2, `MaxTime` 8, `ClockSpace` 6, `TIMER` 3 | `ResendsOnlyExpired` is violated |
| `reception` | 2 senders, ports 0, 1 and 4 of 4, payloads of 0, 1 and 2 bytes, one packet per sender, 2 faults, buffers of zeros or with any of a sender's packets | `TypeOK`, `EncodesAsDeclared`, `DecodesExactlyValid`, `AcceptedIsSent`, `NoOverread`, `LoopsConnected`, `PeekedIsNext` |
| `two_senders` | the same without faults | `OnlyFromPeer` is violated |

*What they show.*

`any_network`: whatever the network does to a file shorter than the sequence
space, no wrong byte is written, the receiver always has room, the assertion
in its delivery loop (`src/receiver.c:146`) holds, and every ACK, however old,
is true when the sender handles it.

`fifo_timely`: over a path that keeps the order and answers in time the whole
program refines `FileCopy`: the sender never forgets a packet that has not
arrived and quits only when the file is whole. Reordering or late answers are
excluded here because of the finding below that they break it. The sending
window, which `handle_ack` moves to the number of every ACK unseen, only moves
forward, and not past the file.

`lossy_data`: with faults of DATA packets only, the transfer comes to its end,
and every retransmission is accounted for by a fault. Losses of answers are
excluded because of the finding `lost_ack`.

`wrap_lossless`: the wrapped window works, and in the end even the errors the
sender makes around the wrap-around (`wrap_quits_early`) lose nothing if the
network loses nothing.

`timed_window`: the pointers of the list stay in order whatever is called when;
every operation has the effect that `window.h` declares, but for the pop of a
timestamp that no packet has, which has the effect that `Transport` takes it to
have; the clock is strict also when the system's stands still for several calls
and when it has run ahead; only what is due is sent again; the time limit of
`select` ends after the first timer by no more than what went by between
`get_timeout` and `select`, and that much it may.

`reception`: whatever happens to two of the datagrams, the decoder accepts
exactly what `packet_interface.h` says it must, looks at no byte that was not
received, and hands on nothing but what was sent or its truncation. Both programs
are connected whenever they are in their loop: 65536 as port is refused because
it becomes 0 (65537 is taken for 1; no document says otherwise). What a sender
sends too early is refused, and it exits.

*Why the bounds are enough.* The file is longer than the window, so the window
slides and fills; packets arrive ahead of a missing one; there are at least two
faults wherever two can interact. In the runs without wrap-around
`NChunks + Capacity <= SeqSpace`, as for a file of at most 225 packets. This is
needed: `NoUnackedDrop` fails already if only the *window* reaches over the end
of the sequence space. In the runs with wrap-around `2 * Capacity <= SeqSpace`,
the condition for selective repeat, which 31 and 256 satisfy; what goes wrong
there is not for want of sequence numbers. `MaxStamp` never cuts a behaviour of
`lossy_data` short: `RetransmissionsAnswerFaults` shows that there are at most
`NChunks + 1 + MaxFaults` transmissions, which is `MaxStamp`; nor of
`wrap_lossless`, as a sender that is not allowed to transmit is stuck, which
would violate `Completes`. In the others it is a cut-off on repeated timeouts. `WaitsIndefinitely`, the wait for the receiver to
open its window, never happens in any of them, as `RoomInReceiver` proves no
answer ever closes it.

In `timed_window` the window reaches every filling from empty to full with each
of its nodes in front, in the middle and last, shrinks below its filling, and
grows beyond its capacity (size 4, which `window_resize` refuses); sequence numbers repeat,
timestamps collide after a NACK, and the clock of the program runs ahead of the
system's. A packet is sent, expires and is sent again while another is due; two
retransmissions in one go need more time than `MaxTime` 4 leaves: that they get
different stamps is `TimestampsIdentify` in `any_network`. As
`ClockSpace > MaxTime + TIMER`, nothing wraps around there; `clock_wrap` has what
happens when it does.

In `reception` both senders reach their loops, so that the receiver may be
connected to one while the other's datagrams are queued; a payload has no, one
or all of its bytes; every field of a header takes a wrong value, and with two
faults a packet may be damaged in two places, as when TR and a length disagree.
No collision of checksums is modelled: that one remains undetected has a
probability, not a counterexample. A checksum of a header has TR = 0, so a
damaged one never is one with TR = 1.

`packet_interface.h` has a datagram accepted only if its length is valid, also
with TR = 1; the code does not look at the length then (the FIXME at
`src/packet_implem.c:82-85`). `Valid` follows the header. That
`DecodesExactlyValid` holds all the same is due to CRC1, which covers the length:
only a sender that itself declares too large a length could get one past the
decoder, and the setter of this code refuses it.

*Deadlock* is not checked: the sender returns from `main`, and the receiver then
waits in `recv` for ever. In `TimedWindow` the caller may free the window and
stop, and in `Reception` all processes may have exited.

*Fairness* (`FairSpec`, in `lossy_data` and `wrap_lossless`): weak fairness of
the sender's steps and of the receiver's steps as a whole. Both are single
loops that the operating system keeps running; a timer that is set does expire
(`select` has a time limit whenever the buffer is not empty and the sender
cannot send); and a datagram the network has not lost is in the socket's queue,
so the loop that reads it is enabled. There is no fairness of the network, and
no fairness among the alternatives within one process. `TimedWindow` and
`Reception` state no fairness: nothing in them must happen.

### Findings

1. `wrap_corrupts` - `handle_ack` compares sequence numbers as integers
   (`src/sender.c:56`). An ACK from beyond the wrap-around does not remove the
   packets before it. They stay in the buffer, are sent again, and may be
   accepted one round later and written in place of new data.
2. `wrap_quits_early` - conversely, an ACK from before the wrap-around removes
   packets numbered from 0 on that nobody has acknowledged. The sender can end
   while packets are on their way, without a fault of the network.
3. `late_answer` - `window_pop_timestamp` pops the newest packet if none has the
   timestamp (`src/window.c:177`), against its documentation
   (`src/window.h:107-109`). An ACK that comes after its packet was sent again
   makes the sender forget another packet.
4. `lost_ack` - the receiver ignores packets out of its window without
   acknowledging them again (`src/receiver.c:74`). If the ACKs of all packets in
   the sender's buffer are lost, nothing goes on. `WedgeIsPermanent` shows, and
   `WedgeStays` proves, that there is no way out.
5. `clock_wrap` - `retransmit_packets` compares 32-bit times as integers
   (`src/sender.c:108`). When the clock is about to wrap around, after 71 minutes,
   `now + TIMER` is a small number, while `loop_now`, read before the loop, is a
   large one. The packet just sent is sent again in the next iteration of that
   loop, and so on until its timestamp happens to be later than `loop_now`, "for
   which the retransmission timer has expired" (`src/sender.c:100-101`)
   notwithstanding.
6. `two_senders` - `connect` does not empty the socket's queue, so the receiver
   takes datagrams that other senders queued before for its peer's, against the
   comment at `src/receiver.c:34-35`.

Further observations without a run of their own. A NACK for a packet behind the
end of a sending window that has shrunk is ignored (`src/sender.c:83`), although
the packet is in the buffer; its timer makes up for that (`Completes`). The
comment at `src/window.h:91-94` has its two cases the wrong way round. The
receiver does not look at the type of a packet. A packet that is not stored is
not freed (`src/receiver.c:111`).

## What is proved

All theorems hold for every value of the constants that satisfies the named
assumptions of their modules. Those about `Transport` rest on `PacketAssumption`,
`WindowAssumption` (a capacity of at least one and at most the sequence space),
`NetworkAssumption` and `SenderAssumption`. The bounds `MaxStamp` and `MaxFaults`
are arbitrary natural numbers.

*Over any network*, whatever `Faults` holds:

- `TypeCorrect == Spec => []TypeOK`. `TypeOK` is not inductive: a full window
  needs a finite buffer for its cardinality to mean anything, and that the
  sender reads nothing behind the end of the file needs the relation of
  `sent_eof` and `nread`. `TypeInv` adds both, and that no stamp in the sender's
  buffer is later than the clock. One lemma per process shows that its steps
  preserve it.
- `OutputIsPrefix`: if `NChunks < SeqSpace`, then `Spec => []WrittenIsPrefix`.
  `DeliveryInv` says that every packet anywhere carries the chunk of its own
  sequence number (`Faithful`), that `next` counts the chunks read, and that the
  receiver's window is positioned at the length of the file. A run of the
  buffer at that position then is what comes next in the file (`RunIsNext`).
  The hypothesis is needed: `wrap_corrupts` is the counterexample without it.
- `ReceiverHasRoom == Spec => []RoomInReceiver`, for files of any length, wrap-
  around included. `RoomInv` says that every buffered packet is ahead of the
  window's position (by 1 to `Capacity - 1`, modulo the sequence space) and that
  no two have the same number. So there are at most `Capacity - 1`
  (`AheadAreFew`, an injection into `1 .. Capacity - 1`).
- `WedgeStays == Spec => WedgeIsPermanent`: a step from a wedged state leads to
  a wedged state, one lemma per process. The one that takes work is a
  retransmission: it must leave the number of buffered packets as it is, which
  follows from the fresh stamp (`RetransmissionKeepsSize`).
- `StampsIdentify == Spec => []TimestampsIdentify`, for files of any length. A
  packet of the sender's buffer need not have the timestamp it was sent with: a
  NACK sets it to the present, which may be the timestamp of another packet.
  `StampInv` therefore speaks of the `Genuine` ones, later than `loop_now`: those
  and what is on its way or in the receiver agree wherever timestamps are equal,
  and in `select` all are genuine, because `retransmit_packets` leaves only such.
  `SenderMoves` sums up what any step of the sender does to that set.
- `AcksStayTrue`: if `NChunks < SeqSpace`, then `Spec => []AcksAreTrue`. `AckInv`
  joins `DeliveryInv` and `StampInv` with the truth of every ACK on its way;
  `DeliveryLosesNothing` shows that a packet leaves the receiver's buffer only
  into the file.

*Over a path that keeps the order* (`Orderly`): it neither copies nor reorders
datagrams, answers come in time, and the windows stay within the sequence space
(`NChunks + Capacity <= SeqSpace`). It may lose packets and answers, truncate
packets, and either program may fail, any number of times. The runs
`late_answer`, `wrap_corrupts` and `wrap_quits_early` are what happens without
each half of the hypothesis.

- `NothingIsLost`: `Spec => []NoUnackedDrop`, and `WindowAdvances`:
  `Spec => SendingWindowAdvances`. What makes both true is that of each packet in
  the sender's buffer at most one token is on its way: its last transmission, or
  the answer to it (`DataInv`, `AnswerInv`), and its timer cannot expire before
  that token has arrived. So an ACK that arrives finds the very packet it is
  about in the buffer, and `window_pop_timestamp` never takes its wrong branch.
  `PositionInv` adds that the ACKs on their way have their sequence numbers in
  order and between the two windows, `KeepInv` that every chunk read is in the
  sender's buffer or with the receiver. `OrderInv` is the conjunction; none of its
  parts is inductive without the others.
- `NothingOverruns`: `Spec => []WithinReceiverWindow`. The window an answer
  advertises is out of date when it arrives. `FlowInv` says of each answer on its
  way that the window in it, and what will have left the sender's buffer by then
  and still waits in the receiver's (`AckedBy`), fit into the capacity together.
- `RetransmissionsAreNeeded`: if no answer is lost either (`lost_ack` is the
  other case), `Spec => []RetransmissionsAnswerFaults`. `DebtInv` counts ahead:
  the transmissions so far, and those owed for packets already known to be lost
  or truncated, do not exceed the packets read and the faults.
- `QuitMeansDelivered`: `Spec => []QuitsOnlyWhenDelivered`, and
  `TransportImplementsCopy`: `Spec => Implements`, the refinement of `FileCopy`.
  The sender is finished when its buffer is empty after the end of the file; by
  `KeepInv` the receiver then holds all of it, and the end of it.

*The list of the buffer*, for any heap and any sequence of operations:

- `ListIsIntact`: `Spec => []ListIntact`. `ListInv` says that the allocated nodes
  are those of some sequence `q` (`IsList`): no node twice, each one's `next` the
  one behind it in `q`, the packets in the order in which they were pushed. The
  walk `cur`, a recursive function, is shown to follow `q` by looking at the least
  step at which it would not (`CurWalks`). `PushNode`, `PopNode` and `RestampNode`
  exhibit the sequence after each kind of relinking; `LocationMeans` says what the
  pointer to a pointer that a search returns points to, the case of nothing found
  included.
- `ListImplementsWindow`: `Spec => ImplementsWindow`: every operation, for every
  argument, is the action of the same name in `WindowSpec`, whose
  `window_pop_timestamp` returns NULL without a match, as declared. For the list
  to do the same, a packet must have the timestamp. A search stops at the first
  node that matches, which by the order of `IsList` is the one pushed last, hence
  `window_front` (`SearchFindsFront`); one lemma per operation takes it from there
  (`PopTimestampImplements`, `FindAndRestampImplements`...).
- `QueriesAreRight`: `Spec => []QueriesAgree`, from the same invariant and
  `HasIsMembership`. `MatchIsPopped` is its part on `window_pop_timestamp`: the
  packet that goes is the one `Window` names, the front if none has the timestamp.

*The timers*, if `MaxTime + TIMER < ClockSpace`: times do not wrap around.
`clock_wrap` shows what the hypothesis keeps out.

- `TimerInv` joins the state of the program to the history variables: the
  timestamp of each buffered packet is the time its timer really expires
  (`TimersTell`), what the sender remembers of earlier readings is behind the
  clock (`TimesAreBehind`), and the limit `get_timeout` has computed reaches beyond
  no timer by more than the time gone by since (`WaitsInTime`). For `retransmit_packets` it takes
  `ResendsWhatItPeeked`: the packet that is found by the timestamp of the one that
  was peeked at is that one, though others may have the same timestamp.
- `OnlyExpiredIsResent`: `Spec => []ResendsOnlyExpired`; `StampsAlwaysIncrease`:
  `Spec => StampsIncrease`; and `SelectIsLateByDelayOnly`:
  `Spec => []LateByDelayOnly`. The last needs that the reading of the clock is never
  behind the clock of the system (`ReadFits`): at the moment of the reading the
  time limit is at most too short, and every tick before `select` adds as much to
  its end as to `delay`.

*The clock, the window and the start:*

- `ClockStaysStrict`: if `MaxTime < ClockSpace`, then `Spec => ClockIsStrict`, a
  refinement: every step of `TimedWindow` reads the clock once or not at all, and
  a reading maps to a step of `StrictClock`. `clock_wrap` shows what the
  hypothesis keeps out.
- `HasIsMembership`: `window_has` agrees with the definition in `WindowSpec` for
  every window, wrapping around or not, of size 0 up to `SeqSpace`.
- `LoopsAreConnected` and `PeekedStaysNext`, for any set of senders. Assumed is
  that no process is called like a step (`ConnectionAssumption`). `ConnectionInv`
  adds that a port is not 0 once it is parsed, and what each step of `main` has
  done to the socket.

*The decoder*, for payloads of any length, any number of damaged datagrams and
any content of the buffer behind them, with `PacketSizes` and
`ReceptionAssumption`:

- `NeverOverreads`, `DecoderIsExact`: `NoOverread` and `DecodesExactlyValid` are
  invariants. `DecodeMeans` says what `pkt_decode` returns for any well-formed
  datagram and any former content of the buffer; `FirstErrorMeans` reduces its
  checks, made in a row until one fails, to a conjunction (`Passes`), in which the
  length counts only without TR. `PassesIsValid` closes the gap to `Valid` for what
  is made from a packet that was sent: CRC1 covers the length.
- `OnlySentIsAccepted`: `Spec => []AcceptedIsSent`. `CodecInv` says that every
  datagram, on its way or in a queue, is made from the packet that was sent
  (`MadeFrom`: it may be shorter and have any header, but the checksum behind
  it is the sender's, up to TR, and each cell after that is the sender's or a
  byte), which every kind of damage preserves.
  `AcceptedMeans` is the argument from there: a datagram with the right checksums
  has the header and the payload of the packet.
- `EncodingIsDeclared`: `Spec => []EncodesAsDeclared`, if a payload's length fits
  the 16 bits of its field (512 does). `ShortSwapsBack` and `LongSwapsBack` show
  that `htons` and `htonl` are their own inverses.
- `ReceptionTypeCorrect`: `Spec => []TypeOK`; that what is queued was sent to that
  process follows from `CodecInv`, that a socket without a descriptor is `Closed`
  needs `PeekedIsNext`.

Only model-checked: `Completes`, which is liveness and out of the prover's reach.
Every other property of the passing runs is a theorem.

## Not modelled, and the plan

A larger model could join `Transport` and `Monotime`, to let a transfer run over
the wrap-around of the clock.

Left out for good:

- options, usage and messages, `pkt_fmt` and `pkt_code_to_str`: input and output;
- the allocation of packets; that of nodes is in `WindowList`;
- what name resolution returns, and that it may return several addresses;
- `pkt_set_tr` and the setters' use by the tests: no program calls them so;
- the unit tests (`tests/`), which were read as documentation, and the headers of
  CUnit (`lib/`), which is third-party code that neither program is linked with.
