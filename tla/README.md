# Verification of MaidSafe-CRUX

CRUX is a connected, ordered, retransmitting datagram protocol on top of UDP,
written as a set of Boost.Asio I/O objects (about 3500 lines of C++ headers).
This directory holds TLA+ models of it, the TLC runs that check them on small
instances, and TLAPS proofs for every value of the constants.

## 1. The system

All paths are below `src/include/maidsafe/crux/`. Everything runs in callbacks
of one `io_service`; a host with one thread runs one callback at a time, so an
action of a model is one callback or one call of the user. What makes the code
hard is that callbacks interleave in any order, that a call returns before
what it asked for is done, and that UDP loses, repeats and reorders.

| Component | State | Operations | Correct when |
|---|---|---|---|
| sequence numbers (`detail/sequence_number.hpp`) | a number on a ring | `++`, `next`, `<`, `distance` | order and distance agree with the order of sending across the wrap |
| cumulative history (`detail/cumulative_set.hpp`) | set of numbers received | `insert`, `front`, `prune` | `front()` claims nothing that has not arrived, forgets nothing, never goes back, catches up when holes are filled |
| timer (`detail/timer.hpp`) | six-valued state, an asio wait, a handler | `start`, `stop`, `fast_forward`, `set_period`, `set_handler`, destructor | the handler is called when, and only when, the comments promise |
| transmit queue (`detail/transmit_queue.hpp`) | map from number to operation, retransmission timer | `push`, `apply_ack`, `shutdown`, tick, completion of a step | stop and wait in order, nothing stalls, each handler is called once |
| socket (`socket.hpp`) | connectivity, next number, history, queue, receive queues, keepalive timer | connect, send, receive, close, `process_*` | data is delivered once, in order, intact; sends are reported done when the peer has the data; whoever waits reads |
| multiplexer (`detail/multiplexer.hpp`) | sockets by remote endpoint, accept requests, `receive_calls` | start/stop receiving, peek and dispatch, establish | one read is posted exactly while somebody waits, and the count of receive calls is right |
| acceptor (`acceptor.hpp`) | the multiplexer | accept, close | an accepted socket has a connected peer |
| service registry (`detail/service.hpp`) | multiplexers by local endpoint | add, remove | one multiplexer for each endpoint |
| header codec (`detail/header*.hpp`, encoder, decoder) | none | encode, decode | decode inverts encode |
| rest | | resolver, `concatenate`, buffer types | |

They meet as follows. A socket pushes handshakes and data into its transmit
queue, whose steps call `multiplexer::send_*`; keepalives (also the
acknowledgements) take a sequence number but pass the queue. Sockets and
acceptors ask the multiplexer to receive; the multiplexer peeks at a datagram,
finds the socket by its sender or gives it to the first accept request, and
calls the socket's `process_*` and then `process_acknowledgement`, which ends
the queued operation and calls the user's handler. Two timers act on their
own: the queue's repeats the first entry, the socket's keepalive closes it.

## 2. The modules

| Module | Models | How |
|---|---|---|
| `SequenceNumber` | `sequence_number<T, max>` | operators over the ring `0 .. Max` |
| `SequenceWindow` | numbers in use: a sender and a receiver with the rule of `is_expected_packet` | state machine: `Issue`, `Arrive(age)` |
| `SequenceProofs` | theorems about both | TLAPS |
| `CumulativeSet` | `cumulative_set` | `Insert`, `Prune`, `First` over `SequenceNumber` |
| `History`, `HistoryProofs` | a receiver's history; theorems about it | packets in any order, any number of times |
| `Alarm` | what the comments of `timer.hpp` promise | abstract specification |
| `Timer` | `timer.hpp` | the state machine with the asio wait behind it; implements `Alarm` |
| `TimerProofs` | theorems about `Timer`, its refinement of `Alarm` included | TLAPS |
| `TransmitQueue` | `transmit_queue` | a record and an operator for each member |
| `Transmission` | a transmit queue at work on a lossy network | state machine over `TransmitQueue` |
| `QueueProofs`, `TransmissionProofs` | lemmas about each operator of the queue; theorems about `Transmission` | TLAPS |
| `Header` | the header codec | operators on twelve bytes |
| `ReceiveCalls` | a host's record, `start_receive`, `stop_receive` | operators |
| `Socket` | `socket.hpp` | operators from host record to host record |
| `Multiplexer` | `process_peek`, `establish_connection`, `async_accept` | operators |
| `Pipe`, `PipeProofs` | what CRUX promises its users | abstract specification; what follows from it |
| `Connection` | client, server and network | state machine; one action per callback; implements `Pipe` |
| `ConnectionInvariant` | the inductive invariant of `Connection` | state predicates |
| `ConnectionProofs` | theorems about `Connection` and `Header`, the refinement of `Pipe` included | TLAPS |
| `Reading` | `multiplexer.hpp` with what reaches it from sockets and acceptors | operators on the record of one local endpoint with several sockets and requests |
| `Endpoint` | users, the registry, the `io_service` and the peers around that record | state machine |
| `EndpointProofs` | theorems about `Endpoint`, a lemma for each operator of `Reading` | TLAPS |

A handler of the code is one operator (`ProcessData`, `Close`, ...) that gives
the host after the whole handler, all calls it makes included; an action of
`Connection` applies it to a host and puts what the host sent into `net`. For
each host `net` is a bag of headers: a datagram repeated while the first copy
waits at a host that does not read is there twice and arrives twice, as in the
queue of its UDP socket. In a lossy network, where a datagram once sent may
arrive any number of times, one copy stands for all.

`async_send_to` may fail at the hosts in `SendErrors`. The step of a data operation
then ends with an error and leaves its entry without a timer; that of a handshake
or the keepalive that confirms one fails the assertion on the length
(`multiplexer.hpp`, 269 and 291) before any handler is called. The datagram of a
failed step is one the network may lose or deliver, so `SendErrors` goes with
`Lossy`. In `Transmission` an acknowledgement may come again, also for an
operation that was answered.

Handlers of the user that the code calls inside `process_peek` do nothing in
the model; what they would do is a later action of the user. `ReceiveCalls`
explains why this gives the same reads.

Two models look at the socket and the multiplexer, and each keeps what the
other leaves out. `Connection` has one socket on each UDP socket and follows
the data: sequence numbers, histories, queues, what users are told. `Endpoint`
has several sockets that accept, and accept requests, on one UDP socket and
follows the reading: who is counted in `receive_calls`, which peeks are posted, what the
UDP socket's queue holds, which handler finds it empty and blocks in
`receive_from`, the empty packet the multiplexer sends itself, who is in the map
and who in the queue of requests. In `Reading` an asynchronous peek leaves its
datagram where it is, so one arrival completes every peek that is posted; the
handlers run later, one by one, and each takes a datagram.

`Pipe` is the abstract promise: a stream each way, taken in order and once, and
reported as sent only when taken. `Connection` maps to it what its hosts have
sent, received, handed out and reported (`Streams`); that it implements `Pipe` is
`ImplementsPipe`.

Asserts are live: nothing in the build files defines `NDEBUG` on its own. One
that fails is noted in `failed` and the host stops there.

Operators marked "Faulty variant" are not part of a model. Each is a plausible
slip in the operator after it, kept to show that a property notices.

What is abstracted: payloads are named by their sequence number (`Garbled`
stands for data reported without being stored); a datagram of `Connection` is
the twelve bytes of its header and the name of its payload, which the receiving
host reads back with `Decode`. In `Endpoint` a packet is its sender, its type,
the handshake it acknowledges and whether its number is the expected one, which
there is a choice of the network (also for the keepalive that answers a
handshake: a listening socket that was sent two handshakes has both in its
history); a socket's transmit queue is the handshakes it
has not seen acknowledged, which are the operations a listening socket queues.
Calls the code refuses (connecting twice, sending on a closed socket) only
post an error and are left out. A socket's first number is random in the code;
`SequenceWindow`, `History` and `Transmission` start anywhere, `Connection` at
0, since it uses numbers that do not wrap; the sockets of `Endpoint` draw
theirs from one sequence, for two of them to have one in common is as likely
as any 32 bit number.

## 3. The runs

| Run | Constants | Shows |
|---|---|---|
| `SequenceWindow` | ring of 17, window 8 (the most half a ring admits), datagrams up to 15 numbers old | distance counts packets, the order tells old from new, each packet is taken once and in order |
| `History` | ring of 12, all first numbers | the four promises about `front()` |
| `Timer` | periods 1 and 2, two handlers | one wait for each state that needs one; refinement of `Alarm`; a started timer is called |
| `Transmission` | 3 operations on 4 numbers | nothing stalls, order, one answer each, answered in the end |
| `TransmissionWrap` | the same, starting at the largest number | **violated**: `InOrder` |
| `ConnectionPrompt` | three sends, three receives, no loss, no handshake repeated before there is an acceptor | no assertion fails, no count wraps, reads are counted right, everything is sent and received in the end |
| `ConnectionLossy` | two sends, two receives, loss, repetition, reordering, failing sends of the client, timeouts, closes | what is delivered, reported and accepted is right, and a close makes one false report at most; nobody waits for an acknowledgement without reading; the two sockets implement `Pipe` |
| `ConnectionEarly` | as `ConnectionPrompt`, with the handshake repeated early | **violated**: `NoFailure` |
| `ConnectionBothWays` | a send and a receive on each side | **violated**: `WaitingIsReading` |
| `ConnectionIntact` | the same, the client sends twice | **violated**: `DeliveredIntact` |
| `Endpoint` | 2 sockets, 1 acceptor, 2 peers, 2 handshakes of the sockets, loss, keepalive timeouts, closing, reuse of closed sockets | by how much `receive_calls` may be off and why; a read is posted while it is not zero; what its assertions and the blocking `receive_from` need to go wrong; every open socket is where its state says |
| `EndpointStarved` | 2 sockets, 2 peers, no loss, nobody closes | **violated**: `WaitingHears` |

The largest are `Endpoint` (2,557,132 distinct states, with the sockets and the
peers each symmetric) and `ConnectionLossy` (832,714).

### Bounds

* `Max` of the ring: all statements about the ring are about sums below twice
  its size; 12 and 17 (one odd, one even, as `middle = max / 2` treats them
  differently) have every case. The proofs are for all.
* `MaxOps`, `MaxNumbers` (`Transmission`): three operations give one active,
  one that becomes active by an acknowledgement and one waiting behind it; the
  fourth number is a keepalive's, anywhere between them.
* `Periods`, `Handlers` (`Timer`): two of each tell an old value from a new.
* `MaxNumber` (`Connection`): a host that has used its numbers stops. In the
  prompt run the number is large enough never to stop a host; in the lossy
  one 4 numbers beyond the handshake let it be repeated and two data follow.
* `Copies`: how often one datagram waits at a host that does not read. Two are
  the first and one repetition; what they do differs from one, and in
  `ConnectionEarly` two are enough.
* `ClientSends` and the like bound the users.
* `Sockets`, `Remotes`, `Acceptors` (`Endpoint`): with two sockets and two peers
  one socket waits while the other's packet comes, stops, is accepted or is
  closed, and a second peer comes to an endpoint that knows the first; both
  sockets can be closed and used again with the other's peer.
* `MaxAnswers`: two handshakes let both sockets answer, or one answer a repeated
  handshake.
* `MaxInbox` is the queue of the UDP socket. One datagram is enough for the long
  run, as a peek tells an empty queue from one that is not; more would only
  delay what a lossy network may delay anyway. `EndpointStarved` has two. The
  proofs are for any queue.
* `MaxData` bounds what a peer sends beyond its handshake.
* `CallsModulus` is the width of `receive_calls`; 16 is far above any count
  reached, and `--0` is still its largest value. In `Reading` the count is an
  integer, and -1 stands for that value.

### Fairness

* `Timer`: time passes, asio ends its waits, the `io_service` runs what is
  queued and handlers return. Users are never forced to call;
  `StartedIsCalled` says so in its premise.
* `Transmission`: the `io_service` runs completions and posted handlers; an
  acknowledgement whose datagram is sent again and again arrives at last
  (strong fairness: the network may lose infinitely many, not all).
* `ConnectionPrompt`: weak fairness of each kind of callback and of the users'
  calls together. The `io_service` queues callbacks and runs them all; in this
  run the network loses nothing, and a timer is slower than the network
  (`Idle`), as the retransmission period is meant to be. What waits at a host
  that does not read is on no network any more: its sender's timer runs out all
  the same and repeats it (`MayRepeat`). Only for the handshake this is left to
  `Early`: the run assumes that the server calls `async_accept` before the
  client's timer runs out, which the code does not enforce, and `ConnectionEarly`
  shows what happens otherwise. TLC cannot compute
  `ENABLED` of the larger actions in reasonable time; there the guard stands
  for it, which is what weak fairness says since these actions always change
  the state.

`CHECK_DEADLOCK FALSE` stands where the system may really come to an end:
destroyed timers, answered operations, users who are done, hosts that an
assertion stopped. `Endpoint` has no fairness: all it says is safety.

## 4. What the violations show

* `TransmissionWrap`: the queue is a `std::map` of raw numbers; after the wrap
  the newest operation comes first, with a number the peer does not expect.
* `ConnectionEarly`: the server's socket stays listening until its answer is
  acknowledged, and each handshake it is given meanwhile raises `receive_calls`
  (line 577), though its receive is counted already. When the client repeats its
  handshake before the server calls `async_accept`, both copies are read: the
  count goes from 2 to 3, and the assertion at 410 fails at the client's
  keepalive. Nothing was lost; the client only started too early.
* `ConnectionBothWays`: an expected keepalive (an acknowledgement) ends the
  read without starting another for the receive that waits.
* `ConnectionIntact`: such a packet also takes the buffers of the waiting
  receive with it; the next data is reported, not stored.
* `EndpointStarved`: `process_peek` takes one from `receive_calls` for a packet
  that `establish_connection` ignored as well (line 507). A socket waits for
  data, a second client's handshake comes with no accept pending: the count is
  zero, nobody reads.

`CallsAccounted`, `CountsHold`, `BlockedByRace` and `EveryoneInPlace` of
`Endpoint` say the same from the other side: the history variables `stolen`,
`repeated`, `raced` and `lost` name the only ways in which reading goes wrong,
and as long as none of them has happened the counts are exact, no assertion on
them fails and the thread does not block. The states of the run `Endpoint` include
all of them. Two are worth knowing:

* `repeated` needs no handshake sent twice. Two clients connect at once to one
  `async_accept`; the socket of the request answers both (line 577), and the
  assertion at 410 fails as in `ConnectionEarly`.
* `raced`: after the last stop its read is still posted until the empty packet
  comes. A receive that starts in between finds the count at zero and posts a
  second read (line 354). The empty packet completes both; the first handler
  takes it, the second blocks the `io_service` in `receive_from`, which the
  comment at 357-359 means to prevent.

`lost` was found by proving `CountsHold`, not by its run. A closed socket keeps its remote endpoint, so one
that is used and closed again erases the entry of the socket that came after it
(line 204); the sockets that receive can then outnumber the entries, which is
what the assertions at 340, 351-352 and 410 count. It takes four sockets and three
peers.

Some more were met and are listed as hazards without a run of their own.
`prune()` gives up at the first hole, so with 1, 2 and 5 received it
acknowledges 1, harmless while `is_expected_packet` admits no packet past a
hole. After a failed send the entry stays in the transmit queue and no timer
runs, so that with `SendErrors = TRUE` `Transmission` does not satisfy
`AnsweredEventually`. A lost final keepalive makes the server repeat its
handshake under a new number, on which the established client asserts
(`Endpoint` has this as the peer that fails). A socket that is closed with a send
under way tells its user that it succeeded, whether the peer took it or not:
`FalseSuccessIsOne` says that this is so of one send at most, since only the
first of the queue is ever under way unacknowledged.

## 5. The proofs

`SequenceProofs` proves, for every ring of at least three numbers, that the
order is total, agrees with the distance, and is the order of distances within
half the ring; and about `SequenceWindow`, for every window up to half the ring
and every lifetime of datagrams short of the ring, the three properties its run
checks. The inductive invariant is that the receiver's number is the sender's
less the packets in between (`Apart`): the numbers alone repeat, so that what a
difference of numbers means follows only from how it came about. The key lemma
is `ExpectedIsNext`: among numbers of admitted age only the next packet's is
`next()` of the newest taken.

`HistoryProofs` proves the five properties of the `History` run for every ring.
On the half circle ahead of the first number the order of the `std::set` is
that of the places (distances from the first), which are natural numbers: the
first and the last element exist because those are well founded. The key lemma
is `NoHoleMeansWhole`: around a number that is missing lie two neighbours more
than one apart, so that a set `prune()` collapses had every number up to its
last. No property is inductive by itself: `IInv` joins what the front claims,
what is remembered beyond it, and that the set is a single number or has a hole.

`TimerProofs` proves for any periods and handlers that the timer has exactly one
wait behind each state that needs one (`OneWaitHolds`), and that it implements
`Alarm` (`KeepsPromiseHolds`). `OneWait` is not inductive: `IInv` adds that at
most one wait is outstanding in all, that none waits behind a destroyed timer,
that a wait which is over has no time left, and that the timer is in its
handler just when `local_handler` holds one. The refinement goes action by
action: each call of the user is `Alarm`'s call of the same name, a tick that
begins a handler is `Fire`, and ticks ignored or restarted are stutters.

`TransmissionProofs` proves five theorems for any number of operations, any
ring and any first number; they rest on `QueueProofs`, which says once what
each operator does to entries, flying steps and timer.

| Theorem | Needs | Inductive invariant |
|---|---|---|
| `TypeOKHolds` | nothing | the queue is a record whose entries are operations |
| `NeverStalledHolds` | no send fails | itself |
| `InOrderHolds`, `SuccessMeansReachedHolds` | the numbers do not wrap | `OrderInv`: entries are ordered by number as by age, every number in use is behind the next, and a datagram under way is that of the entry its number finds |
| `OnePlaceHolds` | no send fails | `PlaceInv`: no operation waits twice, what is posted are refusals, nothing is called before it is pushed |

What they need is what the code needs: `TransmissionWrap` shows the first fails
without it, and a send that fails leaves its entry with no timer (section 4).
`NoErrors` and `NoWrap` are hypotheses of the theorems, not assumptions of the
modules.

`ConnectionProofs` proves what a connection promises, for any range of numbers
below 2^32, any number of sends and receives, and over a network that loses,
repeats and reorders while timers run out and users close at any moment.

| Theorem | Says |
|---|---|
| `DecodeInvertsEncode` | what a peer decodes of a header is what was encoded, for 32 bit numbers, with an acknowledgement or none |
| `TypeOKHolds` | the fields keep their types; `receive_calls` does not wrap |
| `DeliveredInOrderHolds` | data is handed out in the order of sending and without a gap |
| `DoneMeansTakenHolds` | nobody is told of a send before the peer took it |
| `AcceptedMeansConnectedHolds` | an accepted socket has a connected peer |
| `UnackedIsReadingHolds` | who waits for an acknowledgement reads |
| `Refines` | all of it: `Connection` implements `Pipe` |

None of these is inductive: that data is in order depends on what numbers mean,
on what the packets still in the network say, and on the acknowledgements both
sides have given. The inductive invariant `IInv` (`ConnectionInvariant`) has a
part for each.

* `Sound` of one host: a number was given to one datagram only, data was given
  rising numbers, and each header given to the network (`WireOf`) is one that
  was sent and acknowledges a number that was taken.
* `Whole`: what was taken is `0 .. f` and the history is its last number. The
  acknowledgement in a header is the front of the history, so this is what
  makes an acknowledgement true.
* `Stable` adds what holds between two callbacks only: a read is posted exactly
  while `receive_calls` is positive (`OneRead`), who has a datagram queued
  receives, and a receive waits only for want of data.
* `ClientInv` and `ServerInv`: the phases of the handshake on each side. A
  listening socket took nothing but number 0 and has its answer queued; one in
  the map was accepted.
* `Heard`: what a host took, handed out and told its user, against what its
  peer sent and took. `Cross`: the handshake as both see it.

A callback is proved in two layers. A lemma for each operator of `Socket` and
`Multiplexer` says what it does to one host and which fields it leaves alone
(`DataMeans`, `AcknowledgementMeans`, `DispatchMeans`, ...). Then every action
of `Connection` is shown to be a `Turn`: one host goes from a stable record to
a stable record, and either took no packet (`Acts`) or took one its peer had
sent (`Hears`). `TurnKeeps` proves the invariant once for both, and
`TurnStreams` the refinement: in the abstract stream a turn sends at most one
piece, takes at most one and hands out at most one. The assumption
`WidthAssumption` says that the numbers fit the 32 bits `encoder::put` writes.
TLC checks `IInv` on the constants of `ConnectionLossy` when the run is given
`ConnectionInvariant` and `INVARIANT IInv`.

Loss, early retransmissions and data in both directions break what
`ConnectionPrompt` checks (section 4), and so does a handshake repeated before it
is read, so that its four invariants are theorems under the hypothesis `OneWay`:
the network loses nothing and keeps the order, the retransmission timer does not
run out while an answer is on its way, the client does not repeat its handshake
before there is an acceptor (`~Early`), only the client sends and only the server
receives. Without `~Early` the first two are false of the code, as
`ConnectionEarly` shows. Other datagrams may wait at a host that does not read in
any number of copies. Any number of sends and receives and any range of numbers
is allowed, and unlike in the run the users close and the keepalive timers run out
at any moment.

| Theorem | Says |
|---|---|
| `NoFailureHolds` | no assertion fails |
| `CallsCountedHolds` | `receive_calls` is what receives |
| `ReadPostedHolds` | one read is posted while someone waits |
| `WaitingIsReadingHolds` | who waits for data reads |

The argument is that the handshake is over when it is over. `CalmInv`, which is
inductive together with `IInv`, says in `CalmNet` that a handshake is in the
network only while its receiver has taken nothing, and in one copy, that the answer to it is
there (`Answer`) until the client took it, and that the client's keepalive, number 1
(`Confirmation`), is there until the server accepts. As it was sent before any
data it arrives first: this is where order is needed, as data at a socket that
still listens would be dropped and take the count of its request with it. Hence no
handshake reaches an established socket (the assertion of `process_handshake`),
and no socket that answered is given a second one (which would count it twice).
A repeated handshake would be both: `ClientTicks` and `ServerTicks` show that
the timer finds none queued unless it is needed. `CalmClient` and `CalmServer`
give what each phase counts, and `Even` carries the count through the operators
of one callback, in which it may be one too many. A host that has closed is
`Over`: nothing it still runs sends, counts or takes anything, so that what the
network holds for its peer stays as it was, and the peer stays calm. TLC checks
`CalmInv` on the constants of `ConnectionPrompt`, also with `Timeouts` and
`Closing`.

`PipeProofs` proves what the promise is worth to a user: whatever implements
`Pipe` delivers a prefix of what was sent, and reports only what arrived.

`EndpointProofs` proves six properties of `Endpoint`, for any finite sets of
sockets and peers, any acceptors, and any bounds.

| Theorem | Says |
|---|---|
| `EndpointTypeCorrect` | the record keeps its type |
| `CallsAreAccounted` | `receive_calls` is too low only after a packet was read that no receive was for, too high only after one came to a socket that had answered |
| `ReadIsPosted` | somebody reads while it is not zero |
| `OnlyARaceBlocks` | `receive_from` blocks only if a receive started while a read was there and none was counted |
| `BoundsHold` | the assertions that bound `receive_calls` fail only after a packet took a foreign receive, a socket was answered twice or one lost its entry |
| `EveryoneIsInPlace` | a socket that was never closed is listening while a request asks for it, and once established is in the map for the peer that acknowledged it, and nowhere else |

The inductive invariant is `TypeOK` with `Sound(host, 0)`, which says of the
count, the reads and the blocked thread what the theorems say, and `NoneLeft`,
that no receive is counted at an endpoint that nobody holds any more. `Sound` has a second argument
because inside `process_peek` it does not hold: a receiving socket ceases to
receive, or starts again, before the call it stood for is taken off at the end.
The argument is that difference, which each operator changes by a known amount
and the last line of `process_peek` brings back to nothing. Each operator of
`Reading` has a lemma that says which fields it moves and what it does to the
sum, and each action of `Endpoint` a step that cites those.

`BoundsHold` needs more, because the assertions compare the count of receives
with the size of the map and of the queue of requests. By `Accounted` the count
is at most that of the sockets that receive plus the requests, so the question
is why every socket that receives has a place of its own. The second invariant,
`Placed`, has three parts. `Place`: who receives is attached, and is in the map,
or is the socket of the first request, or is `lost`; who is attached is in the
map, or in a request, or `lost`, or was never connected. `Known`: the answers of
a socket name it, an answer that is handed back belongs to a socket that was
closed, and an established socket has a remote endpoint; without it a handler
could move a socket that is none of its own. The third part says that an
assertion that failed had its cause before it (`Marked`). `FewReceive` turns
this into the inequality by an injection of the sockets that receive into the
entries of the map and the first request. `Served` says what one packet may
change of all this: the state of the one socket it is for, to established, and
only by an acknowledgement of that socket's own answer. `NextPlaces` then goes over the
actions as `Invariance` did.

`EveryoneIsInPlace` depends on who gets which packet, for a packet given to the
wrong socket could establish it with a peer that acknowledged another. The third
invariant, `HomeNow`, follows a packet from its sender to the socket. `Promised`:
a peer that got a handshake was sent it, and gets no second one without failing.
`Heard`: what a packet in the receive queue acknowledges is what its sender got.
`InFront`: until a race, the read that has completed is the only one and
`next_remote_endpoint` names the sender of the datagram in front; this is what
the race destroys, and why the property excepts it. `Home` is the property with
what makes it inductive: a socket is asked for by one request, one that is asked
for is attached, and a UDP socket with entries is open. The step that matters is
`establish_connection`: the first request's socket was listening, so only an
acknowledgement of its own answer established it, whose destination is the
sender (`AcceptedAtHome`), and the sender has no entry, so that the socket gets
one. A packet for a socket in the map changes nothing (`DispatchAtHome`), and
what closing leaves to run concerns closed sockets only (`ShutAtHome`).

Every invariant that a passing run checks is a theorem but for
`FalseSuccessIsOne`, which is only model-checked. So is liveness, which is out of
the prover's reach: `StartedIsCalled`, `AnsweredEventually` and that of
`ConnectionPrompt`. Neither `Early` nor a network that loses is covered by
`NoFailureHolds` and the three theorems beside it.

## 6. Not modelled, and the plan

Not modelled:

* connecting by host name and name resolution (`resolver.hpp` and the loop of
  `socket.hpp` over addresses): I/O around `async_connect`;
* buffer concatenation, an iterator adaptor, but for the receive buffers it
  lends to the read of a packet (`LendBuffers`);
* in `Endpoint`, sockets that connect from a shared local endpoint: their states
  (`connecting` and `handshaking`, `socket_base.hpp`, 53-54), their handshakes
  and what they send with `async_send`. `Connection` has a connecting socket, but
  alone on its UDP socket;
* the handler that would close a socket whose keepalive could not be sent
  (`socket.hpp`, 805): with live assertions the one on the length comes first,
  and the host stops there (`ConfirmationFails`);
* the end of sending a keepalive that acknowledges data, whose handler does
  nothing; where it fails the same assertion stops the host;
* calls refused because of the socket's state, which only post an error;
* peeks and receives the system reports as failed, and datagrams longer than the
  buffers of the receive;
* several local endpoints in one registry, which do not meet, and the random
  first numbers;
* peers that restart from the same endpoint (the comment at `socket.hpp:821`
  leaves this open), and the alignment the decoder asserts;
* hosts that run their `io_service` in several threads (comments in
  `socket.hpp` mark the places that are not thread-safe);
* the tests, the examples and the build files, which were read as statements about
  the program.

Plan:

* connecting by host name, with the second address tried on a socket that is
  no longer closed (listed as a hazard).
