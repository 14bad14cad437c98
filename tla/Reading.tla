------------------------------- MODULE Reading -------------------------------
(***************************************************************************)
(* detail/multiplexer.hpp, with the parts of socket.hpp and acceptor.hpp   *)
(* that reach it: one UDP socket read on behalf of several crux sockets    *)
(* that accept and of accept requests; those that connect are in           *)
(* Connection.  Every operator maps the record of the endpoint to the      *)
(* record after the operation.                                             *)
(*                                                                         *)
(* An asynchronous peek leaves its datagram in the receive queue of the    *)
(* UDP socket, so one arrival completes every peek that is posted; the     *)
(* handlers run later, one by one, and each takes a datagram with a        *)
(* synchronous receive_from, which blocks the thread on an empty queue.    *)
(***************************************************************************)
EXTENDS Integers, Sequences, FiniteSets

CONSTANTS
    Sockets,     \* crux sockets
    Acceptors,
    Remotes,     \* endpoints of peers
    MaxAnswers,  \* handshakes the crux sockets send, at most
    Nobody       \* no socket, no remote endpoint, no acceptor

ASSUME ReadingAssumption ==
    /\ IsFiniteSet(Sockets) /\ IsFiniteSet(Remotes)
    /\ MaxAnswers \in Nat
    /\ Nobody \notin Sockets \union Remotes \union Acceptors

Connectivity == {"closed", "listening", "established"}

\* A handshake of a listening socket: its sender, number and destination.
\* The sockets draw their numbers at random: no two have one in common.
Answers == [by : Sockets, n : 1 .. MaxAnswers, to : Remotes]

NoAnswer == [by |-> Nobody, n |-> 0, to |-> Nobody]

\* What arrives: of a peer's packet its sender, its type, the handshake it
\* acknowledges and whether its number is the one is_expected_packet wants.
Packets ==
    [from : Remotes, type : {"handshake", "keepalive", "data"},
     ack : Answers \union {NoAnswer}, expected : BOOLEAN]

\* What the multiplexer sends itself.
EmptyPacket == [from |-> Nobody, type |-> "empty", ack |-> NoAnswer, expected |-> TRUE]

Datagrams == Packets \union {EmptyPacket}

Requests == [acceptor : Acceptors, socket : Sockets]

Fresh ==
    [ open       |-> FALSE,   \* the UDP socket
      sockets    |-> [r \in Remotes |-> Nobody],
      requests   |-> <<>>,    \* acceptor_queue
      calls      |-> 0,       \* receive_calls; -1 is its largest value
      posted     |-> 0,       \* peeks waiting for a datagram
      ready      |-> 0,       \* peeks whose handler is due
      from       |-> Nobody,  \* next_remote_endpoint
      inbox      |-> <<>>,    \* receive queue of the UDP socket
      empties    |-> 0,       \* empty packets on their way to itself
      stuck      |-> "no",    \* receive_from blocks; what follows it
      acceptors  |-> {},      \* that exist
      closing    |-> Nobody,  \* the acceptor in disable_accept_requests_from
      \* of each crux socket
      attached   |-> {},      \* multiplexer is not null
      conn       |-> [s \in Sockets |-> "closed"],
      remote     |-> [s \in Sockets |-> Nobody],
      receiving  |-> {},      \* is_receiving; the keepalive timer runs
      waiting    |-> {},      \* a receive in receive_input_queue
      kept       |-> [s \in Sockets |-> 0],     \* receive_output_queue
      answers    |-> [s \in Sockets |-> <<>>],  \* the transmit queue
      next       |-> 1,       \* the number of the next handshake of any socket
      shut       |-> {},      \* no shutdown_indicator
      aborts     |-> {},      \* operations whose abort is posted
      flying     |-> {},      \* operations with a step that may not be over
      \* what has happened
      failed     |-> "no",    \* the assertion that failed, the call that threw
      stolen     |-> FALSE,   \* a packet was read that no receive was for
      repeated   |-> FALSE,   \* a packet came to a socket already answering
      raced      |-> FALSE,   \* a first receive came while a read was there
      lost       |-> {} ]     \* sockets without the entry that is theirs

\* Functions whose assertions fail or that throw what nobody catches.
Failures ==
    {"no", "start_receive", "stop_receive", "process_peek", "process_handshake",
     "process_acknowledgement", "local_endpoint", "local_loopback_endpoint",
     "multiplexer", "~multiplexer"}

HostRecords ==
    [ open : BOOLEAN, sockets : [Remotes -> Sockets \union {Nobody}],
      requests : Seq(Requests), calls : Int, posted : Nat, ready : Nat,
      from : Remotes \union {Nobody}, inbox : Seq(Datagrams), empties : Nat,
      stuck : {"no", "read", "nothing"}, acceptors : SUBSET Acceptors,
      closing : Acceptors \union {Nobody}, attached : SUBSET Sockets,
      conn : [Sockets -> Connectivity], remote : [Sockets -> Remotes \union {Nobody}],
      receiving : SUBSET Sockets, waiting : SUBSET Sockets,
      kept : [Sockets -> Nat], answers : [Sockets -> Seq(Answers)], next : Nat \ {0},
      shut : SUBSET Sockets, aborts : SUBSET Answers, flying : SUBSET Answers,
      failed : Failures, stolen : BOOLEAN, repeated : BOOLEAN, raced : BOOLEAN,
      lost : SUBSET Sockets ]

Entries(h) == {r \in Remotes : h.sockets[r] # Nobody}

\* Those who may receive: sockets in the map and accept requests.
Receivers(h) == Cardinality(Entries(h)) + Len(h.requests)

Fail(h, what) == [h EXCEPT !.failed = what]
-----------------------------------------------------------------------------
(* do_start_receive: a datagram that is there completes the peek at once,  *)
(* as does a closed UDP socket.                                            *)
DoStartReceive(h) ==
    IF ~ h.open THEN [h EXCEPT !.ready = @ + 1]
    ELSE IF h.inbox # <<>> /\ h.posted = 0
    THEN [h EXCEPT !.ready = @ + 1, !.from = Head(h.inbox).from]
    ELSE [h EXCEPT !.posted = @ + 1]

\* Faulty variant: every caller posts a read.
StartReceiveAlways(h) ==
    IF h.calls \notin 0 .. Receivers(h) + 1 THEN Fail(h, "start_receive")
    ELSE DoStartReceive([h EXCEPT !.calls = @ + 1])

(* start_receive: the first caller posts the read. *)
StartReceive(h) ==
    LET h1 == [h EXCEPT !.calls = @ + 1]
    IN  IF h.calls \notin 0 .. Receivers(h) + 1 THEN Fail(h, "start_receive")
        ELSE IF h.calls # 0 THEN h1
        ELSE DoStartReceive([h1 EXCEPT !.raced = @ \/ h.posted + h.ready > 0])

(* stop_receive: the last caller sends an empty packet to itself to bring  *)
(* the posted read to its end; local_endpoint of a closed socket throws.   *)
StopReceive(h) ==
    IF h.calls \notin 1 .. Receivers(h) + 1 THEN Fail(h, "stop_receive")
    ELSE IF h.calls # 1 THEN [h EXCEPT !.calls = @ - 1]
    ELSE IF h.open THEN [h EXCEPT !.calls = 0, !.empties = @ + 1]
    ELSE Fail([h EXCEPT !.calls = 0], "local_loopback_endpoint")

(* discard_message, then nothing more or another read. *)
Discard(h, then) ==
    LET h1 == [h EXCEPT !.inbox = Tail(@)]
    IN  IF h.inbox = <<>> THEN [h EXCEPT !.stuck = then]
        ELSE IF then = "read" THEN DoStartReceive(h1) ELSE h1

(* A datagram reaches the UDP socket: it ends a blocked receive_from or    *)
(* completes the peeks posted.                                             *)
Arrived(h, d) ==
    LET h1 == [h EXCEPT !.stuck = "no"]
    IN  IF ~ h.open THEN h
        ELSE IF h.stuck # "no"
        THEN IF h.stuck = "read" THEN DoStartReceive(h1) ELSE h1
        ELSE IF h.posted = 0 THEN [h EXCEPT !.inbox = Append(@, d)]
        ELSE [h EXCEPT !.inbox = Append(@, d), !.from = d.from,
                       !.ready = @ + h.posted, !.posted = 0]
-----------------------------------------------------------------------------
(* crux::socket *)
IdempotentStartReceive(h, s) ==
    IF s \in h.receiving THEN h
    ELSE IF s \notin h.attached THEN Fail(h, "multiplexer")
    ELSE StartReceive([h EXCEPT !.receiving = @ \union {s}])

\* Faulty variant: a socket stops whether it was receiving or not.
StopReceiveAnyway(h, s) == StopReceive([h EXCEPT !.receiving = @ \ {s}])

IdempotentStopReceive(h, s) ==
    IF s \in h.receiving THEN StopReceive([h EXCEPT !.receiving = @ \ {s}]) ELSE h

\* Faulty variant: the receive that was served stays.
StillReceiving(h, s) == h

OnAnyPacketReceived(h, s) == [h EXCEPT !.receiving = @ \ {s}]

RestartIfUnacknowledged(h, s) ==
    IF h.answers[s] # <<>> THEN IdempotentStartReceive(h, s) ELSE h

\* The step of the operation at the front is started.
Started(h, s) ==
    IF h.answers[s] # <<>>
    THEN [h EXCEPT !.flying = @ \union {Head(h.answers[s])}] ELSE h

SendHandshake(h, s, r) ==
    LET a  == [by |-> s, n |-> h.next, to |-> r]
        h1 == IdempotentStartReceive([h EXCEPT !.next = @ + 1], s)
        h2 == [h1 EXCEPT !.answers[s] = Append(@, a)]
    IN  IF s \notin h.attached THEN Fail(h, "multiplexer")
        ELSE IF h.answers[s] = <<>> THEN Started(h2, s) ELSE h2

\* The handler of the operation (777-793).
AnswerHandler(h, a, error) ==
    IF error THEN [h EXCEPT !.conn[a.by] = "closed"]
    ELSE [h EXCEPT !.conn[a.by] = "established", !.remote[a.by] = a.to]

ProcessHandshake(h, s, r) ==
    LET h1 == OnAnyPacketReceived(h, s)
    IN  IF h.conn[s] = "listening" THEN SendHandshake(h1, s, r)
        ELSE Fail(h1, "process_handshake")

ProcessKeepalive(h, s, expected) ==
    LET h1 == OnAnyPacketReceived(h, s)
    IN  IF expected THEN h1 ELSE IdempotentStartReceive(h1, s)

ProcessData(h, s, expected) ==
    LET h1 == OnAnyPacketReceived(h, s)
        h2 == IF s \in h.waiting THEN [h1 EXCEPT !.waiting = @ \ {s}]
              ELSE [h1 EXCEPT !.kept[s] = @ + 1]
    IN  IF expected THEN RestartIfUnacknowledged(h2, s)
        ELSE IdempotentStartReceive(h1, s)

Without(q, i) == SubSeq(q, 1, i - 1) \o SubSeq(q, i + 1, Len(q))

\* transmit_queue::apply_ack: the operation leaves; at the front the next is
\* started.
ApplyAck(h, s, a) ==
    IF \E i \in DOMAIN h.answers[s] : h.answers[s][i] = a
    THEN LET i  == CHOOSE j \in DOMAIN h.answers[s] : h.answers[s][j] = a
             h1 == [h EXCEPT !.answers[s] = Without(@, i)]
         IN  AnswerHandler(IF i = 1 THEN Started(h1, s) ELSE h1, a, FALSE)
    ELSE h

ProcessAcknowledgement(h, s, a) ==
    IF a = NoAnswer \/ h.failed # "no" THEN h
    ELSE IF h.conn[s] = "closed" THEN Fail(h, "process_acknowledgement")
    ELSE RestartIfUnacknowledged(ApplyAck(h, s, a), s)

\* multiplexer::process_handshake, process_keepalive and process_data
Dispatch(h, s, d) ==
    LET h1 == CASE d.type = "handshake" -> ProcessHandshake(h, s, d.from)
                [] d.type = "keepalive" -> ProcessKeepalive(h, s, d.expected)
                [] d.type = "data"      -> ProcessData(h, s, d.expected)
    IN  ProcessAcknowledgement(h1, s, d.ack)

(* close.  The registry forgets nothing: the socket still holds the        *)
(* multiplexer (service::remove).  remove() takes the entry of its remote  *)
(* endpoint from the map, whoever is there, and closes the UDP socket when *)
(* the map is empty.                                                       *)
EntryOf(h, s) == {h.sockets[r] : r \in Remotes \intersect {h.remote[s]}}

Remove(h, s) ==
    LET left == [r \in Remotes |-> IF r = h.remote[s] THEN Nobody ELSE h.sockets[r]]
        h1   == [h EXCEPT !.sockets = left, !.attached = @ \ {s},
                          !.lost = @ \union (EntryOf(h, s) \ {s, Nobody})]
    IN  IF \E r \in Remotes : left[r] # Nobody THEN h1
        ELSE [h1 EXCEPT !.open = FALSE, !.inbox = <<>>, !.empties = 0,
                        !.ready = @ + h.posted, !.posted = 0]

Queued(h, s) == {h.answers[s][i] : i \in DOMAIN h.answers[s]}

Close(h, s) ==
    LET h1 == [h EXCEPT !.shut = @ \union {s},
                        !.aborts = @ \union Queued(h, s),
                        !.answers[s] = <<>>,
                        !.waiting = @ \ {s}]
        h2 == IdempotentStopReceive(h1, s)
    IN  IF s \notin h.attached THEN h
        ELSE IF ~ h.open THEN Fail(h1, "local_endpoint")
        ELSE IF h2.failed # "no" THEN h2 ELSE Remove(h2, s)
-----------------------------------------------------------------------------
(* acceptor::async_accept and multiplexer::async_accept *)
AsyncAccept(h, a, s) ==
    StartReceive([h EXCEPT !.conn[s] = "listening", !.attached = @ \union {s},
                           !.requests = Append(@, [acceptor |-> a, socket |-> s])])

(* acceptor::process_accept, multiplexer::add: an entry is not replaced. *)
ProcessAccept(h, s) ==
    LET r == h.remote[s]
    IN  IF h.sockets[r] = Nobody THEN [h EXCEPT !.sockets[r] = s]
        ELSE [h EXCEPT !.lost = @ \union ({s} \ {h.sockets[r]})]

\* Faulty variant: a socket that answered is accepted.
EstablishConnectionEager(h, d) ==
    LET s  == Head(h.requests).socket
        h1 == Dispatch(h, s, d)
    IN  IF h.requests = <<>> \/ d.type = "data" THEN [h EXCEPT !.stolen = TRUE]
        ELSE IF h1.failed # "no" THEN h1
        ELSE ProcessAccept([h1 EXCEPT !.requests = Tail(@), !.calls = @ - 1,
                                      !.conn[s] = "established",
                                      !.remote[s] = d.from], s)

(* establish_connection: a packet from an endpoint that is not in the map  *)
(* goes to the socket of the first request, unless there is none or it is  *)
(* data.  A socket that is now established leaves the queue for the map.   *)
EstablishConnection(h, d) ==
    LET s  == Head(h.requests).socket
        h1 == Dispatch(h, s, d)
        h2 == [h1 EXCEPT !.requests = Tail(@), !.calls = @ - 1,
                         !.stolen = @ \/ s \notin h.receiving]
    IN  IF h.requests = <<>> \/ d.type = "data" THEN [h EXCEPT !.stolen = TRUE]
        ELSE IF h1.failed # "no" THEN h1
        ELSE IF h1.conn[s] = "established" THEN ProcessAccept(h2, s)
        ELSE [h1 EXCEPT !.calls = @ + 1, !.repeated = @ \/ s \in h.receiving]

\* Faulty variant: nobody reads again.
FinishReadOnce(h) == [h EXCEPT !.calls = @ - 1]

\* Lines 507-509.
FinishRead(h) ==
    LET h1 == [h EXCEPT !.calls = @ - 1]
    IN  IF h.failed # "no" \/ h.calls = 1 THEN h1 ELSE DoStartReceive(h1)

(* process_peek: the recipient is looked up by the endpoint the last peek  *)
(* left in next_remote_endpoint, and gets the datagram that is in front.   *)
ProcessPeek(h) ==
    LET h1 == [h EXCEPT !.ready = @ - 1]
        d  == Head(h.inbox)
        h2 == [h1 EXCEPT !.inbox = Tail(@)]
        s  == IF h.from = Nobody THEN Nobody ELSE h.sockets[h.from]
        h3 == [h2 EXCEPT !.stolen = @ \/ s \notin h.receiving]
    IN  IF ~ h.open THEN h1
        ELSE IF h.calls = 0 THEN Discard(h1, "nothing")
        ELSE IF h.calls \notin 1 .. Receivers(h) + 1 THEN Fail(h1, "process_peek")
        ELSE IF h.inbox = <<>> \/ d.type = "empty" THEN Discard(h1, "read")
        ELSE FinishRead(IF s = Nobody THEN EstablishConnection(h2, d)
                        ELSE Dispatch(h3, s, d))

(* disable_accept_requests_from: the turn of the loop for the i-th request *)
DisableRequest(h, i) ==
    LET h1 == StopReceive(h)
        h2 == Close(h1, h.requests[i].socket)
    IN  IF h1.failed # "no" THEN h1
        ELSE IF h2.failed # "no" THEN h2
        ELSE [h2 EXCEPT !.requests = Without(@, i)]
=============================================================================
