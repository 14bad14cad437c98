------------------------------ MODULE Endpoint ------------------------------
(***************************************************************************)
(* One local endpoint at work: the acceptors and crux sockets that share   *)
(* its multiplexer, the registry that hands it out (service.hpp) and the   *)
(* peers that connect to it.  Every action is one callback of the          *)
(* io_service, one call of the user or one arrival; the io_service has one *)
(* thread.  What the user calls inside a handler is a later action here.   *)
(*                                                                         *)
(* A peer is a crux socket that connects once: it sends its handshake      *)
(* until one comes back, acknowledges that, may send data, and fails (the  *)
(* assertions of socket::process_handshake) on a second handshake.         *)
(***************************************************************************)
EXTENDS Reading, TLC

CONSTANTS
    MaxInbox,   \* datagrams the UDP socket keeps
    MaxData,    \* data packets a peer sends
    Lossy,      \* packets are lost, data may be out of order, timers early
    Timeouts,   \* keepalive timers run out
    Closing,    \* users close sockets and acceptors
    Reuse       \* a closed socket is used again

ASSUME EndpointAssumption ==
    /\ {MaxInbox, MaxData} \subseteq Nat
    /\ {Lossy, Timeouts, Closing, Reuse} \subseteq BOOLEAN

VARIABLES
    host,  \* the record of the endpoint
    peer,  \* what each peer has done
    wire   \* handshakes on their way to a peer

vars == <<host, peer, wire>>

Peers == [state : {"idle", "connecting", "connected", "failed"},
          got : Answers \union {NoAnswer}, sent : 0 .. MaxData]

Init ==
    /\ host = Fresh
    /\ peer = [r \in Remotes |-> [state |-> "idle", got |-> NoAnswer, sent |-> 0]]
    /\ wire = {}
-----------------------------------------------------------------------------
(* The multiplexer lives as long as a socket, an acceptor or a callback    *)
(* holds it; the registry holds a weak pointer.                            *)
Alive(h) ==
    \/ h.attached # {} \/ h.acceptors # {} \/ h.closing # Nobody
    \/ h.posted + h.ready + h.empties > 0 \/ h.stuck # "no"

(* service::add: the multiplexer that lives, whatever became of its UDP    *)
(* socket, or a new one.                                                   *)
Add(h) == IF Alive(h) THEN h ELSE [h EXCEPT !.open = TRUE]

(* ~multiplexer, when its last holder is gone *)
Settled(h) ==
    IF Alive(h) \/ h.failed # "no" THEN h
    ELSE IF Entries(h) # {} \/ h.requests # <<>> \/ h.calls # 0
    THEN Fail(h, "~multiplexer")
    ELSE [h EXCEPT !.open = FALSE, !.inbox = <<>>]

\* The operation at the front of a queue, whose step is started when it
\* comes there.
Front(h, s) == IF h.answers[s] = <<>> THEN {} ELSE {Head(h.answers[s])}

Begun(h) == UNION {Front(h, s) \ Front(host, s) : s \in Sockets}

Becomes(h) ==
    /\ host' = Settled(h)
    /\ wire' = wire \union Begun(h)

Step(h) ==
    /\ host.failed = "no" /\ host.stuck = "no" /\ host.closing = Nobody
    /\ Becomes(h)
    /\ UNCHANGED peer
-----------------------------------------------------------------------------
(* The users.  A socket lent to an acceptor is left alone until its accept *)
(* handler is called.                                                      *)
Pending(s) == \E i \in DOMAIN host.requests : host.requests[i].socket = s

Construct(a) ==
    /\ a \notin host.acceptors
    /\ Step([Add(host) EXCEPT !.acceptors = @ \union {a}])

Bind(s) ==
    /\ s \notin host.attached \union host.shut /\ host.conn[s] = "closed"
    /\ Step([Add(host) EXCEPT !.attached = @ \union {s}])

Accept(a, s) ==
    /\ a \in host.acceptors /\ host.conn[s] = "closed" /\ ~ Pending(s)
    /\ Reuse \/ s \notin host.shut
    /\ Step(AsyncAccept(host, a, s))

MayReceive(s) ==
    /\ s \in host.attached \ host.waiting
    /\ host.conn[s] = "established" /\ ~ Pending(s)

\* Faulty variant: a receive always finds data.
ReceiveUnchecked(s) ==
    /\ MayReceive(s)
    /\ Step([host EXCEPT !.kept[s] = @ - 1])

(* async_receive; the job that takes what is kept is run at once. *)
Receive(s) ==
    /\ MayReceive(s)
    /\ Step(IF host.kept[s] > 0 THEN [host EXCEPT !.kept[s] = @ - 1]
            ELSE IdempotentStartReceive([host EXCEPT !.waiting = @ \union {s}], s))

UserCloses(s) ==
    /\ Closing /\ s \in host.attached /\ ~ Pending(s)
    /\ Step(Close(host, s))

(* acceptor::close: the turns of disable_accept_requests_from follow with  *)
(* nothing between them.                                                   *)
RequestsOf(a) == {i \in DOMAIN host.requests : host.requests[i].acceptor = a}

CloseAcceptor(a) ==
    /\ Closing /\ RequestsOf(a) # {}
    /\ Step([host EXCEPT !.closing = a])

Turn(a) ==
    /\ host.failed = "no" /\ host.stuck = "no" /\ host.closing = a
    /\ \E i \in RequestsOf(a) :
        /\ \A j \in RequestsOf(a) : i <= j
        /\ Becomes([DisableRequest(host, i) EXCEPT
                       !.closing = IF RequestsOf(a) = {i} THEN Nobody ELSE a])
    /\ UNCHANGED peer

\* What ~acceptor does after close: it lets go of the multiplexer.
Destroy(a) ==
    /\ Closing /\ a \in host.acceptors /\ RequestsOf(a) = {}
    /\ Step([host EXCEPT !.acceptors = @ \ {a}])
-----------------------------------------------------------------------------
(* The io_service. *)
KeepaliveTimeout(s) ==
    /\ Timeouts /\ s \in host.receiving
    /\ Step(Close(host, s))

Peek ==
    /\ host.ready > 0
    /\ host.inbox # <<>> /\ Head(host.inbox).type = "handshake" => host.next <= MaxAnswers
    /\ Step(ProcessPeek(host))

\* A step ends in a queue that was shut down meanwhile: its handler is called,
\* also that of an operation acknowledged before (see TransmitQueue).  In an
\* open queue the end of a step only starts the timer, and any step may be
\* repeated, so that the last one of each operation may still end.
StepCompletes(a) ==
    /\ a \in host.flying /\ a.by \in host.shut
    /\ Step(AnswerHandler([host EXCEPT !.flying = @ \ {a}], a, FALSE))

Abort(a) ==
    /\ a \in host.aborts
    /\ Step(AnswerHandler([host EXCEPT !.aborts = @ \ {a}], a, TRUE))

\* A step of the operation at the front is repeated, in a network that loses
\* nothing only when nothing is under way.  A queue that was shut down does
\* not start its timer again.
Idle == wire = {} /\ host.inbox = <<>> /\ host.ready + host.empties = 0

Retransmit(s) ==
    /\ host.failed = "no" /\ host.open
    /\ Lossy \/ Idle
    /\ host.answers[s] # <<>> /\ s \notin host.shut
    /\ wire' = wire \union Front(host, s)
    /\ UNCHANGED <<host, peer>>
-----------------------------------------------------------------------------
(* Arrivals, whatever the thread does.  What comes to a closed UDP socket  *)
(* or to a full one is lost, which is as if it had not been sent.          *)
Comes(h, d) ==
    /\ host.failed = "no" /\ host.closing = Nobody /\ host.open
    /\ Len(h.inbox) < MaxInbox
    /\ host' = Settled(Arrived(h, d))

EmptyComes ==
    /\ host.empties > 0
    /\ Comes([host EXCEPT !.empties = @ - 1], EmptyPacket)
    /\ UNCHANGED <<peer, wire>>

Handshake(r) ==
    /\ \/ peer[r].state = "idle"
       \/ peer[r].state = "connecting" /\ (Lossy \/ Idle)
    /\ Comes(host, [from |-> r, type |-> "handshake", ack |-> NoAnswer, expected |-> TRUE])
    /\ peer' = [peer EXCEPT ![r].state = "connecting"]
    /\ UNCHANGED wire

\* A handshake reaches a peer, whose keepalive comes back at once or is lost.
\* The socket need not expect its number when its history has the handshakes
\* of two peers, both inserted as they came (socket.hpp, 768).
AnswerComes(a, lost, expected) ==
    LET r == a.to
        d == [from |-> r, type |-> "keepalive", ack |-> a, expected |-> expected]
    IN  /\ a \in wire /\ host.failed = "no" /\ host.open
        /\ wire' = wire \ {a}
        /\ \/ /\ peer[r].state = "connecting"
              /\ peer' = [peer EXCEPT ![r].state = "connected", ![r].got = a]
              /\ IF lost THEN UNCHANGED host ELSE Comes(host, d)
           \/ /\ peer[r].state = "connected"
              /\ peer' = [peer EXCEPT ![r].state = "failed"]
              /\ UNCHANGED host

Data(r, expected) ==
    /\ peer[r].state = "connected" /\ peer[r].sent < MaxData
    /\ Comes(host, [from |-> r, type |-> "data", ack |-> peer[r].got, expected |-> expected])
    /\ peer' = [peer EXCEPT ![r].sent = @ + 1]
    /\ UNCHANGED wire

Next ==
    \/ \E a \in Acceptors : Construct(a) \/ CloseAcceptor(a) \/ Turn(a) \/ Destroy(a)
    \/ \E a \in Acceptors, s \in Sockets : Accept(a, s)
    \/ \E s \in Sockets :
        \/ Bind(s) \/ Receive(s) \/ UserCloses(s)
        \/ KeepaliveTimeout(s) \/ Retransmit(s)
    \/ \E a \in Answers :
        \/ StepCompletes(a) \/ Abort(a)
        \/ \E lost \in {FALSE, Lossy}, expected \in {TRUE, ~ Lossy} :
            AnswerComes(a, lost, expected)
    \/ \E r \in Remotes :
        Handshake(r) \/ \E expected \in {TRUE, ~ Lossy} : Data(r, expected)
    \/ Peek \/ EmptyComes

Spec == Init /\ [][Next]_vars

Symmetry == Permutations(Sockets) \union Permutations(Remotes)
-----------------------------------------------------------------------------
TypeOK ==
    /\ host \in HostRecords
    /\ peer \in [Remotes -> Peers]
    /\ wire \subseteq Answers

Runs == host.failed = "no"

\* The receives there should be: one of each receiving socket and request.
Counted(h) == Cardinality(h.receiving) + Len(h.requests)

(* receive_calls is below the receives there are only after a packet was   *)
(* read that none of them was for (507 counts it all the same), and above  *)
(* only after one came to a socket that had answered already (577).        *)
CallsAccounted ==
    Runs =>
        /\ ~ host.stolen => Counted(host) <= host.calls
        /\ ~ host.repeated => host.calls <= Counted(host)

(* As long as receive_calls is not zero somebody reads, whatever order     *)
(* receives start and stop in while packets come.                          *)
ReadPosted ==
    Runs /\ host.open /\ host.calls # 0 =>
        host.posted + host.ready > 0 \/ host.stuck # "no"

(* The assertions on receive_calls hold as long as no packet was counted   *)
(* that no receive was for, none twice, and every accepted socket has its  *)
(* entry in the map (remove() takes that of another socket).               *)
CountsHold ==
    host.failed \in {"start_receive", "stop_receive", "process_peek"} =>
        host.stolen \/ host.repeated \/ host.lost # {}

(* The thread waits in receive_from only after a receive started between   *)
(* the last stop and the arrival of its empty packet (357).                *)
BlockedByRace == host.stuck # "no" => host.raced

(* A socket that was never closed is where its state says: listening, in   *)
(* the queue of requests, established, in the map under its remote         *)
(* endpoint, whose peer acknowledged its handshake, and nowhere else.  The *)
(* UDP socket is open for those in the map.  A socket that was closed      *)
(* keeps its remote endpoint, and takes the entry there from the map when  *)
(* it is used and closed again.                                            *)
EveryoneInPlace ==
    Runs /\ ~ host.raced =>
        \A s \in host.attached \ host.shut :
            /\ host.conn[s] = "listening" <=> Pending(s)
            /\ host.conn[s] = "established" /\ s \notin host.lost =>
                host.sockets[host.remote[s]] = s
            /\ \A r \in Remotes : host.sockets[r] = s =>
                /\ host.conn[s] = "established" /\ host.open
                /\ r = host.remote[s] /\ peer[r].got.by = s
-----------------------------------------------------------------------------
(* Handshakes nobody expected, and other packets that are ignored, leave   *)
(* those who wait with a read (538).                                       *)
WaitingHears ==
    Runs /\ host.open /\ Counted(host) > 0 =>
        host.posted + host.ready > 0 \/ host.stuck # "no"
=============================================================================
