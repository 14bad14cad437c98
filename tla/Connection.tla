----------------------------- MODULE Connection -----------------------------
(***************************************************************************)
(* Two hosts, a client that connects and a server that accepts one         *)
(* connection, and the network between them.  Every action is one callback *)
(* the io_service of a host runs, or one call of its user; a host has one  *)
(* thread, the two run concurrently.                                       *)
(***************************************************************************)
EXTENDS Multiplexer, Bags

CONSTANTS
    ClientSends, ServerSends,        \* data each user sends, at most
    ClientReceives, ServerReceives,  \* receives each user starts, at most
    Lossy,      \* the network loses, repeats and reorders; no timer is too early
    Timeouts,   \* keepalive timers may run out
    Closing,    \* users may close their socket
    SendErrors, \* hosts whose async_send_to may fail
    Early,      \* the client may repeat its handshake before there is an acceptor
    Copies      \* how often one datagram waits at a host that does not read, at most

ASSUME ConnectionAssumption ==
    /\ {ClientSends, ServerSends, ClientReceives, ServerReceives, Copies} \subseteq Nat
    /\ {Lossy, Timeouts, Closing, Early} \subseteq BOOLEAN
    /\ SendErrors # {} => Lossy

Hosts == {"client", "server"}

Peer(p) == IF p = "client" THEN "server" ELSE "client"

Sends(p)    == IF p = "client" THEN ClientSends ELSE ServerSends
Receives(p) == IF p = "client" THEN ClientReceives ELSE ServerReceives

VARIABLES
    host,  \* the record of each host
    net    \* a bag: the headers of the datagrams on their way to each host

vars == <<host, net>>

\* The client's socket is bound when constructed, the server's by accepting.
Init ==
    /\ host = [p \in Hosts |-> [Fresh EXCEPT !.attached = p = "client"]]
    /\ net = [p \in Hosts |-> EmptyBag]

\* The headers on their way to p.
OnWay(p) == BagToSet(net[p])

(* S joins the datagrams B.  The UDP socket queues what it gets: a repeated *)
(* datagram is there twice.  In a Lossy network one stands for any number.  *)
Posted(B, S) ==
    IF Lossy THEN SetToBag(BagToSet(B) \union S) ELSE B (+) SetToBag(S)

\* h has become p's record; what it gave to the UDP socket is on its way.
Becomes(p, h) == host' = [host EXCEPT ![p] = [h EXCEPT !.out = {}]]

Step(p, h) ==
    /\ host[p].failed = "no" /\ host[p].next <= MaxNumber
    /\ Becomes(p, h)
    /\ net' = [net EXCEPT ![Peer(p)] = Posted(@, h.out)]
-----------------------------------------------------------------------------
(* The users. *)
Connected(p) == host[p].connected \/ host[p].accepted

MayAccept  == host["server"].conn = "closed" /\ host["server"].history = {}
MayConnect == host["client"].conn = "closed" /\ host["client"].attached
MaySend(p) == Connected(p) /\ host[p].attached /\ Len(host[p].sent) < Sends(p)

MayReceive(p) ==
    /\ Connected(p) /\ host[p].attached
    /\ host[p].inputs + host[p].jobs + Len(host[p].delivered) < Receives(p)

Accept ==
    /\ MayAccept
    /\ Step("server", AsyncAccept(host["server"]))

Connect ==
    /\ MayConnect
    /\ Step("client", AsyncConnect(host["client"]))

Send(p) ==
    /\ MaySend(p)
    /\ Step(p, AsyncSend(host[p]))

Receive(p) ==
    /\ MayReceive(p)
    /\ Step(p, AsyncReceive(host[p]))

UserCloses(p) ==
    /\ Closing /\ host[p].attached
    /\ Step(p, Close(host[p]))
-----------------------------------------------------------------------------
(* The io_services. *)
\* The step of operation n is over: its datagram was handed to the network.
StepCompletes(p, n) ==
    LET h == [host[p] EXCEPT !.queue = Completed(@, n, FALSE)]
    IN  /\ host[p].queue.flying[n] > 0
        /\ Step(p, IF ToHandler(host[p].queue, FALSE)
                   THEN OperationHandler(h, n, FALSE) ELSE h)

(* It is over with an error: data is given up (transmit_queue.hpp, 174),   *)
(* its entry left there with no timer; for a handshake the length is not   *)
(* the header's (multiplexer.hpp, 269).                                    *)
StepFails(p, n) ==
    LET h == [host[p] EXCEPT !.queue = Completed(@, n, TRUE)]
    IN  /\ p \in SendErrors /\ host[p].queue.flying[n] > 0
        /\ Step(p, IF \E m \in h.handshakes : m.seq = n
                   THEN Fail(h, "send_handshake")
                   ELSE OperationHandler(h, n, TRUE))

\* Nothing is on its way to a host that reads, and nothing being sent.
Idle ==
    \A p \in Hosts :
        /\ OnWay(p) = {} \/ host[p].peeks = 0
        /\ host[p].confirming = 0
        /\ \A n \in 0 .. MaxNumber : host[p].queue.flying[n] = 0

(* What waits at a host that does not read may be repeated to it, but a    *)
(* handshake only where the client may be so Early.                        *)
MayRepeat(p) ==
    \A b \in OnWay(Peer(p)) :
        /\ net[Peer(p)][b] < Copies
        /\ Decode(b).type = "handshake" => Early

MayTick(p) == host[p].queue.armed /\ (~ Lossy => Idle /\ MayRepeat(p))

Tick(p) ==
    /\ MayTick(p)
    /\ Step(p, Queued(host[p], Ticked(host[p].queue)))

KeepaliveTimeout(p) ==
    /\ Timeouts /\ host[p].keepalive
    /\ Step(p, Close(host[p]))

ConfirmationSent(p) ==
    /\ host[p].confirming > 0
    /\ Step(p, ConfirmSent(host[p]))

(* The assertion of send_keepalive on the length (multiplexer.hpp, 291)    *)
(* comes before the handler that would close the socket.                   *)
ConfirmationFails(p) ==
    /\ p \in SendErrors /\ host[p].confirming > 0
    /\ Step(p, Fail(host[p], "send_keepalive"))

ReceiveJob(p) ==
    /\ host[p].jobs > 0
    /\ Step(p, RunReceiveJob(host[p]))

RunAbort(p, n) ==
    /\ n \in host[p].aborts
    /\ Step(p, OperationHandler([host[p] EXCEPT !.aborts = @ \ {n}], n, TRUE))

Reads(p) == host[p].open /\ host[p].peeks > 0

\* A datagram of header b arrives.  A network that is not Lossy delivers in
\* the order of sending, each copy once; in a Lossy one a datagram once sent
\* may arrive at any time, any number of times or never.
Arrive(p, b) ==
    LET h == ProcessPeek(host[p], Decode(b))
    IN  /\ Reads(p)
        /\ ~ Lossy => \A c \in OnWay(p) : Decode(b).seq <= Decode(c).seq
        /\ host[p].failed = "no" /\ host[p].next <= MaxNumber
        /\ Becomes(p, h)
        /\ net' = [net EXCEPT ![p] = IF Lossy THEN @ ELSE @ (-) SetToBag({b}),
                              ![Peer(p)] = Posted(@, h.out)]

Users ==
    \/ Accept \/ Connect
    \/ \E p \in Hosts : Send(p) \/ Receive(p)

Service(p) ==
    \/ \E b \in OnWay(p) : Arrive(p, b)
    \/ \E n \in 0 .. MaxNumber :
        StepCompletes(p, n) \/ StepFails(p, n) \/ RunAbort(p, n)
    \/ ConfirmationSent(p) \/ ConfirmationFails(p)
    \/ ReceiveJob(p) \/ Tick(p)

Next ==
    \/ Users
    \/ \E p \in Hosts : Service(p) \/ UserCloses(p) \/ KeepaliveTimeout(p)

Spec == Init /\ [][Next]_vars

(* What the guards of the actions say, for fairness: that a host has not   *)
(* failed and that a user or a callback of the io_service is due.          *)
Goes(p) == host[p].failed = "no" /\ host[p].next <= MaxNumber

UsersDue ==
    \/ Goes("server") /\ MayAccept
    \/ Goes("client") /\ MayConnect
    \/ \E p \in Hosts : Goes(p) /\ (MaySend(p) \/ MayReceive(p))

ArrivalDue(p) == Goes(p) /\ Reads(p) /\ OnWay(p) # {}
StepDue(p)    == Goes(p) /\ \E n \in 0 .. MaxNumber : host[p].queue.flying[n] > 0
TickDue(p)    == Goes(p) /\ MayTick(p)

ArrivesAny(p)   == \E b \in OnWay(p) : Arrive(p, b)
CompletesAny(p) == \E n \in 0 .. MaxNumber : StepCompletes(p, n)

(* Every queued callback of an io_service is run, the network delivers and *)
(* the timers run out; the users accept, connect, send and receive all     *)
(* they may: weak fairness of each.  Where computing ENABLED is costly it  *)
(* is written out, the guard standing for it.                              *)
Fairness ==
    /\ []<>(~ UsersDue) \/ []<><<Users>>_vars
    /\ \A p \in Hosts :
        /\ []<>(~ ArrivalDue(p)) \/ []<><<ArrivesAny(p)>>_vars
        /\ []<>(~ StepDue(p)) \/ []<><<CompletesAny(p)>>_vars
        /\ []<>(~ TickDue(p)) \/ []<><<Tick(p)>>_vars
        /\ WF_vars(ConfirmationSent(p))
        /\ WF_vars(ReceiveJob(p))

FairSpec == Spec /\ Fairness
-----------------------------------------------------------------------------
NumberSet == 0 .. MaxNumber

TypeOK ==
    /\ \A p \in Hosts :
        LET h == host[p]
        IN  /\ h.conn \in Connectivity
            /\ h.next \in 0 .. MaxNumber + 1
            /\ h.history \subseteq NumberSet /\ h.taken \subseteq NumberSet
            /\ Indices(h.queue) \subseteq NumberSet
            /\ h.queue.flying \in [NumberSet -> Nat]
            /\ h.calls \in 0 .. CallsModulus - 1 /\ h.peeks \in 0 .. 2
            /\ h.out = {}
            /\ \A b \in OnWay(p) : Decode(b) \in Datagrams

NoFailure == \A p \in Hosts : host[p].failed = "no"

(* Data is handed out in the order it was sent, nothing missing, nothing   *)
(* twice, nothing made up (whatever is in the buffers).                    *)
DeliveredInOrder ==
    \A p \in Hosts :
        LET got == host[p].delivered \o host[p].outputs
        IN  /\ Len(got) <= Len(host[Peer(p)].sent)
            /\ \A i \in 1 .. Len(got) :
                 got[i] \in {host[Peer(p)].sent[i], Garbled}

(* What a receive reports is in its buffers. *)
DeliveredIntact ==
    \A p \in Hosts : \A i \in 1 .. Len(host[p].delivered) :
        host[p].delivered[i] # Garbled

(* While its socket is open a user is told that data was sent only when    *)
(* the peer has taken it.                                                  *)
DoneMeansTaken ==
    \A p \in Hosts :
        host[p].attached => host[p].done \subseteq host[Peer(p)].taken

(* Closing ends a step under way as if it had succeeded (TransmitQueue,    *)
(* Completed): of at most one send a user is told so in error.             *)
FalseSuccessIsOne ==
    \A p \in Hosts :
        \A m, n \in host[p].done \ host[Peer(p)].taken : m = n

(* A server that accepted a connection has a client that got its answer.   *)
AcceptedMeansConnected ==
    host["server"].accepted =>
        /\ host["client"].connected
        /\ 0 \in host["client"].taken

(* receive_calls counts the receiving socket and the accept request: it    *)
(* is not below (a receive nobody reads for) nor above them.               *)
CallsCounted ==
    \A p \in Hosts :
        LET h == host[p]
        IN  h.open /\ h.failed = "no" =>
                h.calls = (IF h.receiving THEN 1 ELSE 0) + Acceptors(h)

(* A socket with a datagram still to be acknowledged listens for it: it    *)
(* would send it for ever otherwise.                                       *)
UnackedIsReading ==
    \A p \in Hosts :
        LET h == host[p]
        IN  h.failed = "no" /\ Indices(h.queue) # {} => h.receiving

(* ... and so does a socket whose user waits to receive.                   *)
WaitingIsReading ==
    \A p \in Hosts : host[p].failed = "no" /\ host[p].inputs > 0 => host[p].receiving

(* A socket that waits for packets, or an acceptor, has a read posted, and *)
(* one only.                                                               *)
ReadPosted ==
    \A p \in Hosts :
        LET h == host[p]
        IN  h.open /\ h.failed = "no" =>
                h.peeks = IF h.receiving \/ h.accepting THEN 1 ELSE 0
-----------------------------------------------------------------------------
(* Both users learn that they are connected. *)
EventuallyConnected == <>(Connected("client") /\ Connected("server"))

Sent(p) == {host[p].sent[i] : i \in DOMAIN host[p].sent}

(* Whatever a user sent is reported done. *)
SendsAnswered == []<>(\A p \in Hosts : Sent(p) \subseteq host[p].done)

(* Whatever a user sent is handed out to the other. *)
SendsDelivered ==
    []<>(\A p \in Hosts :
            Len(host[Peer(p)].delivered) = Len(host[p].sent))
-----------------------------------------------------------------------------
Told(p) == {i \in DOMAIN host[p].sent : host[p].sent[i] \in host[p].done}

Streams ==
    INSTANCE Pipe WITH
        Pieces <- NumberSet,
        open   <- [p \in Hosts |-> host[p].open],
        sent   <- [p \in Hosts |-> host[p].sent],
        got    <- [p \in Hosts |-> host[p].delivered \o host[p].outputs],
        given  <- [p \in Hosts |-> Len(host[p].delivered)],
        told   <- [p \in Hosts |-> Told(p)]

(* Two sockets and what is between them are a pipe, whatever the network   *)
(* does and whenever they close: what either user has been given or told   *)
(* grows by one packet's worth, in order, and is never taken back.         *)
ImplementsPipe == Streams!Spec
=============================================================================
