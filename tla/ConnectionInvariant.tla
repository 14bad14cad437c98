------------------------ MODULE ConnectionInvariant ------------------------
(***************************************************************************)
(* The inductive invariant of Connection.  Of each host: which numbers it  *)
(* gave to which datagrams, that what it took has no hole, and that it     *)
(* reads while it should.  Of the two: that neither has taken, told or     *)
(* delivered more than the other sent.                                     *)
(***************************************************************************)
EXTENDS Connection, QueueProofs

(* The record of a host, field by field.                                   *)
Fields ==
    { "conn", "attached", "next", "history", "queue", "handshakes", "receiving",
      "keepalive", "inputs", "lent", "outputs", "jobs", "aborts", "confirming",
      "open", "mapped", "accepting", "calls", "peeks", "empties", "out", "failed",
      "connected", "accepted", "sent", "done", "delivered", "taken" }

HasFields(h) == Fields \subseteq DOMAIN h

Pieces == NumberSet \union {Garbled}

Acks == NumberSet \union {NoAck}

Shake(seq, ack) == [seq |-> seq, ack |-> ack]

Typed(h) ==
    /\ HasFields(h)
    /\ h.conn \in Connectivity /\ h.next \in 0 .. MaxNumber + 1
    /\ h.history \subseteq NumberSet /\ h.taken \subseteq NumberSet
    /\ h.handshakes \subseteq [seq : NumberSet, ack : Acks]
    /\ h.inputs \in Nat /\ h.confirming \in Nat
    /\ h.outputs \in Seq(Pieces) /\ h.delivered \in Seq(Pieces)
    /\ h.sent \in Seq(NumberSet) /\ h.done \subseteq NumberSet
    /\ h.aborts \subseteq NumberSet /\ h.calls \in 0 .. 15
-----------------------------------------------------------------------------
(* What holds of a host between any two steps of a handler.                *)

\* The numbers of the data and of the handshakes a host sent.
SentBy(h) == {h.sent[i] : i \in DOMAIN h.sent}
Shakes(h) == {m.seq : m \in h.handshakes}

\* The datagrams of queue q are under the numbers h gave them.
QueueOf(h, q) ==
    /\ IsQueue(q, NumberSet)
    /\ \A i \in Indices(q) :
         q.entries[i] = i /\ i < h.next /\ i \in SentBy(h) \union Shakes(h)
    /\ \A n \in NumberSet : q.flying[n] > 0 => n < h.next

\* No number was given twice, and data was given larger ones as it was sent.
Numbered(h) ==
    /\ \A m \in h.handshakes : /\ m.seq < h.next /\ m.seq \notin SentBy(h)
                               /\ m.ack # NoAck => m.ack \in h.taken
    /\ \A i \in DOMAIN h.sent : h.sent[i] < h.next
    /\ \A i, j \in DOMAIN h.sent : i < j => h.sent[i] < h.sent[j]
    /\ \A n \in h.done : n < h.next

\* The header of a datagram that h sent: it acknowledges what h has taken.
SentPacket(h, d) ==
    /\ d \in Datagrams /\ d.seq < h.next
    /\ d.type = "handshake" => Shake(d.seq, d.ack) \in h.handshakes
    /\ d.type = "data" => d.seq \in SentBy(h)
    /\ d.type = "keepalive" => d.seq \notin SentBy(h) \union Shakes(h) /\ d.ack # NoAck
    /\ d.ack # NoAck => d.ack \in h.taken

\* The bytes b are such a header.
WireOf(h, b) == \E d \in Datagrams : b = Encode(0, d) /\ SentPacket(h, d)

Sound(h) ==
    /\ Typed(h) /\ QueueOf(h, h.queue) /\ Numbered(h)
    /\ \A b \in h.out : WireOf(h, b)

\* What was taken has no hole: it is acknowledged by its last number.
Whole(h) ==
    \/ h.history = {} /\ h.taken = {}
    \/ \E f \in NumberSet : h.history = {f} /\ h.taken = 0 .. f

\* One read is posted if any receive counts, none otherwise.
OneRead(h) == h.peeks = IF h.calls > 0 THEN 1 ELSE 0

\* A receive waits only for want of output.
Waits(h) == h.inputs > 0 => h.outputs = <<>>
-----------------------------------------------------------------------------
(* What holds of a host between its steps.                                 *)
Stable(h) ==
    /\ Sound(h)
    /\ h.failed = "no" => Whole(h)
    /\ h.sent # <<>> => h.taken # {}
    /\ h.peeks \in {0, 1}
    /\ h.open /\ h.failed = "no" => OneRead(h)
    /\ h.failed = "no" /\ Indices(h.queue) # {} => h.receiving
    /\ Waits(h)
    /\ h.attached => h.queue.open /\ h.aborts = {}
    /\ ~ h.attached => Indices(h.queue) = {}
    /\ h.next > 0 \/ h.taken # {} => 0 \in Shakes(h)
    /\ h.open \in BOOLEAN

\* Nothing was sent or received.
Untouched(h) ==
    /\ h.next = 0 /\ h.history = {} /\ h.taken = {} /\ h.aborts = {} /\ h.peeks = 0
    /\ ~ h.connected /\ ~ h.accepted /\ h.confirming = 0

\* The handshakes of a client carry no acknowledgement, those of a server do.
ClientShakes(h) == \A m \in h.handshakes : m.ack = NoAck
ServerShakes(h) == \A m \in h.handshakes : m.ack # NoAck

\* The host that connects: its one handshake is number 0, and it is queued
\* until the answer to it comes.
ClientInv(h) ==
    /\ h.conn \in {"closed", "connecting", "established"}
    /\ ~ h.accepted /\ ~ h.accepting
    /\ h.attached = h.open
    /\ h.handshakes \subseteq {Shake(0, NoAck)}
    /\ h.conn = "closed" => Untouched(h)
    /\ h.conn = "connecting" =>
        /\ h.taken = {} /\ h.next = 1 /\ h.confirming = 0
        /\ h.attached /\ h.failed = "no" => ~ h.connected /\ 0 \in Indices(h.queue)
    /\ h.conn = "established" => h.connected /\ 0 \in h.taken

\* The host that accepts: while its socket listens it has taken nothing but
\* the handshake of the client, and its answer is queued.
ServerInv(h) ==
    /\ h.conn \in {"closed", "listening", "established"}
    /\ ~ h.connected /\ h.confirming = 0
    /\ ServerShakes(h)
    /\ h.attached => h.open /\ h.conn # "closed"
    /\ h.open /\ ~ h.attached => h.conn = "closed"
    /\ h.conn = "closed" =>
         \/ h.history # {} /\ ~ h.open
         \/ Untouched(h) /\ h.queue.open /\ h.open
    /\ h.mapped => h.accepted
    /\ h.attached /\ h.conn = "established" => h.accepted
    /\ h.attached /\ h.accepted => h.conn = "established"
    /\ ~ h.accepted => h.sent = <<>>
    /\ h.conn = "listening" /\ h.attached /\ h.failed = "no" =>
        h.taken \subseteq {0} /\ (h.next > 0 => 0 \in Indices(h.queue))
-----------------------------------------------------------------------------
(* The two hosts and the network.                                          *)
Handed(h) == h.delivered \o h.outputs

\* What h has taken, delivered and told its user, against what s sent and
\* took.
Heard(h, s) ==
    /\ \A n \in h.taken : n < s.next
    /\ Len(Handed(h)) <= Len(s.sent)
    /\ \A i \in DOMAIN s.sent : i <= Len(Handed(h)) => s.sent[i] \in h.taken
    /\ \A i \in DOMAIN s.sent : s.sent[i] \in h.taken => i <= Len(Handed(h))
    /\ \A i \in DOMAIN Handed(h) : Handed(h)[i] \in {s.sent[i], Garbled}
    /\ h.attached => h.done \subseteq s.taken

Role(p, h) == (p = "client" => ClientInv(h)) /\ (p = "server" => ServerInv(h))

\* What the client took against what the server did.
Cross(c, s) ==
    /\ c.taken # {} => s.taken # {}
    /\ s.accepted => c.taken # {}
    /\ ~ s.accepted => c.taken \subseteq {0}

\* The invariant: every host is as above, every datagram in the network was
\* sent by the other one, and before a connection is accepted the client is
\* sent nothing but the number 0.
IInv ==
    /\ DOMAIN host = Hosts /\ DOMAIN net = Hosts
    /\ \A p \in Hosts :
        /\ Stable(host[p]) /\ host[p].out = {} /\ Role(p, host[p])
        /\ Heard(host[p], host[Peer(p)])
        /\ \A b \in OnWay(p) : WireOf(host[Peer(p)], b)
    /\ Cross(host["client"], host["server"])
    /\ ~ host["server"].accepted => \A b \in OnWay("client") : Decode(b).seq = 0
-----------------------------------------------------------------------------
(* Data one way over a network that loses nothing, the client not          *)
(* repeating its handshake before the server reads (where it does, the     *)
(* assertion at 410 fails): the client sends, the server receives.         *)
(* Keepalive timers run out and users close at any time.                   *)
OneWay == ~ Lossy /\ ~ Early /\ ServerSends = 0 /\ ClientReceives = 0

Reader(h) == IF h.receiving THEN 1 ELSE 0

\* receive_calls is exact, and nothing is kept for a receive to come.
Calm(h) ==
    /\ h.failed = "no" /\ h.open
    /\ h.calls = Reader(h) + Acceptors(h)
    /\ h.outputs = <<>> /\ h.jobs = 0

\* The answer to its handshake ends the handshake of the client.
CalmClient(c) ==
    /\ Calm(c) /\ c.inputs = 0
    /\ c.conn = "closed" => ~ c.receiving
    /\ c.conn # "closed" => c.mapped
    /\ c.conn = "established" => 0 \notin Indices(c.queue)

\* The socket of the server reads for the client's answer to its own, and
\* later while its user waits for data.
CalmServer(s) ==
    /\ Calm(s) /\ s.sent = <<>>
    /\ s.conn = "closed" =>
        ~ s.accepting /\ ~ s.receiving /\ ~ s.attached /\ s.inputs = 0
    /\ s.conn = "listening" =>
        /\ s.accepting /\ ~ s.mapped /\ s.attached /\ s.inputs = 0
        /\ s.next <= 1
        /\ s.taken = {} => ~ s.receiving
    /\ s.conn = "established" =>
        /\ s.mapped /\ ~ s.accepting /\ s.attached
        /\ Indices(s.queue) = {}
        /\ s.receiving <=> s.inputs > 0

\* What is closed waits for nothing.
Over(h) == ~ h.open /\ h.failed = "no" /\ h.jobs = 0 /\ h.inputs = 0

\* The server's answer to the handshake, and the keepalive by which the client
\* answers that.
Answer       == Encode(0, [type |-> "handshake", seq |-> 0, ack |-> 0])
Confirmation == Encode(0, [type |-> "keepalive", seq |-> 1, ack |-> 0])

\* A handshake is on its way no longer than it is needed, and is there while
\* it is; so is the client's keepalive.  Of each there is one copy.
CalmNet(c, s) ==
    /\ \A b \in OnWay("server") :
        /\ Decode(b).type = "handshake" => s.taken = {} /\ net["server"][b] = 1
        /\ Decode(b).type = "keepalive" =>
             /\ b = Confirmation /\ net["server"][b] = 1
             /\ c.taken # {} /\ ~ s.accepted
    /\ \A b \in OnWay("client") :
        Decode(b).type = "handshake" => c.taken = {} /\ net["client"][b] = 1
    /\ c.taken = {} => \A b \in OnWay("client") : b = Answer
    /\ s.taken # {} /\ c.taken = {} => OnWay("client") # {}
    /\ c.taken # {} /\ ~ s.accepted => Confirmation \in OnWay("server")

\* What holds of it, beside IInv.
CalmInv ==
    LET c == host["client"]
        s == host["server"]
    IN  /\ Over(c) \/ CalmClient(c)
        /\ Over(s) \/ CalmServer(s)
        /\ s.sent = <<>>
        /\ CalmNet(c, s)
=============================================================================
