------------------------------- MODULE Socket -------------------------------
(***************************************************************************)
(* crux::socket (socket.hpp) over the host record of ReceiveCalls.  What   *)
(* goes over the network is the header of a datagram; its payload is named *)
(* by its number.  An operation of the transmit queue goes by the number   *)
(* of its packet.                                                          *)
(***************************************************************************)
EXTENDS ReceiveCalls

\* What the headers say.
Datagrams == [type : {"handshake", "keepalive", "data"},
              seq : 0 .. MaxNumber, ack : (0 .. MaxNumber) \union {NoAck}]

\* encoder::put of a sequence number writes its 32 bits.
ASSUME WidthAssumption == MaxNumber \div 65536 < 65536

\* sequence_history.front()
LastSeen(h) == IF h.history = {} THEN NoAck ELSE First(h.history)

\* Faulty variant: a packet is taken whatever its number.
AnyPacket(h, seq) == TRUE

(* is_expected_packet *)
IsExpectedPacket(h, seq) ==
    h.history # {} => Successor(First(h.history)) = seq

\* sequence_history.insert
Take(h, seq) ==
    [h EXCEPT !.history = Insert(@, seq), !.taken = @ \union {seq}]

IdempotentStopReceive(h) ==
    IF h.receiving THEN StopReceive([h EXCEPT !.receiving = FALSE]) ELSE h

IdempotentStartReceive(h) ==
    IF h.receiving THEN h
    ELSE StartReceive([h EXCEPT !.receiving = TRUE, !.keepalive = TRUE])

OnAnyPacketReceived(h) == [h EXCEPT !.receiving = FALSE, !.keepalive = FALSE]

\* Faulty variant: a receive still waiting is not looked at.
RestartIfUnacknowledged(h) ==
    IF Indices(h.queue) # {} THEN IdempotentStartReceive(h) ELSE h

\* The end of process_data.
RestartIfWaiting(h) ==
    IF h.inputs > 0 \/ Indices(h.queue) # {}
    THEN IdempotentStartReceive(h) ELSE h
-----------------------------------------------------------------------------
(* Sending: the steps of the queue the operation started put their         *)
(* datagrams on the wire.  A handshake repeats its acknowledgement; data   *)
(* carries the newest one (send_data, 744).  The count of retransmissions  *)
(* is always 0.                                                            *)
DatagramOf(h, n) ==
    LET mine == {m \in h.handshakes : m.seq = n}
    IN  IF mine # {}
        THEN Encode(0, [type |-> "handshake", seq |-> n,
                        ack |-> (CHOOSE m \in mine : TRUE).ack])
        ELSE Encode(0, [type |-> "data", seq |-> n, ack |-> LastSeen(h)])

Queued(h, q) ==
    LET started == {n \in DOMAIN q.flying : q.flying[n] > h.queue.flying[n]}
    IN  [h EXCEPT !.queue = q,
                  !.out = @ \union {DatagramOf(h, n) : n \in started}]

SendHandshake(h, ack) ==
    LET n  == h.next
        h1 == IdempotentStartReceive(
                [h EXCEPT !.next = @ + 1,
                          !.handshakes = @ \union {[seq |-> n, ack |-> ack]}])
    IN  Queued(h1, Pushed(h1.queue, n, n))

SendKeepalive(h, ack) ==
    [h EXCEPT !.next = @ + 1,
              !.out = @ \union {Encode(0, [type |-> "keepalive", seq |-> h.next,
                                           ack |-> ack])}]

(* async_send, send_data *)
AsyncSend(h) ==
    LET n  == h.next
        h1 == IdempotentStartReceive(
                [h EXCEPT !.next = @ + 1, !.sent = Append(@, n)])
    IN  Queued(h1, Pushed(h1.queue, n, n))

\* Faulty variant: the state is left for the answer to set.
AsyncConnectClosed(h) == SendHandshake([h EXCEPT !.mapped = TRUE], NoAck)

(* async_connect of a closed, bound socket *)
AsyncConnect(h) ==
    SendHandshake([h EXCEPT !.conn = "connecting", !.mapped = TRUE], NoAck)

(* The handler of a queued operation: of a handshake an acceptor's socket  *)
(* sent (777-793), of a connect (363-370, 388-417) or of data.             *)
OperationHandler(h, n, error) ==
    LET mine == {m \in h.handshakes : m.seq = n}
    IN  IF mine = {}
        THEN IF error THEN h ELSE [h EXCEPT !.done = @ \union {n}]
        ELSE IF \E m \in mine : m.ack # NoAck
        THEN [h EXCEPT !.conn = IF error THEN "closed" ELSE "established"]
        ELSE IF error THEN h
        ELSE IF h.conn \in {"listening", "handshaking"}
        THEN Fail(h, "process_connect")
        ELSE [h EXCEPT !.connected = h.conn # "closed"]

(* async_receive *)
AsyncReceive(h) ==
    IF h.outputs = <<>>
    THEN IdempotentStartReceive([h EXCEPT !.inputs = @ + 1])
    ELSE [h EXCEPT !.jobs = @ + 1]

\* Faulty variant: what was handed out stays in the queue.
RunReceiveJobKeeping(h) ==
    IF h.outputs = <<>>
    THEN Fail([h EXCEPT !.jobs = @ - 1], "output_queue")
    ELSE [h EXCEPT !.jobs = @ - 1, !.delivered = Append(@, Head(h.outputs))]

\* The job posted by async_receive (543-552) takes the front of the output
\* queue without looking whether another job emptied it.
RunReceiveJob(h) ==
    IF h.outputs = <<>>
    THEN Fail([h EXCEPT !.jobs = @ - 1], "output_queue")
    ELSE [h EXCEPT !.jobs = @ - 1,
                   !.outputs = Tail(@),
                   !.delivered = Append(@, Head(h.outputs))]

(* close: the pending receives are told, the queue is shut down; the       *)
(* connectivity stays what it was.  multiplexer::remove closes the UDP     *)
(* socket when it was the last one in the map.                             *)
Close(h) ==
    LET h1 == [h EXCEPT !.keepalive = FALSE,
                        !.queue = ShutDown(@),
                        !.aborts = @ \union Waiting(h.queue),
                        !.inputs = 0, !.lent = FALSE]
        h2 == IdempotentStopReceive(h1)
    IN  IF h.attached
        THEN [h2 EXCEPT !.mapped = FALSE, !.open = FALSE, !.peeks = 0,
                        !.attached = FALSE]
        ELSE h
-----------------------------------------------------------------------------
\* Faulty variant: what is still queued does not keep the socket receiving.
ProcessAcknowledgementIdle(h, ack) ==
    LET h1 == [h EXCEPT !.conn = IF @ = "handshaking" THEN "established" ELSE @]
        h2 == Queued(h1, Acked(h1.queue, ack))
    IN  IF ack \in Indices(h1.queue) THEN OperationHandler(h2, ack, FALSE) ELSE h2

(* process_acknowledgement: apply_ack and then the handler it calls. *)
ProcessAcknowledgement(h, ack) ==
    LET h1 == [h EXCEPT !.conn = IF @ = "handshaking" THEN "established" ELSE @]
        h2 == Queued(h1, Acked(h1.queue, ack))
        h3 == IF ack \in Indices(h1.queue) THEN OperationHandler(h2, ack, FALSE) ELSE h2
    IN  IF ack = NoAck THEN h
        ELSE IF h.conn \in {"closed", "connecting"}
        THEN Fail(h, "process_acknowledgement")
        ELSE IF Indices(h3.queue) # {} THEN IdempotentStartReceive(h3) ELSE h3

\* Faulty variant: the connecting side takes the answer for granted.
ProcessHandshakeSilent(h, d) ==
    LET h1 == Take(OnAnyPacketReceived(h), d.seq)
    IN  IF h.conn = "listening" THEN SendHandshake(h1, d.seq)
        ELSE [h1 EXCEPT !.conn = "handshaking"]

(* process_handshake: in a connecting socket the answer is a keepalive     *)
(* whose completion (803-811) is ConfirmSent.                              *)
ProcessHandshake(h, d) ==
    LET h1 == Take(OnAnyPacketReceived(h), d.seq)
    IN  IF h.conn = "listening" THEN SendHandshake(h1, d.seq)
        ELSE IF h.conn = "connecting"
        THEN SendKeepalive([h1 EXCEPT !.conn = "handshaking", !.confirming = @ + 1],
                           d.seq)
        ELSE Fail(h1, "process_handshake")

ConfirmSent(h) == [h EXCEPT !.confirming = @ - 1, !.conn = "established"]

(* process_keepalive *)
ProcessKeepalive(h, d) ==
    LET h1 == OnAnyPacketReceived(h)
    IN  IF IsExpectedPacket(h, d.seq) THEN Take(h1, d.seq)
        ELSE IdempotentStartReceive(h1)

\* What a receive finds in its buffers when they were moved away: no data.
Garbled == -1

\* Faulty variant: data handed out is not acknowledged.
ProcessDataSilent(h, d) ==
    LET h1 == Take(OnAnyPacketReceived(h), d.seq)
    IN  IF ~ IsExpectedPacket(h, d.seq)
        THEN IdempotentStartReceive(OnAnyPacketReceived(h))
        ELSE RestartIfWaiting(
               IF h.inputs = 0 THEN [h1 EXCEPT !.outputs = Append(@, d.seq)]
               ELSE [h1 EXCEPT !.inputs = @ - 1,
                               !.delivered = Append(@, d.seq)])

(* process_data: without a receive waiting the data is kept, and not       *)
(* acknowledged; otherwise it is acknowledged and handed out.              *)
ProcessData(h, d) ==
    LET h1 == OnAnyPacketReceived(h)
        h2 == Take(h1, d.seq)
        h3 == IF h.inputs = 0
              THEN [h2 EXCEPT !.outputs = Append(@, d.seq)]
              ELSE SendKeepalive(
                     [h2 EXCEPT !.inputs = @ - 1, !.lent = FALSE,
                                !.delivered = Append(@, IF h.lent THEN Garbled
                                                        ELSE d.seq)],
                     LastSeen(h2))
    IN  IF IsExpectedPacket(h, d.seq) THEN RestartIfWaiting(h3)
        ELSE IdempotentStartReceive(h1)
=============================================================================
