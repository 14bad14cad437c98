----------------------------- MODULE Multiplexer -----------------------------
(***************************************************************************)
(* detail/multiplexer.hpp and acceptor.hpp: reading a datagram and giving  *)
(* it to the crux socket in the map, or to the one waiting to be accepted. *)
(*                                                                         *)
(* Handlers of the user run inside process_peek.  What they do is modelled *)
(* by actions that follow: a receive started inside raises receive_calls   *)
(* from at least one and leaves the reposting of the read to line 507, a   *)
(* receive started after finds it at zero and posts the read itself.       *)
(***************************************************************************)
EXTENDS Socket

(* acceptor::async_accept, multiplexer::async_accept *)
AsyncAccept(h) ==
    StartReceive([h EXCEPT !.conn = "listening", !.accepting = TRUE,
                           !.attached = TRUE])

\* multiplexer::process_handshake, process_keepalive and process_data:
\* the packet first, then the acknowledgement it carries.
Dispatch(h, d) ==
    LET h1 == CASE d.type = "handshake" -> ProcessHandshake(h, d)
                [] d.type = "keepalive" -> ProcessKeepalive(h, d)
                [] d.type = "data"      -> ProcessData(h, d)
    IN  IF h1.failed = "no" THEN ProcessAcknowledgement(h1, d.ack) ELSE h1

\* Faulty variant: a socket that answered a handshake is accepted.
EstablishConnectionEager(h, d) ==
    LET h1 == Dispatch(h, d)
    IN  IF ~ h.accepting \/ d.type = "data" THEN h
        ELSE [h1 EXCEPT !.accepting = FALSE, !.mapped = TRUE,
                        !.accepted = TRUE, !.calls = Less(@)]

(* establish_connection: a packet from an endpoint that is not in the map. *)
(* Data is ignored; an accepted socket leaves the queue for the map        *)
(* (acceptor::process_accept) and its request's receive is over.           *)
EstablishConnection(h, d) ==
    LET h1 == Dispatch(h, d)
    IN  IF ~ h.accepting \/ d.type = "data" THEN h
        ELSE IF h1.conn = "established"
        THEN [h1 EXCEPT !.accepting = FALSE, !.mapped = TRUE,
                        !.accepted = TRUE, !.calls = Less(@)]
        ELSE [h1 EXCEPT !.calls = @ + 1]

\* Reading into the buffers of a waiting receive moves them out of it (469).
LendBuffers(h) == [h EXCEPT !.lent = @ \/ h.inputs > 0]

\* Faulty variant: the receive that was served stays counted.
FinishReadUncounted(h) == h

\* Lines 507-509.
FinishRead(h) ==
    [h EXCEPT !.calls = Less(@), !.peeks = IF Less(h.calls) > 0 THEN @ + 1 ELSE @]

TooManyCalls(h) == h.calls > Sockets(h) + Acceptors(h) + 1

(* process_peek for a datagram of the peer: the read that was posted is    *)
(* over.  With no receive left it is discarded.                            *)
ProcessPeek(h, d) ==
    LET h1 == [h EXCEPT !.peeks = @ - 1]
        h2 == IF h.mapped
              THEN LET h3 == Dispatch(h1, d)
                   IN  IF h3.inputs = h1.inputs THEN LendBuffers(h3) ELSE h3
              ELSE EstablishConnection(h1, d)
    IN  IF h.calls = 0 THEN h1
        ELSE IF TooManyCalls(h) THEN Fail(h1, "process_peek")
        ELSE FinishRead(h2)
=============================================================================
