---------------------------- MODULE ReceiveCalls ----------------------------
(***************************************************************************)
(* A host: one UDP socket, the multiplexer on it and one crux socket, as   *)
(* the record every operation of Socket and Multiplexer maps to a record.  *)
(* This module holds the record and the two operations by which sockets    *)
(* and acceptors share the reading of the UDP socket,                      *)
(* multiplexer::start_receive and stop_receive.                            *)
(*                                                                         *)
(* The asserts are live (no build configuration of the repository defines  *)
(* NDEBUG by default): one that fails is noted in "failed" and the host    *)
(* takes no further step.                                                  *)
(***************************************************************************)
EXTENDS TransmitQueue, CumulativeSet, Header

CONSTANT MaxNumber  \* the sequence numbers a host uses are 0 .. MaxNumber

ASSUME NumberAssumption == MaxNumber \in Nat /\ MaxNumber < Max

Connectivity == {"closed", "listening", "connecting", "handshaking",
                 "established"}

\* The width of receive_calls, an unsigned counter: --0 is its largest value.
CallsModulus == 16

Fresh ==
    [ \* socket
      conn       |-> "closed",
      attached   |-> TRUE,     \* multiplexer is not null
      next       |-> 0,        \* next_sequence
      history    |-> {},       \* sequence_history
      queue      |-> EmptyQueue(0 .. MaxNumber),
      handshakes |-> {},       \* queued handshakes: [seq, ack]
      receiving  |-> FALSE,    \* is_receiving
      keepalive  |-> FALSE,    \* keepalive_timer is started
      inputs     |-> 0,        \* receive_input_queue: receives waiting
      lent       |-> FALSE,    \* the buffers of its front were moved away
      outputs    |-> <<>>,     \* receive_output_queue: data waiting
      jobs       |-> 0,        \* receives posted to take from outputs
      aborts     |-> {},       \* queued operations whose abort is posted
      confirming |-> 0,        \* handshake answers being sent by connect
      \* multiplexer
      open       |-> TRUE,     \* the UDP socket
      mapped     |-> FALSE,    \* the crux socket is in "sockets"
      accepting  |-> FALSE,    \* ... is in acceptor_queue
      calls      |-> 0,        \* receive_calls
      peeks      |-> 0,        \* async_receive_from outstanding
      empties    |-> 0,        \* empty packets sent to itself
      out        |-> {},       \* datagrams given to the UDP socket
      failed     |-> "no",     \* the assertion that failed
      \* what the user saw and did, and what the peer's packets were
      connected  |-> FALSE,
      accepted   |-> FALSE,
      sent       |-> <<>>,     \* data handed to async_send
      done       |-> {},       \* ... reported as sent
      delivered  |-> <<>>,     \* data handed out by async_receive
      taken      |-> {} ]      \* numbers put in the history

Sockets(h)   == IF h.mapped THEN 1 ELSE 0
Acceptors(h) == IF h.accepting THEN 1 ELSE 0

Fail(h, what) == [h EXCEPT !.failed = what]

Less(n) == (n - 1) % CallsModulus

\* Faulty variant: every caller posts a read.
StartReceiveAlways(h) == [h EXCEPT !.calls = @ + 1, !.peeks = @ + 1]

(* start_receive: the counter goes up, the first caller posts the read. *)
StartReceive(h) ==
    IF h.calls >= Sockets(h) + Acceptors(h) + 2
    THEN Fail(h, "start_receive")
    ELSE [h EXCEPT !.calls = @ + 1,
                   !.peeks = IF h.calls = 0 THEN @ + 1 ELSE @]

(* stop_receive: the last one to stop sends an empty packet to itself to   *)
(* bring the posted read to its end.                                       *)
StopReceive(h) ==
    IF h.calls = 0 \/ h.calls > Sockets(h) + Acceptors(h) + 1
    THEN Fail(h, "stop_receive")
    ELSE [h EXCEPT !.calls = @ - 1,
                   !.empties = IF h.calls = 1 THEN @ + 1 ELSE @]
=============================================================================
