--------------------------- MODULE TransmitQueue ---------------------------
(***************************************************************************)
(* transmit_queue (detail/transmit_queue.hpp): the datagrams a socket has  *)
(* to send until they are acknowledged.  The queue is a record of          *)
(*   entries  the std::map from index to operation (its step and handler), *)
(*            ordered by the raw index,                                    *)
(*   flying   how many calls of an operation's step have not completed,    *)
(*   armed    whether the retransmission timer is started,                 *)
(*   open     whether shutdown_indicator is still there.                   *)
(* The operators give the queue after a call; which handlers the call runs *)
(* or posts is for the caller to tell from the queue before it.            *)
(***************************************************************************)
EXTENDS Naturals

Indices(q) == DOMAIN q.entries

Waiting(q) == {q.entries[i] : i \in Indices(q)}

EmptyQueue(Ops) ==
    [ entries |-> [i \in {} |-> 0],
      flying  |-> [op \in Ops |-> 0],
      armed   |-> FALSE,
      open    |-> TRUE ]

(* entries.begin() *)
Active(q) == CHOOSE i \in Indices(q) : \A j \in Indices(q) : i <= j

Without(f, i) == [j \in DOMAIN f \ {i} |-> f[j]]

With(f, i, op) == [j \in DOMAIN f \union {i} |-> IF j = i THEN op ELSE f[j]]

\* start_step up to its return: the step is called and will complete later.
Started(q, op) == [q EXCEPT !.flying[op] = @ + 1]

StartActive(q) ==
    IF Indices(q) = {} THEN q ELSE Started(q, q.entries[Active(q)])

(* push(): an index in use is refused; only the first entry is started. *)
\* Faulty variant: every entry is started as it is pushed.
PushedEager(q, i, op) ==
    IF i \in Indices(q) THEN q
    ELSE Started([q EXCEPT !.entries = With(@, i, op)], op)

Pushed(q, i, op) ==
    LET longer == [q EXCEPT !.entries = With(@, i, op)]
    IN  IF i \in Indices(q) THEN q
        ELSE IF Indices(q) = {} THEN Started(longer, op)
        ELSE longer

(* apply_ack(): the entry of exactly this index is done, and if it was the *)
(* active one the next is started at once.                                 *)
\* Faulty variant: the next entry is left to the timer just stopped.
AckedIdle(q, i) ==
    IF i \notin Indices(q) THEN q
    ELSE [q EXCEPT !.entries = Without(@, i), !.armed = FALSE]

\* Faulty variant: the entry acknowledged stays.
AckedKeeping(q, i) ==
    IF i \in Indices(q) /\ i = Active(q) THEN [q EXCEPT !.armed = FALSE] ELSE q

Acked(q, i) ==
    LET shorter == [q EXCEPT !.entries = Without(@, i)]
    IN  IF i \notin Indices(q) THEN q
        ELSE IF i = Active(q) THEN StartActive([shorter EXCEPT !.armed = FALSE])
        ELSE shorter

(* on_timer_tick() *)
Ticked(q) == StartActive([q EXCEPT !.armed = FALSE])

(* A step completes (172-181): without error and before shutdown the timer *)
(* is started, otherwise it is the operation's handler that is called.     *)
\* Faulty variant: what was sent counts as done.
ToHandlerAtOnce(q, error) == TRUE

ToHandler(q, error) == error \/ ~ q.open

\* Faulty variant: the timer is not started.
CompletedUnarmed(q, op, error) == [q EXCEPT !.flying[op] = @ - 1]

Completed(q, op, error) ==
    [q EXCEPT !.flying[op] = @ - 1,
              !.armed = @ \/ ~ ToHandler(q, error)]

(* shutdown() *)
ShutDown(q) ==
    [q EXCEPT !.entries = [i \in {} |-> 0], !.armed = FALSE, !.open = FALSE]
=============================================================================
