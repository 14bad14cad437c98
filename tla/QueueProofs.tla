---------------------------- MODULE QueueProofs ----------------------------
(***************************************************************************)
(* What each operator of TransmitQueue does to a queue over any numbers    *)
(* and any operations.                                                     *)
(***************************************************************************)
EXTENDS TransmitQueue, WellFoundedInduction, TLAPS

(* A transmit_queue whose entries are operations of Ops under numbers. *)
Queues(I, Ops) ==
    [ entries : [I -> Ops], flying : [Ops -> Nat],
      armed   : BOOLEAN,    open   : BOOLEAN ]

IsQueue(q, Ops) == Indices(q) \subseteq Nat /\ q \in Queues(Indices(q), Ops)

(* begin() of a map that is not empty is its least key. *)
LEMMA LeastIndex ==
    ASSUME NEW S, S \subseteq Nat, S # {}
    PROVE  \E i \in S : \A j \in S : i <= j
<1>1. \E i \in S : \A j \in S : ~ (<<j, i>> \in OpToRel(<, Nat))
  BY WFMin, NatLessThanWellFounded, Zenon
<1>2. PICK i \in S : \A j \in S : ~ (<<j, i>> \in OpToRel(<, Nat))
  BY <1>1
<1>3. ASSUME NEW j \in S PROVE i <= j
  <2>1. ~ (j < i)
    BY <1>2 DEF OpToRel
  <2> QED BY <2>1
<1> QED BY <1>3

LEMMA ActiveIsFirst ==
    ASSUME NEW Ops, NEW q, IsQueue(q, Ops), Indices(q) # {}
    PROVE  /\ Active(q) \in Indices(q)
           /\ \A j \in Indices(q) : Active(q) <= j
<1>1. \E i \in Indices(q) : \A j \in Indices(q) : i <= j
  BY LeastIndex DEF IsQueue, Queues
<1> QED BY <1>1 DEF Active

LEMMA StartedQueue ==
    ASSUME NEW Ops, NEW q, IsQueue(q, Ops), NEW op \in Ops
    PROVE  /\ IsQueue(Started(q, op), Ops)
           /\ Indices(Started(q, op)) = Indices(q)
           /\ Started(q, op).entries = q.entries
           /\ Started(q, op).flying = [q.flying EXCEPT ![op] = @ + 1]
           /\ Started(q, op).armed = q.armed
           /\ Started(q, op).open = q.open
  BY DEF IsQueue, Queues, Started, Indices

(* Starting the active entry, if there is one. *)
LEMMA StartActiveQueue ==
    ASSUME NEW Ops, NEW q, IsQueue(q, Ops)
    PROVE  /\ IsQueue(StartActive(q), Ops)
           /\ Indices(StartActive(q)) = Indices(q)
           /\ StartActive(q).entries = q.entries
           /\ StartActive(q).flying =
                IF Indices(q) = {} THEN q.flying
                ELSE [q.flying EXCEPT ![q.entries[Active(q)]] = @ + 1]
           /\ StartActive(q).armed = q.armed
           /\ StartActive(q).open = q.open
<1>1. CASE Indices(q) = {}
  BY <1>1 DEF StartActive
<1>2. CASE Indices(q) # {}
  <2>1. q.entries[Active(q)] \in Ops
    BY <1>2, ActiveIsFirst DEF IsQueue, Queues
  <2> QED BY <1>2, <2>1, StartedQueue DEF StartActive
<1> QED BY <1>1, <1>2

(* Stopping the timer. *)
LEMMA IdleQueue ==
    ASSUME NEW Ops, NEW q, IsQueue(q, Ops)
    PROVE  LET idle == [q EXCEPT !.armed = FALSE]
           IN  /\ IsQueue(idle, Ops) /\ Indices(idle) = Indices(q)
               /\ idle.entries = q.entries /\ idle.flying = q.flying
               /\ idle.armed = FALSE /\ idle.open = q.open
<1> DEFINE idle == [q EXCEPT !.armed = FALSE]
<1>1. /\ idle \in Queues(Indices(q), Ops)
      /\ idle.entries = q.entries /\ idle.flying = q.flying
      /\ idle.armed = FALSE /\ idle.open = q.open
  BY DEF IsQueue, Queues
<1> HIDE DEF idle
<1>2. Indices(idle) = Indices(q)
  BY <1>1 DEF Indices
<1>3. IsQueue(idle, Ops)
  BY <1>1, <1>2 DEF IsQueue
<1> QED BY <1>1, <1>2, <1>3 DEF idle

LEMMA TickedQueue ==
    ASSUME NEW Ops, NEW q, IsQueue(q, Ops)
    PROVE  /\ IsQueue(Ticked(q), Ops)
           /\ Indices(Ticked(q)) = Indices(q)
           /\ Ticked(q).entries = q.entries
           /\ Ticked(q).flying =
                IF Indices(q) = {} THEN q.flying
                ELSE [q.flying EXCEPT ![q.entries[Active(q)]] = @ + 1]
           /\ Ticked(q).armed = FALSE
           /\ Ticked(q).open = q.open
<1> DEFINE idle == [q EXCEPT !.armed = FALSE]
<1>1. /\ IsQueue(idle, Ops) /\ Indices(idle) = Indices(q)
      /\ idle.entries = q.entries /\ idle.flying = q.flying
      /\ idle.armed = FALSE /\ idle.open = q.open
  BY IdleQueue
<1>2. Active(idle) = Active(q)
  BY <1>1 DEF Active
<1>3. Ticked(q) = StartActive(idle)
  BY DEF Ticked
<1> HIDE DEF idle
<1> QED BY <1>1, <1>2, <1>3, StartActiveQueue

(* push() of a number not in use; of one in use it changes nothing. *)
LEMMA PushedQueue ==
    ASSUME NEW Ops, NEW q, IsQueue(q, Ops), NEW op \in Ops,
           NEW i \in Nat, i \notin Indices(q)
    PROVE  /\ IsQueue(Pushed(q, i, op), Ops)
           /\ Indices(Pushed(q, i, op)) = Indices(q) \union {i}
           /\ Pushed(q, i, op).entries[i] = op
           /\ \A j \in Indices(q) : Pushed(q, i, op).entries[j] = q.entries[j]
           /\ Pushed(q, i, op).flying =
                IF Indices(q) = {} THEN [q.flying EXCEPT ![op] = @ + 1]
                ELSE q.flying
           /\ Pushed(q, i, op).armed = q.armed
           /\ Pushed(q, i, op).open = q.open
<1> DEFINE longer == [q EXCEPT !.entries = With(@, i, op)]
<1>1. /\ longer.entries = With(q.entries, i, op) /\ longer.flying = q.flying
      /\ longer.armed = q.armed /\ longer.open = q.open
      /\ longer \in Queues(Indices(q) \union {i}, Ops)
  <2>1. With(q.entries, i, op) \in [Indices(q) \union {i} -> Ops]
    BY DEF With, IsQueue, Queues
  <2> QED BY <2>1 DEF IsQueue, Queues
<1>2. /\ Indices(longer) = Indices(q) \union {i}
      /\ longer.entries[i] = op
      /\ \A j \in Indices(q) : longer.entries[j] = q.entries[j]
  BY <1>1 DEF With, Indices, IsQueue
<1>3. IsQueue(longer, Ops)
  BY <1>1, <1>2 DEF IsQueue
<1> HIDE DEF longer
<1>4. CASE Indices(q) = {}
  <2>1. Pushed(q, i, op) = Started(longer, op)
    BY <1>4 DEF Pushed, longer
  <2> QED BY <1>1, <1>2, <1>3, <1>4, <2>1, StartedQueue
<1>5. CASE Indices(q) # {}
  <2>1. Pushed(q, i, op) = longer
    BY <1>5 DEF Pushed, longer
  <2> QED BY <1>1, <1>2, <1>3, <1>5, <2>1
<1> QED BY <1>4, <1>5

LEMMA PushedRefused ==
    ASSUME NEW q, NEW op, NEW i \in Indices(q)
    PROVE  Pushed(q, i, op) = q
  BY DEF Pushed

(* apply_ack() of a number that is waiting: its entry is gone, and if it   *)
(* was the first the new first is started.                                 *)
LEMMA AckedQueue ==
    ASSUME NEW Ops, NEW q, IsQueue(q, Ops), NEW i \in Indices(q)
    PROVE  /\ IsQueue(Acked(q, i), Ops)
           /\ Indices(Acked(q, i)) = Indices(q) \ {i}
           /\ \A j \in Indices(q) \ {i} : Acked(q, i).entries[j] = q.entries[j]
           /\ Acked(q, i).flying =
                IF i # Active(q) \/ Indices(Acked(q, i)) = {} THEN q.flying
                ELSE [q.flying EXCEPT ![q.entries[Active(Acked(q, i))]] = @ + 1]
           /\ Acked(q, i).armed = (q.armed /\ i # Active(q))
           /\ Acked(q, i).open = q.open
<1> DEFINE shorter == [q EXCEPT !.entries = Without(@, i)]
           idle    == [shorter EXCEPT !.armed = FALSE]
<1>1. /\ shorter.entries = Without(q.entries, i) /\ shorter.flying = q.flying
      /\ shorter.armed = q.armed /\ shorter.open = q.open
      /\ shorter \in Queues(Indices(q) \ {i}, Ops)
  <2>1. Without(q.entries, i) \in [Indices(q) \ {i} -> Ops]
    BY DEF Without, IsQueue, Queues
  <2> QED BY <2>1 DEF IsQueue, Queues
<1>2. /\ Indices(shorter) = Indices(q) \ {i}
      /\ \A j \in Indices(q) \ {i} : shorter.entries[j] = q.entries[j]
  BY <1>1 DEF Without, Indices, IsQueue
<1>3. IsQueue(shorter, Ops)
  BY <1>1, <1>2 DEF IsQueue
<1> HIDE DEF shorter
<1>4. /\ IsQueue(idle, Ops) /\ Indices(idle) = Indices(shorter)
      /\ idle.entries = shorter.entries /\ idle.flying = shorter.flying
      /\ idle.armed = FALSE /\ idle.open = shorter.open
  BY <1>3, IdleQueue
<1> HIDE DEF idle
<1>5. CASE i = Active(q)
  <2>1. Acked(q, i) = StartActive(idle)
    BY <1>5 DEF Acked, shorter, idle
  <2>2. Active(StartActive(idle)) = Active(idle)
    BY <1>4, StartActiveQueue DEF Active
  <2>3. /\ Indices(Acked(q, i)) = Indices(idle)
        /\ Acked(q, i).entries = idle.entries
        /\ IsQueue(Acked(q, i), Ops)
        /\ Acked(q, i).armed = FALSE /\ Acked(q, i).open = q.open
        /\ Acked(q, i).flying =
             IF Indices(idle) = {} THEN q.flying
             ELSE [q.flying EXCEPT ![idle.entries[Active(Acked(q, i))]] = @ + 1]
    BY <2>1, <2>2, <1>1, <1>4, StartActiveQueue
  <2>4. Indices(idle) # {} =>
          idle.entries[Active(Acked(q, i))] = q.entries[Active(Acked(q, i))]
    BY <2>1, <2>2, <1>2, <1>4, ActiveIsFirst
  <2> QED BY <1>2, <1>4, <1>5, <2>3, <2>4
<1>6. CASE i # Active(q)
  <2>1. Acked(q, i) = shorter
    BY <1>6 DEF Acked, shorter
  <2> QED BY <1>1, <1>2, <1>3, <1>6, <2>1 DEF IsQueue, Queues
<1> QED BY <1>5, <1>6

LEMMA AckedUnknown ==
    ASSUME NEW q, NEW i, i \notin Indices(q)
    PROVE  Acked(q, i) = q
  BY DEF Acked

LEMMA CompletedQueue ==
    ASSUME NEW Ops, NEW q, IsQueue(q, Ops), NEW op \in Ops,
           q.flying[op] # 0, NEW error
    PROVE  /\ IsQueue(Completed(q, op, error), Ops)
           /\ Indices(Completed(q, op, error)) = Indices(q)
           /\ Completed(q, op, error).entries = q.entries
           /\ Completed(q, op, error).open = q.open
           /\ Completed(q, op, error).armed \/ ToHandler(q, error)
<1> DEFINE rearmed == q.armed \/ ~ ToHandler(q, error)
           fewer   == [q.flying EXCEPT ![op] = @ - 1]
<1>1. fewer \in [Ops -> Nat]
  BY DEF IsQueue, Queues
<1>2. rearmed \in BOOLEAN
  BY Zenon
<1> DEFINE done == [q EXCEPT !.flying = fewer, !.armed = rearmed]
<1>3. Completed(q, op, error) = done
  BY DEF Completed, IsQueue, Queues
<1> HIDE DEF rearmed, fewer
<1>4. /\ done \in Queues(Indices(q), Ops)
      /\ done.entries = q.entries /\ done.flying = fewer
      /\ done.armed = rearmed /\ done.open = q.open
  BY <1>1, <1>2 DEF IsQueue, Queues
<1> HIDE DEF done
<1>5. Indices(done) = Indices(q)
  BY <1>4 DEF Indices
<1>6. IsQueue(done, Ops)
  BY <1>4, <1>5 DEF IsQueue
<1>7. done.armed \/ ToHandler(q, error)
  BY <1>4, Zenon DEF rearmed
<1> QED BY <1>3, <1>4, <1>5, <1>6, <1>7 DEF fewer

LEMMA ShutDownQueue ==
    ASSUME NEW Ops, NEW q, IsQueue(q, Ops)
    PROVE  /\ IsQueue(ShutDown(q), Ops)
           /\ Indices(ShutDown(q)) = {}
           /\ ShutDown(q).flying = q.flying
           /\ ShutDown(q).open = FALSE
<1> DEFINE none == [i \in {} |-> 0]
<1>1. DOMAIN none = {} /\ none \in [{} -> Ops]
  OBVIOUS
<1>2. /\ ShutDown(q).entries = none /\ ShutDown(q).flying = q.flying
      /\ ShutDown(q).open = FALSE
      /\ ShutDown(q) \in Queues({}, Ops)
  <2> HIDE DEF none
  <2> QED BY <1>1 DEF ShutDown, IsQueue, Queues, none
<1> QED BY <1>1, <1>2 DEF IsQueue, Indices
=============================================================================
