------------------------- MODULE TransmissionProofs -------------------------
(***************************************************************************)
(* Proofs about Transmission for any number of operations and any range of *)
(* sequence numbers.  Each theorem names what it needs beside the code:    *)
(* that async_send_to never fails, or that the numbers are not used up.    *)
(***************************************************************************)
EXTENDS Transmission, QueueProofs

NoErrors == SendErrors = FALSE

(* The numbers a socket uses do not wrap. *)
NoWrap == First + MaxNumbers <= Max + 1

TypeInv == TypeOK /\ IsQueue(queue, Ops)

(* Without wrapping, the numbers order the entries by age, and name them:  *)
(* a datagram still under way is that of the entry its number finds.       *)
OrderInv ==
    /\ \A i \in Indices(queue) :
          /\ i < First + numbers
          /\ queue.entries[i] <= pushed
    /\ \A i, j \in Indices(queue) :
          i < j => queue.entries[i] < queue.entries[j]
    /\ \A op \in tried : op <= pushed
    /\ \A op \in Ops, i \in 0 .. Max :
          <<op, i>> \in network =>
              /\ i < First + numbers
              /\ i \in Indices(queue) => queue.entries[i] = op
    /\ \A op \in Ops : <<op, "ok">> \notin posted
    /\ InOrder

Refused(op) == \E r \in Results : <<op, r>> \in posted

(* Before the queue is shut down all that is posted are refusals, one for  *)
(* each operation refused, and no operation waits under two numbers.       *)
PlaceInv ==
    queue.open =>
        /\ \A i, j \in Indices(queue) :
              queue.entries[i] = queue.entries[j] => i = j
        /\ \A i \in Indices(queue) : queue.entries[i] <= pushed
        /\ \A op \in Ops, r \in Results :
              <<op, r>> \in posted => op <= pushed /\ r = "already_started"
        /\ \A op \in Ops : op > pushed => calls[op] = 0
        /\ \A op \in 1 .. pushed :
              \/ op \in Waiting(queue) /\ ~ Refused(op) /\ calls[op] = 0
              \/ op \notin Waiting(queue) /\ Refused(op) /\ calls[op] = 0
              \/ op \notin Waiting(queue) /\ ~ Refused(op) /\ calls[op] = 1
-----------------------------------------------------------------------------
(* What the steps started by a call add to the network and to tried. *)
LEMMA SendingAny ==
    ASSUME IsQueue(queue', Ops), Sending
    PROVE  /\ \A d \in network' :
                d \in network \/ \E i \in Indices(queue') : d = <<queue'.entries[i], i>>
           /\ tried' \subseteq tried \union {queue'.entries[i] : i \in Indices(queue')}
           /\ tried \subseteq tried'
  BY DEF Sending

LEMMA SendingNothing ==
    ASSUME IsQueue(queue, Ops), IsQueue(queue', Ops),
           queue'.flying = queue.flying, Sending
    PROVE  tried' = tried
<1>1. \A i \in Indices(queue') :
         ~ (queue'.flying[queue'.entries[i]] > queue.flying[queue'.entries[i]])
  BY DEF IsQueue, Queues
<1> QED BY <1>1 DEF Sending

LEMMA SendingOne ==
    ASSUME IsQueue(queue, Ops), IsQueue(queue', Ops),
           NEW op \in Ops, Sending,
           queue'.flying = [queue.flying EXCEPT ![op] = @ + 1]
    PROVE  tried' \subseteq tried \union {op}
<1>1. \A i \in Indices(queue') :
         queue'.flying[queue'.entries[i]] > queue.flying[queue'.entries[i]]
            => queue'.entries[i] = op
  BY DEF IsQueue, Queues
<1> QED BY <1>1 DEF Sending

LEMMA NumberInRange == TypeInv => NextNumber \in 0 .. Max
  BY TransmissionAssumption DEF TypeInv, TypeOK, NextNumber
-----------------------------------------------------------------------------
(* The effect of each call on the queue and on what was transmitted. *)
LEMMA PushEffect ==
    ASSUME TypeInv, Push
    PROVE  /\ pushed' = pushed + 1 /\ pushed' \in Ops
           /\ IsQueue(queue', Ops) /\ queue'.open = queue.open
           /\ NextNumber \in Indices(queue) =>
                /\ queue' = queue /\ tried' = tried
                /\ posted' = posted \union {<<pushed', "already_started">>}
           /\ NextNumber \notin Indices(queue) =>
                /\ Indices(queue') = Indices(queue) \union {NextNumber}
                /\ queue'.entries[NextNumber] = pushed'
                /\ \A i \in Indices(queue) : queue'.entries[i] = queue.entries[i]
                /\ posted' = posted /\ queue'.armed = queue.armed
           /\ Indices(queue) = {} =>
                /\ queue'.flying[pushed'] > 0
                /\ tried' \subseteq tried \union {pushed'}
           /\ Indices(queue) # {} =>
                queue'.flying = queue.flying /\ tried' = tried
<1>1. /\ pushed' = pushed + 1 /\ pushed' \in Ops /\ Sending
      /\ queue' = Pushed(queue, NextNumber, pushed')
      /\ IsQueue(queue, Ops) /\ NextNumber \in Nat
      /\ posted' = IF NextNumber \in Indices(queue)
                   THEN posted \union {<<pushed', "already_started">>}
                   ELSE posted
  BY NumberInRange, TransmissionAssumption DEF Push, TypeInv
<1>2. CASE NextNumber \in Indices(queue)
  <2>1. queue' = queue
    BY <1>1, <1>2, PushedRefused
  <2>2. tried' = tried
    BY <1>1, <2>1, SendingNothing
  <2> QED BY <1>1, <1>2, <2>1, <2>2
<1>3. CASE NextNumber \notin Indices(queue)
  <2>1. /\ IsQueue(queue', Ops)
        /\ Indices(queue') = Indices(queue) \union {NextNumber}
        /\ queue'.entries[NextNumber] = pushed'
        /\ \A j \in Indices(queue) : queue'.entries[j] = queue.entries[j]
        /\ queue'.flying = IF Indices(queue) = {}
                           THEN [queue.flying EXCEPT ![pushed'] = @ + 1]
                           ELSE queue.flying
        /\ queue'.armed = queue.armed
        /\ queue'.open = queue.open
    <3> DEFINE op == pushed'
               n  == NextNumber
    <3>1. IsQueue(queue, Ops) /\ op \in Ops /\ n \in Nat /\ n \notin Indices(queue)
      BY <1>1, <1>3
    <3>2. queue' = Pushed(queue, n, op)
      BY <1>1
    <3> HIDE DEF op, n
    <3>3. /\ IsQueue(queue', Ops)
          /\ Indices(queue') = Indices(queue) \union {n}
          /\ queue'.entries[n] = op
          /\ \A j \in Indices(queue) : queue'.entries[j] = queue.entries[j]
          /\ queue'.flying = IF Indices(queue) = {}
                             THEN [queue.flying EXCEPT ![op] = @ + 1]
                             ELSE queue.flying
          /\ queue'.armed = queue.armed
          /\ queue'.open = queue.open
      BY <3>1, <3>2, PushedQueue
    <3> QED BY <3>3 DEF op, n
  <2>2. CASE Indices(queue) = {}
    <3>1. tried' \subseteq tried \union {pushed'}
      BY <1>1, <2>1, <2>2, SendingOne
    <3>2. queue'.flying[pushed'] > 0
      BY <1>1, <2>1, <2>2 DEF IsQueue, Queues
    <3> QED BY <1>1, <1>3, <2>1, <2>2, <3>1, <3>2
  <2>3. CASE Indices(queue) # {}
    <3>1. tried' = tried
      BY <1>1, <2>1, <2>3, SendingNothing
    <3> QED BY <1>1, <1>3, <2>1, <2>3, <3>1
  <2> QED BY <2>2, <2>3
<1> QED BY <1>2, <1>3

LEMMA TickEffect ==
    ASSUME TypeInv, Tick
    PROVE  /\ IsQueue(queue', Ops) /\ queue'.open = queue.open
           /\ Indices(queue') = Indices(queue)
           /\ queue'.entries = queue.entries
           /\ Indices(queue) = {} => tried' = tried
           /\ Indices(queue) # {} =>
                LET first == queue.entries[Active(queue)]
                IN  /\ queue'.flying[first] > 0
                    /\ tried' \subseteq tried \union {first}
<1> DEFINE first == queue.entries[Active(queue)]
<1>1. queue' = Ticked(queue) /\ Sending /\ IsQueue(queue, Ops)
  BY DEF Tick, TypeInv
<1>2. /\ IsQueue(queue', Ops) /\ Indices(queue') = Indices(queue)
      /\ queue'.entries = queue.entries /\ queue'.open = queue.open
      /\ queue'.flying = IF Indices(queue) = {} THEN queue.flying
                         ELSE [queue.flying EXCEPT ![first] = @ + 1]
  BY <1>1, TickedQueue
<1>3. CASE Indices(queue) = {}
  BY <1>1, <1>2, <1>3, SendingNothing
<1>4. CASE Indices(queue) # {}
  <2>1. first \in Ops
    BY <1>1, <1>4, ActiveIsFirst DEF IsQueue, Queues
  <2> HIDE DEF first
  <2>2. queue'.flying[first] > 0
    BY <1>1, <1>2, <1>4, <2>1 DEF IsQueue, Queues
  <2>3. tried' \subseteq tried \union {first}
    BY <1>1, <1>2, <1>4, <2>1, SendingOne
  <2> QED BY <1>2, <1>4, <2>2, <2>3 DEF first
<1> QED BY <1>3, <1>4

LEMMA AckEffect ==
    ASSUME TypeInv, NEW op \in Ops, NEW i \in 0 .. Max, AckArrives(op, i)
    PROVE  /\ IsQueue(queue', Ops) /\ queue'.open = queue.open
           /\ i \notin Indices(queue) => queue' = queue /\ tried' = tried
           /\ i \in Indices(queue) =>
                /\ Indices(queue') = Indices(queue) \ {i}
                /\ \A j \in Indices(queue') : queue'.entries[j] = queue.entries[j]
           /\ i \in Indices(queue) /\ (i # Active(queue) \/ Indices(queue') = {}) =>
                tried' = tried
           /\ i \in Indices(queue) /\ i # Active(queue) =>
                queue'.flying = queue.flying /\ queue'.armed = queue.armed
           /\ i \in Indices(queue) /\ i = Active(queue) /\ Indices(queue') # {} =>
                LET first == queue'.entries[Active(queue')]
                IN  /\ queue'.flying[first] > 0
                    /\ tried' \subseteq tried \union {first}
<1> DEFINE first == queue'.entries[Active(queue')]
<1>1. queue' = Acked(queue, i) /\ Sending /\ IsQueue(queue, Ops)
  BY DEF AckArrives, TypeInv
<1>2. CASE i \notin Indices(queue)
  <2>1. queue' = queue
    BY <1>1, <1>2, AckedUnknown
  <2>2. tried' = tried
    BY <1>1, <2>1, SendingNothing
  <2> QED BY <1>1, <1>2, <2>1, <2>2
<1>3. CASE i \in Indices(queue)
  <2>1. /\ IsQueue(queue', Ops) /\ Indices(queue') = Indices(queue) \ {i}
        /\ \A j \in Indices(queue) \ {i} : queue'.entries[j] = queue.entries[j]
        /\ queue'.flying =
             IF i # Active(queue) \/ Indices(queue') = {} THEN queue.flying
             ELSE [queue.flying EXCEPT ![queue.entries[Active(queue')]] = @ + 1]
        /\ queue'.armed = (queue.armed /\ i # Active(queue))
        /\ queue'.open = queue.open
    BY <1>1, <1>3, AckedQueue
  <2>2. i # Active(queue) => queue'.armed = queue.armed
    BY <1>1, <2>1, Zenon DEF IsQueue, Queues
  <2>3. CASE i # Active(queue) \/ Indices(queue') = {}
    <3>1. tried' = tried
      BY <1>1, <2>1, <2>3, SendingNothing
    <3> QED BY <1>3, <2>1, <2>2, <2>3, <3>1
  <2>4. CASE i = Active(queue) /\ Indices(queue') # {}
    <3>1. Active(queue') \in Indices(queue')
      BY <2>1, <2>4, ActiveIsFirst
    <3>2. first \in Ops /\ first = queue.entries[Active(queue')]
      BY <2>1, <3>1 DEF IsQueue, Queues
    <3> HIDE DEF first
    <3>3. queue'.flying[first] > 0
      BY <1>1, <2>1, <2>4, <3>2 DEF IsQueue, Queues
    <3>4. tried' \subseteq tried \union {first}
      BY <1>1, <2>1, <2>4, <3>2, SendingOne
    <3> QED BY <1>3, <2>1, <2>4, <3>3, <3>4 DEF first
  <2> QED BY <2>3, <2>4
<1> QED BY <1>2, <1>3

LEMMA CompleteEffect ==
    ASSUME TypeInv, NEW op \in Ops, NEW error,
           StepCompletes(op, error)
    PROVE  /\ IsQueue(queue', Ops) /\ queue'.open = queue.open
           /\ Indices(queue') = Indices(queue)
           /\ queue'.entries = queue.entries
           /\ queue.open /\ ~ error => queue'.armed
           /\ queue.open /\ calls' # calls => error /\ result'[op] = "failed"
           /\ \A o \in Ops : calls'[o] # calls[o] => o = op
<1>1. /\ queue' = Completed(queue, op, error) /\ IsQueue(queue, Ops)
      /\ queue.flying[op] # 0
  BY DEF StepCompletes, TypeInv, TypeOK
<1>2. /\ IsQueue(queue', Ops) /\ queue'.open = queue.open
      /\ Indices(queue') = Indices(queue)
      /\ queue'.entries = queue.entries
      /\ queue'.armed \/ ToHandler(queue, error)
  BY <1>1, CompletedQueue
<1>4. queue.open /\ ~ error => queue'.armed
  BY <1>2, Zenon DEF ToHandler
<1>5. CASE ToHandler(queue, error)
  <2>1. Call(op, IF error THEN "failed" ELSE "ok")
    BY <1>5 DEF StepCompletes
  <2>2. /\ calls' = [calls EXCEPT ![op] = @ + 1]
        /\ result' = [result EXCEPT ![op] = IF error THEN "failed" ELSE "ok"]
    BY <2>1 DEF Call
  <2>3. queue.open => error
    BY <1>5, Zenon DEF ToHandler
  <2>4. \A o \in Ops : calls'[o] # calls[o] => o = op
    BY <2>2 DEF TypeInv, TypeOK
  <2>5. error => result'[op] = "failed"
    BY <2>2 DEF TypeInv, TypeOK
  <2> QED BY <1>2, <1>4, <2>3, <2>4, <2>5
<1>6. CASE ~ ToHandler(queue, error)
  <2>1. NoCall
    BY <1>6 DEF StepCompletes
  <2> QED BY <1>2, <1>4, <2>1 DEF NoCall
<1> QED BY <1>5, <1>6

LEMMA CloseEffect ==
    ASSUME TypeInv, Close
    PROVE  IsQueue(queue', Ops) /\ Indices(queue') = {} /\ ~ queue'.open
  BY ShutDownQueue DEF Close, TypeInv
-----------------------------------------------------------------------------
LEMMA TypeInit == Init => TypeInv
<1> SUFFICES ASSUME Init PROVE TypeInv
  OBVIOUS
<1>1. [i \in {} |-> 0] \in [{} -> Ops] /\ DOMAIN [i \in {} |-> 0] = {}
  OBVIOUS
<1>2. queue = EmptyQueue(Ops)
  BY DEF Init
<1>3. /\ queue.entries = [i \in {} |-> 0]
      /\ queue \in Queues({}, Ops)
  BY <1>1, <1>2 DEF EmptyQueue, Queues
<1>4. IsQueue(queue, Ops) /\ Indices(queue) = {}
  BY <1>1, <1>3 DEF IsQueue, Indices
<1> QED
  BY <1>4, TransmissionAssumption
  DEF Init, TypeInv, TypeOK, IsQueue, Queues, Results

(* The types of the queue and of what a call sends follow from its keys. *)
LEMMA TypeOfQueue ==
    ASSUME IsQueue(queue', Ops), Indices(queue') \subseteq 0 .. Max
    PROVE  /\ queue'.entries \in [Indices(queue') -> Ops]
           /\ queue'.flying \in [Ops -> Nat]
           /\ queue'.armed \in BOOLEAN /\ queue'.open \in BOOLEAN
  BY DEF IsQueue, Queues

LEMMA TypeOfSending ==
    ASSUME TypeInv, IsQueue(queue', Ops), Indices(queue') \subseteq 0 .. Max,
           Sending
    PROVE  network' \subseteq Ops \X (0 .. Max) /\ tried' \subseteq Ops
<1>1. \A i \in Indices(queue') : queue'.entries[i] \in Ops
  BY DEF IsQueue, Queues
<1> QED BY <1>1, SendingAny DEF TypeInv, TypeOK

LEMMA TypeOfCall ==
    ASSUME TypeInv, NEW op \in Ops, NEW r \in Results, Call(op, r)
    PROVE  calls' \in [Ops -> Nat] /\ result' \in [Ops -> Results]
  BY DEF TypeInv, TypeOK, Call

LEMMA TypeStep == TypeInv /\ [Next]_vars => TypeInv'
<1> SUFFICES ASSUME TypeInv, [Next]_vars PROVE TypeInv'
  OBVIOUS
<1>0. /\ TypeOK /\ IsQueue(queue, Ops)
      /\ {"ok", "failed", "aborted", "already_started"} \subseteq Results
  BY DEF TypeInv, Results
<1>1. CASE Push
  <2>1. IsQueue(queue', Ops) /\ Indices(queue') \subseteq 0 .. Max
    BY <1>0, <1>1, PushEffect, NumberInRange DEF TypeOK
  <2>2. Sending
    BY <1>1 DEF Push
  <2>3. network' \subseteq Ops \X (0 .. Max) /\ tried' \subseteq Ops
    BY <2>1, <2>2, TypeOfSending
  <2>4. /\ pushed' \in 0 .. MaxOps /\ numbers' \in 0 .. MaxNumbers
        /\ posted' \subseteq Ops \X Results
        /\ calls' \in [Ops -> Nat] /\ result' \in [Ops -> Results]
        /\ reached' \subseteq Ops
    <3>1. /\ pushed' = pushed + 1 /\ pushed' \in Ops
          /\ numbers < MaxNumbers /\ numbers' = numbers + 1
          /\ calls' = calls /\ result' = result /\ reached' = reached
          /\ posted' \subseteq posted \union {<<pushed', "already_started">>}
      BY <1>1 DEF Push, NoCall
    <3>2. pushed' \in 0 .. MaxOps /\ numbers' \in 0 .. MaxNumbers
      BY <1>0, <3>1, TransmissionAssumption DEF TypeOK, Ops
    <3> QED BY <1>0, <3>1, <3>2 DEF TypeOK
  <2> QED BY <2>1, <2>3, <2>4, TypeOfQueue DEF TypeInv, TypeOK
<1>2. CASE SkipNumber
  BY <1>0, <1>2, TransmissionAssumption
  DEF SkipNumber, TypeInv, TypeOK
<1>3. CASE Tick
  <2>1. IsQueue(queue', Ops) /\ Indices(queue') \subseteq 0 .. Max
    BY <1>0, <1>3, TickEffect DEF TypeOK
  <2>2. Sending
    BY <1>3 DEF Tick
  <2>3. network' \subseteq Ops \X (0 .. Max) /\ tried' \subseteq Ops
    BY <2>1, <2>2, TypeOfSending
  <2> QED
    BY <1>0, <1>3, <2>1, <2>3, TypeOfQueue DEF Tick, NoCall, TypeInv, TypeOK
<1>4. CASE Close
  <2>1. IsQueue(queue', Ops) /\ Indices(queue') \subseteq 0 .. Max
    BY <1>4, CloseEffect
  <2>2. \A op \in Waiting(queue) : op \in Ops
    BY <1>0 DEF TypeOK, Waiting
  <2>3. posted' \subseteq Ops \X Results
    BY <1>0, <1>4, <2>2 DEF Close, TypeOK
  <2> QED
    BY <1>0, <1>4, <2>1, <2>3, TypeOfQueue DEF Close, NoCall, TypeInv, TypeOK
<1>5. ASSUME NEW op \in Ops, NEW error \in BOOLEAN, StepCompletes(op, error)
      PROVE  TypeInv'
  <2>1. IsQueue(queue', Ops) /\ Indices(queue') \subseteq 0 .. Max
    BY <1>0, <1>5, CompleteEffect DEF TypeOK
  <2>2. Call(op, IF error THEN "failed" ELSE "ok") \/ NoCall
    BY <1>5 DEF StepCompletes
  <2>3. calls' \in [Ops -> Nat] /\ result' \in [Ops -> Results]
    BY <1>0, <2>2, TypeOfCall DEF NoCall, TypeOK
  <2> QED
    BY <1>0, <1>5, <2>1, <2>3, TypeOfQueue DEF StepCompletes, TypeInv, TypeOK
<1>6. ASSUME NEW d \in network, Lose(d) PROVE TypeInv'
  BY <1>0, <1>6 DEF Lose, TypeInv, TypeOK
<1>7. ASSUME NEW op \in Ops, NEW i \in 0 .. Max, AckArrives(op, i)
      PROVE  TypeInv'
  <2>1. IsQueue(queue', Ops) /\ Indices(queue') \subseteq 0 .. Max
    BY <1>0, <1>7, AckEffect DEF TypeOK
  <2>2. Sending
    BY <1>7 DEF AckArrives
  <2>3. network' \subseteq Ops \X (0 .. Max) /\ tried' \subseteq Ops
    BY <2>1, <2>2, TypeOfSending
  <2>4. i \in Indices(queue) => queue.entries[i] \in Ops
    BY <1>0 DEF TypeOK
  <2>5. calls' \in [Ops -> Nat] /\ result' \in [Ops -> Results]
    BY <1>0, <1>7, <2>4, TypeOfCall DEF AckArrives, NoCall, TypeOK
  <2> QED
    BY <1>0, <1>7, <2>1, <2>3, <2>5, TypeOfQueue
    DEF AckArrives, TypeInv, TypeOK
<1>8. ASSUME NEW op \in Ops, NEW r \in Results, RunPosted(op, r)
      PROVE  TypeInv'
  <2>1. calls' \in [Ops -> Nat] /\ result' \in [Ops -> Results]
    BY <1>8, TypeOfCall DEF RunPosted
  <2> QED BY <1>0, <1>8, <2>1 DEF RunPosted, TypeInv, TypeOK
<1>9. CASE UNCHANGED vars
  BY <1>9 DEF vars, TypeInv, TypeOK
<1> QED
  BY <1>1, <1>2, <1>3, <1>4, <1>5, <1>6, <1>7, <1>8, <1>9 DEF Next

LEMMA TypeInvHolds == Spec => []TypeInv
  BY TypeInit, TypeStep, PTL DEF Spec

(* Every variable keeps its type, whatever fails; no step completes that   *)
(* was not started.                                                        *)
THEOREM TypeOKHolds == Spec => []TypeOK
<1>1. TypeInv => TypeOK
  BY DEF TypeInv
<1> QED BY <1>1, TypeInvHolds, PTL
-----------------------------------------------------------------------------
LEMMA StalledStep ==
    ASSUME NoErrors
    PROVE  TypeInv /\ NeverStalled /\ [Next]_vars => NeverStalled'
<1> SUFFICES ASSUME TypeInv, NeverStalled, [Next]_vars PROVE NeverStalled'
  OBVIOUS
<1>0. /\ NeverStalled /\ IsQueue(queue, Ops)
  BY DEF TypeInv
<1>1. CASE Push
  <2>1. CASE Indices(queue) = {}
    BY <1>1, <2>1, PushEffect DEF NeverStalled
  <2>2. CASE Indices(queue) # {}
    <3>1. queue'.armed = queue.armed /\ queue'.flying = queue.flying
      BY <1>1, <2>2, PushEffect
    <3>2. queue'.open = queue.open
      BY <1>1, PushEffect
    <3> QED BY <1>0, <2>2, <3>1, <3>2 DEF NeverStalled
  <2> QED BY <2>1, <2>2
<1>2. CASE SkipNumber
  BY <1>0, <1>2 DEF SkipNumber, NeverStalled
<1>3. CASE Tick
  <2>1. Indices(queue') = Indices(queue)
    BY <1>3, TickEffect
  <2>2. CASE Indices(queue) # {}
    <3>1. queue'.flying[queue.entries[Active(queue)]] > 0
      BY <1>3, <2>2, TickEffect
    <3>2. queue.entries[Active(queue)] \in Ops
      BY <1>0, <2>2, ActiveIsFirst DEF IsQueue, Queues
    <3> QED BY <3>1, <3>2 DEF NeverStalled
  <2> QED BY <2>1, <2>2 DEF NeverStalled
<1>4. CASE Close
  BY <1>4, CloseEffect DEF NeverStalled
<1>5. ASSUME NEW op \in Ops, NEW error \in BOOLEAN, StepCompletes(op, error)
      PROVE  NeverStalled'
  <2>1. ~ error
    BY <1>5 DEF StepCompletes, NoErrors
  <2>2. queue'.open = queue.open /\ (queue.open => queue'.armed)
    BY <1>5, <2>1, CompleteEffect
  <2> QED BY <2>2 DEF NeverStalled
<1>6. ASSUME NEW d \in network, Lose(d) PROVE NeverStalled'
  BY <1>0, <1>6 DEF Lose, NeverStalled
<1>7. ASSUME NEW op \in Ops, NEW i \in 0 .. Max, AckArrives(op, i)
      PROVE  NeverStalled'
  <2>1. IsQueue(queue', Ops) /\ queue'.open = queue.open
    BY <1>7, AckEffect
  <2>2. CASE i \notin Indices(queue)
    BY <1>0, <1>7, <2>2, AckEffect DEF NeverStalled
  <2>3. CASE i \in Indices(queue) /\ i # Active(queue)
    <3>1. queue'.flying = queue.flying /\ queue'.armed = queue.armed
      BY <1>7, <2>3, AckEffect
    <3> QED BY <1>0, <2>1, <2>3, <3>1 DEF NeverStalled
  <2>4. CASE i \in Indices(queue) /\ i = Active(queue) /\ Indices(queue') # {}
    <3>1. queue'.entries[Active(queue')] \in Ops
      BY <2>1, <2>4, ActiveIsFirst DEF IsQueue, Queues
    <3>2. queue'.flying[queue'.entries[Active(queue')]] > 0
      BY <1>7, <2>4, AckEffect
    <3> QED BY <3>1, <3>2 DEF NeverStalled
  <2>5. CASE Indices(queue') = {}
    BY <2>5 DEF NeverStalled
  <2> QED BY <2>2, <2>3, <2>4, <2>5
<1>8. ASSUME NEW op \in Ops, NEW r \in Results, RunPosted(op, r)
      PROVE  NeverStalled'
  BY <1>0, <1>8 DEF RunPosted, NeverStalled
<1>9. CASE UNCHANGED vars
  BY <1>0, <1>9 DEF vars, NeverStalled
<1> QED
  BY <1>1, <1>2, <1>3, <1>4, <1>5, <1>6, <1>7, <1>8, <1>9 DEF Next

LEMMA EmptyAtFirst == Init => Indices(queue) = {}
<1>1. DOMAIN [i \in {} |-> 0] = {}
  OBVIOUS
<1> QED BY <1>1 DEF Init, EmptyQueue, Indices

(* As long as async_send_to does not fail, an open queue that is not empty *)
(* has a step under way or its timer running: every ack and every tick     *)
(* that leaves something waiting starts the active entry.                  *)
THEOREM NeverStalledHolds ==
    ASSUME NoErrors
    PROVE  Spec => []NeverStalled
<1>1. Init => NeverStalled
  BY EmptyAtFirst DEF NeverStalled
<1>2. TypeInv /\ NeverStalled /\ [Next]_vars => NeverStalled'
  BY StalledStep
<1> QED BY <1>1, <1>2, TypeInvHolds, PTL DEF Spec
-----------------------------------------------------------------------------
LEMMA OrderInit == Init => OrderInv
<1> SUFFICES ASSUME Init PROVE OrderInv
  OBVIOUS
<1>1. Indices(queue) = {} /\ tried = {} /\ network = {} /\ posted = {}
  BY EmptyAtFirst DEF Init
<1> QED BY <1>1 DEF OrderInv, InOrder

(* What is sent now is an entry of the queue, under its own number. *)
LEMMA NetworkNamed ==
    ASSUME TypeInv, OrderInv, IsQueue(queue', Ops),
           \A i \in Indices(queue') : i < First + numbers',
           numbers' \in Nat, numbers <= numbers',
           \A i \in Indices(queue') :
              \/ i >= First + numbers
              \/ i \in Indices(queue) /\ queue'.entries[i] = queue.entries[i],
           Sending
    PROVE  \A op \in Ops, i \in 0 .. Max :
             <<op, i>> \in network' =>
                 /\ i < First + numbers'
                 /\ i \in Indices(queue') => queue'.entries[i] = op
<1> SUFFICES ASSUME NEW op \in Ops, NEW i \in 0 .. Max, <<op, i>> \in network'
             PROVE  /\ i < First + numbers'
                    /\ i \in Indices(queue') => queue'.entries[i] = op
  OBVIOUS
<1>1. \/ <<op, i>> \in network
      \/ i \in Indices(queue') /\ queue'.entries[i] = op
  BY SendingAny
<1>2. numbers \in Nat /\ First \in Nat
  BY TransmissionAssumption DEF TypeInv, TypeOK
<1>3. CASE i \in Indices(queue') /\ queue'.entries[i] = op
  BY <1>3
<1>4. CASE <<op, i>> \in network
  <2>1. i < First + numbers /\ (i \in Indices(queue) => queue.entries[i] = op)
    BY <1>4 DEF OrderInv
  <2>2. i < First + numbers' /\ ~ (i >= First + numbers)
    BY <1>2, <2>1
  <2> QED BY <2>1, <2>2
<1> QED BY <1>1, <1>3, <1>4

LEMMA OrderStep ==
    ASSUME NoWrap
    PROVE  TypeInv /\ OrderInv /\ [Next]_vars => OrderInv'
<1> SUFFICES ASSUME TypeInv, OrderInv, [Next]_vars PROVE OrderInv'
  OBVIOUS
<1>0. /\ TypeOK /\ IsQueue(queue, Ops) /\ OrderInv
      /\ First \in Nat /\ Max \in Nat /\ MaxNumbers \in Nat /\ MaxOps \in Nat
      /\ Indices(queue) \subseteq Nat
      /\ \A i \in Indices(queue) : queue.entries[i] \in Ops
  BY TransmissionAssumption DEF TypeInv, IsQueue, Queues
<1> USE DEF Ops
<1>1. CASE Push
  <2>1. /\ numbers < MaxNumbers /\ numbers' = numbers + 1 /\ Sending
        /\ numbers \in Nat /\ pushed \in Nat
    BY <1>0, <1>1 DEF Push, TypeOK
  <2>2. NextNumber = First + numbers
    BY <1>0, <2>1 DEF NextNumber, NoWrap
  <2>3. NextNumber \notin Indices(queue)
    BY <1>0, <2>1, <2>2 DEF OrderInv
  <2>4. /\ pushed' = pushed + 1 /\ pushed' \in Ops /\ IsQueue(queue', Ops)
        /\ Indices(queue') = Indices(queue) \union {NextNumber}
        /\ queue'.entries[NextNumber] = pushed'
        /\ \A i \in Indices(queue) : queue'.entries[i] = queue.entries[i]
        /\ posted' = posted
    BY <1>1, <2>3, PushEffect
  <2>5. /\ \A i \in Indices(queue') :
              i < First + numbers' /\ queue'.entries[i] <= pushed'
        /\ \A i, j \in Indices(queue') :
              i < j => queue'.entries[i] < queue'.entries[j]
    BY <1>0, <2>1, <2>2, <2>4 DEF OrderInv
  <2>6. \A op \in Ops, i \in 0 .. Max :
          <<op, i>> \in network' =>
              /\ i < First + numbers'
              /\ i \in Indices(queue') => queue'.entries[i] = op
    <3>1. \A i \in Indices(queue') :
             \/ i >= First + numbers
             \/ i \in Indices(queue) /\ queue'.entries[i] = queue.entries[i]
      BY <1>0, <2>1, <2>2, <2>4
    <3> QED BY <2>1, <2>4, <2>5, <3>1, NetworkNamed
  <2>7. (\A op \in tried' : op <= pushed') /\ InOrder'
    <3>1. CASE Indices(queue) = {}
      <4>1. tried' \subseteq tried \union {pushed'}
        BY <1>1, <3>1, PushEffect
      <4>2. Waiting(queue') = {pushed'}
        BY <2>4, <3>1 DEF Waiting
      <4> QED BY <1>0, <2>1, <2>4, <4>1, <4>2 DEF OrderInv, InOrder, TypeOK
    <3>2. CASE Indices(queue) # {}
      <4>1. tried' = tried
        BY <1>1, <3>2, PushEffect
      <4>2. Waiting(queue') = Waiting(queue) \union {pushed'}
        BY <2>4 DEF Waiting
      <4> QED BY <1>0, <2>1, <2>4, <4>1, <4>2 DEF OrderInv, InOrder, TypeOK
    <3> QED BY <3>1, <3>2
  <2> QED BY <1>0, <2>4, <2>5, <2>6, <2>7 DEF OrderInv
<1>2. CASE SkipNumber
  BY <1>0, <1>2 DEF SkipNumber, OrderInv, InOrder, TypeOK
<1>3. CASE Tick
  <2>1. /\ IsQueue(queue', Ops) /\ Indices(queue') = Indices(queue)
        /\ queue'.entries = queue.entries
    BY <1>3, TickEffect
  <2>2. /\ Sending /\ numbers' = numbers /\ numbers \in Nat
        /\ pushed' = pushed /\ posted' = posted
    BY <1>0, <1>3 DEF Tick, TypeOK
  <2>3. Waiting(queue') = Waiting(queue)
    BY <2>1 DEF Waiting
  <2>4. \A op \in Ops, i \in 0 .. Max :
          <<op, i>> \in network' =>
              /\ i < First + numbers'
              /\ i \in Indices(queue') => queue'.entries[i] = op
    <3>1. \A i \in Indices(queue') : i < First + numbers'
      BY <1>0, <2>1, <2>2 DEF OrderInv
    <3> QED BY <1>0, <2>1, <2>2, <3>1, NetworkNamed
  <2>5. (\A op \in tried' : op <= pushed') /\ InOrder'
    <3>1. CASE Indices(queue) = {}
      BY <1>0, <1>3, <2>2, <2>3, <3>1, TickEffect DEF OrderInv, InOrder
    <3>2. CASE Indices(queue) # {}
      <4> DEFINE first == queue.entries[Active(queue)]
      <4>1. tried' \subseteq tried \union {first}
        BY <1>3, <3>2, TickEffect
      <4>2. /\ Active(queue) \in Indices(queue)
            /\ \A j \in Indices(queue) : Active(queue) <= j
        BY <1>0, <3>2, ActiveIsFirst
      <4>3. /\ first \in Ops /\ first <= pushed
            /\ \A j \in Indices(queue) : first <= queue.entries[j]
        BY <1>0, <4>2 DEF OrderInv
      <4>4. \A op \in Waiting(queue) : op \in Ops /\ first <= op
        BY <1>0, <4>3 DEF Waiting
      <4> HIDE DEF first
      <4> QED BY <1>0, <2>2, <2>3, <4>1, <4>3, <4>4 DEF OrderInv, InOrder
    <3> QED BY <3>1, <3>2
  <2> QED BY <1>0, <2>1, <2>2, <2>4, <2>5 DEF OrderInv
<1>4. CASE Close
  <2>1. Indices(queue') = {} /\ Waiting(queue') = {}
    BY <1>4, CloseEffect DEF Waiting
  <2> QED BY <1>0, <1>4, <2>1 DEF Close, OrderInv, InOrder
<1>5. ASSUME NEW op \in Ops, NEW error \in BOOLEAN, StepCompletes(op, error)
      PROVE  OrderInv'
  <2>1. Indices(queue') = Indices(queue) /\ queue'.entries = queue.entries
    BY <1>5, CompleteEffect
  <2>2. Waiting(queue') = Waiting(queue)
    BY <2>1 DEF Waiting
  <2> QED BY <1>0, <1>5, <2>1, <2>2 DEF StepCompletes, OrderInv, InOrder
<1>6. ASSUME NEW d \in network, Lose(d) PROVE OrderInv'
  BY <1>0, <1>6 DEF Lose, OrderInv, InOrder
<1>7. ASSUME NEW op \in Ops, NEW i \in 0 .. Max, AckArrives(op, i)
      PROVE  OrderInv'
  <2>1. /\ Sending
        /\ numbers' = numbers /\ numbers \in Nat
        /\ pushed' = pushed /\ posted' = posted
    BY <1>0, <1>7 DEF AckArrives, TypeOK
  <2>2. /\ IsQueue(queue', Ops) /\ Indices(queue') \subseteq Indices(queue)
        /\ \A j \in Indices(queue') : queue'.entries[j] = queue.entries[j]
    BY <1>7, AckEffect
  <2>3. Waiting(queue') \subseteq Waiting(queue)
    BY <2>2 DEF Waiting
  <2>4. /\ \A j \in Indices(queue') :
              j < First + numbers' /\ queue'.entries[j] <= pushed'
        /\ \A j, k \in Indices(queue') :
              j < k => queue'.entries[j] < queue'.entries[k]
    BY <1>0, <2>1, <2>2 DEF OrderInv
  <2>5. \A o \in Ops, j \in 0 .. Max :
          <<o, j>> \in network' =>
              /\ j < First + numbers'
              /\ j \in Indices(queue') => queue'.entries[j] = o
    BY <1>0, <2>1, <2>2, <2>4, NetworkNamed
  <2>6. (\A o \in tried' : o <= pushed') /\ InOrder'
    <3>1. CASE tried' = tried
      BY <1>0, <2>1, <2>3, <3>1 DEF OrderInv, InOrder
    <3>2. CASE tried' # tried
      <4> DEFINE first == queue'.entries[Active(queue')]
      <4>1. /\ tried' \subseteq tried \union {first}
            /\ Indices(queue') # {}
        BY <1>7, <3>2, AckEffect
      <4>2. /\ Active(queue') \in Indices(queue')
            /\ \A j \in Indices(queue') : Active(queue') <= j
        BY <2>2, <4>1, ActiveIsFirst
      <4>3. /\ first \in Ops /\ first <= pushed
            /\ \A j \in Indices(queue') : first <= queue'.entries[j]
        BY <1>0, <2>1, <2>2, <2>4, <4>2
      <4>4. \A o \in Waiting(queue') : o \in Ops /\ first <= o
        BY <1>0, <2>2, <4>3 DEF Waiting
      <4> HIDE DEF first
      <4> QED BY <1>0, <2>1, <2>3, <4>1, <4>3, <4>4 DEF OrderInv, InOrder
    <3> QED BY <3>1, <3>2
  <2> QED BY <1>0, <2>1, <2>4, <2>5, <2>6 DEF OrderInv
<1>8. ASSUME NEW op \in Ops, NEW r \in Results, RunPosted(op, r)
      PROVE  OrderInv'
  BY <1>0, <1>8 DEF RunPosted, OrderInv, InOrder
<1>9. CASE UNCHANGED vars
  BY <1>0, <1>9 DEF vars, OrderInv, InOrder
<1> QED
  BY <1>1, <1>2, <1>3, <1>4, <1>5, <1>6, <1>7, <1>8, <1>9 DEF Next

LEMMA OrderInvHolds ==
    ASSUME NoWrap
    PROVE  Spec => []OrderInv
<1>1. TypeInv /\ OrderInv /\ [Next]_vars => OrderInv'
  BY OrderStep
<1> QED BY <1>1, OrderInit, TypeInvHolds, PTL DEF Spec

(* Until the sequence numbers wrap, the queue is a stop and wait queue:    *)
(* nothing is transmitted while something pushed before it is waiting,     *)
(* whatever the network loses and whichever sends fail.                    *)
THEOREM InOrderHolds ==
    ASSUME NoWrap
    PROVE  Spec => []InOrder
<1>1. OrderInv => InOrder
  BY DEF OrderInv
<1> QED BY <1>1, OrderInvHolds, PTL

(* Until the sequence numbers wrap, an open socket reports a success only  *)
(* for an operation whose own datagram the peer has acknowledged.          *)
THEOREM SuccessMeansReachedHolds ==
    ASSUME NoWrap
    PROVE  Spec => SuccessMeansReached
<1> DEFINE Reached == \A op \in Ops :
                         queue.open /\ calls'[op] # calls[op] /\ result'[op] = "ok"
                            => op \in reached'
<1>1. TypeInv /\ OrderInv /\ [Next]_vars => [Reached]_vars
  <2> SUFFICES ASSUME TypeInv, OrderInv, Next,
                      NEW o \in Ops, queue.open, calls'[o] # calls[o],
                      result'[o] = "ok"
               PROVE  o \in reached'
    OBVIOUS
  <2>1. ASSUME NEW op \in Ops, NEW error \in BOOLEAN, StepCompletes(op, error)
        PROVE  o \in reached'
    BY <2>1, CompleteEffect
  <2>2. ASSUME NEW op \in Ops, NEW i \in 0 .. Max, AckArrives(op, i)
        PROVE  o \in reached'
    <3>1. i \in Indices(queue) /\ Call(queue.entries[i], "ok")
      BY <2>2 DEF AckArrives, NoCall
    <3>2. o = queue.entries[i]
      BY <3>1 DEF Call, TypeInv, TypeOK
    <3>3. queue.entries[i] = op
      BY <2>2, <3>1 DEF AckArrives, OrderInv
    <3> QED BY <2>2, <3>2, <3>3 DEF AckArrives
  <2>3. ASSUME NEW op \in Ops, NEW r \in Results, RunPosted(op, r)
        PROVE  o \in reached'
    <3>1. o = op /\ r = "ok"
      BY <2>3 DEF RunPosted, Call, TypeInv, TypeOK
    <3> QED BY <2>3, <3>1 DEF RunPosted, OrderInv
  <2>4. ASSUME calls' = calls PROVE o \in reached'
    BY <2>4
  <2> QED
    BY <2>1, <2>2, <2>3, <2>4
    DEF Next, Push, SkipNumber, Tick, Close, Lose, NoCall
<1> QED BY <1>1, TypeInvHolds, OrderInvHolds, PTL DEF Spec, SuccessMeansReached
-----------------------------------------------------------------------------
(* While the socket stays open the places of the operations pushed so far  *)
(* do not change if neither the queue's entries nor what was posted or     *)
(* called does.                                                            *)
LEMMA PlaceKept ==
    ASSUME PlaceInv, Indices(queue') = Indices(queue),
           queue'.entries = queue.entries, queue'.open = queue.open,
           UNCHANGED <<pushed, posted, calls>>
    PROVE  PlaceInv'
<1>1. Waiting(queue') = Waiting(queue)
  BY DEF Waiting
<1>2. \A op : Refused(op)' <=> Refused(op)
  BY DEF Refused
<1> QED BY <1>1, <1>2 DEF PlaceInv

LEMMA PlaceInit == Init => PlaceInv
<1> SUFFICES ASSUME Init PROVE PlaceInv
  OBVIOUS
<1>1. Indices(queue) = {} /\ posted = {} /\ pushed = 0
  BY EmptyAtFirst DEF Init
<1>2. \A op \in Ops : calls[op] = 0
  BY DEF Init
<1> QED BY <1>1, <1>2 DEF PlaceInv

LEMMA PlaceStep ==
    ASSUME NoErrors
    PROVE  TypeInv /\ PlaceInv /\ [Next]_vars => PlaceInv'
<1> SUFFICES ASSUME TypeInv, PlaceInv, [Next]_vars PROVE PlaceInv'
  OBVIOUS
<1>0. /\ TypeOK /\ IsQueue(queue, Ops) /\ PlaceInv
      /\ MaxOps \in Nat /\ pushed \in Nat /\ pushed <= MaxOps
      /\ \A i \in Indices(queue) : queue.entries[i] \in Ops
  BY TransmissionAssumption DEF TypeInv, TypeOK
<1>1. CASE Push
  <2> SUFFICES ASSUME queue'.open PROVE PlaceInv'
    BY DEF PlaceInv
  <2>0. PICK new \in Ops : new = pushed + 1
    BY <1>1 DEF Push
  <2>1. /\ pushed' = new /\ new \in Ops /\ queue.open /\ calls' = calls
        /\ 1 .. new = 1 .. pushed \union {new}
    BY <1>0, <1>1, <2>0, PushEffect DEF Push, NoCall
  <2>2. /\ \A i \in Indices(queue) : queue.entries[i] <= pushed
        /\ \A r \in Results : <<new, r>> \notin posted
        /\ calls[new] = 0 /\ new \notin Waiting(queue)
    BY <1>0, <2>0, <2>1 DEF PlaceInv, Waiting
  <2>3. new \in 1 .. new /\ \A op \in 1 .. pushed : op \in Ops /\ op # new
    BY <1>0, <2>0 DEF Ops
  <2>4. CASE NextNumber \in Indices(queue)
    <3>1. queue' = queue /\ posted' = posted \union {<<new, "already_started">>}
      BY <1>1, <2>1, <2>4, PushEffect
    <3>2. "already_started" \in Results
      BY DEF Results
    <3>3. Refused(new)'
      BY <3>1, <3>2 DEF Refused
    <3>4. \A op \in Ops \ {new} : Refused(op)' <=> Refused(op)
      BY <3>1 DEF Refused
    <3>5. ASSUME NEW op \in 1 .. pushed'
          PROVE  \/ op \in Waiting(queue') /\ ~ Refused(op)' /\ calls'[op] = 0
                 \/ op \notin Waiting(queue') /\ Refused(op)' /\ calls'[op] = 0
                 \/ op \notin Waiting(queue') /\ ~ Refused(op)' /\ calls'[op] = 1
      <4>1. CASE op = new
        BY <2>1, <2>2, <3>1, <3>3, <4>1
      <4>2. CASE op \in 1 .. pushed
        BY <1>0, <2>1, <2>3, <3>1, <3>4, <4>2 DEF PlaceInv
      <4> QED BY <2>1, <4>1, <4>2
    <3>6. /\ \A i \in Indices(queue') : queue'.entries[i] <= pushed'
          /\ \A op \in Ops : op > pushed' => calls'[op] = 0
      BY <1>0, <2>0, <2>1, <2>2, <3>1 DEF PlaceInv, Ops
    <3>7. \A op \in Ops, r \in Results :
             <<op, r>> \in posted' => op <= pushed' /\ r = "already_started"
      <4>1. ASSUME NEW op \in Ops, NEW r \in Results, <<op, r>> \in posted
            PROVE  op <= pushed' /\ r = "already_started"
        BY <1>0, <2>0, <2>1, <4>1 DEF PlaceInv, Ops
      <4>2. new <= pushed'
        BY <1>0, <2>0, <2>1 DEF Ops
      <4> QED BY <2>1, <3>1, <4>1, <4>2
    <3> QED BY <1>0, <2>1, <3>1, <3>5, <3>6, <3>7 DEF PlaceInv
  <2>5. CASE NextNumber \notin Indices(queue)
    <3>1. /\ posted' = posted
          /\ Indices(queue') = Indices(queue) \union {NextNumber}
          /\ queue'.entries[NextNumber] = new
          /\ \A i \in Indices(queue) : queue'.entries[i] = queue.entries[i]
      BY <1>1, <2>1, <2>5, PushEffect
    <3>2. Waiting(queue') = Waiting(queue) \union {new}
      BY <3>1 DEF Waiting
    <3>3. /\ ~ Refused(new)'
          /\ \A op \in Ops : Refused(op)' <=> Refused(op)
      BY <2>2, <3>1 DEF Refused
    <3>4. \A i, j \in Indices(queue') :
             queue'.entries[i] = queue'.entries[j] => i = j
      BY <1>0, <2>0, <2>1, <2>2, <3>1 DEF PlaceInv, Waiting
    <3>5. \A i \in Indices(queue') : queue'.entries[i] <= pushed'
      BY <1>0, <2>0, <2>1, <2>2, <3>1 DEF Ops
    <3>6. \A op \in Ops, r \in Results :
             <<op, r>> \in posted' => op <= pushed' /\ r = "already_started"
      BY <1>0, <2>0, <2>1, <3>1 DEF PlaceInv, Ops
    <3>7. \A op \in Ops : op > pushed' => calls'[op] = 0
      BY <1>0, <2>0, <2>1 DEF PlaceInv, Ops
    <3>8. ASSUME NEW op \in 1 .. pushed'
          PROVE  \/ op \in Waiting(queue') /\ ~ Refused(op)' /\ calls'[op] = 0
                 \/ op \notin Waiting(queue') /\ Refused(op)' /\ calls'[op] = 0
                 \/ op \notin Waiting(queue') /\ ~ Refused(op)' /\ calls'[op] = 1
      <4>1. CASE op = new
        BY <2>1, <2>2, <3>2, <3>3, <4>1
      <4>2. CASE op \in 1 .. pushed
        BY <1>0, <2>1, <2>3, <3>2, <3>3, <4>2 DEF PlaceInv
      <4> QED BY <2>1, <4>1, <4>2
    <3> QED BY <3>4, <3>5, <3>6, <3>7, <3>8 DEF PlaceInv
  <2> QED BY <2>4, <2>5
<1>2. CASE SkipNumber
  BY <1>0, <1>2, PlaceKept DEF SkipNumber
<1>3. CASE Tick
  BY <1>0, <1>3, TickEffect, PlaceKept DEF Tick, NoCall
<1>4. CASE Close
  BY <1>4, CloseEffect DEF PlaceInv
<1>5. ASSUME NEW op \in Ops, NEW error \in BOOLEAN, StepCompletes(op, error)
      PROVE  PlaceInv'
  <2> SUFFICES ASSUME queue'.open PROVE PlaceInv'
    BY DEF PlaceInv
  <2>1. ~ error
    BY <1>5 DEF StepCompletes, NoErrors
  <2>2. /\ queue'.open = queue.open /\ Indices(queue') = Indices(queue)
        /\ queue'.entries = queue.entries
    BY <1>5, CompleteEffect
  <2>3. calls' = calls
    BY <1>5, <2>1, <2>2, CompleteEffect
  <2> QED BY <1>0, <1>5, <2>2, <2>3, PlaceKept DEF StepCompletes
<1>6. ASSUME NEW d \in network, Lose(d) PROVE PlaceInv'
  BY <1>0, <1>6, PlaceKept DEF Lose
<1>7. ASSUME NEW op \in Ops, NEW i \in 0 .. Max, AckArrives(op, i)
      PROVE  PlaceInv'
  <2>1. posted' = posted /\ pushed' = pushed
    BY <1>7 DEF AckArrives
  <2>2. CASE i \notin Indices(queue)
    <3>1. queue' = queue
      BY <1>7, <2>2, AckEffect
    <3>2. calls' = calls
      BY <1>7, <2>2 DEF AckArrives, NoCall
    <3> QED BY <1>0, <2>1, <3>1, <3>2, PlaceKept
  <2>3. CASE i \in Indices(queue)
    <3> SUFFICES ASSUME queue'.open PROVE PlaceInv'
      BY DEF PlaceInv
    <3> DEFINE done == queue.entries[i]
    <3>1. /\ queue.open /\ Indices(queue') = Indices(queue) \ {i}
          /\ \A j \in Indices(queue') : queue'.entries[j] = queue.entries[j]
      BY <1>7, <2>3, AckEffect
    <3>2. /\ done \in Ops /\ done \in Waiting(queue) /\ done <= pushed
          /\ done \in 1 .. pushed
      BY <1>0, <2>3, <3>1 DEF PlaceInv, Waiting, Ops
    <3>3. calls' = [calls EXCEPT ![done] = @ + 1]
      BY <1>7, <2>3 DEF AckArrives, Call
    <3>4. Waiting(queue') = Waiting(queue) \ {done}
      <4>1. \A j \in Indices(queue') : queue.entries[j] # done
        BY <1>0, <2>3, <3>1 DEF PlaceInv
      <4> HIDE DEF done
      <4>2. Waiting(queue') \subseteq Waiting(queue) \ {done}
        BY <3>1, <4>1 DEF Waiting
      <4>3. ASSUME NEW o \in Waiting(queue), o # done
            PROVE  o \in Waiting(queue')
        <5>1. PICK j \in Indices(queue) : o = queue.entries[j]
          BY DEF Waiting
        <5>2. j \in Indices(queue') /\ o = queue'.entries[j]
          BY <3>1, <4>3, <5>1 DEF done
        <5> QED BY <5>2 DEF Waiting
      <4> QED BY <4>2, <4>3
    <3>5. \A o \in Ops : Refused(o)' <=> Refused(o)
      BY <2>1 DEF Refused
    <3> HIDE DEF done
    <3>6. ~ Refused(done) /\ calls[done] = 0
      BY <1>0, <3>1, <3>2 DEF PlaceInv
    <3>7. calls'[done] = 1 /\ \A o \in Ops \ {done} : calls'[o] = calls[o]
      BY <1>0, <3>2, <3>3, <3>6 DEF TypeOK
    <3>8. ASSUME NEW o \in 1 .. pushed'
          PROVE  \/ o \in Waiting(queue') /\ ~ Refused(o)' /\ calls'[o] = 0
                 \/ o \notin Waiting(queue') /\ Refused(o)' /\ calls'[o] = 0
                 \/ o \notin Waiting(queue') /\ ~ Refused(o)' /\ calls'[o] = 1
      <4>1. o \in Ops /\ o \in 1 .. pushed
        BY <1>0, <2>1 DEF Ops
      <4>2. CASE o = done
        BY <3>2, <3>4, <3>5, <3>6, <3>7, <4>2
      <4>3. CASE o # done
        BY <1>0, <3>1, <3>4, <3>5, <3>7, <4>1, <4>3 DEF PlaceInv
      <4> QED BY <4>2, <4>3
    <3>9. \A o \in Ops : o > pushed' => calls'[o] = 0
      BY <1>0, <2>1, <3>1, <3>2, <3>7 DEF PlaceInv, Ops
    <3> QED BY <1>0, <2>1, <3>1, <3>8, <3>9 DEF PlaceInv
  <2> QED BY <2>2, <2>3
<1>8. ASSUME NEW op \in Ops, NEW r \in Results, RunPosted(op, r)
      PROVE  PlaceInv'
  <2> SUFFICES ASSUME queue'.open PROVE PlaceInv'
    BY DEF PlaceInv
  <2>1. /\ queue' = queue /\ pushed' = pushed /\ <<op, r>> \in posted
        /\ posted' = posted \ {<<op, r>>}
        /\ calls' = [calls EXCEPT ![op] = @ + 1]
    BY <1>8 DEF RunPosted, Call
  <2>2. op <= pushed /\ r = "already_started" /\ op \in 1 .. pushed
    BY <1>0, <2>1 DEF PlaceInv, Ops
  <2>3. Refused(op) /\ ~ Refused(op)'
    BY <1>0, <2>1, <2>2 DEF Refused, PlaceInv
  <2>4. \A o \in Ops \ {op} : Refused(o)' <=> Refused(o)
    BY <2>1 DEF Refused
  <2>5. op \notin Waiting(queue) /\ calls[op] = 0
    BY <1>0, <2>1, <2>2, <2>3 DEF PlaceInv
  <2>6. calls'[op] = 1 /\ \A o \in Ops \ {op} : calls'[o] = calls[o]
    BY <1>0, <2>1, <2>5 DEF TypeOK
  <2>7. ASSUME NEW o \in 1 .. pushed'
        PROVE  \/ o \in Waiting(queue') /\ ~ Refused(o)' /\ calls'[o] = 0
               \/ o \notin Waiting(queue') /\ Refused(o)' /\ calls'[o] = 0
               \/ o \notin Waiting(queue') /\ ~ Refused(o)' /\ calls'[o] = 1
    <3>1. o \in Ops /\ o \in 1 .. pushed
      BY <1>0, <2>1 DEF Ops
    <3>2. CASE o = op
      BY <2>1, <2>3, <2>5, <2>6, <3>2
    <3>3. CASE o # op
      BY <1>0, <2>1, <2>4, <2>6, <3>1, <3>3 DEF PlaceInv
    <3> QED BY <3>2, <3>3
  <2>8. \A o \in Ops : o > pushed' => calls'[o] = 0
    BY <1>0, <2>1, <2>2, <2>6 DEF PlaceInv, Ops
  <2> QED BY <1>0, <2>1, <2>7, <2>8 DEF PlaceInv
<1>9. CASE UNCHANGED vars
  BY <1>0, <1>9, PlaceKept DEF vars
<1> QED
  BY <1>1, <1>2, <1>3, <1>4, <1>5, <1>6, <1>7, <1>8, <1>9 DEF Next

(* As long as async_send_to does not fail and the socket is open, every    *)
(* operation pushed is waiting, or refused, or was answered exactly once;  *)
(* the sequence numbers may wrap.                                          *)
THEOREM OnePlaceHolds ==
    ASSUME NoErrors
    PROVE  Spec => []OnePlace
<1>1. TypeInv /\ PlaceInv /\ [Next]_vars => PlaceInv'
  BY PlaceStep
<1>2. PlaceInv => OnePlace
  <2> SUFFICES ASSUME PlaceInv, queue.open, NEW op \in 1 .. pushed
               PROVE  (IF op \in Waiting(queue) THEN 1 ELSE 0)
                      + (IF \E r \in Results : <<op, r>> \in posted
                         THEN 1 ELSE 0)
                      + calls[op] = 1
    BY DEF OnePlace
  <2> DEFINE refused == \E r \in Results : <<op, r>> \in posted
  <2>1. \/ op \in Waiting(queue) /\ ~ refused /\ calls[op] = 0
        \/ op \notin Waiting(queue) /\ refused /\ calls[op] = 0
        \/ op \notin Waiting(queue) /\ ~ refused /\ calls[op] = 1
    BY Zenon DEF PlaceInv, Refused
  <2> HIDE DEF refused
  <2>2. (IF op \in Waiting(queue) THEN 1 ELSE 0) + (IF refused THEN 1 ELSE 0)
          + calls[op] = 1
    BY <2>1
  <2> QED BY <2>2 DEF refused
<1> QED BY <1>1, <1>2, PlaceInit, TypeInvHolds, PTL DEF Spec
=============================================================================
