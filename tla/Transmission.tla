---------------------------- MODULE Transmission ----------------------------
(***************************************************************************)
(* A transmit_queue at work: a socket pushes operations under consecutive  *)
(* sequence numbers (numbers go to unqueued keepalives too), the step of   *)
(* an operation hands its datagram to the network, which may lose it, and  *)
(* the peer acknowledges what reaches it.  Completions of steps, timer     *)
(* ticks, acknowledgements and posted handlers are separate callbacks of   *)
(* the io_service and run in any order.                                    *)
(***************************************************************************)
EXTENDS TransmitQueue

CONSTANTS
    Max,         \* the largest sequence number
    First,       \* the socket's random first number
    MaxOps,      \* operations pushed, at most
    MaxNumbers,  \* sequence numbers used, at most
    SendErrors,  \* whether async_send_to may fail
    Closing      \* whether the socket may be closed

ASSUME TransmissionAssumption ==
    /\ Max \in Nat /\ First \in 0 .. Max
    /\ MaxOps \in Nat /\ MaxNumbers \in Nat
    /\ SendErrors \in BOOLEAN /\ Closing \in BOOLEAN

Ops == 1 .. MaxOps

VARIABLES
    queue,
    pushed,    \* how many operations were pushed, the last one's name
    numbers,   \* how many sequence numbers were used
    network,   \* datagrams under way: <<operation, sequence number>>
    posted,    \* operations whose handler is posted to the io_service
    calls,     \* how often an operation's handler was called
    result,    \* what it was told the last time
    tried,     \* operations transmitted at least once
    reached    \* operations the peer acknowledged

vars == <<queue, pushed, numbers, network, posted, calls, result, tried,
          reached>>

Results == {"none", "ok", "aborted", "failed", "already_started"}

\* Faulty variant: the number is increased before it is used, and not wrapped.
NumberAfter == First + numbers + 1

\* The sequence number of the next packet, next_sequence.
NextNumber == (First + numbers) % (Max + 1)

Init ==
    /\ queue = EmptyQueue(Ops)
    /\ pushed = 0 /\ numbers = 0
    /\ network = {} /\ tried = {} /\ reached = {}
    /\ posted = {}
    /\ calls = [op \in Ops |-> 0]
    /\ result = [op \in Ops |-> "none"]
-----------------------------------------------------------------------------
\* A step that was started gives its datagram to the network at once.
Sending ==
    LET sent == {i \in Indices(queue') :
                    LET op == queue'.entries[i]
                    IN  queue'.flying[op] > queue.flying[op]}
    IN  /\ network' = network \union {<<queue'.entries[i], i>> : i \in sent}
        /\ tried' = tried \union {queue'.entries[i] : i \in sent}

Call(op, r) ==
    /\ calls' = [calls EXCEPT ![op] = @ + 1]
    /\ result' = [result EXCEPT ![op] = r]

NoCall == UNCHANGED <<calls, result>>

Push ==
    LET op == pushed + 1
    IN  /\ op \in Ops /\ numbers < MaxNumbers
        /\ queue.open
        /\ queue' = Pushed(queue, NextNumber, op)
        /\ posted' = IF NextNumber \in Indices(queue)
                     THEN posted \union {<<op, "already_started">>}
                     ELSE posted
        /\ Sending
        /\ pushed' = op /\ numbers' = numbers + 1
        /\ NoCall /\ UNCHANGED reached

\* send_keepalive takes a number past the queue.
SkipNumber ==
    /\ numbers < MaxNumbers
    /\ numbers' = numbers + 1
    /\ UNCHANGED <<queue, pushed, network, posted, calls, result, tried,
                   reached>>

StepCompletes(op, error) ==
    /\ queue.flying[op] > 0
    /\ error => SendErrors
    /\ queue' = Completed(queue, op, error)
    /\ IF ToHandler(queue, error)
       THEN Call(op, IF error THEN "failed" ELSE "ok")
       ELSE NoCall
    /\ UNCHANGED <<pushed, numbers, network, posted, tried, reached>>

Tick ==
    /\ queue.armed
    /\ queue' = Ticked(queue)
    /\ Sending
    /\ NoCall /\ UNCHANGED <<pushed, numbers, posted, reached>>

Lose(d) ==
    /\ d \in network
    /\ network' = network \ {d}
    /\ UNCHANGED <<queue, pushed, numbers, posted, calls, result, tried,
                   reached>>

\* Datagram i of operation op arrives and its acknowledgement, which names
\* the number only, comes back.  The network may keep the datagram: it, or its
\* acknowledgement, comes again, also when the entry is gone.
AckArrives(op, i) ==
    /\ <<op, i>> \in network
    /\ queue' = Acked(queue, i)
    /\ IF i \in Indices(queue) THEN Call(queue.entries[i], "ok") ELSE NoCall
    /\ Sending
    /\ reached' = reached \union {op}
    /\ UNCHANGED <<pushed, numbers, posted>>

\* socket::close
Close ==
    /\ Closing /\ queue.open
    /\ queue' = ShutDown(queue)
    /\ posted' = posted \union {<<op, "aborted">> : op \in Waiting(queue)}
    /\ NoCall /\ UNCHANGED <<pushed, numbers, network, tried, reached>>

RunPosted(op, r) ==
    /\ <<op, r>> \in posted
    /\ posted' = posted \ {<<op, r>>}
    /\ Call(op, r)
    /\ UNCHANGED <<queue, pushed, numbers, network, tried, reached>>

Next ==
    \/ Push \/ SkipNumber \/ Tick \/ Close
    \/ \E op \in Ops, error \in BOOLEAN : StepCompletes(op, error)
    \/ \E d \in network : Lose(d)
    \/ \E op \in Ops, i \in 0 .. Max : AckArrives(op, i)
    \/ \E op \in Ops, r \in Results : RunPosted(op, r)

Spec == Init /\ [][Next]_vars

(* The io_service runs what is due; a datagram sent over and over is       *)
(* answered at last.  Nobody has to push or to close.                      *)
Fairness ==
    /\ WF_vars(Tick)
    /\ \A op \in Ops :
        /\ WF_vars(\E error \in BOOLEAN : StepCompletes(op, error))
        /\ SF_vars(\E i \in 0 .. Max : AckArrives(op, i))
        /\ WF_vars(\E r \in Results : RunPosted(op, r))

FairSpec == Spec /\ Fairness
-----------------------------------------------------------------------------
TypeOK ==
    /\ queue.entries \in [Indices(queue) -> Ops]
    /\ Indices(queue) \subseteq 0 .. Max
    /\ queue.flying \in [Ops -> Nat]
    /\ queue.armed \in BOOLEAN /\ queue.open \in BOOLEAN
    /\ pushed \in 0 .. MaxOps /\ numbers \in 0 .. MaxNumbers
    /\ network \subseteq Ops \X (0 .. Max)
    /\ tried \subseteq Ops /\ reached \subseteq Ops
    /\ posted \subseteq Ops \X Results
    /\ calls \in [Ops -> Nat] /\ result \in [Ops -> Results]

(* Whatever is waiting will be transmitted (again): a step is under way,   *)
(* whose completion starts the timer, or the timer is running.             *)
NeverStalled ==
    queue.open /\ Indices(queue) # {} =>
        queue.armed \/ \E op \in Ops : queue.flying[op] > 0

(* Stop and wait: nothing is transmitted before everything pushed earlier  *)
(* has been acknowledged.                                                  *)
InOrder ==
    \A earlier, later \in Ops :
        earlier < later /\ later \in tried => earlier \notin Waiting(queue)

(* While the socket is open an operation is in exactly one place: waiting  *)
(* in the queue, its refusal posted, or its handler called, once.          *)
OnePlace ==
    queue.open => \A op \in 1 .. pushed :
        LET places == (IF op \in Waiting(queue) THEN 1 ELSE 0)
                    + (IF \E r \in Results : <<op, r>> \in posted THEN 1 ELSE 0)
        IN  places + calls[op] = 1

(* An open socket reports a success only for what the peer acknowledged.   *)
SuccessMeansReached ==
    [][ \A op \in Ops :
            queue.open /\ calls'[op] # calls[op] /\ result'[op] = "ok"
                => op \in reached' ]_vars

(* Every operation is answered, and by its acknowledgement unless the      *)
(* socket is closed.                                                       *)
AnsweredEventually ==
    \A op \in Ops : pushed >= op ~> calls[op] > 0
=============================================================================
