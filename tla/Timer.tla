------------------------------- MODULE Timer -------------------------------
(***************************************************************************)
(* detail/timer.hpp: a restartable timer on top of an asio steady_timer.   *)
(*                                                                         *)
(* An async_wait on the asio timer is outstanding from do_start() until    *)
(* its completion runs do_handle_tick(): it is "waiting" until it expires  *)
(* or is cancelled and "ready" from then on, in the io_service's queue.    *)
(* The completion ignores the error code, so the state alone tells a       *)
(* cancelled wait from an expired one.  The members are called from the    *)
(* io_service's one thread: outside the handler, or by the handler itself  *)
(* between TickBegin and TickReturn.                                       *)
(*                                                                         *)
(* Time is the countdown of the running wait; how late a completion runs   *)
(* is left open.                                                           *)
(***************************************************************************)
EXTENDS Naturals

CONSTANTS Periods, Handlers, NoHandler

ASSUME TimerPeriodsAssumption  == Periods \subseteq Nat \ {0} /\ Periods # {}
ASSUME TimerHandlersAssumption == NoHandler \notin Handlers

VARIABLES
    state,      \* the enum of lines 58-65
    period,     \* period_duration, uninitialised before set_period
    waiting,    \* async_waits that neither expired nor were cancelled
    ready,      \* async_waits whose completion is queued
    left,       \* time until the asio timer expires
    handler,    \* NoHandler when empty
    local,      \* local_handler of do_handle_tick
    inHandler,  \* local_handler() is running
    destroyed   \* *was_destroyed

vars == <<state, period, waiting, ready, left, handler, local, inHandler,
          destroyed>>

Canceling == {"canceling_to_stop", "canceling_to_start", "canceling_to_ff"}
States    == {"stopped", "running", "executing"} \union Canceling
Calls     == Handlers \union {NoHandler}

\* period_duration, read before it was ever set, can be anything.
Init ==
    /\ state = "stopped"
    /\ period \in Periods
    /\ waiting = 0 /\ ready = 0 /\ left = 0
    /\ handler \in Calls
    /\ local = NoHandler
    /\ inHandler = FALSE
    /\ destroyed = FALSE
-----------------------------------------------------------------------------
(* do_start(): expires_from_now cancels what is waiting. *)
DoStart ==
    /\ state' = "running"
    /\ ready' = ready + waiting
    /\ waiting' = 1
    /\ left' = period

(* asio_timer.cancel() *)
Cancel ==
    /\ ready' = ready + waiting
    /\ waiting' = 0
    /\ left' = 0

Waits == <<waiting, ready, left>>

(* stop(), lines 135-149 *)
Stopped ==
    \/ /\ state \in {"stopped", "canceling_to_stop"}
       /\ UNCHANGED <<state, Waits>>
    \/ /\ state = "running"
       /\ state' = "canceling_to_stop"
       /\ Cancel
    \/ /\ state = "executing"
       /\ state' = "stopped"
       /\ UNCHANGED Waits
    \/ /\ state \in {"canceling_to_start", "canceling_to_ff"}
       /\ state' = "canceling_to_stop"
       /\ UNCHANGED Waits

\* Faulty variant: a running timer is not cancelled first.
StartedTwice ==
    IF state \in Canceling
    THEN state' = "canceling_to_start" /\ UNCHANGED Waits
    ELSE DoStart

(* start(), lines 118-133: a running timer is stopped, then started from   *)
(* canceling_to_stop.                                                      *)
Started ==
    \/ state \in {"stopped", "executing"} /\ DoStart
    \/ /\ state = "running"
       /\ state' = "canceling_to_start"
       /\ Cancel
    \/ /\ state \in Canceling
       /\ state' = "canceling_to_start"
       /\ UNCHANGED Waits

\* Faulty variant: a timer that does not run is marked only.
FastForwardedLost ==
    /\ state' = "canceling_to_ff"
    /\ IF state = "running" THEN Cancel ELSE UNCHANGED Waits

(* fast_forward(), lines 151-155: start(), stop() and the state set over.  *)
(* The wait do_start() may have begun is cancelled by the stop().          *)
FastForwarded ==
    /\ state' = "canceling_to_ff"
    /\ IF state \in Canceling
       THEN UNCHANGED Waits
       ELSE /\ ready' = IF state = "running" THEN ready + waiting ELSE ready + waiting + 1
            /\ waiting' = 0
            /\ left' = 0
-----------------------------------------------------------------------------
Alive == ~ destroyed

Quiet == UNCHANGED <<period, handler, local, inHandler, destroyed>>

Start       == Alive /\ Started /\ Quiet
Stop        == Alive /\ Stopped /\ Quiet
FastForward == Alive /\ FastForwarded /\ Quiet

SetPeriod(p) ==
    /\ Alive
    /\ period' = p
    /\ UNCHANGED <<state, Waits, handler, local, inHandler, destroyed>>

SetHandler(h) ==
    /\ Alive
    /\ handler' = h
    /\ UNCHANGED <<state, Waits, period, local, inHandler, destroyed>>

(* ~timer(): stop(), and the asio timer's destructor cancels its wait. *)
Destroy ==
    /\ Alive
    /\ Stopped
    /\ destroyed' = TRUE
    /\ UNCHANGED <<period, handler, local, inHandler>>
-----------------------------------------------------------------------------
TimePasses ==
    /\ waiting > 0 /\ left > 0
    /\ left' = left - 1
    /\ UNCHANGED <<state, waiting, ready>> /\ Quiet

Expire ==
    /\ waiting > 0 /\ left = 0
    /\ waiting' = 0
    /\ ready' = ready + waiting
    /\ UNCHANGED <<state, left>> /\ Quiet

(* The completion of a wait, lines 165-168 and 171-192: up to the call of  *)
(* the handler.  The io_service runs it when nothing else runs.            *)
Completion ==
    /\ ready > 0
    /\ inHandler = FALSE

TickIgnored ==
    /\ Completion
    /\ \/ destroyed /\ UNCHANGED state
       \/ Alive /\ state = "stopped" /\ UNCHANGED state
       \/ Alive /\ state = "canceling_to_stop" /\ state' = "stopped"
    /\ ready' = ready - 1
    /\ UNCHANGED <<waiting, left>> /\ Quiet

\* Faulty variant: the new wait is not begun.
TickRestartIdle ==
    /\ Completion
    /\ Alive /\ state = "canceling_to_start"
    /\ state' = "running"
    /\ ready' = ready - 1
    /\ UNCHANGED <<waiting, left>> /\ Quiet

TickRestart ==
    /\ Completion
    /\ Alive /\ state = "canceling_to_start"
    /\ state' = "running"
    /\ ready' = ready - 1 + waiting
    /\ waiting' = 1
    /\ left' = period
    /\ Quiet

TickBegin ==
    /\ Completion
    /\ Alive /\ state \in {"running", "canceling_to_ff"}
    /\ ready' = ready - 1
    /\ IF handler = NoHandler
       THEN state' = "stopped" /\ UNCHANGED <<handler, local, inHandler>>
       ELSE /\ state' = "executing"
            /\ local' = handler
            /\ handler' = NoHandler
            /\ inHandler' = TRUE
    /\ UNCHANGED <<period, waiting, left, destroyed>>

\* Faulty variant: the handler that just ran takes the place of a new one.
TickReturnRestoring ==
    /\ inHandler
    /\ inHandler' = FALSE
    /\ local' = NoHandler
    /\ handler' = IF destroyed THEN handler ELSE local
    /\ state' = IF Alive /\ state = "executing" THEN "stopped" ELSE state
    /\ UNCHANGED <<period, Waits, destroyed>>

(* Lines 194-204: the handler has returned. *)
TickReturn ==
    /\ inHandler
    /\ inHandler' = FALSE
    /\ local' = NoHandler
    /\ handler' = IF Alive /\ handler = NoHandler THEN local ELSE handler
    /\ state' = IF Alive /\ state = "executing" THEN "stopped" ELSE state
    /\ UNCHANGED <<period, Waits, destroyed>>

UserCall ==
    \/ Start \/ Stop \/ FastForward \/ Destroy
    \/ \E p \in Periods : SetPeriod(p)
    \/ \E h \in Handlers : SetHandler(h)

Next ==
    \/ UserCall
    \/ TimePasses \/ Expire
    \/ TickIgnored \/ TickRestart \/ TickBegin \/ TickReturn

Spec == Init /\ [][Next]_vars

(* Time passes, asio completes its waits, the io_service runs what is      *)
(* queued and handlers return.                                             *)
Fairness ==
    /\ WF_vars(TimePasses) /\ WF_vars(Expire)
    /\ WF_vars(TickIgnored) /\ WF_vars(TickRestart)
    /\ WF_vars(TickBegin) /\ WF_vars(TickReturn)

FairSpec == Spec /\ Fairness
-----------------------------------------------------------------------------
TypeOK ==
    /\ state \in States
    /\ period \in Periods
    /\ waiting \in 0 .. 1 /\ ready \in 0 .. 1
    /\ left \in Nat
    /\ handler \in Calls /\ local \in Calls
    /\ inHandler \in BOOLEAN /\ destroyed \in BOOLEAN

(* The state accounts for exactly one outstanding wait: a timer that waits *)
(* for a tick gets one, and no completion ever finds a state it was not    *)
(* started for (in particular not "executing", where line 175 asserts).  A *)
(* state that waits for a cancelled wait never waits for the clock.        *)
OneWait ==
    Alive =>
        /\ waiting + ready = IF state \in Canceling \union {"running"} THEN 1 ELSE 0
        /\ state \in Canceling => waiting = 0
        /\ state = "executing" => inHandler

(* The refinement: canceling_to_start is armed for a whole period still,   *)
(* and while the handler runs out of local_handler that is the one the     *)
(* timer will call next unless a new one is set.                           *)
AlarmMode ==
    IF destroyed THEN "gone"
    ELSE IF state \in {"running", "canceling_to_start"} THEN "armed"
    ELSE IF state = "canceling_to_ff" THEN "asap"
    ELSE "off"

AlarmDue ==
    IF AlarmMode # "armed" THEN 0
    ELSE IF state = "running" THEN left ELSE period

AlarmAction ==
    IF destroyed THEN NoHandler
    ELSE IF inHandler /\ handler = NoHandler THEN local ELSE handler

Promise == INSTANCE Alarm WITH
    mode <- AlarmMode, due <- AlarmDue, action <- AlarmAction, calling <- local

(* Everything the state machine does is what the comments of timer.hpp     *)
(* promise of start, stop and fast_forward, whatever calls are made from   *)
(* inside the handler, the destructor included.                            *)
KeepsPromise == Promise!Spec

(* ... and a call that may happen does, though the wait behind it may have *)
(* been cancelled and begun anew.                                          *)
RingsEventually == Promise!Punctual

(* A started timer calls its handler unless its user keeps changing it.    *)
StartedIsCalled ==
    \/ []<><<UserCall>>_vars
    \/ AlarmMode \in {"armed", "asap"} ~> AlarmMode \in {"off", "gone"}
=============================================================================
