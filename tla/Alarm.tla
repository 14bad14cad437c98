------------------------------- MODULE Alarm -------------------------------
(***************************************************************************)
(* What a timer promises its user (the comments of detail/timer.hpp,       *)
(* 39-49): after start() the handler is called once, no sooner than the    *)
(* period later; after stop() it is not called; after fast_forward() it is *)
(* called as soon as possible, but not from inside that function.  A timer *)
(* destroyed, be it by its own handler, calls nothing any more.            *)
(***************************************************************************)
EXTENDS Naturals

CONSTANTS
    Periods,    \* the durations a user sets
    Handlers,   \* the handlers a user sets
    NoHandler

VARIABLES
    mode,      \* "off", "armed" (by start), "asap" (by fast_forward), "gone"
    due,       \* while armed: how long the call is still forbidden
    period,
    action,    \* the handler to call
    calling    \* the handler being called, NoHandler when none is

vars == <<mode, due, period, action, calling>>

Calls == Handlers \union {NoHandler}

Init ==
    /\ mode = "off"
    /\ due = 0
    /\ period \in Periods
    /\ action \in Calls
    /\ calling = NoHandler

\* due means something only in an armed alarm and is 0 in any other.
Set(m, d) == mode' = m /\ due' = d

Alive == mode # "gone"

Start ==
    Alive /\ Set("armed", period) /\ UNCHANGED <<period, action, calling>>

Stop ==
    Alive /\ Set("off", 0) /\ UNCHANGED <<period, action, calling>>

FastForward ==
    Alive /\ Set("asap", 0) /\ UNCHANGED <<period, action, calling>>

Destroy ==
    Alive /\ Set("gone", 0) /\ action' = NoHandler /\ UNCHANGED <<period, calling>>

\* Whether a new period applies to a call already promised is left open.
SetPeriod(p) ==
    /\ Alive
    /\ period' = p
    /\ due' \in IF mode = "armed" THEN {due, p} ELSE {0}
    /\ UNCHANGED <<mode, action, calling>>

SetHandler(h) ==
    Alive /\ action' = h /\ UNCHANGED <<mode, due, period, calling>>

Time ==
    /\ mode = "armed" /\ due > 0
    /\ Set("armed", due - 1)
    /\ UNCHANGED <<period, action, calling>>

MayFire ==
    /\ calling = NoHandler
    /\ mode \in {"asap", "armed"} /\ due = 0

Fire ==
    /\ MayFire
    /\ Set("off", 0)
    /\ calling' = action
    /\ UNCHANGED <<period, action>>

Return ==
    /\ calling # NoHandler
    /\ calling' = NoHandler
    /\ UNCHANGED <<mode, due, period, action>>

Next ==
    \/ Start \/ Stop \/ FastForward \/ Destroy
    \/ \E p \in Periods : SetPeriod(p)
    \/ \E h \in Handlers : SetHandler(h)
    \/ Time \/ Fire \/ Return

Spec == Init /\ [][Next]_vars

(* An alarm that may ring does not stay so: it rings, or its user changes  *)
(* it first.                                                               *)
Punctual == MayFire ~> ~ MayFire
=============================================================================
