---------------------------- MODULE TimerProofs ----------------------------
(***************************************************************************)
(* Proofs about Timer for any periods and handlers: the state accounts for *)
(* exactly one wait, and the timer does what Alarm promises.  Time enters  *)
(* as the countdown of the wait; that it passes, and that a call which may *)
(* happen does, stay with TLC.                                             *)
(***************************************************************************)
EXTENDS Timer, TLAPS

(* What OneWait needs to be inductive: nothing waits for the clock behind  *)
(* a destroyed timer, a wait that is over has nothing left, and the timer  *)
(* is in its handler just when local_handler holds one.                    *)
IInv ==
    /\ TypeOK
    /\ OneWait
    /\ waiting + ready <= 1
    /\ destroyed => waiting = 0
    /\ state = "running" /\ ready = 1 => left = 0
    /\ inHandler <=> local # NoHandler

LEMMA IInvInit == Init => IInv
<1> SUFFICES ASSUME Init PROVE IInv
  OBVIOUS
<1> USE DEF Init, States, Canceling, Calls, Alive
<1>1. TypeOK
  <2>1. inHandler \in BOOLEAN /\ destroyed \in BOOLEAN
    BY Zenon
  <2> QED BY <2>1 DEF TypeOK
<1>2. OneWait
  BY DEF OneWait
<1>3. inHandler <=> local # NoHandler
  BY Zenon
<1> QED BY <1>1, <1>2, <1>3 DEF IInv

LEMMA IInvStep == IInv /\ [Next]_vars => IInv'
<1> SUFFICES ASSUME IInv, [Next]_vars PROVE IInv'
  OBVIOUS
<1> USE TimerPeriodsAssumption, TimerHandlersAssumption
        DEF IInv, TypeOK, OneWait, States, Canceling, Calls, Alive
<1>1. CASE Start
  BY <1>1 DEF Start, Started, DoStart, Cancel, Waits, Quiet
<1>2. CASE Stop
  BY <1>2 DEF Stop, Stopped, Cancel, Waits, Quiet
<1>3. CASE FastForward
  BY <1>3 DEF FastForward, FastForwarded, Waits, Quiet
<1>4. CASE Destroy
  BY <1>4 DEF Destroy, Stopped, Cancel, Waits
<1>5. ASSUME NEW p \in Periods, SetPeriod(p) PROVE IInv'
  BY <1>5 DEF SetPeriod, Waits
<1>6. ASSUME NEW h \in Handlers, SetHandler(h) PROVE IInv'
  BY <1>6 DEF SetHandler, Waits
<1>7. CASE TimePasses
  BY <1>7 DEF TimePasses, Quiet
<1>8. CASE Expire
  BY <1>8 DEF Expire, Quiet
<1>9. CASE TickIgnored
  BY <1>9 DEF TickIgnored, Completion, Quiet
<1>10. CASE TickRestart
  BY <1>10 DEF TickRestart, Completion, Quiet
<1>11. CASE TickBegin
  <2> USE <1>11 DEF TickBegin, Completion
  <2>1. ready = 1 /\ ready' = 0 /\ waiting = 0 /\ waiting' = 0
    OBVIOUS
  <2>2. CASE handler = NoHandler
    <3>1. inHandler' = FALSE /\ local' = NoHandler
      BY <2>2, Zenon
    <3> QED BY <2>1, <2>2, <3>1
  <2>3. CASE handler # NoHandler
    <3>1. inHandler' /\ local' # NoHandler
      BY <2>3, Zenon
    <3> QED BY <2>1, <2>3, <3>1
  <2> QED BY <2>2, <2>3
<1>12. CASE TickReturn
  BY <1>12 DEF TickReturn, Waits
<1>13. CASE UNCHANGED vars
  BY <1>13 DEF vars
<1> QED
  BY <1>1, <1>2, <1>3, <1>4, <1>5, <1>6, <1>7, <1>8, <1>9, <1>10, <1>11,
     <1>12, <1>13 DEF Next, UserCall

LEMMA IInvHolds == Spec => []IInv
  BY IInvInit, IInvStep, PTL DEF Spec

(* Every variable keeps its type; in particular at most one wait is ever   *)
(* outstanding, the one the asio timer can have.                           *)
THEOREM TypeOKHolds == Spec => []TypeOK
<1>1. IInv => TypeOK
  BY DEF IInv
<1> QED BY <1>1, IInvHolds, PTL

(* A timer whose state waits for a tick gets one, and no tick finds a      *)
(* state it was not started for (the assertion of do_handle_tick).         *)
THEOREM OneWaitHolds == Spec => []OneWait
<1>1. IInv => OneWait
  BY DEF IInv
<1> QED BY <1>1, IInvHolds, PTL
-----------------------------------------------------------------------------
LEMMA PromiseInit == Init => Promise!Init
  BY TimerHandlersAssumption
  DEF Init, Calls, Promise!Init, Promise!Calls, AlarmMode, AlarmDue, AlarmAction

(* Each call of the user is the call of the same name; a tick fires the    *)
(* alarm or, like the expiry behind it, changes nothing the user sees.     *)
LEMMA PromiseStep == IInv /\ [Next]_vars => [Promise!Next]_(Promise!vars)
<1> SUFFICES ASSUME IInv, [Next]_vars
             PROVE  Promise!Next \/ UNCHANGED Promise!vars
  BY DEF Promise!vars
<1> USE TimerPeriodsAssumption, TimerHandlersAssumption
        DEF IInv, TypeOK, OneWait, States, Canceling, Calls, Alive,
            AlarmMode, AlarmDue, AlarmAction, Promise!Set, Promise!Alive
<1>1. CASE Start
  <2>1. Promise!Start
    BY <1>1 DEF Start, Started, DoStart, Cancel, Waits, Quiet, Promise!Start
  <2> QED BY <2>1 DEF Promise!Next
<1>2. CASE Stop
  <2>1. Promise!Stop
    BY <1>2 DEF Stop, Stopped, Cancel, Waits, Quiet, Promise!Stop
  <2> QED BY <2>1 DEF Promise!Next
<1>3. CASE FastForward
  <2>1. Promise!FastForward
    BY <1>3 DEF FastForward, FastForwarded, Waits, Quiet, Promise!FastForward
  <2> QED BY <2>1 DEF Promise!Next
<1>4. CASE Destroy
  <2>1. Promise!Destroy
    BY <1>4 DEF Destroy, Promise!Destroy
  <2> QED BY <2>1 DEF Promise!Next
<1>5. ASSUME NEW p \in Periods, SetPeriod(p) PROVE Promise!Next
  <2>1. Promise!SetPeriod(p)
    BY <1>5 DEF SetPeriod, Waits, Promise!SetPeriod
  <2> QED BY <2>1 DEF Promise!Next
<1>6. ASSUME NEW h \in Handlers, SetHandler(h) PROVE Promise!Next
  <2>1. Promise!SetHandler(h)
    BY <1>6 DEF SetHandler, Waits, Promise!SetHandler
  <2> QED BY <2>1 DEF Promise!Next
<1>7. CASE TimePasses
  <2>1. state = "running" /\ Alive
    BY <1>7 DEF TimePasses
  <2>2. Promise!Time
    BY <1>7, <2>1 DEF TimePasses, Quiet, Promise!Time
  <2> QED BY <2>2 DEF Promise!Next
<1>8. CASE Expire
  BY <1>8 DEF Expire, Quiet, Promise!vars
<1>9. CASE TickIgnored
  BY <1>9 DEF TickIgnored, Completion, Quiet, Promise!vars
<1>10. CASE TickRestart
  BY <1>10 DEF TickRestart, Completion, Quiet, Promise!vars
<1>11. CASE TickBegin
  <2>1. Promise!Fire
    BY <1>11 DEF TickBegin, Completion, Promise!Fire, Promise!MayFire
  <2> QED BY <2>1 DEF Promise!Next
<1>12. CASE TickReturn
  <2>1. Promise!Return
    BY <1>12 DEF TickReturn, Waits, Promise!Return
  <2> QED BY <2>1 DEF Promise!Next
<1>13. CASE UNCHANGED vars
  BY <1>13 DEF vars, Promise!vars
<1> QED
  BY <1>1, <1>2, <1>3, <1>4, <1>5, <1>6, <1>7, <1>8, <1>9, <1>10, <1>11,
     <1>12, <1>13 DEF Next, UserCall

(* The timer implements Alarm: whatever calls are made, the handler's own  *)
(* included, it is called when the comments say and never otherwise.       *)
THEOREM KeepsPromiseHolds == Spec => KeepsPromise
  BY PromiseInit, PromiseStep, IInvHolds, PTL
  DEF Spec, KeepsPromise, Promise!Spec
=============================================================================
