---------------------------- MODULE Deadline_proofs ----------------------------
(* Proofs about Deadline: the timer's callback works on a live TimerState,    *)
(* never runs once the timer is closed, and a timeout means that the deadline *)
(* passed.                                                                    *)
EXTENDS Deadline, TLAPS

\* Where the task has got to in the tear-down tells what the pool can still do.
Drained == {"close", "release", "dropFields", "over"}

TearDown ==
  /\ at \in {"listen", "create"} => timer = "none"
  /\ at \in {"wait", "close"} => timer = "stopped"
  /\ timer = "closed" => at \in {"release", "dropFields", "over"}
  /\ timer = "set" => at \in {"racing", "polling", "stop"}
  /\ timer = "fired" => at \in {"racing", "polling", "stop"}
  /\ timer = "stopped" => at \in {"wait", "close"}

\* The parked reference outlives the callback.
Parked ==
  /\ timer = "none" => callback = "idle"
  /\ at \in Drained => callback = "idle"
  /\ timer # "none" /\ at \notin {"dropFields", "over"} => "context" \in holders
  /\ at = "create" => "context" \in holders
  /\ timer = "none" /\ at # "create" => "context" \notin holders
  /\ at \in {"dropFields", "over"} => "context" \notin holders

\* What a late poll could take for the timer's event.
Punctual ==
  /\ due => timer # "none"
  /\ timer = "fired" \/ callback # "idle" \/ held # {} \/ mail # {} => due
  /\ rx # "closed"

IInv == TypeOK /\ TearDown /\ Parked /\ Punctual /\ NoSpuriousTimeout

USE DEF IInv, TypeOK, TearDown, Drained, Parked, Punctual, NoSpuriousTimeout,
        signalVars, Signal!SignalTypeOK

\* It holds at first ...
LEMMA InitIInv == Init => IInv
  BY DEF Init, Signal!SignalInit

\* The task's own steps.
LEMMA TaskKeepsIInv == IInv /\ (Task \/ DropTask) => IInv'
<1> SUFFICES ASSUME IInv, Task \/ DropTask PROVE IInv'
  OBVIOUS
<1>1. CASE Listen
  BY <1>1 DEF Listen, Signal!Listen, Signal!Orphaned
<1>2. CASE CreateTimer
  BY <1>2 DEF CreateTimer
<1>3. CASE CreateFails
  BY <1>3 DEF CreateFails
<1>4. CASE TakeAnswer
  BY <1>4 DEF TakeAnswer
<1>5. CASE WorkPending
  BY <1>5 DEF WorkPending
<1>6. CASE PollDelay
  BY <1>6 DEF PollDelay
<1>7. CASE StopTimer
  BY <1>7 DEF StopTimer
<1>8. CASE WaitCallbacks
  BY <1>8 DEF WaitCallbacks
<1>9. CASE CloseTimer
  BY <1>9 DEF CloseTimer
<1>10. CASE ReleaseContext
  BY <1>10 DEF ReleaseContext
<1>11. CASE DropFields
  BY <1>11 DEF DropFields, Signal!DropReceiver, Signal!Orphaned, Signal!Die
<1>12. CASE DropTask
  BY <1>12 DEF DropTask
<1> QED
  BY <1>1, <1>2, <1>3, <1>4, <1>5, <1>6, <1>7, <1>8, <1>9, <1>10, <1>11, <1>12 DEF Task

\* The pool, the clock and the work.
LEMMA PoolKeepsIInv == IInv /\ (Pool \/ Elapse \/ WorkReady) => IInv'
<1> SUFFICES ASSUME IInv, Pool \/ Elapse \/ WorkReady PROVE IInv'
  OBVIOUS
<1>1. CASE Fire
  BY <1>1 DEF Fire
<1>2. CASE EnterCallback
  BY <1>2 DEF EnterCallback
<1>3. CASE TakeSender
  BY <1>3 DEF TakeSender, Signal!Take
<1>4. CASE SendEvent
  BY <1>4 DEF SendEvent, Signal!Send
<1>5. CASE ReturnCallback
  BY <1>5 DEF ReturnCallback
<1>6. CASE Elapse
  BY <1>6 DEF Elapse
<1>7. CASE WorkReady
  BY <1>7 DEF WorkReady
<1> QED
  BY <1>1, <1>2, <1>3, <1>4, <1>5, <1>6, <1>7 DEF Pool

\* ... and in a step that changes nothing.
LEMMA StutterKeepsIInv == IInv /\ UNCHANGED vars => IInv'
  BY DEF vars

HIDE DEF IInv, TypeOK, NoSpuriousTimeout

\* The invariant holds throughout every behaviour.
THEOREM Invariance == Spec => []IInv
<1>1. IInv /\ [Next]_vars => IInv'
  <2> SUFFICES ASSUME IInv, [Next]_vars PROVE IInv'
    OBVIOUS
  <2>1. CASE Task \/ DropTask
    BY <2>1, TaskKeepsIInv
  <2>2. CASE Pool \/ Elapse \/ WorkReady
    BY <2>2, PoolKeepsIInv
  <2>3. CASE Done \/ UNCHANGED vars
    BY <2>3, StutterKeepsIInv DEF Done
  <2> QED
    BY <2>1, <2>2, <2>3 DEF Next
<1> QED
  BY InitIInv, <1>1, PTL DEF Spec

\* timer_callback only works on a live TimerState (the safety comments of
\* timer_callback and Delay::drop).
THEOREM CallbackFindsState == Spec => []TimerStateLive
<1>1. IInv => TimerStateLive
  BY DEF IInv, TimerStateLive, InCallback
<1> QED BY <1>1, Invariance, PTL

\* Once the timer is closed no callback is queued or runs (the tear-down
\* contract of src/timer.rs).
THEOREM ClosedMeansQuiet == Spec => []NoReentry
<1>1. IInv => NoReentry
  BY DEF IInv, NoReentry
<1> QED BY <1>1, Invariance, PTL

\* A request times out only after its deadline, never for want of a timer.
THEOREM TimeoutsAreReal == Spec => []NoSpuriousTimeout
<1>1. IInv => NoSpuriousTimeout
  BY DEF IInv
<1> QED BY <1>1, Invariance, PTL

\* Every variable stays in its type; once the Delay is gone nobody holds its
\* state: nothing is parked behind a timer that no longer exists.
THEOREM TypeCorrect == Spec => []TypeOK
<1>1. IInv => TypeOK
  BY DEF IInv
<1> QED BY <1>1, Invariance, PTL
=============================================================================
