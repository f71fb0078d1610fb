------------------------------- MODULE Deadline -------------------------------
(* A future raced against the deadline (Client::execute_inner and             *)
(* Response::chunk: select of the work and a Delay): the Delay of             *)
(* src/timer.rs with its one-shot timer on the Win32 pool                     *)
(* (src/threadpool.rs).  The work is an environment that may be ready at any  *)
(* time or never; CompletionSignal carries the timer's event.                 *)
(* Definitions named Bug... are faulty variants of the ones that follow them. *)
VARIABLES
  at,        \* the task: where it is
  timer,     \* "none", "set", "fired", "stopped" or "closed"
  callback,  \* timer_callback: "idle", "queued", "entered", "sending", "leaving"
  holders,   \* who holds the TimerState: "delay", "context"
  due,       \* the deadline has passed
  work,      \* the work: "pending", "ready", "taken" or "dropped"
  result,    \* what the race gave: "none", "answer" or "timeout"
  sender, held, rx, mail

Signal == INSTANCE CompletionSignal WITH Events <- {"fired"}

signalVars == <<sender, held, rx, mail>>
vars == <<at, timer, callback, holders, due, work, result, signalVars>>

Init ==
  /\ at = "listen" /\ timer = "none" /\ callback = "idle"
  /\ holders = {"delay"} /\ due = FALSE
  /\ work = "pending" /\ result = "none"
  /\ Signal!SignalInit

-----------------------------------------------------------------------------
(* Delay::new.                                                               *)

\* The listener is there before the timer can fire.
Listen ==
  /\ at = "listen" /\ at' = "create"
  /\ Signal!Listen
  /\ holders' = holders \cup {"context"}
  /\ UNCHANGED <<timer, callback, due, work, result>>

\* CreateThreadpoolTimer and SetThreadpoolTimer.
CreateTimer ==
  /\ at = "create" /\ at' = "racing"
  /\ timer' = "set"
  /\ UNCHANGED <<callback, holders, due, work, result, signalVars>>

\* The Delay keeps no reference of its own: the sender goes with the context.
BugCreateFails ==
  /\ at = "create" /\ at' = "racing"
  /\ holders' = holders \ {"context", "delay"}
  /\ Signal!DropSignal
  /\ UNCHANGED <<timer, callback, due, work, result>>

\* Creation fails: the Delay stays pending for ever.
CreateFails ==
  /\ at = "create" /\ at' = "racing"
  /\ holders' = holders \ {"context"}
  /\ UNCHANGED <<timer, callback, due, work, result, signalVars>>

-----------------------------------------------------------------------------
(* The race: a poll of the select looks at the work, then at the Delay.      *)

TakeAnswer ==
  /\ at = "racing" /\ work = "ready"
  /\ at' = "stop" /\ work' = "taken" /\ result' = "answer"
  /\ UNCHANGED <<timer, callback, holders, due, signalVars>>

WorkPending ==
  /\ at = "racing" /\ work = "pending"
  /\ at' = "polling"
  /\ UNCHANGED <<timer, callback, holders, due, work, result, signalVars>>

\* Delay::poll waits for the sender to go, and does not see the event.
BugDeaf ==
  /\ at = "polling"
  /\ IF rx = "closed" THEN at' = "stop" /\ result' = "timeout"
                      ELSE at' = "racing" /\ UNCHANGED result
  /\ UNCHANGED <<timer, callback, holders, due, work, signalVars>>

\* Delay::poll: the event arrived, or its sender is gone; or the task sleeps
\* until one of the two wakes it.
PollDelay ==
  /\ at = "polling"
  /\ IF mail # {} \/ rx = "closed"
     THEN at' = "stop" /\ result' = "timeout"
     ELSE at' = "racing" /\ UNCHANGED result
  /\ UNCHANGED <<timer, callback, holders, due, work, signalVars>>

\* The task is dropped in the middle of the race.
DropTask ==
  /\ at = "racing" /\ at' = "stop"
  /\ UNCHANGED <<timer, callback, holders, due, work, result, signalVars>>

-----------------------------------------------------------------------------
(* Delay::drop and ThreadpoolTimer::drop; the work is dropped after it.      *)

\* The timer stays armed.
BugStopTimer ==
  /\ at = "stop" /\ at' = IF timer = "none" THEN "dropFields" ELSE "wait"
  /\ UNCHANGED <<timer, callback, holders, due, work, result, signalVars>>

\* SetThreadpoolTimer(NULL): nothing new is queued.
StopTimer ==
  /\ at = "stop" /\ at' = IF timer = "none" THEN "dropFields" ELSE "wait"
  /\ timer' = IF timer = "none" THEN timer ELSE "stopped"
  /\ UNCHANGED <<callback, holders, due, work, result, signalVars>>

\* It does not wait for a callback that runs.
BugWaitCallbacks ==
  /\ at = "wait" /\ at' = "close"
  /\ callback' = IF callback = "queued" THEN "idle" ELSE callback
  /\ UNCHANGED <<timer, holders, due, work, result, signalVars>>

\* WaitForThreadpoolTimerCallbacks cancels what is queued and waits for what
\* runs.
WaitCallbacks ==
  /\ at = "wait" /\ at' = "close"
  /\ callback \in {"idle", "queued"} /\ callback' = "idle"
  /\ UNCHANGED <<timer, holders, due, work, result, signalVars>>

CloseTimer ==
  /\ at = "close" /\ at' = "release"
  /\ timer' = "closed"
  /\ UNCHANGED <<callback, holders, due, work, result, signalVars>>

\* The reference parked behind the timer is forgotten.
BugReleaseContext ==
  /\ at = "release" /\ at' = "dropFields"
  /\ UNCHANGED <<timer, callback, holders, due, work, result, signalVars>>

ReleaseContext ==
  /\ at = "release" /\ at' = "dropFields"
  /\ holders' = holders \ {"context"}
  /\ UNCHANGED <<timer, callback, due, work, result, signalVars>>

\* The other fields, then the work.
DropFields ==
  /\ at = "dropFields" /\ at' = "over"
  /\ holders' = holders \ {"delay"}
  /\ Signal!DropReceiver
  /\ work' = IF work = "taken" THEN work ELSE "dropped"
  /\ UNCHANGED <<timer, callback, due, result>>

-----------------------------------------------------------------------------
(* The clock, the pool and the work.                                         *)

Elapse ==
  /\ timer = "set" /\ ~due
  /\ due' = TRUE
  /\ UNCHANGED <<at, timer, callback, holders, work, result, signalVars>>

\* The timer is one-shot.
Fire ==
  /\ timer = "set" /\ due
  /\ timer' = "fired" /\ callback' = "queued"
  /\ UNCHANGED <<at, holders, due, work, result, signalVars>>

EnterCallback ==
  /\ callback = "queued" /\ callback' = "entered"
  /\ UNCHANGED <<at, timer, holders, due, work, result, signalVars>>

\* timer_callback signals, in the two halves of signal() ...
TakeSender ==
  /\ callback = "entered" /\ callback' = "sending"
  /\ Signal!Take("fired")
  /\ UNCHANGED <<at, timer, holders, due, work, result>>

SendEvent ==
  /\ callback = "sending" /\ callback' = "leaving"
  /\ IF held = {} THEN UNCHANGED signalVars ELSE \E h \in held : Signal!Send(h)
  /\ UNCHANGED <<at, timer, holders, due, work, result>>

\* ... and returns.
ReturnCallback ==
  /\ callback = "leaving" /\ callback' = "idle"
  /\ UNCHANGED <<at, timer, holders, due, work, result, signalVars>>

WorkReady ==
  /\ work = "pending" /\ at \notin {"dropFields", "over"}
  /\ work' = "ready"
  /\ UNCHANGED <<at, timer, callback, holders, due, result, signalVars>>

-----------------------------------------------------------------------------
Task ==
  \/ Listen \/ CreateTimer \/ CreateFails \/ TakeAnswer \/ WorkPending \/ PollDelay
  \/ StopTimer \/ WaitCallbacks \/ CloseTimer \/ ReleaseContext \/ DropFields

Pool == Fire \/ EnterCallback \/ TakeSender \/ SendEvent \/ ReturnCallback

Done == at = "over" /\ UNCHANGED vars

Next == Task \/ DropTask \/ Pool \/ Elapse \/ WorkReady \/ Done

\* The task is polled when woken, time passes, the pool runs its callbacks.
Fairness == WF_vars(Task) /\ WF_vars(Pool) /\ WF_vars(Elapse)

Spec == Init /\ [][Next]_vars /\ Fairness

-----------------------------------------------------------------------------
(* Properties.                                                               *)

InCallback == callback \in {"entered", "sending", "leaving"}

\* Every variable stays in its type; once the Delay is gone nobody holds its
\* state.
TypeOK ==
  /\ at \in {"listen", "create", "racing", "polling", "stop", "wait", "close",
            "release", "dropFields", "over"}
  /\ timer \in {"none", "set", "fired", "stopped", "closed"}
  /\ callback \in {"idle", "queued", "entered", "sending", "leaving"}
  /\ holders \subseteq {"delay", "context"} /\ due \in BOOLEAN
  /\ work \in {"pending", "ready", "taken", "dropped"}
  /\ result \in {"none", "answer", "timeout"}
  /\ Signal!SignalTypeOK
  /\ at = "over" => holders = {}

\* timer_callback only works on a live TimerState, whose parked reference is
\* still there (the safety comments of timer_callback and Delay::drop).
TimerStateLive == InCallback => "context" \in holders

\* A request only times out once its deadline has passed, and never because
\* the timer could not be made (the comments on Delay::new and on _state).
NoSpuriousTimeout == result = "timeout" => due /\ timer # "none"

\* "After the inner ThreadpoolTimer is dropped, no callback can re-enter this
\* DLL" (src/timer.rs): with the timer closed none is queued or runs.
NoReentry == timer = "closed" => callback = "idle"

\* With a timer the race ends, whatever the work does and however the timer's
\* callback interleaves with the drop of the Delay.
RaceEnds == timer = "set" ~> at = "over"
=============================================================================
