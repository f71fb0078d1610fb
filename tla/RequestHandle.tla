--------------------------- MODULE RequestHandle ---------------------------
(* The lifetime of one WinHTTP request handle and of the                   *)
(* Arc<RequestState> parked behind its dwContext: creation, the callbacks  *)
(* WinHTTP runs on its worker threads, the abort a redirect callback may   *)
(* start, and WinHttpRequestHandle::drop, which closes the handle and      *)
(* drains the callbacks (src/winhttp.rs, src/callback.rs).                 *)
(*                                                                         *)
(* Every section the code runs under one of its mutexes is one step; every *)
(* point between two such sections is a program counter.  What the         *)
(* callbacks say (the events) is the business of module CompletionSignal.  *)
(* A definition named Bug... is a faulty variant of the one that follows it, *)
(* used only to see that a property notices the fault.                     *)
EXTENDS Naturals, FiniteSets

CONSTANTS
  Workers,   \* threads of WinHTTP's pool that may run a status callback
  CanAbort   \* whether a redirect of this request may have to be aborted

ASSUME WorkersFinite == IsFiniteSet(Workers)
ASSUME CanAbortBoolean == CanAbort \in BOOLEAN

VARIABLES
  handle,    \* WinHTTP's view of the handle: "open" until the first close,
             \* then "closed", then "settled" when its work is cancelled
  final,     \* HANDLE_CLOSING has been delivered
  holders,   \* who holds a strong reference to the RequestState
  closed,    \* RequestCloseState.closed
  active,    \* RequestCloseState.active_callbacks
  abort,     \* CallbackAbort::is_aborted()
  owner,     \* program counter of the thread that owns the handle
  pc         \* program counters of the workers

vars == <<handle, final, holders, closed, active, abort, owner, pc>>

Holders == {"owner", "context", "closing"}

OwnerStates == {"plain",      \* a WinHttpHandle, dwContext not installed yet
                "abandoned",  \* installing dwContext failed: plain close
                "owning",     \* a WinHttpRequestHandle in use
                "closing",    \* in Drop: read "not aborted", about to close
                "checking",   \* in Drop: about to look at close_state
                "asleep",     \* in Drop: waiting on close_idle
                "drained",    \* Drop returned from wait_closed_and_idle
                "undrained"}  \* Drop returned because its close failed

\* Callbacks between enter_callback and the drop of RequestCallbackGuard.
CountedStates == {"counted", "flagged", "leaving"}
\* The HANDLE_CLOSING callback up to its release of the cloned Arc.
FinalStates == {"final", "cloned", "released", "marked"}
WorkerStates == {"idle", "entered"} \cup CountedStates \cup FinalStates

Counted == {w \in Workers : pc[w] \in CountedStates}
Installed == owner \notin {"plain", "abandoned"}
StateLive == holders # {}

Init ==
  /\ handle = "open"
  /\ final = FALSE
  /\ holders = {"owner", "context"}
  /\ closed = FALSE
  /\ active = 0
  /\ abort = FALSE
  /\ owner = "plain"
  /\ pc = [w \in Workers |-> "idle"]

Goto(w, from, to) ==
  /\ pc[w] = from
  /\ pc' = [pc EXCEPT ![w] = to]

\* WinHttpCloseHandle, which succeeds on an open handle and on no other.
Close(h) == IF h = "open" THEN "closed" ELSE h

\* Condvar::notify_all on close_idle: only the owner ever waits on it.
NotifyIdle == owner' = IF owner = "asleep" THEN "checking" ELSE owner

-----------------------------------------------------------------------------
(* The owner.                                                              *)

\* WINHTTP_OPTION_CONTEXT_VALUE is accepted: into_raw leaves the parked
\* reference to WinHTTP and the handle becomes a draining one.
InstallContext ==
  /\ owner = "plain"
  /\ owner' = "owning"
  /\ UNCHANGED <<handle, final, holders, closed, active, abort, pc>>

\* It is refused: the `?` drops the CallbackContext and closes the handle.
InstallContextFails ==
  /\ owner = "plain"
  /\ owner' = "abandoned"
  /\ holders' = holders \ {"context"}
  /\ handle' = "closed"
  /\ UNCHANGED <<final, closed, active, abort, pc>>

\* An aborted handle is taken for a drained one.
BugDropSkipsWait ==
  /\ owner = "owning"
  /\ owner' = IF abort THEN "drained" ELSE "closing"
  /\ UNCHANGED <<handle, final, holders, closed, active, abort, pc>>

\* Drop begins: reads callback_abort and lets go of its lock.
BeginDrop ==
  /\ owner = "owning"
  /\ owner' = IF abort THEN "checking" ELSE "closing"
  /\ UNCHANGED <<handle, final, holders, closed, active, abort, pc>>

\* WinHttpCloseHandle fails on a handle that is closed already.
CloseHandle ==
  /\ owner = "closing"
  /\ owner' = IF handle = "open" THEN "checking" ELSE "undrained"
  /\ handle' = Close(handle)
  /\ UNCHANGED <<final, holders, closed, active, abort, pc>>

\* Half of the condition of the loop is forgotten.
BugReturnOnClosed == closed

MayReturn == closed /\ active = 0

\* One turn of the loop of wait_closed_and_idle.
CheckIdle ==
  /\ owner = "checking"
  /\ owner' = IF MayReturn THEN "drained" ELSE "asleep"
  /\ UNCHANGED <<handle, final, holders, closed, active, abort, pc>>

\* A condition variable may wake its waiter for no reason.
SpuriousWakeup ==
  /\ owner = "asleep"
  /\ owner' = "checking"
  /\ UNCHANGED <<handle, final, holders, closed, active, abort, pc>>

\* The last Arc on the owner's side goes once Drop::drop has returned.
ReleaseState ==
  /\ owner \in {"abandoned", "drained", "undrained"}
  /\ "owner" \in holders
  /\ holders' = holders \ {"owner"}
  /\ UNCHANGED <<handle, final, closed, active, abort, owner, pc>>

-----------------------------------------------------------------------------
(* A status callback other than HANDLE_CLOSING, on worker w.               *)

\* WinHTTP calls winhttp_callback, also after a close, to report the work it
\* cancels.
Dispatch(w) ==
  /\ Installed
  /\ handle # "settled"
  /\ Goto(w, "idle", "entered")
  /\ UNCHANGED <<handle, final, holders, closed, active, abort, owner>>

EnterCallback(w) ==
  /\ Goto(w, "entered", "counted")
  /\ active' = active + 1
  /\ UNCHANGED <<handle, final, holders, closed, abort, owner>>

\* abort_from_callback, under the lock: the first caller wins, a later one
\* returns at once.
SetAbort(w) ==
  /\ CanAbort
  /\ Goto(w, "counted", IF abort THEN "leaving" ELSE "flagged")
  /\ abort' = TRUE
  /\ UNCHANGED <<handle, final, holders, closed, active, owner>>

\* abort_from_callback, after the lock: the result of the close is ignored.
AbortClose(w) ==
  /\ Goto(w, "flagged", "leaving")
  /\ handle' = Close(handle)
  /\ UNCHANGED <<final, holders, closed, active, abort, owner>>

\* The guard counts down without waking the owner.
BugLeaveSilent(w) ==
  /\ \/ Goto(w, "counted", "idle")
     \/ Goto(w, "leaving", "idle")
  /\ active' = IF active = 0 THEN 0 ELSE active - 1
  /\ UNCHANGED <<handle, final, holders, closed, abort, owner>>

\* RequestCallbackGuard::drop, also when the body unwinds from a panic.
LeaveCallback(w) ==
  /\ \/ Goto(w, "counted", "idle")
     \/ Goto(w, "leaving", "idle")
  /\ IF active = 0
     THEN UNCHANGED <<active, owner>>
     ELSE /\ active' = active - 1
          /\ IF closed /\ active' = 0 THEN NotifyIdle ELSE UNCHANGED owner
  /\ UNCHANGED <<handle, final, holders, closed, abort>>

-----------------------------------------------------------------------------
(* The HANDLE_CLOSING callback, on worker w.                               *)

\* After a close WinHTTP cancels the work of the handle; from then on only
\* HANDLE_CLOSING is left to deliver.
Settle ==
  /\ handle = "closed"
  /\ handle' = "settled"
  /\ UNCHANGED <<final, holders, closed, active, abort, owner, pc>>

\* WinHTTP delivers it once, when every callback it started before has at
\* least been counted (assumed of WinHTTP, see the README).
DispatchFinal(w) ==
  /\ Installed
  /\ handle = "settled"
  /\ ~final
  /\ \A v \in Workers : pc[v] # "entered"
  /\ Goto(w, "idle", "final")
  /\ final' = TRUE
  /\ UNCHANGED <<handle, holders, closed, active, abort, owner>>

\* HANDLE_CLOSING works on a borrow instead of a reference of its own.
BugBorrowInFinal(w) ==
  /\ Goto(w, "final", "cloned")
  /\ UNCHANGED <<handle, final, holders, closed, active, abort, owner>>

\* clone_arc_from_raw
CloneArc(w) ==
  /\ Goto(w, "final", "cloned")
  /\ holders' = holders \cup {"closing"}
  /\ UNCHANGED <<handle, final, closed, active, abort, owner>>

\* drop_raw
DropContext(w) ==
  /\ Goto(w, "cloned", "released")
  /\ holders' = holders \ {"context"}
  /\ UNCHANGED <<handle, final, closed, active, abort, owner>>

\* HANDLE_CLOSING leaves through a guard it never entered, which wraps around.
BugFinalUncounts(w) ==
  /\ Goto(w, "released", "marked")
  /\ closed' = TRUE
  /\ active' = active - 1
  /\ NotifyIdle
  /\ UNCHANGED <<handle, final, holders, abort>>

\* HANDLE_CLOSING sets the flag without waking the owner.
BugFinalSilent(w) ==
  /\ Goto(w, "released", "marked")
  /\ closed' = TRUE
  /\ UNCHANGED <<handle, final, holders, active, abort, owner>>

MarkFinalCallbackSeen(w) ==
  /\ Goto(w, "released", "marked")
  /\ closed' = TRUE
  /\ IF active = 0 THEN NotifyIdle ELSE UNCHANGED owner
  /\ UNCHANGED <<handle, final, holders, active, abort>>

\* The cloned Arc goes out of scope and the callback returns to WinHTTP.
ReturnFinal(w) ==
  /\ Goto(w, "marked", "idle")
  /\ holders' = holders \ {"closing"}
  /\ UNCHANGED <<handle, final, closed, active, abort, owner>>

-----------------------------------------------------------------------------
\* Steps of a callback that has begun, on whatever thread runs it.
RunCallback(w) ==
  \/ EnterCallback(w) \/ SetAbort(w) \/ AbortClose(w) \/ LeaveCallback(w)
  \/ CloneArc(w) \/ DropContext(w) \/ MarkFinalCallbackSeen(w) \/ ReturnFinal(w)

FinishDrop == CloseHandle \/ CheckIdle \/ ReleaseState

\* The request is over: nothing holds the handle and no callback will come.
Done ==
  /\ owner \in {"abandoned", "drained", "undrained"}
  /\ ~StateLive
  /\ \A w \in Workers : pc[w] = "idle"
  /\ UNCHANGED vars

Next ==
  \/ InstallContext \/ InstallContextFails
  \/ BeginDrop \/ FinishDrop \/ SpuriousWakeup
  \/ Settle
  \/ \E w \in Workers : Dispatch(w) \/ DispatchFinal(w) \/ RunCallback(w)
  \/ Done

\* A callback that has begun keeps running, and so does a Drop.  After a close
\* WinHTTP cancels what is pending and delivers HANDLE_CLOSING.  Nothing makes
\* the owner drop the handle or WinHTTP call back.
Fairness ==
  /\ WF_vars(FinishDrop)
  /\ \A w \in Workers : WF_vars(RunCallback(w))
  /\ WF_vars(Settle)
  /\ WF_vars(\E w \in Workers : DispatchFinal(w))

Spec == Init /\ [][Next]_vars /\ Fairness

-----------------------------------------------------------------------------
(* Properties.                                                             *)

\* Every variable stays in its type.
TypeOK ==
  /\ handle \in {"open", "closed", "settled"}
  /\ final \in BOOLEAN
  /\ holders \subseteq Holders
  /\ closed \in BOOLEAN
  /\ active \in Nat
  /\ abort \in BOOLEAN
  /\ owner \in OwnerStates
  /\ pc \in [Workers -> WorkerStates]

\* No callback of this request is inside the crate, the tail of
\* HANDLE_CLOSING after mark_final_callback_seen apart, and none will come.
Quiescent ==
  /\ final
  /\ \A w \in Workers : pc[w] \in {"idle", "marked"}

\* A Drop that waited returns with no callback of the request running and
\* none to come: the two conditions in the comment of WinHttpRequestHandle.
DrainedIsQuiescent == owner = "drained" => Quiescent

\* What the comment of WinHttpRequestHandle says of every Drop: "After `Drop`
\* returns, no WinHTTP callback can re-enter this DLL for this request".
DropDrains == owner \in {"drained", "undrained"} => Quiescent

\* A callback never touches a RequestState that was freed: borrow_raw and the
\* guard of enter_callback rely on the parked reference or on a Drop that
\* still waits.  (A Drop whose close failed does not wait: see DropDrains.)
CallbackStateLive ==
  owner # "undrained" =>
    \A w \in Workers : pc[w] # "idle" => StateLive

\* The owner never sleeps on close_idle once it may return, whichever of the
\* last callback and HANDLE_CLOSING comes last: no wakeup is lost.
NoLostWakeup == owner = "asleep" => ~MayReturn

\* No callback starts once a Drop that waited has returned.
NoReentry ==
  [][owner = "drained" => \A w \in Workers : pc[w] = "idle" => pc'[w] = "idle"]_vars

\* A handle that is dropped goes away for good: Drop does not block its thread
\* for ever, and the Arc<RequestState> is freed on every path, no reference
\* stays parked in a context WinHTTP will never hand back.
DropEnds ==
  owner \in {"abandoned", "closing", "checking"} ~>
    owner \in {"abandoned", "drained", "undrained"} /\ ~StateLive

\* The refinement mapping to CallbackDrain: only a Drop that waited counts as
\* returned (of the other one see DropDrains).
Inside == {w \in Workers : pc[w] \notin {"idle", "marked"}}
Gate == IF owner = "drained" THEN "returned" ELSE IF final THEN "shut" ELSE "open"
Drain == INSTANCE CallbackDrain WITH inside <- Inside, gate <- Gate

\* The handle keeps the drain contract, whether or not a redirect aborts.
KeepsDrainContract == Drain!Spec
=============================================================================
