------------------------ MODULE RequestHandle_proofs ------------------------
(* Proofs about the callbacks of a request handle: RequestHandle, for any set *)
(* of pool threads, then RedirectStrip, for any origins and any hops.  The    *)
(* first's inductive invariant says, besides types, who may be inside         *)
(* HANDLE_CLOSING, which references are still held, and that active_callbacks *)
(* counts exactly the threads inside the guard.                               *)
EXTENDS RequestHandle, RedirectStrip, FiniteSetTheorems, TLAPS

\* active_callbacks is the number of callbacks inside the guard.
CountExact == active = Cardinality(Counted)

\* HANDLE_CLOSING runs on one thread at most, after WinHTTP settled the
\* handle, and no callback waits to be counted then.
FinalOnce ==
  /\ \A v, w \in Workers : pc[v] \in FinalStates /\ pc[w] \in FinalStates => v = w
  /\ \A w \in Workers : pc[w] \in FinalStates => final
  /\ final => handle = "settled" /\ \A w \in Workers : pc[w] # "entered"
  /\ ~Installed => ~final /\ \A w \in Workers : pc[w] = "idle"
  /\ closed => final /\ \A w \in Workers : pc[w] \notin {"final", "cloned", "released"}

\* Which strong references to the RequestState exist.
Held ==
  /\ owner \notin {"abandoned", "drained", "undrained"} => "owner" \in holders
  /\ owner # "abandoned" /\ ~final => "context" \in holders
  /\ \A w \in Workers : pc[w] \in {"final", "cloned"} => "context" \in holders
  /\ \A w \in Workers : pc[w] \in {"cloned", "released", "marked"} => "closing" \in holders

\* What the owner knows at its place in Drop, and of an abort.
OwnerKnows ==
  /\ owner = "drained" => MayReturn
  /\ owner = "asleep" => ~MayReturn
  /\ owner = "undrained" => abort
  /\ handle # "open" /\ owner \in {"plain", "owning", "closing"} => abort
  /\ \A w \in Workers : pc[w] = "flagged" => abort
  /\ abort => CanAbort

IInv == TypeOK /\ CountExact /\ FinalOnce /\ Held /\ OwnerKnows

-----------------------------------------------------------------------------
(* How a worker's move changes the set the counter counts.                 *)

LEMMA CountedFinite == IsFiniteSet(Counted)
BY WorkersFinite, FS_Subset DEF Counted

LEMMA MoveIn ==
  ASSUME TypeOK, NEW w \in Workers, NEW to \in CountedStates,
         pc[w] \notin CountedStates, pc' = [pc EXCEPT ![w] = to]
  PROVE  Cardinality(Counted') = Cardinality(Counted) + 1
<1>1. Counted' = Counted \cup {w} /\ w \notin Counted
  BY DEF TypeOK, Counted
<1> QED
  BY <1>1, CountedFinite, FS_AddElement

LEMMA MoveOut ==
  ASSUME TypeOK, NEW w \in Workers, NEW to \in WorkerStates \ CountedStates,
         pc[w] \in CountedStates, pc' = [pc EXCEPT ![w] = to]
  PROVE  Cardinality(Counted') = Cardinality(Counted) - 1
<1>1. Counted' = Counted \ {w} /\ w \in Counted
  BY DEF TypeOK, Counted
<1> QED
  BY <1>1, CountedFinite, FS_RemoveElement

LEMMA MoveAcross ==
  ASSUME TypeOK, NEW w \in Workers, NEW to \in WorkerStates,
         pc[w] \in CountedStates <=> to \in CountedStates,
         pc' = [pc EXCEPT ![w] = to]
  PROVE  Counted' = Counted
BY DEF TypeOK, Counted

\* A callback inside the guard keeps the counter above zero.
LEMMA CountPositive ==
  ASSUME CountExact, NEW w \in Workers, pc[w] \in CountedStates
  PROVE  active # 0
<1>1. w \in Counted
  BY DEF Counted
<1> QED
  BY <1>1, CountedFinite, FS_EmptySet DEF CountExact

-----------------------------------------------------------------------------
LEMMA InitIInv == Init => IInv
<1> SUFFICES ASSUME Init PROVE IInv
  OBVIOUS
<1>1. TypeOK
  BY DEF Init, TypeOK, Holders, OwnerStates, WorkerStates
<1>2. CountExact
  <2>1. Counted = {}
    BY DEF Init, Counted, CountedStates
  <2> QED
    BY <2>1, FS_EmptySet DEF Init, CountExact
<1>3. FinalOnce /\ Held /\ OwnerKnows
  BY DEF Init, FinalOnce, Held, OwnerKnows, FinalStates, Installed, MayReturn
<1> QED
  BY <1>1, <1>2, <1>3 DEF IInv

LEMMA NextTypeOK == TypeOK /\ [Next]_vars => TypeOK'
<1> SUFFICES ASSUME TypeOK, [Next]_vars PROVE TypeOK'
  OBVIOUS
<1> USE DEF TypeOK, Holders, OwnerStates, WorkerStates, CountedStates, FinalStates
<1>1. CASE InstallContext \/ InstallContextFails \/ BeginDrop \/ SpuriousWakeup
           \/ Settle
  BY <1>1 DEF InstallContext, InstallContextFails, BeginDrop, SpuriousWakeup, Settle
<1>2. CASE FinishDrop
  BY <1>2 DEF FinishDrop, CloseHandle, CheckIdle, ReleaseState, Close
<1>3. ASSUME NEW w \in Workers, Dispatch(w) \/ DispatchFinal(w) PROVE TypeOK'
  BY <1>3 DEF Dispatch, DispatchFinal, Goto
<1>4. ASSUME NEW w \in Workers, RunCallback(w) PROVE TypeOK'
  <2>1. CASE EnterCallback(w)
    BY <2>1 DEF EnterCallback, Goto
  <2>2. CASE SetAbort(w) \/ AbortClose(w)
    BY <2>2 DEF SetAbort, AbortClose, Goto, Close
  <2>3. CASE LeaveCallback(w)
    <3>1. active' \in Nat /\ owner' \in OwnerStates
      BY <2>3 DEF LeaveCallback, NotifyIdle
    <3> QED
      BY <2>3, <3>1 DEF LeaveCallback, Goto
  <2>4. CASE CloneArc(w) \/ DropContext(w) \/ ReturnFinal(w)
    BY <2>4 DEF CloneArc, DropContext, ReturnFinal, Goto
  <2>5. CASE MarkFinalCallbackSeen(w)
    BY <2>5 DEF MarkFinalCallbackSeen, Goto, NotifyIdle
  <2> QED
    BY <1>4, <2>1, <2>2, <2>3, <2>4, <2>5 DEF RunCallback
<1>5. CASE UNCHANGED vars
  BY <1>5 DEF vars
<1> QED
  BY <1>1, <1>2, <1>3, <1>4, <1>5 DEF Next, Done

LEMMA NextCountExact == TypeOK /\ CountExact /\ [Next]_vars => CountExact'
<1> SUFFICES ASSUME TypeOK, CountExact, [Next]_vars PROVE CountExact'
  OBVIOUS
<1> USE DEF CountExact
<1>0. ASSUME UNCHANGED <<active, pc>> PROVE CountExact'
  BY <1>0 DEF Counted
<1>1. CASE InstallContext \/ InstallContextFails \/ BeginDrop \/ SpuriousWakeup
           \/ Settle \/ FinishDrop \/ UNCHANGED vars
  BY <1>0, <1>1 DEF InstallContext, InstallContextFails, BeginDrop, SpuriousWakeup,
     Settle, FinishDrop, CloseHandle, CheckIdle, ReleaseState, vars
<1>2. ASSUME NEW w \in Workers, Dispatch(w) \/ DispatchFinal(w) PROVE CountExact'
  BY <1>2, MoveAcross DEF Dispatch, DispatchFinal, Goto, WorkerStates, FinalStates,
     CountedStates
<1>3. ASSUME NEW w \in Workers, RunCallback(w) PROVE CountExact'
  <2>1. CASE EnterCallback(w)
    BY <2>1, MoveIn DEF EnterCallback, Goto, CountedStates
  <2>2. CASE SetAbort(w) \/ AbortClose(w)
    BY <2>2, MoveAcross DEF SetAbort, AbortClose, Goto, WorkerStates, CountedStates
  <2>3. CASE LeaveCallback(w)
    <3>1. pc[w] \in CountedStates /\ pc' = [pc EXCEPT ![w] = "idle"]
      BY <2>3 DEF LeaveCallback, Goto, CountedStates
    <3>2. active' = active - 1
      BY <2>3, <3>1, CountPositive DEF LeaveCallback
    <3> QED
      BY <3>1, <3>2, MoveOut DEF WorkerStates, CountedStates
  <2>4. CASE CloneArc(w) \/ DropContext(w) \/ MarkFinalCallbackSeen(w) \/ ReturnFinal(w)
    BY <2>4, MoveAcross DEF CloneArc, DropContext, MarkFinalCallbackSeen, ReturnFinal,
       Goto, WorkerStates, CountedStates, FinalStates
  <2> QED
    BY <1>3, <2>1, <2>2, <2>3, <2>4 DEF RunCallback
<1> QED
  BY <1>1, <1>2, <1>3 DEF Next, Done

LEMMA NextFinalOnce == TypeOK /\ FinalOnce /\ [Next]_vars => FinalOnce'
<1> SUFFICES ASSUME TypeOK, FinalOnce, [Next]_vars PROVE FinalOnce'
  OBVIOUS
<1> USE DEF TypeOK, FinalOnce, FinalStates, Installed
<1>1. CASE InstallContext \/ InstallContextFails \/ BeginDrop \/ SpuriousWakeup \/ Settle
  BY <1>1 DEF InstallContext, InstallContextFails, BeginDrop, SpuriousWakeup, Settle
<1>2. CASE FinishDrop \/ UNCHANGED vars
  BY <1>2 DEF FinishDrop, CloseHandle, CheckIdle, ReleaseState, Close, vars
<1>3. ASSUME NEW w \in Workers, Dispatch(w) PROVE FinalOnce'
  BY <1>3 DEF Dispatch, Goto
<1>4. ASSUME NEW w \in Workers, DispatchFinal(w) PROVE FinalOnce'
  BY <1>4 DEF DispatchFinal, Goto
<1>5. ASSUME NEW w \in Workers, RunCallback(w) PROVE FinalOnce'
  <2>0. Installed /\ pc[w] # "idle"
    BY <1>5 DEF RunCallback, EnterCallback, SetAbort, AbortClose, LeaveCallback, CloneArc,
       DropContext, MarkFinalCallbackSeen, ReturnFinal, Goto
  <2>1. CASE EnterCallback(w) \/ SetAbort(w) \/ AbortClose(w)
    BY <2>0, <2>1 DEF EnterCallback, SetAbort, AbortClose, Close, Goto
  <2>2. CASE LeaveCallback(w)
    BY <2>0, <2>2 DEF LeaveCallback, NotifyIdle, Goto
  <2>3. CASE CloneArc(w) \/ DropContext(w) \/ ReturnFinal(w)
    BY <2>0, <2>3 DEF CloneArc, DropContext, ReturnFinal, Goto
  <2>4. CASE MarkFinalCallbackSeen(w)
    BY <2>0, <2>4 DEF MarkFinalCallbackSeen, NotifyIdle, Goto
  <2> QED
    BY <1>5, <2>1, <2>2, <2>3, <2>4 DEF RunCallback
<1> QED
  BY <1>1, <1>2, <1>3, <1>4, <1>5 DEF Next, Done

LEMMA NextHeld == TypeOK /\ FinalOnce /\ Held /\ [Next]_vars => Held'
<1> SUFFICES ASSUME TypeOK, FinalOnce, Held, [Next]_vars PROVE Held'
  OBVIOUS
<1> USE DEF TypeOK, FinalOnce, FinalStates, Installed, Held
<1>1. CASE InstallContext \/ InstallContextFails \/ BeginDrop \/ SpuriousWakeup \/ Settle
  BY <1>1 DEF InstallContext, InstallContextFails, BeginDrop, SpuriousWakeup, Settle
<1>2. CASE FinishDrop \/ UNCHANGED vars
  BY <1>2 DEF FinishDrop, CloseHandle, CheckIdle, ReleaseState, vars
<1>3. ASSUME NEW w \in Workers, Dispatch(w) \/ DispatchFinal(w) PROVE Held'
  BY <1>3 DEF Dispatch, DispatchFinal, Goto
<1>4. ASSUME NEW w \in Workers, RunCallback(w) PROVE Held'
  <2>1. CASE EnterCallback(w) \/ SetAbort(w) \/ AbortClose(w)
    BY <2>1 DEF EnterCallback, SetAbort, AbortClose, Goto
  <2>2. CASE LeaveCallback(w)
    BY <2>2 DEF LeaveCallback, NotifyIdle, Goto
  <2>3. CASE CloneArc(w)
    BY <2>3 DEF CloneArc, Goto
  <2>4. CASE DropContext(w) \/ ReturnFinal(w)
    BY <2>4 DEF DropContext, ReturnFinal, Goto
  <2>5. CASE MarkFinalCallbackSeen(w)
    BY <2>5 DEF MarkFinalCallbackSeen, NotifyIdle, Goto
  <2> QED
    BY <1>4, <2>1, <2>2, <2>3, <2>4, <2>5 DEF RunCallback
<1> QED
  BY <1>1, <1>2, <1>3, <1>4 DEF Next, Done

LEMMA NextOwnerKnows ==
  TypeOK /\ FinalOnce /\ OwnerKnows /\ CountExact /\ [Next]_vars => OwnerKnows'
<1> SUFFICES ASSUME TypeOK, FinalOnce, OwnerKnows, CountExact, [Next]_vars
             PROVE OwnerKnows'
  OBVIOUS
<1> USE DEF TypeOK, OwnerKnows, MayReturn
<1>1. CASE InstallContext \/ InstallContextFails \/ BeginDrop \/ SpuriousWakeup \/ Settle
  BY <1>1 DEF InstallContext, InstallContextFails, BeginDrop, SpuriousWakeup, Settle
<1>2. CASE FinishDrop \/ UNCHANGED vars
  BY <1>2 DEF FinishDrop, CloseHandle, CheckIdle, ReleaseState, Close, vars
<1>3. ASSUME NEW w \in Workers, Dispatch(w) \/ DispatchFinal(w) PROVE OwnerKnows'
  BY <1>3 DEF Dispatch, DispatchFinal, Goto
<1>4. ASSUME NEW w \in Workers, RunCallback(w) PROVE OwnerKnows'
  <2>1. CASE EnterCallback(w)
    \* A callback that is counted only now cannot follow HANDLE_CLOSING.
    BY <2>1 DEF EnterCallback, Goto, FinalOnce
  <2>2. CASE SetAbort(w)
    BY <2>2 DEF SetAbort, Goto
  <2>3. CASE AbortClose(w)
    BY <2>3 DEF AbortClose, Goto, Close
  <2>4. CASE LeaveCallback(w)
    <3>1. active # 0
      BY <2>4, CountPositive DEF LeaveCallback, Goto, CountedStates
    <3> QED
      BY <2>4, <3>1 DEF LeaveCallback, NotifyIdle, Goto
  <2>5. CASE CloneArc(w) \/ DropContext(w) \/ ReturnFinal(w)
    BY <2>5 DEF CloneArc, DropContext, ReturnFinal, Goto
  <2>6. CASE MarkFinalCallbackSeen(w)
    BY <2>6 DEF MarkFinalCallbackSeen, NotifyIdle, Goto
  <2> QED
    BY <1>4, <2>1, <2>2, <2>3, <2>4, <2>5, <2>6 DEF RunCallback
<1> QED
  BY <1>1, <1>2, <1>3, <1>4 DEF Next, Done

LEMMA NextIInv == IInv /\ [Next]_vars => IInv'
BY NextTypeOK, NextCountExact, NextFinalOnce, NextHeld, NextOwnerKnows DEF IInv

LEMMA Inductive == Spec => []IInv
BY InitIInv, NextIInv, PTL DEF Spec

-----------------------------------------------------------------------------
(* What follows from the invariant.                                          *)

\* Every variable stays in its type, in every instance.
THEOREM TypeCorrect == Spec => []TypeOK
<1>1. IInv => TypeOK
  BY DEF IInv
<1> QED
  BY <1>1, Inductive, PTL

LEMMA DrainedQuiet == IInv => DrainedIsQuiescent
<1> SUFFICES ASSUME IInv, owner = "drained" PROVE Quiescent
  BY DEF DrainedIsQuiescent
<1>1. closed /\ active = 0 /\ final
  BY DEF IInv, OwnerKnows, FinalOnce, MayReturn
<1>2. ASSUME NEW w \in Workers PROVE pc[w] \in {"idle", "marked"}
  <2>1. pc[w] \notin CountedStates
    BY <1>1, CountPositive DEF IInv
  <2>2. pc[w] \notin {"entered", "final", "cloned", "released"}
    BY <1>1 DEF IInv, FinalOnce
  <2> QED
    BY <2>1, <2>2 DEF IInv, TypeOK, WorkerStates, FinalStates
<1> QED
  BY <1>1, <1>2 DEF Quiescent

\* WinHttpRequestHandle::drop: whenever it waited, it returns with every
\* callback gone, however many threads WinHTTP uses.
THEOREM DropQuiesces == Spec => []DrainedIsQuiescent
BY DrainedQuiet, Inductive, PTL

\* borrow_raw and the callback guard: the RequestState a callback works on has
\* not been freed, up to the Drop that gave up waiting.
THEOREM StateOutlivesCallbacks == Spec => []CallbackStateLive
<1>1. IInv => CallbackStateLive
  <2> SUFFICES ASSUME IInv, owner # "undrained", NEW w \in Workers, pc[w] # "idle"
               PROVE  StateLive
    BY DEF CallbackStateLive
  <2>1. owner # "abandoned"
    BY DEF IInv, FinalOnce, Installed
  <2>2. CASE pc[w] \in FinalStates
    BY <2>2 DEF IInv, Held, FinalStates, StateLive
  <2>3. CASE pc[w] \in CountedStates
    <3>1. owner # "drained"
      BY <2>3, CountPositive DEF IInv, OwnerKnows, MayReturn
    <3> QED
      BY <2>1, <3>1 DEF IInv, Held, StateLive
  <2>4. CASE pc[w] = "entered"
    BY <2>1, <2>4 DEF IInv, Held, FinalOnce, StateLive
  <2> QED
    BY <2>2, <2>3, <2>4 DEF IInv, TypeOK, WorkerStates
<1> QED
  BY <1>1, Inductive, PTL

\* wait_closed_and_idle: the notification that makes Drop return is never lost.
THEOREM WakeupsArrive == Spec => []NoLostWakeup
<1>1. IInv => NoLostWakeup
  BY DEF IInv, OwnerKnows, NoLostWakeup
<1> QED
  BY <1>1, Inductive, PTL

\* No callback re-enters the DLL after a Drop that waited.
THEOREM NoCallbackAfterDrop == Spec => NoReentry
<1>1. IInv /\ [Next]_vars =>
        [owner = "drained" => \A w \in Workers : pc[w] = "idle" => pc'[w] = "idle"]_vars
  <2> SUFFICES ASSUME IInv, Next, owner = "drained", NEW w \in Workers, pc[w] = "idle"
               PROVE  pc'[w] = "idle"
    BY DEF vars
  <2>1. final /\ handle = "settled"
    BY DEF IInv, FinalOnce, OwnerKnows, MayReturn
  <2>2. ASSUME NEW v \in Workers, Dispatch(v) \/ DispatchFinal(v) \/ RunCallback(v)
        PROVE  pc'[w] = "idle"
    <3>1. CASE Dispatch(v) \/ DispatchFinal(v)
      BY <2>1, <3>1 DEF Dispatch, DispatchFinal
    <3>2. CASE RunCallback(v)
      <4>1. pc[v] # "idle" /\ \E to : pc' = [pc EXCEPT ![v] = to]
        BY <3>2 DEF RunCallback, EnterCallback, SetAbort, AbortClose, LeaveCallback,
           CloneArc, DropContext, MarkFinalCallbackSeen, ReturnFinal, Goto
      <4> QED
        BY <4>1 DEF IInv, TypeOK
    <3> QED
      BY <2>2, <3>1, <3>2
  <2> QED
    BY <2>2 DEF Next, InstallContext, InstallContextFails, BeginDrop, FinishDrop, CloseHandle,
       CheckIdle, ReleaseState, SpuriousWakeup, Settle, Done, vars
<1> QED
  BY <1>1, Inductive, PTL DEF Spec, NoReentry

\* Where no redirect can abort, every Drop waits: what the comment of
\* WinHttpRequestHandle promises then holds without exception.
THEOREM UnabortedDropDrains == ASSUME ~CanAbort PROVE Spec => []DropDrains
<1>1. IInv => DropDrains
  <2>1. IInv => owner # "undrained"
    BY DEF IInv, OwnerKnows
  <2> QED
    BY <2>1, DrainedQuiet DEF DropDrains, DrainedIsQuiescent
<1> QED
  BY <1>1, Inductive, PTL

-----------------------------------------------------------------------------
(* The refinement: a Drop that waits keeps the drain contract.               *)

\* One move of a worker, as the contract sees it.
LEMMA InsideMoves ==
  ASSUME TypeOK, NEW w \in Workers, NEW to \in WorkerStates,
         pc' = [pc EXCEPT ![w] = to]
  PROVE  Inside' = IF to \in {"idle", "marked"} THEN Inside \ {w} ELSE Inside \cup {w}
BY DEF TypeOK, Inside

LEMMA RefineStep ==
  ASSUME IInv, [Next]_vars
  PROVE  [Drain!Next]_(Drain!vars)
<1> USE DEF Drain!vars
<1>1. /\ TypeOK
      /\ owner = "drained" => final
  BY DEF IInv, OwnerKnows, FinalOnce, MayReturn
<1>2. ASSUME NEW w \in Workers, NEW to \in WorkerStates, pc' = [pc EXCEPT ![w] = to]
      PROVE  Inside' = IF to \in {"idle", "marked"} THEN Inside \ {w} ELSE Inside \cup {w}
  BY <1>1, <1>2, InsideMoves
<1>3. ASSUME UNCHANGED <<owner, final, pc>> PROVE UNCHANGED Drain!vars
  BY <1>3 DEF Inside, Gate
<1>4. CASE InstallContext \/ InstallContextFails \/ BeginDrop \/ SpuriousWakeup
           \/ CloseHandle
  <2>1. Inside' = Inside
    BY <1>4 DEF InstallContext, InstallContextFails, BeginDrop, SpuriousWakeup,
       CloseHandle, Inside
  <2>2. Gate' = Gate
    BY <1>1, <1>4 DEF InstallContext, InstallContextFails, BeginDrop, SpuriousWakeup,
       CloseHandle, Gate
  <2> QED
    BY <2>1, <2>2
<1>5. CASE CheckIdle
  <2>1. CASE MayReturn
    <3>1. Inside = {} /\ final
      <4>1. final /\ \A w \in Workers : pc[w] \notin CountedStates
        BY <2>1, CountPositive DEF IInv, FinalOnce, MayReturn
      <4>2. \A w \in Workers : pc[w] \notin {"entered", "final", "cloned", "released"}
        BY <2>1 DEF IInv, FinalOnce, MayReturn
      <4> QED
        BY <1>1, <4>1, <4>2 DEF TypeOK, WorkerStates, FinalStates, Inside
    <3>2. Gate = "shut" /\ Gate' = "returned" /\ Inside' = Inside
      BY <1>5, <2>1, <3>1 DEF CheckIdle, Gate, Inside
    <3> QED
      BY <3>1, <3>2 DEF Drain!Next, Drain!Return
  <2>2. CASE ~MayReturn
    BY <1>5, <2>2 DEF CheckIdle, Inside, Gate
  <2> QED
    BY <2>1, <2>2
<1>6. CASE ReleaseState \/ Settle \/ UNCHANGED vars
  BY <1>3, <1>6 DEF ReleaseState, Settle, vars
<1>7. ASSUME NEW w \in Workers, Dispatch(w) \/ DispatchFinal(w)
      PROVE  Drain!Enter(w) \/ Drain!EnterLast(w)
  <2>1. w \notin Inside /\ Inside' = Inside \cup {w}
    BY <1>2, <1>7 DEF Dispatch, DispatchFinal, Goto, Inside, WorkerStates, FinalStates
  <2>2. Gate = "open"
    BY <1>1, <1>7 DEF Dispatch, DispatchFinal, Gate, IInv, FinalOnce
  <2>3. Gate' = IF DispatchFinal(w) THEN "shut" ELSE "open"
    BY <1>1, <1>7, <2>2 DEF Dispatch, DispatchFinal, Gate, Goto
  <2> QED
    BY <2>1, <2>2, <2>3 DEF Drain!Enter, Drain!EnterLast
<1>8. ASSUME NEW w \in Workers, RunCallback(w)
      PROVE  Drain!Leave(w) \/ UNCHANGED Drain!vars
  <2>1. Gate' = Gate
    BY <1>8 DEF RunCallback, EnterCallback, SetAbort, AbortClose, LeaveCallback, CloneArc,
       DropContext, MarkFinalCallbackSeen, ReturnFinal, NotifyIdle, Gate
  <2>2. CASE EnterCallback(w) \/ SetAbort(w) \/ AbortClose(w) \/ CloneArc(w) \/ DropContext(w)
    <3>1. w \in Inside /\ Inside' = Inside \cup {w}
      BY <1>2, <2>2 DEF EnterCallback, SetAbort, AbortClose, CloneArc, DropContext, Goto,
         Inside, WorkerStates, CountedStates, FinalStates
    <3> QED
      BY <2>1, <3>1
  <2>3. CASE LeaveCallback(w) \/ MarkFinalCallbackSeen(w)
    <3>1. w \in Inside /\ Inside' = Inside \ {w}
      BY <1>2, <2>3 DEF LeaveCallback, MarkFinalCallbackSeen, Goto, Inside, WorkerStates,
         FinalStates
    <3> QED
      BY <2>1, <3>1 DEF Drain!Leave
  <2>4. CASE ReturnFinal(w)
    <3>1. w \notin Inside /\ Inside' = Inside \ {w}
      BY <1>2, <2>4 DEF ReturnFinal, Goto, Inside, WorkerStates
    <3> QED
      BY <2>1, <3>1
  <2> QED
    BY <1>8, <2>2, <2>3, <2>4 DEF RunCallback
<1> QED
  BY <1>4, <1>5, <1>6, <1>7, <1>8 DEF Next, FinishDrop, Done, Drain!Next

\* The detailed handle implements CallbackDrain: callbacks enter and leave, one
\* is the last, and only then does a Drop that waits return.
THEOREM ImplementsDrain == Spec => KeepsDrainContract
<1>1. Init => Drain!Init
  BY DEF Init, Drain!Init, Inside, Gate
<1>2. IInv /\ [Next]_vars => [Drain!Next]_(Drain!vars)
  BY RefineStep
<1> QED
  BY <1>1, <1>2, Inductive, PTL DEF Spec, KeepsDrainContract, Drain!Spec
-----------------------------------------------------------------------------
(* RedirectStrip.  What makes the secrets stay: headers are only left on the  *)
(* handle while the tracked origin is still the request's own, and in a       *)
(* callback that leaves it those still there are still to be removed.         *)

\* Headers are on the handle only as long as it never left home.
LeftHomeBare == headers # {} => tracked = Home

\* A callback that crosses origins has not forgotten a header.
StillToRemove == at = "callback" /\ target # tracked => headers \subseteq left

StripInv == StripTypeOK /\ OriginTracked /\ LeftHomeBare /\ StillToRemove /\ SecretsStayHome

LEMMA InitStripInv == StripInit => StripInv
<1> SUFFICES ASSUME StripInit PROVE StripInv
  OBVIOUS
<1>1. [to |-> Home, headers |-> given] \in [to : Origins, headers : SUBSET Sensitive]
  BY HomeOK DEF StripInit
<1>2. StripTypeOK
  BY <1>1, HomeOK DEF StripInit, StripTypeOK
<1>3. OriginTracked /\ LeftHomeBare /\ StillToRemove
  BY DEF StripInit, OriginTracked, LeftHomeBare, StillToRemove
<1>4. SecretsStayHome
  BY DEF StripInit, SecretsStayHome
<1> QED BY <1>2, <1>3, <1>4 DEF StripInv

LEMMA NextStripInv == StripInv /\ [StripNext]_hopVars => StripInv'
<1> SUFFICES ASSUME StripInv, [StripNext]_hopVars PROVE StripInv'
  OBVIOUS
<1> USE DEF StripInv, StripTypeOK, OriginTracked, LeftHomeBare, StillToRemove, SecretsStayHome
<1>1. ASSUME NEW to \in Origins, Redirect(to) PROVE StripInv'
  BY <1>1 DEF Redirect, Crosses
<1>2. ASSUME NEW to \in Origins, RedirectUnparsable(to) PROVE StripInv'
  BY <1>2 DEF RedirectUnparsable, Abort
<1>3. ASSUME NEW h \in Sensitive, RemoveHeader(h) PROVE StripInv'
  BY <1>3 DEF RemoveHeader
<1>4. ASSUME NEW h \in Sensitive, RemovalFails(h) PROVE StripInv'
  BY <1>4 DEF RemovalFails, Abort
<1>5. CASE Return
  \* What the callback leaves on the handle is what a hop within Home carries.
  <2>1. headers # {} => target = Home
    BY <1>5 DEF Return
  <2>2. StripTypeOK'
    BY <1>5 DEF Return
  <2>3. SecretsStayHome'
    BY <1>5, <2>1 DEF Return
  <2>4. (OriginTracked /\ LeftHomeBare /\ StillToRemove)'
    BY <1>5, <2>1 DEF Return
  <2> QED BY <2>2, <2>3, <2>4
<1>6. CASE OwnerCloses
  BY <1>6 DEF OwnerCloses
<1>7. CASE Answered
  BY <1>7 DEF Answered
<1>8. CASE UNCHANGED hopVars
  BY <1>8 DEF hopVars
<1> QED
  BY <1>1, <1>2, <1>3, <1>4, <1>5, <1>6, <1>7, <1>8 DEF StripNext, StripDone

\* The invariant holds throughout every behaviour.
THEOREM StripInvariance == StripSpec => []StripInv
BY InitStripInv, NextStripInv, PTL DEF StripSpec

\* No sensitive header ever reaches an origin other than the request's own
\* (strip_sensitive_headers_on_cross_origin_redirect).
THEOREM NoHeaderLeaves == StripSpec => []SecretsStayHome
<1>1. StripInv => SecretsStayHome
  BY DEF StripInv
<1> QED BY <1>1, StripInvariance, PTL

\* Between callbacks current_origin is that of WinHTTP's hop, and every
\* variable stays in its type.
THEOREM TracksOrigin == StripSpec => [](StripTypeOK /\ OriginTracked)
<1>1. StripInv => StripTypeOK /\ OriginTracked
  BY DEF StripInv
<1> QED BY <1>1, StripInvariance, PTL

\* Once abort_from_callback ran nothing more is sent.
THEOREM AbortFinal == StripSpec => AbortStopsHops
<1>1. StripInv /\ [StripNext]_hopVars => [aborted => aborted' /\ wire' = wire]_hopVars
  <2> SUFFICES ASSUME StripInv, StripNext PROVE aborted => aborted' /\ wire' = wire
    BY DEF hopVars
  <2> QED
    BY DEF StripInv, StripTypeOK, StripNext, Redirect, RedirectUnparsable, Abort, RemoveHeader, RemovalFails,
           Return, OwnerCloses, Answered, StripDone, hopVars
<1> QED BY <1>1, StripInvariance, PTL DEF StripSpec, AbortStopsHops

\* Every variable stays in its type, for any number of hops.
THEOREM StripTypeCorrect == StripSpec => []StripTypeOK
<1>1. StripInv => StripTypeOK
  BY DEF StripInv
<1> QED BY <1>1, StripInvariance, PTL

-----------------------------------------------------------------------------
(* Headers at home: as long as every hop was, the handle has what it was     *)
(* given wherever a hop within Home may follow.                              *)

AlwaysHome == \A m \in wire : m.to = Home

Untouched ==
  AlwaysHome =>
    /\ \A m \in wire : m.headers = given
    /\ at # "over" => tracked = Home
    /\ at = "waiting" \/ (at = "callback" /\ target = Home) => headers = given /\ left = {}

LEMMA InitUntouched == StripInit => Untouched
  BY DEF StripInit, Untouched

LEMMA NextUntouched == Untouched /\ [StripNext]_hopVars => Untouched'
<1> SUFFICES ASSUME Untouched, [StripNext]_hopVars PROVE Untouched'
  OBVIOUS
<1> USE DEF Untouched, AlwaysHome
<1>1. ASSUME NEW to \in Origins, Redirect(to) PROVE Untouched'
  BY <1>1 DEF Redirect, Crosses
<1>2. ASSUME NEW to \in Origins, RedirectUnparsable(to) PROVE Untouched'
  BY <1>2 DEF RedirectUnparsable, Abort
<1>3. ASSUME NEW h \in Sensitive, RemoveHeader(h) \/ RemovalFails(h) PROVE Untouched'
  BY <1>3 DEF RemoveHeader, RemovalFails, Abort
<1>4. CASE Return
  <2>1. CASE open
    <3> DEFINE hop == [to |-> target, headers |-> headers]
    <3>1. wire' = wire \cup {hop} /\ at' = "waiting" /\ tracked' = target
          /\ UNCHANGED <<headers, given, left, target>>
      BY <1>4, <2>1 DEF Return
    <3>2. /\ hop \in wire' /\ hop.to = target
          /\ \A m \in wire : m \in wire'
      BY <3>1
    <3>3. AlwaysHome' => AlwaysHome /\ target = Home
      <4> HIDE DEF hop, Untouched
      <4> QED BY <3>2
    <3> QED BY <1>4, <3>1, <3>3 DEF Return
  <2>2. CASE ~open
    BY <1>4, <2>2 DEF Return
  <2> QED BY <2>1, <2>2
<1>5. CASE OwnerCloses \/ Answered \/ UNCHANGED hopVars
  BY <1>5 DEF OwnerCloses, Answered, hopVars
<1> QED
  BY <1>1, <1>2, <1>3, <1>4, <1>5 DEF StripNext, StripDone

\* Redirects within the request's own origin lose none of its headers.
THEOREM NoHeaderLost == StripSpec => []HeadersKeptAtHome
<1>1. Untouched => HeadersKeptAtHome
  BY DEF Untouched, AlwaysHome, HeadersKeptAtHome
<1> QED BY <1>1, InitUntouched, NextUntouched, PTL DEF StripSpec
=============================================================================
