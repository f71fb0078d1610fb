---------------------------- MODULE CallbackDrain ----------------------------
(* What a request handle promises the host of the DLL: callbacks of the      *)
(* request come and go until one of them is the last, and the drop of the    *)
(* handle returns only when every one of them has left.  RequestHandle       *)
(* implements it.                                                            *)
CONSTANT Workers

VARIABLES
  inside,   \* the threads that are inside a callback of the request
  gate      \* "open", "shut" by the last callback, "returned" from the drop

vars == <<inside, gate>>

Init == inside = {} /\ gate = "open"

Enter(w) ==
  /\ gate = "open"
  /\ w \notin inside
  /\ inside' = inside \cup {w}
  /\ UNCHANGED gate

EnterLast(w) ==
  /\ gate = "open"
  /\ w \notin inside
  /\ inside' = inside \cup {w}
  /\ gate' = "shut"

Leave(w) ==
  /\ w \in inside
  /\ inside' = inside \ {w}
  /\ UNCHANGED gate

Return ==
  /\ gate = "shut"
  /\ inside = {}
  /\ gate' = "returned"
  /\ UNCHANGED inside

Next ==
  \/ \E w \in Workers : Enter(w) \/ EnterLast(w) \/ Leave(w)
  \/ Return

\* The safety part alone: who drops the handle, and when, is not its promise.
Spec == Init /\ [][Next]_vars
=============================================================================
