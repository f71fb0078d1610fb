------------------------------- MODULE MCParts -------------------------------
(* Three components that share no state, for TLC: the handle of a request, the *)
(* redirects it follows, and the client's retry budget. A behaviour is of one  *)
(* of them, and leaves the others as they are at first: one run, no product.   *)
(* Nothing is owed to a handle that was not installed, so that the fairness of *)
(* RequestHandle asks for no step of it in a behaviour of the other two.       *)
EXTENDS RequestHandle, RedirectStrip, RetryBudget

VARIABLE part

PartsInit ==
  /\ part \in {"handle", "redirects", "budget"}
  /\ Init /\ BudgetInit
  /\ StripInit /\ (part = "redirects" \/ given = {})

PartsNext ==
  /\ UNCHANGED part
  /\ \/ part = "handle" /\ Next /\ UNCHANGED <<hopVars, budgetVars>>
     \/ part = "redirects" /\ StripNext /\ UNCHANGED <<vars, budgetVars>>
     \/ part = "budget" /\ BudgetNext /\ UNCHANGED <<vars, hopVars>>

PartsSpec == PartsInit /\ [][PartsNext]_<<part, vars, hopVars, budgetVars>> /\ Fairness
=============================================================================
