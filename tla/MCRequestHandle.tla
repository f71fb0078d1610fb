--------------------------- MODULE MCRequestHandle ---------------------------
(* Instances of RequestHandle for TLC: three pool threads are enough for a   *)
(* callback that aborts, a callback in progress and HANDLE_CLOSING to meet.  *)
EXTENDS RequestHandle, TLC

ThreadSymmetry == Permutations(Workers)
=============================================================================
