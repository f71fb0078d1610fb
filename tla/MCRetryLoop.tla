----------------------------- MODULE MCRetryLoop -----------------------------
(* RetryLoop for TLC: a request without a body, one with a body in memory and  *)
(* one with a stream, at the same client.                                      *)
EXTENDS RetryLoop

CONSTANTS get, put, upload

ThreeBodies == get :> "none" @@ put :> "bytes" @@ upload :> "stream"
=============================================================================
