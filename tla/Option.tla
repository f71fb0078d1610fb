------------------------------- MODULE Option -------------------------------
(* Rust's Option::None, shared by the modules that Client extends.         *)
CONSTANT None
=============================================================================
