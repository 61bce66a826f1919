----------------------------- MODULE MCSession -----------------------------
(* A TLC instance of Session. *)
EXTENDS Session
=============================================================================
