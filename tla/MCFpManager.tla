---------------------------- MODULE MCFpManager ----------------------------
(* The manager on a small instance. *)
EXTENDS FpManager
=============================================================================
