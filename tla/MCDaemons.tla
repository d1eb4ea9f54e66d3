----------------------------- MODULE MCDaemons ------------------------------
(* Daemons for TLC. *)
EXTENDS Daemons
=============================================================================
