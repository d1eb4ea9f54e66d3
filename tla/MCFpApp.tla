------------------------------- MODULE MCFpApp -------------------------------
(***************************************************************************)
(* Small instances of FpApp for TLC.  The constants are given in the       *)
(* configurations.                                                         *)
(***************************************************************************)
EXTENDS FpApp
=============================================================================
