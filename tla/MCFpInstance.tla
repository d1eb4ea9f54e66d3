---------------------------- MODULE MCFpInstance ----------------------------
(***************************************************************************)
(* Small instances of FpInstance for TLC.  The constants are given in the  *)
(* configurations.                                                         *)
(***************************************************************************)
EXTENDS FpInstance
=============================================================================
