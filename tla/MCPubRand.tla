------------------------------ MODULE MCPubRand ------------------------------
(***************************************************************************)
(* PubRand and VerifiedVotes for TLC; the constants are numbers and model  *)
(* values and set in the cfgs.                                             *)
(***************************************************************************)
EXTENDS VerifiedVotes
=============================================================================
