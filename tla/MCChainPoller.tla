--------------------------- MODULE MCChainPoller ---------------------------
(***************************************************************************)
(* ChainPoller and its queries for TLC; the constants are numbers and set  *)
(* in the cfgs.                                                            *)
(***************************************************************************)
EXTENDS ExactQueries
=============================================================================
