------------------------- MODULE MCClientController -------------------------
(* Instances of ClientController. *)
EXTENDS ClientController
=============================================================================
