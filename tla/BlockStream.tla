---------------------------- MODULE BlockStream ----------------------------
(***************************************************************************)
(* What the chain poller promises the finality-provider instance: one      *)
(* stream of consecutive block heights.  The stream has a cursor, the      *)
(* height that is due next.  A block is handed over at the cursor and      *)
(* moves it by one; nothing else is ever handed over.  The cursor may also *)
(* jump forward without a delivery (staking activation, a granted skip),   *)
(* and it never moves back.                                                *)
(***************************************************************************)
EXTENDS Naturals

VARIABLES
  cursor,    \* the height the consumer is due to receive next
  received   \* the height it received last, 0 before the first one

streamVars == <<cursor, received>>

StreamInit == cursor \in Nat /\ received = 0

Deliver ==
  /\ received' = cursor
  /\ cursor' = cursor + 1

Jump ==
  /\ cursor' \in Nat
  /\ cursor' > cursor
  /\ UNCHANGED received

StreamNext == Deliver \/ Jump

StreamSpec == StreamInit /\ [][StreamNext]_streamVars
=============================================================================
