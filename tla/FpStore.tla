------------------------------ MODULE FpStore ------------------------------
(***************************************************************************)
(* The stored record of a finality provider and the transitions the store  *)
(* applies to it (finality-provider/store/fpstore.go and storedfp.go).     *)
(* Each transition runs inside one kvdb batch (setFinalityProviderState),  *)
(* so it is atomic and survives a crash as a whole.  Keys, description,    *)
(* commission and proof of possession are left out.                        *)
(***************************************************************************)
EXTENDS Integers

Statuses == {"CREATED", "REGISTERED", "ACTIVE", "INACTIVE", "JAILED", "SLASHED"}

StoredFinalityProvider ==
  [status : Statuses, lastVotedHeight : Nat, lastProcessedHeight : Nat]

CreateFinalityProvider ==
  [status |-> "CREATED", lastVotedHeight |-> 0, lastProcessedHeight |-> 0]

\* Mutant: a provider that is not registered may start.
ShouldStart_Created(fp) == fp.status \notin {"SLASHED", "JAILED"}

ShouldStart(fp) == fp.status \notin {"CREATED", "SLASHED", "JAILED"}

Larger(a, b) == IF a < b THEN b ELSE a

SetFpStatus(fp, status) == [fp EXCEPT !.status = status]

\* Mutant: CREATED is not a case.
UpdateFpStatusFromVotingPower_NoCreated(hasPower, status) ==
  CASE status = "SLASHED"                -> "SLASHED"
    [] status # "SLASHED" /\ hasPower    -> "ACTIVE"
    [] status = "ACTIVE" /\ ~hasPower    -> "INACTIVE"
    [] OTHER                             -> status

\* What UpdateFpStatusFromVotingPower makes of the record it is given.  hasPower
\* stands for vp > 0.
UpdateFpStatusFromVotingPower(hasPower, status) ==
  CASE status = "SLASHED"                -> "SLASHED"
    [] status # "SLASHED" /\ hasPower    -> "ACTIVE"
    [] status = "CREATED" /\ ~hasPower   -> "REGISTERED"
    [] status = "ACTIVE" /\ ~hasPower    -> "INACTIVE"
    [] OTHER                             -> status

\* Mutant: only the voted height is raised.
SetFpLastVotedHeight_VotedOnly(fp, height) ==
  [fp EXCEPT !.lastVotedHeight = Larger(@, height)]

SetFpLastVotedHeight(fp, height) ==
  [fp EXCEPT !.lastVotedHeight = Larger(@, height),
             !.lastProcessedHeight = Larger(@, height)]

\* Mutant: the height is assigned without looking at the stored one.
SetFpLastProcessedHeight_Assign(fp, height) ==
  [fp EXCEPT !.lastProcessedHeight = height]

SetFpLastProcessedHeight(fp, height) ==
  [fp EXCEPT !.lastProcessedHeight = Larger(@, height)]
=============================================================================
