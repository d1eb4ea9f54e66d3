------------------------------ MODULE PubRand ------------------------------
(***************************************************************************)
(* Committing public randomness (finality-provider/service/fp_instance.go, *)
(* randomnessCommitmentLoop down to CommitPubRand, and                     *)
(* finality-provider/store/pub_rand.go).                                   *)
(*                                                                         *)
(* The randomness of a height never changes (the EOTS manager derives it   *)
(* from the height), so the proof store is indexed by height.  A commit is *)
(* the root of a Merkle tree over NumPubRand consecutive heights and is    *)
(* identified by the first of them; an inclusion proof is identified by    *)
(* the tree it belongs to.                                                 *)
(***************************************************************************)
EXTENDS Integers, Sequences

CONSTANTS
  NumPubRand,            \* config NumPubRand
  MinRandHeightGap,      \* config MinRandHeightGap
  MaxSubmissionRetries,  \* config MaxSubmissionRetries
  MaxHeight,             \* bound: the chain stops growing at this height
  MaxFaults              \* bound: crashes, failed queries and failed submissions

ASSUME PubRandAssumption ==
  /\ NumPubRand \in Nat \ {0}
  /\ MinRandHeightGap \in Nat
  /\ MaxSubmissionRetries \in Nat
  /\ MaxHeight \in Nat \ {0}
  /\ MaxFaults \in Nat

VARIABLES
  tip,           \* chain: height of the best block
  finalized,     \* chain: height of the last finalized block
  commits,       \* chain: the first heights of the commits, in order
  pending,       \* chain: transactions that were given up on and may still land
  proofs,        \* the proof store: height -> tree
  pc,            \* where the loop is
  target,        \* the height of targetBlock
  startHeight,   \* CommitPubRand's startHeight
  failedCycles,  \* retryCommitPubRandUntilBlockFinalized's failedCycles
  fresh,         \* TRUE: nothing had been committed when the daemon was set up
  faults         \* used up so far of MaxFaults

chainVars == <<tip, finalized, commits, pending>>
loopVars == <<pc, target, startHeight, failedCycles>>
vars == <<chainVars, proofs, loopVars, fresh, faults>>

TypeOK ==
  /\ tip \in 1..MaxHeight
  /\ finalized \in 0..MaxHeight
  /\ commits \in Seq(Nat \ {0})
  /\ pending \subseteq Nat \ {0}
  /\ DOMAIN proofs \subseteq Nat
  /\ pc \in {"down", "idle", "read", "store", "send", "retry"}
  /\ target \in 0..MaxHeight
  /\ startHeight \in Nat
  /\ failedCycles \in 0..MaxSubmissionRetries
  /\ fresh \in BOOLEAN
  /\ faults \in 0..MaxFaults

\* The heights that the tree starting at c covers.
CommitRange(c) == c..(c + NumPubRand - 1)

-----------------------------------------------------------------------------
(* The consumer chain.                                                     *)

NewBlock ==
  /\ tip < MaxHeight
  /\ tip' = tip + 1
  /\ UNCHANGED <<finalized, commits, pending, proofs, loopVars, faults>>

FinalizeBlock ==
  /\ finalized < tip
  /\ finalized' = finalized + 1
  /\ UNCHANGED <<tip, commits, pending, proofs, loopVars, faults>>

\* GetLastCommittedHeight: 0 if there is no commit.
LastCommittedHeight ==
  IF commits = <<>> THEN 0 ELSE commits[Len(commits)] + NumPubRand - 1

\* A commit has to start after the last committed height.
Accepts(start) == start > LastCommittedHeight

\* A transaction that timed out is included after all, or rejected.
PendingLands ==
  \E start \in pending :
    /\ pending' = pending \ {start}
    /\ commits' = IF Accepts(start) THEN Append(commits, start) ELSE commits
    /\ UNCHANGED <<tip, finalized, proofs, loopVars, faults>>

\* Something went wrong outside of the program.
Fault == faults < MaxFaults /\ faults' = faults + 1

-----------------------------------------------------------------------------
(* The loop.                                                               *)

Halt == pc' = "down" /\ target' = 0 /\ startHeight' = 0 /\ failedCycles' = 0

\* CommitPubRand returned an error that is not unrecoverable.  Too many of
\* them are reported as a critical error, which is Fatal.
CommitFails ==
  IF failedCycles + 1 > MaxSubmissionRetries
  THEN Halt
  ELSE /\ failedCycles' = failedCycles + 1
       /\ pc' = "retry"
       /\ startHeight' = 0
       /\ UNCHANGED target

\* The instance starts its loops.
StartLoop ==
  /\ pc = "down"
  /\ pc' = "idle"
  /\ UNCHANGED <<chainVars, proofs, target, startHeight, failedCycles, faults>>

\* The process is killed, or an unrecoverable error of CommitPubRand or a
\* failed query of the tip is reported as a critical error, which is Fatal.
Crash ==
  /\ pc # "down"
  /\ Fault
  /\ Halt
  /\ UNCHANGED <<chainVars, proofs>>

\* The selects of randomnessCommitmentLoop and of its retries listen to quit.
Quit ==
  /\ pc \in {"idle", "retry"}
  /\ Halt
  /\ UNCHANGED <<chainVars, proofs, faults>>

\* The ticker of randomnessCommitmentLoop.
CommitTick ==
  /\ pc = "idle"
  /\ target' = tip
  /\ failedCycles' = 0
  /\ pc' = "read"
  /\ UNCHANGED <<chainVars, proofs, startHeight, faults>>

\* Mutant: one commit is held to be enough for ever.
Sufficient_OnceCommitted == LastCommittedHeight # 0

Sufficient ==
  LastCommittedHeight # 0 /\ LastCommittedHeight >= MinRandHeightGap + target

\* Mutant: a height is left out between two commits.
CommitStart_Gap == IF LastCommittedHeight = 0 THEN target + 1 ELSE LastCommittedHeight + 2

CommitStart == IF LastCommittedHeight = 0 THEN target + 1 ELSE LastCommittedHeight + 1

\* CommitPubRand determines the first height to commit, or finds nothing to do.
DetermineStart ==
  /\ pc = "read"
  /\ \/ /\ Sufficient
        /\ pc' = "idle"
        /\ UNCHANGED <<target, startHeight, failedCycles, faults>>
     \/ /\ ~Sufficient
        /\ startHeight' = CommitStart
        /\ pc' = "store"
        /\ UNCHANGED <<target, failedCycles, faults>>
     \/ Fault /\ CommitFails
  /\ UNCHANGED <<chainVars, proofs>>

\* Mutant: the proofs are stored one height too high.
AddPubRandProofList_Shifted(start) ==
  [h \in DOMAIN proofs \cup CommitRange(start + 1) |->
     IF h \in DOMAIN proofs THEN proofs[h] ELSE start]

\* AddPubRandProofList keeps the proofs it already has.
AddPubRandProofList(start) ==
  [h \in DOMAIN proofs \cup CommitRange(start) |->
     IF h \in DOMAIN proofs THEN proofs[h] ELSE start]

\* CommitPubRand generates the randomness and stores the proofs.
StoreProofs ==
  /\ pc = "store"
  /\ \/ /\ proofs' = AddPubRandProofList(startHeight)
        /\ pc' = "send"
        /\ UNCHANGED <<target, startHeight, failedCycles, faults>>
     \/ Fault /\ CommitFails /\ UNCHANGED proofs
  /\ UNCHANGED chainVars

\* CommitPubRand signs and sends the commit.
SendCommit ==
  /\ pc = "send"
  /\ \/ /\ Accepts(startHeight)
        /\ commits' = Append(commits, startHeight)
        /\ pc' = "idle"
        /\ startHeight' = 0
        /\ UNCHANGED <<pending, target, failedCycles, faults>>
     \/ /\ ~Accepts(startHeight)
        /\ CommitFails
        /\ UNCHANGED <<commits, pending, faults>>
     \/ /\ Fault
        /\ CommitFails
        /\ pending' = pending \/ pending' = pending \cup {startHeight}
        /\ UNCHANGED commits
  /\ UNCHANGED <<tip, finalized, proofs>>

\* The retry interval is over: nothing is retried once the target block is
\* finalized.
RetryInterval ==
  /\ pc = "retry"
  /\ \/ /\ pc' = IF target <= finalized THEN "idle" ELSE "read"
        /\ UNCHANGED <<target, startHeight, failedCycles, faults>>
     \/ Fault /\ Halt
  /\ UNCHANGED <<chainVars, proofs>>

CommitPubRand == DetermineStart \/ StoreProofs \/ SendCommit

-----------------------------------------------------------------------------

\* A provider that is not fresh has its first commit and its proofs.  For a
\* fresh one, a commit spans more blocks than the chain grows by while the
\* first commit is under way (70000 blocks by default).
Init ==
  /\ tip = 1
  /\ finalized = 0
  /\ fresh \in BOOLEAN
  /\ fresh => MaxHeight <= NumPubRand
  /\ commits = IF fresh THEN <<>> ELSE <<2>>
  /\ pending = {}
  /\ proofs = [h \in (IF fresh THEN {} ELSE CommitRange(2)) |-> 2]
  /\ pc = "down"
  /\ target = 0
  /\ startHeight = 0
  /\ failedCycles = 0
  /\ faults = 0

Next ==
  /\ UNCHANGED fresh
  /\ \/ NewBlock \/ FinalizeBlock \/ PendingLands
     \/ StartLoop \/ Crash \/ Quit
     \/ CommitTick \/ CommitPubRand \/ RetryInterval

Spec == Init /\ [][Next]_vars

(***************************************************************************)
(* Fairness.  The ticker ticks and the loop goes on; nothing is assumed of *)
(* the chain or of anyone starting the instance.                           *)
(***************************************************************************)
FairSpec ==
  Spec /\ WF_vars(UNCHANGED fresh /\ (CommitTick \/ CommitPubRand \/ RetryInterval))

-----------------------------------------------------------------------------
(* Properties.                                                             *)

\* There is no gap and no overlap between two commits (docs/fp-core.md,
\* Committing public randomness), although a commit may be retried while an
\* earlier transaction for it is still under way.
CommitsContiguous ==
  \A i \in 1..(Len(commits) - 1) : commits[i + 1] = commits[i] + NumPubRand

\* The proofs are in the store before the commit can be on the chain, so a
\* crash never leaves a committed height without a proof.
ProofsStoredFirst ==
  \A i \in DOMAIN commits : \A h \in CommitRange(commits[i]) : h \in DOMAIN proofs

\* The stored proof of every committed height belongs to the tree that was
\* committed for it, so that a vote for that height can be verified.
ProofsMatchCommits ==
  \A i \in DOMAIN commits : \A h \in CommitRange(commits[i]) :
    h \in DOMAIN proofs /\ proofs[h] = commits[i]

\* AddPubRandProofList never replaces a proof, and yet, once the first commit
\* is on the chain, no failed, repeated or late commit leaves a proof behind
\* that belongs to another tree than the committed one.
OperatingProofsMatch == ~fresh => ProofsMatchCommits

\* While the loop stays up, there is randomness for MinRandHeightGap blocks
\* beyond the tip again and again.
Replenished ==
  <>[](pc # "down") => []<>(LastCommittedHeight >= tip + MinRandHeightGap)
=============================================================================
