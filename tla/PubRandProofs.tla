--------------------------- MODULE PubRandProofs ---------------------------
(***************************************************************************)
(* Proofs about the commitment of public randomness, for every size of a   *)
(* commit, gap, number of retries and number of faults.                    *)
(***************************************************************************)
EXTENDS VerifiedVotes, SequenceTheorems, WellFoundedInduction, TLAPS

\* The first heights of the commits under way: transactions that were given
\* up on, and the one that CommitPubRand prepares.
InFlight == pending \cup (IF pc \in {"store", "send"} THEN {startHeight} ELSE {})

\* Those whose proofs are already in the store.
Sent == pending \cup (IF pc = "send" THEN {startHeight} ELSE {})

\* No commit under way can leave a gap: the first ones all start within the
\* chain, later ones at or below the next height to be committed.
NoGapUnderWay ==
  \A s \in InFlight :
    /\ s \in Nat \ {0}
    /\ commits = <<>> => s <= MaxHeight + 1
    /\ commits # <<>> => s <= LastCommittedHeight + 1

\* The proofs of a commit are stored before it is sent.
StoredBeforeSent == \A s \in Sent : CommitRange(s) \subseteq DOMAIN proofs

\* Once there is a commit, a commit under way either is a repetition of one
\* that has landed or starts right after the last one, and every proof
\* beyond the committed heights belongs to that next tree.
OnlyNextTree ==
  /\ commits # <<>>
  /\ \A s \in InFlight :
       s = LastCommittedHeight + 1 \/ \E i \in DOMAIN commits : s = commits[i]
  /\ \A h \in DOMAIN proofs :
       h > LastCommittedHeight =>
         /\ h \in CommitRange(LastCommittedHeight + 1)
         /\ proofs[h] = LastCommittedHeight + 1

\* The inductive invariant.
PubRandInv ==
  /\ TypeOK
  /\ NoGapUnderWay
  /\ StoredBeforeSent
  /\ CommitsContiguous
  /\ ProofsStoredFirst
  /\ fresh => MaxHeight <= NumPubRand
  /\ ~fresh => OnlyNextTree /\ ProofsMatchCommits

-----------------------------------------------------------------------------
(* What a commit that lands does to the commits on the chain.              *)

\* GetLastCommittedHeight is 0 exactly while nothing is committed.
LEMMA LastCommitted ==
  ASSUME TypeOK
  PROVE  /\ LastCommittedHeight \in Nat
         /\ LastCommittedHeight = 0 <=> commits = <<>>
<1>1. CASE commits = <<>>
  BY <1>1 DEF LastCommittedHeight
<1>2. CASE commits # <<>>
  <2>1. Len(commits) \in DOMAIN commits
    BY <1>2 DEF TypeOK
  <2>2. commits[Len(commits)] \in Nat \ {0}
    BY <2>1 DEF TypeOK
  <2> QED
    BY <1>2, <2>2, PubRandAssumption DEF LastCommittedHeight
<1> QED
  BY <1>1, <1>2

\* Appending a commit keeps the others and moves the last committed height to
\* the end of the new one.
LEMMA AppendCommit ==
  ASSUME TypeOK, NEW s \in Nat \ {0}, commits' = Append(commits, s)
  PROVE  /\ commits' # <<>>
         /\ Len(commits') = Len(commits) + 1
         /\ DOMAIN commits' = DOMAIN commits \cup {Len(commits) + 1}
         /\ \A i \in DOMAIN commits : commits'[i] = commits[i]
         /\ commits'[Len(commits) + 1] = s
         /\ LastCommittedHeight' = s + NumPubRand - 1
<1>1. commits \in Seq(Nat \ {0}) /\ Len(commits) \in Nat
  BY DEF TypeOK
<1>2. /\ Len(commits') = Len(commits) + 1
      /\ \A i \in 1..Len(commits) : commits'[i] = commits[i]
      /\ commits'[Len(commits) + 1] = s
      /\ commits' \in Seq(Nat \ {0})
  BY <1>1
<1>3. commits' # <<>>
  BY <1>1, <1>2
<1>4. DOMAIN commits' = DOMAIN commits \cup {Len(commits) + 1}
  BY <1>1, <1>2
<1> QED
  BY <1>1, <1>2, <1>3, <1>4 DEF LastCommittedHeight

\* A commit under way that the chain accepts starts right after the last one.
LEMMA AcceptedIsNext ==
  ASSUME TypeOK, NoGapUnderWay, commits # <<>>, NEW s \in InFlight, Accepts(s)
  PROVE  s = LastCommittedHeight + 1
BY LastCommitted DEF NoGapUnderWay, Accepts

\* A commit that has been sent lands.
LEMMA CommitLands ==
  ASSUME PubRandInv, TypeOK', NEW s \in Sent, Accepts(s),
         commits' = Append(commits, s), proofs' = proofs, fresh' = fresh,
         InFlight' \subseteq InFlight, Sent' \subseteq Sent
  PROVE  PubRandInv'
<1> USE DEF PubRandInv
<1>0. commits \in Seq(Nat \ {0})
  BY DEF TypeOK
<1>1. s \in InFlight
  BY DEF InFlight, Sent
<1>2. s \in Nat \ {0}
  BY <1>1 DEF NoGapUnderWay
<1>3. /\ commits' # <<>>
      /\ Len(commits') = Len(commits) + 1
      /\ DOMAIN commits' = DOMAIN commits \cup {Len(commits) + 1}
      /\ \A i \in DOMAIN commits : commits'[i] = commits[i]
      /\ commits'[Len(commits) + 1] = s
      /\ LastCommittedHeight' = s + NumPubRand - 1
  BY <1>2, AppendCommit
<1>4. commits # <<>> => s = LastCommittedHeight + 1
  BY <1>1, AcceptedIsNext
<1>5. /\ LastCommittedHeight \in Nat
      /\ LastCommittedHeight = 0 <=> commits = <<>>
      /\ NumPubRand \in Nat \ {0}
      /\ MaxHeight \in Nat
      /\ commits = <<>> => MaxHeight <= NumPubRand
  BY LastCommitted, PubRandAssumption DEF OnlyNextTree
<1>6. NoGapUnderWay'
  <2> SUFFICES ASSUME NEW t \in InFlight'
               PROVE  t \in Nat \ {0} /\ t <= LastCommittedHeight' + 1
    BY <1>3 DEF NoGapUnderWay
  <2>1. t \in InFlight
    OBVIOUS
  <2>2. /\ t \in Nat \ {0}
        /\ commits = <<>> => t <= MaxHeight + 1
        /\ commits # <<>> => t <= LastCommittedHeight + 1
    BY <2>1 DEF NoGapUnderWay
  <2> QED
    BY <1>2, <1>3, <1>4, <1>5, <2>2
<1>7. StoredBeforeSent'
  BY DEF StoredBeforeSent, CommitRange
<1>8. CommitsContiguous'
  <2> SUFFICES ASSUME NEW i \in 1..Len(commits)
               PROVE  commits'[i + 1] = commits'[i] + NumPubRand
    <3>1. Len(commits) \in Nat
      BY <1>0
    <3>2. 1..(Len(commits') - 1) = 1..Len(commits)
      BY <1>3, <3>1
    <3> QED
      BY <3>2 DEF CommitsContiguous
  <2>1. Len(commits) \in Nat /\ DOMAIN commits = 1..Len(commits)
    BY <1>0
  <2>2. CASE i = Len(commits)
    <3>1. commits # <<>> /\ commits[i] \in Nat
      BY <1>0, <2>1, <2>2
    <3>2. LastCommittedHeight = commits[i] + NumPubRand - 1
      BY <2>2, <3>1 DEF LastCommittedHeight
    <3> QED
      BY <1>3, <1>4, <1>5, <2>1, <2>2, <3>1, <3>2
  <2>3. CASE i < Len(commits)
    <3>1. i \in 1..(Len(commits) - 1) /\ i \in DOMAIN commits /\ i + 1 \in DOMAIN commits
      BY <2>1, <2>3
    <3> QED
      BY <1>3, <3>1 DEF CommitsContiguous
  <2>4. i = Len(commits) \/ i < Len(commits)
    <3>1. \A n \in Nat : \A j \in 1..n : j = n \/ j < n
      OBVIOUS
    <3> QED
      BY <2>1, <3>1
  <2> QED
    BY <2>2, <2>3, <2>4
<1>9. ProofsStoredFirst'
  <2>1. CommitRange(s) \subseteq DOMAIN proofs
    BY DEF StoredBeforeSent
  <2> QED
    BY <1>3, <2>1 DEF ProofsStoredFirst, CommitRange
<1>10. ASSUME ~fresh PROVE OnlyNextTree' /\ ProofsMatchCommits'
  <2>1. OnlyNextTree /\ ProofsMatchCommits /\ s = LastCommittedHeight + 1
    BY <1>4, <1>10 DEF OnlyNextTree
  <2>2. \A h \in CommitRange(s) : h \in DOMAIN proofs /\ proofs[h] = s
    BY <1>2, <1>5, <2>1 DEF StoredBeforeSent, OnlyNextTree, CommitRange
  <2>3. ProofsMatchCommits'
    BY <1>3, <2>1, <2>2 DEF ProofsMatchCommits, CommitRange
  <2>4. \A t \in InFlight' : \E i \in DOMAIN commits' : t = commits'[i]
    BY <1>3, <2>1 DEF OnlyNextTree
  <2>5. \A h \in DOMAIN proofs : ~(h > LastCommittedHeight')
    <3> SUFFICES ASSUME NEW h \in DOMAIN proofs, h > LastCommittedHeight' PROVE FALSE
      OBVIOUS
    <3>1. h \in Nat
      BY DEF TypeOK
    <3>2. h > LastCommittedHeight
      BY <1>2, <1>3, <1>5, <2>1, <3>1
    <3>3. h \in s..(s + NumPubRand - 1)
      BY <2>1, <3>2 DEF OnlyNextTree, CommitRange
    <3> QED
      BY <1>2, <1>3, <1>5, <3>3
  <2> QED
    BY <1>3, <2>3, <2>4, <2>5 DEF OnlyNextTree
<1> QED
  BY <1>6, <1>7, <1>8, <1>9, <1>10

-----------------------------------------------------------------------------
(* The other kinds of steps.                                               *)

\* A step that neither commits nor stores anything and adds nothing to what
\* is under way.
LEMMA QuietStep ==
  ASSUME PubRandInv, TypeOK', commits' = commits, proofs' = proofs, fresh' = fresh,
         InFlight' \subseteq InFlight, Sent' \subseteq Sent
  PROVE  PubRandInv'
<1> USE DEF PubRandInv
<1>1. LastCommittedHeight' = LastCommittedHeight
  BY DEF LastCommittedHeight
<1>2. NoGapUnderWay'
  BY <1>1 DEF NoGapUnderWay
<1>3. StoredBeforeSent'
  BY DEF StoredBeforeSent, CommitRange
<1>4. CommitsContiguous' /\ ProofsStoredFirst'
  BY DEF CommitsContiguous, ProofsStoredFirst, CommitRange
<1>5. ASSUME ~fresh PROVE OnlyNextTree' /\ ProofsMatchCommits'
  BY <1>1, <1>5 DEF OnlyNextTree, ProofsMatchCommits, CommitRange
<1> QED
  BY <1>2, <1>3, <1>4, <1>5

\* CommitPubRand decides to commit: it starts right after the last committed
\* height or, for the first commit, within the chain.
LEMMA NextCommitPrepared ==
  ASSUME PubRandInv, TypeOK', commits' = commits, pending' = pending, proofs' = proofs,
         fresh' = fresh, startHeight' = CommitStart, pc = "read", pc' = "store"
  PROVE  PubRandInv'
<1> USE DEF PubRandInv
<1>1. LastCommittedHeight' = LastCommittedHeight
  BY DEF LastCommittedHeight
<1>2. InFlight' = InFlight \cup {CommitStart} /\ Sent' = Sent
  BY DEF InFlight, Sent
<1>3. /\ CommitStart \in Nat \ {0}
      /\ commits = <<>> => CommitStart <= MaxHeight + 1
      /\ commits # <<>> => CommitStart = LastCommittedHeight + 1
  BY LastCommitted, PubRandAssumption DEF CommitStart, TypeOK
<1>4. NoGapUnderWay'
  BY <1>1, <1>2, <1>3, LastCommitted DEF NoGapUnderWay
<1>5. StoredBeforeSent'
  BY <1>2 DEF StoredBeforeSent, CommitRange
<1>6. CommitsContiguous' /\ ProofsStoredFirst'
  BY DEF CommitsContiguous, ProofsStoredFirst, CommitRange
<1>7. ASSUME ~fresh PROVE OnlyNextTree' /\ ProofsMatchCommits'
  BY <1>1, <1>2, <1>3, <1>7 DEF OnlyNextTree, ProofsMatchCommits, CommitRange
<1> QED
  BY <1>4, <1>5, <1>6, <1>7

\* AddPubRandProofList keeps what it has, and adds the proofs of one tree.
LEMMA ProofsAdded ==
  ASSUME NEW start
  PROVE  LET new == AddPubRandProofList(start)
         IN  /\ DOMAIN new = DOMAIN proofs \cup CommitRange(start)
             /\ \A h \in DOMAIN proofs : new[h] = proofs[h]
             /\ \A h \in CommitRange(start) \ DOMAIN proofs : new[h] = start
BY DEF AddPubRandProofList

\* The proofs of the commit that is being prepared are stored.  If it repeats
\* one that has landed meanwhile, all of them are there already.
LEMMA ProofsStored ==
  ASSUME PubRandInv, TypeOK', commits' = commits, pending' = pending, fresh' = fresh,
         startHeight' = startHeight, pc = "store", pc' = "send",
         proofs' = AddPubRandProofList(startHeight)
  PROVE  PubRandInv'
<1> USE DEF PubRandInv
<1>1. LastCommittedHeight' = LastCommittedHeight
  BY DEF LastCommittedHeight
<1>2. /\ InFlight' = InFlight
      /\ startHeight \in InFlight
      /\ Sent' = Sent \cup {startHeight}
  BY DEF InFlight, Sent
<1>3. /\ DOMAIN proofs' = DOMAIN proofs \cup CommitRange(startHeight)
      /\ \A h \in DOMAIN proofs : proofs'[h] = proofs[h]
      /\ \A h \in CommitRange(startHeight) \ DOMAIN proofs : proofs'[h] = startHeight
  BY ProofsAdded
<1>4. NoGapUnderWay'
  BY <1>1, <1>2 DEF NoGapUnderWay
<1>5. StoredBeforeSent'
  BY <1>2, <1>3 DEF StoredBeforeSent, CommitRange
<1>6. CommitsContiguous' /\ ProofsStoredFirst'
  BY <1>3 DEF CommitsContiguous, ProofsStoredFirst, CommitRange
<1>7. ASSUME ~fresh PROVE OnlyNextTree' /\ ProofsMatchCommits'
  <2>1. OnlyNextTree /\ ProofsMatchCommits
    BY <1>7
  <2>2. ProofsMatchCommits'
    BY <1>3, <2>1 DEF ProofsMatchCommits, CommitRange
  <2>3. CASE startHeight = LastCommittedHeight + 1
    BY <1>1, <1>2, <1>3, <2>1, <2>2, <2>3 DEF OnlyNextTree, CommitRange
  <2>4. CASE \E i \in DOMAIN commits : startHeight = commits[i]
    <3>1. CommitRange(startHeight) \subseteq DOMAIN proofs
      BY <2>4 DEF ProofsStoredFirst
    <3> QED
      BY <1>1, <1>2, <1>3, <2>1, <2>2, <3>1 DEF OnlyNextTree, CommitRange
  <2> QED
    BY <1>2, <2>1, <2>3, <2>4 DEF OnlyNextTree
<1> QED
  BY <1>4, <1>5, <1>6, <1>7

-----------------------------------------------------------------------------
(* The invariant.                                                          *)

\* Types are preserved by every step.
LEMMA TypesPreserved == PubRandInv /\ [Next]_vars => TypeOK'
<1> SUFFICES ASSUME PubRandInv, [Next]_vars PROVE TypeOK'
  OBVIOUS
<1> USE PubRandAssumption DEF PubRandInv, TypeOK, chainVars, loopVars
<1>1. CASE NewBlock /\ UNCHANGED fresh
  BY <1>1 DEF NewBlock
<1>2. CASE FinalizeBlock /\ UNCHANGED fresh
  BY <1>2 DEF FinalizeBlock
<1>3. CASE PendingLands /\ UNCHANGED fresh
  BY <1>3 DEF PendingLands
<1>4. CASE StartLoop /\ UNCHANGED fresh
  BY <1>4 DEF StartLoop
<1>5. CASE Crash /\ UNCHANGED fresh
  BY <1>5 DEF Crash, Fault, Halt
<1>6. CASE Quit /\ UNCHANGED fresh
  BY <1>6 DEF Quit, Halt
<1>7. CASE CommitTick /\ UNCHANGED fresh
  BY <1>7 DEF CommitTick
<1>8. CASE DetermineStart /\ UNCHANGED fresh
  <2>1. CommitStart \in Nat
    BY LastCommitted DEF CommitStart
  <2> QED
    BY <1>8, <2>1 DEF DetermineStart, Fault, CommitFails, Halt
<1>9. CASE StoreProofs /\ UNCHANGED fresh
  <2>1. CASE proofs' = AddPubRandProofList(startHeight)
    <3>1. DOMAIN proofs' = DOMAIN proofs \cup CommitRange(startHeight)
      BY <2>1, ProofsAdded
    <3>2. CommitRange(startHeight) \subseteq Nat
      BY DEF CommitRange
    <3>3. DOMAIN proofs' \subseteq Nat
      BY <3>1, <3>2
    <3> QED
      BY <1>9, <3>3 DEF StoreProofs, Fault, CommitFails, Halt
  <2>2. CASE UNCHANGED proofs
    BY <1>9, <2>2 DEF StoreProofs, Fault, CommitFails, Halt
  <2> QED
    BY <1>9, <2>1, <2>2 DEF StoreProofs
<1>10. CASE SendCommit /\ UNCHANGED fresh
  <2>1. startHeight \in Nat \ {0}
    BY <1>10 DEF SendCommit, NoGapUnderWay, InFlight
  <2>2. commits' \in Seq(Nat \ {0})
    <3>1. commits' = commits \/ commits' = Append(commits, startHeight)
      BY <1>10 DEF SendCommit
    <3>2. commits \in Seq(Nat \ {0})
      OBVIOUS
    <3>3. Append(commits, startHeight) \in Seq(Nat \ {0})
      BY <2>1, <3>2, AppendProperties
    <3> QED
      BY <3>1, <3>2, <3>3
  <2>3. pending' \subseteq Nat \ {0}
    BY <1>10, <2>1 DEF SendCommit
  <2>4. /\ pc' \in {"down", "idle", "retry"}
        /\ target' \in 0..MaxHeight /\ startHeight' = 0
        /\ failedCycles' \in 0..MaxSubmissionRetries
    BY <1>10 DEF SendCommit, CommitFails, Halt
  <2>5. faults' \in 0..MaxFaults
    BY <1>10 DEF SendCommit, Fault
  <2>6. UNCHANGED <<tip, finalized, proofs, fresh>>
    BY <1>10 DEF SendCommit
  <2> QED
    BY <2>2, <2>3, <2>4, <2>5, <2>6
<1>11. CASE RetryInterval /\ UNCHANGED fresh
  BY <1>11 DEF RetryInterval, Fault, Halt
<1>12. CASE UNCHANGED vars
  BY <1>12 DEF vars
<1> QED
  BY <1>1, <1>2, <1>3, <1>4, <1>5, <1>6, <1>7, <1>8, <1>9, <1>10, <1>11, <1>12
     DEF Next, CommitPubRand

\* The invariant holds at first, with or without an earlier commit.
LEMMA PubRandInvInit == Init => PubRandInv
<1> SUFFICES ASSUME Init PROVE PubRandInv
  OBVIOUS
<1> USE PubRandAssumption DEF Init
<1>1. TypeOK
  <2>1. fresh \in BOOLEAN
    BY Zenon
  <2>2. commits \in Seq(Nat \ {0})
    <3>1. <<>> \in Seq(Nat \ {0}) /\ <<2>> \in Seq(Nat \ {0})
      OBVIOUS
    <3>2. commits = <<>> \/ commits = <<2>>
      OBVIOUS
    <3> QED
      BY <3>1, <3>2
  <2>3. DOMAIN proofs \subseteq Nat
    BY DEF CommitRange
  <2> QED
    BY <2>1, <2>2, <2>3 DEF TypeOK
<1>2. InFlight = {} /\ Sent = {}
  BY DEF InFlight, Sent
<1>3. NoGapUnderWay /\ StoredBeforeSent
  BY <1>2 DEF NoGapUnderWay, StoredBeforeSent
<1>4. CommitsContiguous
  BY DEF CommitsContiguous
<1>5. ProofsStoredFirst
  BY DEF ProofsStoredFirst, CommitRange
<1>6. ASSUME ~fresh PROVE OnlyNextTree /\ ProofsMatchCommits
  <2>1. commits = <<2>> /\ LastCommittedHeight = 1 + NumPubRand
    BY <1>6 DEF LastCommittedHeight
  <2>2. DOMAIN proofs = CommitRange(2) /\ \A h \in CommitRange(2) : proofs[h] = 2
    BY <1>6
  <2> QED
    BY <1>2, <2>1, <2>2 DEF OnlyNextTree, ProofsMatchCommits, CommitRange
<1> QED
  BY <1>1, <1>3, <1>4, <1>5, <1>6 DEF PubRandInv

\* Every step preserves the invariant.
LEMMA PubRandInvNext == PubRandInv /\ [Next]_vars => PubRandInv'
<1> SUFFICES ASSUME PubRandInv, [Next]_vars PROVE PubRandInv'
  OBVIOUS
<1>0. TypeOK'
  BY TypesPreserved
<1> USE <1>0 DEF chainVars, loopVars
<1>1. CASE /\ NewBlock \/ FinalizeBlock \/ StartLoop \/ Crash \/ Quit \/ CommitTick
           /\ UNCHANGED fresh
  <2>1. /\ UNCHANGED <<commits, proofs, fresh>>
        /\ InFlight' \subseteq InFlight /\ Sent' \subseteq Sent
    BY <1>1 DEF NewBlock, FinalizeBlock, StartLoop, Crash, Quit, CommitTick, Halt,
                InFlight, Sent
  <2> QED
    BY <2>1, QuietStep
<1>2. CASE PendingLands /\ UNCHANGED fresh
  <2>1. PICK s \in pending :
          /\ pending' = pending \ {s}
          /\ commits' = IF Accepts(s) THEN Append(commits, s) ELSE commits
          /\ UNCHANGED <<proofs, loopVars, fresh>>
    BY <1>2 DEF PendingLands
  <2>2. s \in Sent /\ InFlight' \subseteq InFlight /\ Sent' \subseteq Sent
    BY <2>1 DEF InFlight, Sent
  <2>3. CASE Accepts(s)
    BY <2>1, <2>2, <2>3, CommitLands
  <2>4. CASE ~Accepts(s)
    BY <2>1, <2>2, <2>4, QuietStep
  <2> QED
    BY <2>3, <2>4
<1>3. CASE DetermineStart /\ UNCHANGED fresh
  <2>1. CASE startHeight' = CommitStart /\ pc' = "store"
    BY <1>3, <2>1, NextCommitPrepared DEF DetermineStart
  <2>2. CASE pc' \in {"idle", "retry", "down"}
    <3>1. InFlight' \subseteq InFlight /\ Sent' \subseteq Sent
      BY <1>3, <2>2 DEF DetermineStart, InFlight, Sent
    <3> QED
      BY <1>3, <3>1, QuietStep DEF DetermineStart
  <2> QED
    BY <1>3, <2>1, <2>2 DEF DetermineStart, CommitFails, Halt
<1>4. CASE StoreProofs /\ UNCHANGED fresh
  <2>1. CASE proofs' = AddPubRandProofList(startHeight) /\ pc' = "send" /\ UNCHANGED startHeight
    BY <1>4, <2>1, ProofsStored DEF StoreProofs
  <2>2. CASE pc' \in {"retry", "down"} /\ UNCHANGED proofs
    <3>1. InFlight' \subseteq InFlight /\ Sent' \subseteq Sent
      BY <1>4, <2>2 DEF StoreProofs, InFlight, Sent
    <3> QED
      BY <1>4, <2>2, <3>1, QuietStep DEF StoreProofs
  <2> QED
    BY <1>4, <2>1, <2>2 DEF StoreProofs, CommitFails, Halt
<1>5. CASE SendCommit /\ UNCHANGED fresh
  <2>1. pc = "send" /\ startHeight \in Sent /\ UNCHANGED <<proofs, fresh>>
    BY <1>5 DEF SendCommit, Sent
  <2>2. /\ pc' \in {"idle", "retry", "down"}
        /\ pending' \subseteq pending \cup {startHeight}
    BY <1>5 DEF SendCommit, CommitFails, Halt
  <2>3. InFlight' \subseteq InFlight /\ Sent' \subseteq Sent
    BY <2>1, <2>2 DEF InFlight, Sent
  <2>4. CASE Accepts(startHeight) /\ commits' = Append(commits, startHeight)
    BY <2>1, <2>3, <2>4, CommitLands
  <2>5. CASE UNCHANGED commits
    BY <2>1, <2>3, <2>5, QuietStep
  <2> QED
    BY <1>5, <2>4, <2>5 DEF SendCommit
<1>6. CASE RetryInterval /\ UNCHANGED fresh
  <2>1. /\ UNCHANGED <<commits, proofs, fresh>>
        /\ InFlight' \subseteq InFlight /\ Sent' \subseteq Sent
    BY <1>6 DEF RetryInterval, Halt, InFlight, Sent
  <2> QED
    BY <2>1, QuietStep
<1>7. CASE UNCHANGED vars
  <2>1. UNCHANGED <<commits, proofs, fresh>> /\ InFlight' = InFlight /\ Sent' = Sent
    BY <1>7 DEF vars, InFlight, Sent
  <2> QED
    BY <2>1, QuietStep
<1> QED
  BY <1>1, <1>2, <1>3, <1>4, <1>5, <1>6, <1>7 DEF Next, CommitPubRand

LEMMA PubRandInvariant == Spec => []PubRandInv
BY PubRandInvInit, PubRandInvNext, PTL DEF Spec

-----------------------------------------------------------------------------
(* The results.                                                            *)

\* The state of the randomness loop stays in its types; in particular no
\* more failures are counted than MaxSubmissionRetries.
THEOREM PubRandTypeCorrect == Spec => []TypeOK
<1>1. PubRandInv => TypeOK
  BY DEF PubRandInv
<1> QED
  BY <1>1, PubRandInvariant, PTL

\* Retried, lost and late commits of randomness never leave a gap or overlap.
THEOREM RandomnessContiguous == Spec => []CommitsContiguous
<1>1. PubRandInv => CommitsContiguous
  BY DEF PubRandInv
<1> QED
  BY <1>1, PubRandInvariant, PTL

\* Every committed height has a proof in the store, at any time of a crash.
THEOREM ProofsAlwaysStored == Spec => []ProofsStoredFirst
<1>1. PubRandInv => ProofsStoredFirst
  BY DEF PubRandInv
<1> QED
  BY <1>1, PubRandInvariant, PTL

\* Once a first commit is on the chain, the stored proof of every committed
\* height belongs to the tree that was committed.
THEOREM OperatingProofsCorrect == Spec => []OperatingProofsMatch
<1>1. PubRandInv => OperatingProofsMatch
  BY DEF PubRandInv, OperatingProofsMatch
<1> QED
  BY <1>1, PubRandInvariant, PTL

-----------------------------------------------------------------------------
(* Votes over the committed heights.                                       *)

\* Contiguous commits start at or after the first one.
LEMMA FirstCommitLeast ==
  ASSUME TypeOK, CommitsContiguous, NEW i \in DOMAIN commits
  PROVE  commits[1] <= commits[i]
<1> SUFFICES ASSUME ~(commits[1] <= commits[i]) PROVE FALSE
  OBVIOUS
<1> DEFINE T == {k \in DOMAIN commits : ~(commits[1] <= commits[k])}
<1>1. DOMAIN commits = 1..Len(commits) /\ Len(commits) \in Nat
  BY DEF TypeOK
<1>2. \A k \in DOMAIN commits : commits[k] \in Nat
  BY DEF TypeOK
<1>3. T \subseteq Nat /\ T # {}
  BY <1>1
<1>4. PICK k \in T : \A j \in T : ~(<<j, k>> \in OpToRel(<, Nat))
  BY <1>3, NatLessThanWellFounded, WFMin
<1>5. \A j \in T : ~(j < k)
  BY <1>3, <1>4 DEF OpToRel
<1>6. k \in 1..Len(commits) /\ k # 1 /\ ~(commits[1] <= commits[k])
  BY <1>1, <1>2
<1>7. k - 1 \in 1..(Len(commits) - 1) /\ k - 1 \in DOMAIN commits /\ (k - 1) + 1 = k
  BY <1>1, <1>6
<1>8. commits[k] = commits[k - 1] + NumPubRand
  BY <1>7 DEF CommitsContiguous
<1>9. commits[1] <= commits[k - 1]
  BY <1>5, <1>6, <1>7
<1>10. 1 \in DOMAIN commits
  BY <1>1
<1>11. commits[1] \in Nat /\ commits[k - 1] \in Nat /\ commits[k] \in Nat
  BY <1>2, <1>1, <1>6, <1>7, <1>10
<1>12. NumPubRand \in Nat
  BY PubRandAssumption
<1> QED BY <1>6, <1>8, <1>9, <1>11, <1>12

\* The committed heights have no hole: a batch over consecutive blocks that
\* begins and ends with a committed height is committed throughout.
LEMMA CommittedHasNoHole ==
  ASSUME TypeOK, CommitsContiguous, NEW h \in Committed, NEW l \in Committed,
         NEW x \in h..l
  PROVE  \E i \in DOMAIN commits : x \in CommitRange(commits[i])
<1> SUFFICES ASSUME \A i \in DOMAIN commits : x \notin CommitRange(commits[i]) PROVE FALSE
  OBVIOUS
<1>1. DOMAIN commits = 1..Len(commits) /\ Len(commits) \in Nat
  BY DEF TypeOK
<1>2. \A k \in DOMAIN commits : commits[k] \in Nat
  BY DEF TypeOK
<1>3. PICK a \in DOMAIN commits : h \in CommitRange(commits[a])
  BY DEF Committed
<1>4. PICK b \in DOMAIN commits : l \in CommitRange(commits[b])
  BY DEF Committed
<1>5. h \in Nat /\ l \in Nat /\ x \in Nat /\ h <= x /\ x <= l /\ commits[a] <= h
  BY <1>2, <1>3, <1>4, PubRandAssumption DEF CommitRange
<1> DEFINE T == {k \in DOMAIN commits : x < commits[k]}
<1>6. b \in T
  BY <1>2, <1>4, <1>5, PubRandAssumption DEF CommitRange
<1>7. T \subseteq Nat /\ T # {}
  BY <1>1, <1>6
<1>8. PICK k \in T : \A j \in T : ~(<<j, k>> \in OpToRel(<, Nat))
  BY <1>7, NatLessThanWellFounded, WFMin
<1>9. \A j \in T : ~(j < k)
  BY <1>7, <1>8 DEF OpToRel
<1>10. k \in 1..Len(commits) /\ x < commits[k]
  BY <1>1
<1>11. k # 1
  BY <1>2, <1>3, <1>5, <1>10, <1>1, FirstCommitLeast
<1>12. k - 1 \in 1..(Len(commits) - 1) /\ k - 1 \in DOMAIN commits /\ (k - 1) + 1 = k
  BY <1>1, <1>10, <1>11
<1>13. commits[k] = commits[k - 1] + NumPubRand
  BY <1>12 DEF CommitsContiguous
<1>14. ~(x < commits[k - 1])
  BY <1>9, <1>10, <1>12
<1>15. x \in CommitRange(commits[k - 1])
  <2>1. commits[k - 1] \in Nat /\ NumPubRand \in Nat /\ x \in Nat
    BY <1>2, <1>5, <1>12, PubRandAssumption
  <2> QED BY <1>10, <1>13, <1>14, <2>1 DEF CommitRange
<1> QED BY <1>12, <1>15

\* The list that the adapter returns for num heights from start on.
LEMMA RandomnessOfHeight ==
  ASSUME NEW start \in Nat, NEW num \in Nat, NEW i \in 1..num
  PROVE  /\ DOMAIN getPubRandList(fp, start, num) = 1..num
         /\ getPubRandList(fp, start, num)[i] = GenerateRandomness(FpPk, ChainID, start + i - 1)
BY DEF getPubRandList, CreateRandomnessPairList, fp

\* A vote with the randomness of its height, the proof of the committed tree
\* and the EOTS manager's signature is verified.
LEMMA VoteForCommitted ==
  ASSUME TypeOK, ProofsMatchCommits, NEW i \in DOMAIN commits,
         NEW x \in CommitRange(commits[i]), NEW vote,
         vote = [block |-> Block(x), pubRand |-> GenerateRandomness(FpPk, ChainID, x),
                 proof |-> proofs[x], sig |-> signFinalitySig(fp, Block(x))]
  PROVE  Verifies(vote)
<1>1. /\ commits[i] \in Nat /\ x \in Nat /\ x - commits[i] + 1 \in 1..NumPubRand
      /\ commits[i] + (x - commits[i] + 1) - 1 = x
  BY PubRandAssumption DEF TypeOK, CommitRange
<1>2. proofs[x] = commits[i]
  BY DEF ProofsMatchCommits
<1>3. getPubRandList(fp, commits[i], NumPubRand)[x - commits[i] + 1]
        = GenerateRandomness(FpPk, ChainID, x)
  <2> DEFINE p == x - commits[i] + 1
  <2>1. p \in 1..NumPubRand /\ commits[i] + p - 1 = x
    BY <1>1
  <2> HIDE DEF p
  <2>2. PICK c \in Nat : c = commits[i]
    BY <1>1
  <2>3. NumPubRand \in Nat
    BY PubRandAssumption
  <2>4. getPubRandList(fp, c, NumPubRand)[p] = GenerateRandomness(FpPk, ChainID, c + p - 1)
    BY <2>1, <2>3, RandomnessOfHeight
  <2> QED BY <2>1, <2>2, <2>4 DEF p
<1>4. /\ vote.block = Block(x) /\ vote.block.height = x
      /\ vote.pubRand = GenerateRandomness(FpPk, ChainID, x)
      /\ vote.proof = commits[i]
      /\ vote.sig = signFinalitySig(fp, Block(x))
  BY <1>2 DEF Block
<1>5. /\ signFinalitySig(fp, Block(x)).key = fp.btcPk
      /\ signFinalitySig(fp, Block(x)).rand = GenerateRandomness(FpPk, ChainID, x)
      /\ signFinalitySig(fp, Block(x)).msg = getMsgToSignForVote(Block(x))
  BY DEF signFinalitySig, SignEOTS, fp, Block
<1> QED BY <1>3, <1>4, <1>5 DEF Verifies

LEMMA SingleVoteVerifies ==
  ASSUME TypeOK, ProofsMatchCommits, NEW h \in Committed
  PROVE  Verifies(Vote(fp, proofs, Block(h)))
<1>1. PICK i \in DOMAIN commits : h \in CommitRange(commits[i])
  BY DEF Committed
<1>2. h \in Nat /\ h + 1 - 1 = h /\ Block(h).height = h
  BY <1>1, PubRandAssumption DEF TypeOK, CommitRange, Block
<1>3. getPubRandList(fp, Block(h).height, 1)[1] = GenerateRandomness(FpPk, ChainID, h)
  BY <1>2, RandomnessOfHeight
<1>4. h \in DOMAIN proofs
  BY <1>1 DEF ProofsMatchCommits
<1>5. GetPubRandProof(proofs, GenerateRandomness(FpPk, ChainID, h)) = proofs[h]
  BY <1>4 DEF GetPubRandProof, GenerateRandomness
<1>6. Vote(fp, proofs, Block(h))
        = [block |-> Block(h), pubRand |-> GenerateRandomness(FpPk, ChainID, h),
           proof |-> proofs[h], sig |-> signFinalitySig(fp, Block(h))]
  BY <1>3, <1>5 DEF Vote
<1> QED BY <1>1, <1>6, VoteForCommitted

\* The proofs of consecutive committed heights are all found.
LEMMA ProofListFound ==
  ASSUME NEW h \in Nat, NEW n \in Nat, NEW prList,
         prList = getPubRandList(fp, h, n),
         \A x \in h..(h + n - 1) : x \in DOMAIN proofs
  PROVE  GetPubRandProofList(proofs, prList) = [i \in 1..n |-> proofs[h + i - 1]]
<1>1. DOMAIN prList = 1..n
  BY DEF getPubRandList, CreateRandomnessPairList
<1>2. \A i \in 1..n : prList[i].height = h + i - 1
  <2> TAKE i \in 1..n
  <2>1. prList[i] = GenerateRandomness(FpPk, ChainID, h + i - 1)
    BY RandomnessOfHeight
  <2> QED BY <2>1 DEF GenerateRandomness
<1>3. \A i \in DOMAIN prList : prList[i].height \in DOMAIN proofs
  BY <1>1, <1>2
<1>4. GetPubRandProofList(proofs, prList) = [i \in DOMAIN prList |-> proofs[prList[i].height]]
  BY <1>3 DEF GetPubRandProofList
<1> QED BY <1>1, <1>2, <1>4

LEMMA BatchVerifies ==
  ASSUME TypeOK, CommitsContiguous, ProofsMatchCommits,
         NEW h \in Committed, NEW l \in Committed, h <= l
  PROVE  LET votes == BatchVotes(fp, proofs, [i \in 1..(l - h + 1) |-> Block(h + i - 1)])
         IN  Len(votes) = l - h + 1 /\ \A i \in DOMAIN votes : Verifies(votes[i])
<1>1. h \in Nat /\ l \in Nat
  BY PubRandAssumption DEF TypeOK, Committed, CommitRange
<1> DEFINE n == l - h + 1
           blocks == [i \in 1..n |-> Block(h + i - 1)]
           votes == BatchVotes(fp, proofs, blocks)
           prList == getPubRandList(fp, h, n)
<1>2. n \in Nat /\ 1 \in 1..n /\ h + n - 1 = l
  BY <1>1
<1>3. \A x \in h..l : \E i \in DOMAIN commits : x \in CommitRange(commits[i])
  BY CommittedHasNoHole
<1>4. \A x \in h..(h + n - 1) : x \in DOMAIN proofs
  BY <1>2, <1>3 DEF ProofsMatchCommits
<1> HIDE DEF n
<1>5. GetPubRandProofList(proofs, prList) = [i \in 1..n |-> proofs[h + i - 1]]
  BY <1>1, <1>2, <1>4, ProofListFound
<1>6. blocks[1].height = h /\ Len(blocks) = n
  <2>1. blocks[1] = Block(h + 1 - 1) /\ h + 1 - 1 = h
    BY <1>1, <1>2
  <2>2. blocks[1].height = h
    BY <2>1 DEF Block
  <2>3. DOMAIN blocks = 1..n /\ blocks = [i \in 1..n |-> blocks[i]]
    OBVIOUS
  <2> HIDE DEF blocks
  <2>4. blocks \in Seq({blocks[i] : i \in 1..n})
    BY <1>2, <2>3
  <2> QED BY <1>2, <2>2, <2>3, <2>4
<1>7. votes = [i \in 1..n |->
                 [block |-> blocks[i], pubRand |-> prList[i],
                  proof |-> proofs[h + i - 1], sig |-> signFinalitySig(fp, blocks[i])]]
  <2> HIDE DEF blocks
  <2>1. votes = LET proofList == GetPubRandProofList(proofs, prList)
                IN  [i \in DOMAIN proofList |->
                       [block |-> blocks[i], pubRand |-> prList[i],
                        proof |-> proofList[i], sig |-> signFinalitySig(fp, blocks[i])]]
    BY <1>6 DEF BatchVotes
  <2> HIDE DEF votes, prList
  <2> QED BY <1>5, <2>1
<1>8. \A i \in 1..n : Verifies(votes[i])
  <2> TAKE i \in 1..n
  <2>1. PICK x \in Nat : x = h + i - 1
    BY <1>1, <1>2
  <2>2. x \in h..l
    BY <1>1, <1>2, <2>1
  <2>3. PICK j \in DOMAIN commits : x \in CommitRange(commits[j])
    BY <1>3, <2>2
  <2>4. blocks[i] = Block(x)
    BY <2>1
  <2>5. prList[i] = GenerateRandomness(FpPk, ChainID, x)
    BY <1>1, <1>2, <2>1, RandomnessOfHeight
  <2> HIDE DEF votes, prList, blocks
  <2>6. votes[i] = [block |-> Block(x), pubRand |-> GenerateRandomness(FpPk, ChainID, x),
                    proof |-> proofs[x], sig |-> signFinalitySig(fp, Block(x))]
    BY <1>7, <2>1, <2>4, <2>5
  <2> QED BY <2>3, <2>6, VoteForCommitted
<1>9. DOMAIN votes = 1..n /\ Len(votes) = n
  <2>1. votes \in Seq({votes[i] : i \in 1..n})
    <3> HIDE DEF votes
    <3>1. DOMAIN votes = 1..n /\ votes = [i \in 1..n |-> votes[i]]
      BY <1>7
    <3> QED BY <1>2, <3>1
  <2> HIDE DEF votes
  <2> QED BY <1>2, <1>7, <2>1
<1> QED BY <1>8, <1>9 DEF n

\* Every vote for a committed height, and every batch over consecutive blocks
\* between two committed heights, carries the randomness, the proof and the
\* signature that the chain verifies, for every size of a commit and after any
\* failed, repeated or late commit (CommitPubRand, SubmitFinalitySignature,
\* SubmitBatchFinalitySignatures).
THEOREM CommittedVotesVerify == Spec => []VotesVerify
<1>1. PubRandInv => VotesVerify
  <2> SUFFICES ASSUME PubRandInv, ~fresh PROVE VotesVerify
    BY DEF VotesVerify
  <2>1. TypeOK /\ CommitsContiguous /\ ProofsMatchCommits
    BY DEF PubRandInv
  <2> QED BY <2>1, SingleVoteVerifies, BatchVerifies DEF VotesVerify
<1> QED
  BY <1>1, PubRandInvariant, PTL
=============================================================================
