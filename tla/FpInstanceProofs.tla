-------------------------- MODULE FpInstanceProofs --------------------------
(***************************************************************************)
(* Proofs about the voting side of an instance, for any chain height, fast *)
(* sync parameters, number of retries and number of faults: the order of   *)
(* the votes and what the store says of them, that nothing is ahead of the *)
(* chain, and how the threads of the instance share its channels.          *)
(***************************************************************************)
EXTENDS FpInstance, WellFoundedInduction, TLAPS

SyncRecord == [start : Nat, end : Nat, synced : Nat, batch : SUBSET Nat]

\* The types the proofs need; the heights are not bounded.
Types ==
  /\ staticStartHeight \in Nat
  /\ finalized \in Nat
  /\ power \subseteq ActivatedHeight..MaxHeight
  /\ votes \subseteq Nat
  /\ db \in StoredFinalityProvider
  /\ mem \in StoredFinalityProvider
  /\ tip \in Nat
  /\ cursor \in Nat
  /\ received \in Nat
  /\ sync \in SyncRecord
  /\ laggingTargetChan \in Nat
  /\ lagTarget \in Nat
  /\ stops \in Nat

\* Who runs when.  Start has the place of the loop until the poller runs, and
\* only a provider that the chain has slashed is recorded or stopped as such.
ThreadInv ==
  /\ booting => pc \in {"startPoller"} \cup SyncPcs
  /\ pc = "startPoller" => booting
  /\ criticalErr = "ErrFinalityProviderSlashed" => standing = "slashed"
  /\ db.status = "SLASHED" => standing = "slashed" /\ ~booting
  /\ stopper = "none" => stopPc = "idle" /\ ~quit
  /\ stopper = "monitor" => db.status = "SLASHED"
  /\ stops = 0 => stopper \in {"none", "monitor"}

\* What fast sync has in its hands.
SyncInv ==
  /\ pc = "sync" => sync.synced = 0
  /\ pc \in {"round", "batch", "recordBatch"} => sync.synced < sync.start
  /\ pc \in {"batch", "recordBatch"} => sync.batch # {} /\ sync.batch \subseteq 1..(sync.start - 1)
  /\ pc = "recordBatch" => sync.batch \subseteq votes
  /\ pc = "recordVote" => received \in votes

StoreInv ==
  /\ db.lastVotedHeight = 0 \/ db.lastVotedHeight \in votes
  /\ db.lastProcessedHeight >= db.lastVotedHeight

SettledTo(n) == \A g \in 1..n : Settled(g)

\* The daemon has stopped no instance, and a static start height, if there is
\* one, is below the activated height.
Undisturbed == stops = 0 /\ staticStartHeight < ActivatedHeight

Active == Undisturbed /\ db.status # "SLASHED"

\* No thread ever leaves an unsettled block behind.
Progress ==
  /\ SettledTo(db.lastProcessedHeight)
  /\ SettledTo(mem.lastProcessedHeight)
  /\ ~booting /\ pc \in {"loop", "skip"} \cup SyncPcs => SettledTo(cursor - 1)
  /\ pc \in {"vote", "retry", "recordVote"} => cursor = received + 1 /\ SettledTo(received - 1)
  /\ pc \in {"round", "recordBatch"} => SettledTo(sync.start - 1)
  /\ pc = "batch" => \A g \in 1..(sync.start - 1) : Settled(g) \/ g \in sync.batch

InstanceInv ==
  /\ Types
  /\ ThreadInv
  /\ SyncInv
  /\ StoreInv
  /\ Active => Progress
  /\ Undisturbed => VoteOrder

(***************************************************************************)
(* The operators.                                                          *)
(***************************************************************************)
LEMMA LargestExists ==
  ASSUME NEW n \in Nat, NEW S \in SUBSET (1..n), S # {}
  PROVE  Max(S) \in S /\ Max(S) \in Nat /\ Max(S) <= n
<1> DEFINE T == {n - x : x \in S}
<1>1. T \subseteq Nat /\ T # {}
  <2>1. PICK x \in S : TRUE
    BY Zenon
  <2>2. n - x \in T
    OBVIOUS
  <2>3. T \subseteq Nat
    OBVIOUS
  <2> QED BY <2>2, <2>3
<1>2. PICK t \in T : \A u \in T : ~(<<u, t>> \in OpToRel(<, Nat))
  BY <1>1, NatLessThanWellFounded, WFMin, Zenon
<1>3. \A u \in T : ~(u < t)
  BY <1>1, <1>2, Zenon DEF OpToRel
<1>4. PICK x \in S : t = n - x
  OBVIOUS
<1>5. \A y \in S : x >= y
  BY <1>3, <1>4
<1>6. Max(S) \in S
  BY <1>5, Zenon DEF Max
<1>7. Max(S) \in 1..n
  BY <1>6
<1> QED BY <1>6, <1>7

LEMMA SmallerOfTwo ==
  ASSUME NEW a \in Nat, NEW b \in Nat
  PROVE  Min({a, b}) \in {a, b} /\ Min({a, b}) <= a /\ Min({a, b}) <= b
<1>1. \E x \in {a, b} : \A y \in {a, b} : x =< y
  OBVIOUS
<1> QED BY <1>1 DEF Min

\* What the transitions of the store do to a record.
LEMMA StatusRecord ==
  ASSUME NEW fp \in StoredFinalityProvider, NEW s \in Statuses
  PROVE  /\ SetFpStatus(fp, s) \in StoredFinalityProvider
         /\ SetFpStatus(fp, s).status = s
         /\ SetFpStatus(fp, s).lastVotedHeight = fp.lastVotedHeight
         /\ SetFpStatus(fp, s).lastProcessedHeight = fp.lastProcessedHeight
BY DEF SetFpStatus, StoredFinalityProvider

LEMMA ProcessedRecord ==
  ASSUME NEW fp \in StoredFinalityProvider, NEW h \in Nat
  PROVE  /\ SetFpLastProcessedHeight(fp, h) \in StoredFinalityProvider
         /\ SetFpLastProcessedHeight(fp, h).status = fp.status
         /\ SetFpLastProcessedHeight(fp, h).lastVotedHeight = fp.lastVotedHeight
         /\ SetFpLastProcessedHeight(fp, h).lastProcessedHeight = Larger(fp.lastProcessedHeight, h)
BY DEF SetFpLastProcessedHeight, StoredFinalityProvider, Larger

LEMMA VotedRecord ==
  ASSUME NEW fp \in StoredFinalityProvider, NEW h \in Nat
  PROVE  /\ SetFpLastVotedHeight(fp, h) \in StoredFinalityProvider
         /\ SetFpLastVotedHeight(fp, h).status = fp.status
         /\ SetFpLastVotedHeight(fp, h).lastVotedHeight = Larger(fp.lastVotedHeight, h)
         /\ SetFpLastVotedHeight(fp, h).lastProcessedHeight = Larger(fp.lastProcessedHeight, h)
BY Zenon DEF SetFpLastVotedHeight, StoredFinalityProvider, Larger

(***************************************************************************)
(* What the chain has settled stays settled.                               *)
(***************************************************************************)
Forward == power' \subseteq power /\ votes \subseteq votes' /\ finalized <= finalized'

LEMMA SettledStays ==
  ASSUME Types, Types', Forward, NEW g \in Nat, Settled(g)
  PROVE  Settled(g)'
BY DEF Types, Forward, Settled

LEMMA SettledToStays ==
  ASSUME Types, Types', Forward, NEW n \in Int, SettledTo(n)
  PROVE  SettledTo(n)'
<1> SUFFICES ASSUME NEW g \in 1..n PROVE Settled(g)'
  BY DEF SettledTo
<1> QED BY SettledStays DEF SettledTo

\* Blocks up to the stored and the remembered height stay settled when the
\* heights stay, and when they become those of a settled block.
LEMMA HeightsKept ==
  ASSUME Progress, \A g \in Nat : Settled(g) => Settled(g)', UNCHANGED <<db, mem>>
  PROVE  SettledTo(db.lastProcessedHeight)' /\ SettledTo(mem.lastProcessedHeight)'
<1>1. (\A g \in 1..db.lastProcessedHeight : Settled(g)) /\ (\A g \in 1..mem.lastProcessedHeight : Settled(g))
  BY DEF Progress, SettledTo
<1>2. ASSUME NEW g \in 1..db.lastProcessedHeight PROVE Settled(g)'
  BY <1>1
<1>3. ASSUME NEW g \in 1..mem.lastProcessedHeight PROVE Settled(g)'
  BY <1>1
<1> QED BY <1>2, <1>3 DEF SettledTo

LEMMA HeightsRecorded ==
  ASSUME Progress, \A g \in Nat : Settled(g) => Settled(g)', NEW h \in Nat,
         \A g \in 1..h : Settled(g)', mem'.lastProcessedHeight = h,
         db'.lastProcessedHeight \in {db.lastProcessedHeight, h}
  PROVE  SettledTo(db.lastProcessedHeight)' /\ SettledTo(mem.lastProcessedHeight)'
<1>1. \A g \in 1..db.lastProcessedHeight : Settled(g)
  BY DEF Progress, SettledTo
<1>2. ASSUME NEW g \in 1..db.lastProcessedHeight PROVE Settled(g)'
  BY <1>1
<1>3. CASE db'.lastProcessedHeight = db.lastProcessedHeight
  BY <1>2, <1>3 DEF SettledTo
<1>4. CASE db'.lastProcessedHeight = h
  BY <1>4 DEF SettledTo
<1> QED BY <1>3, <1>4

LEMMA VoteOrderStays ==
  ASSUME Types, Types', Forward, votes' = votes, VoteOrder
  PROVE  VoteOrder'
<1> SUFFICES ASSUME NEW h \in votes, NEW g \in 1..(h - 1) PROVE Settled(g)'
  BY DEF VoteOrder
<1>1. h \in Nat /\ g \in Nat
  BY DEF Types
<1> QED BY <1>1, SettledStays DEF VoteOrder

(***************************************************************************)
(* A step that moves neither Start nor the submission loop.                *)
(***************************************************************************)
LEMMA AsideStep ==
  ASSUME InstanceInv, Types', Forward, ThreadInv',
         UNCHANGED <<staticStartHeight, stateVars, pollerVars, pc, booting, sync, votes>>,
         stops' = 0 => stops = 0
  PROVE  InstanceInv'
<1>1. UNCHANGED <<db, mem, cursor, received>>
  BY DEF stateVars, pollerVars
<1>2. \A g \in Nat : Settled(g) => Settled(g)'
  BY SettledStays DEF InstanceInv
<1>3. SyncInv' /\ StoreInv'
  BY <1>1 DEF InstanceInv, SyncInv, StoreInv
<1>4. Progress => Progress'
  BY <1>1, <1>2 DEF Progress, SettledTo
<1>5. Active' => Active
  BY <1>1 DEF Active, Undisturbed
<1>6. VoteOrder => VoteOrder'
  BY VoteOrderStays DEF InstanceInv
<1> QED BY <1>3, <1>4, <1>5, <1>6 DEF InstanceInv, Active, Undisturbed

\* The instance is gone and the store keeps its heights.
LEMMA GoneStep ==
  ASSUME InstanceInv, Types', Forward, InstanceGone, UNCHANGED <<staticStartHeight, stops>>,
         db'.lastVotedHeight = db.lastVotedHeight,
         db'.lastProcessedHeight = db.lastProcessedHeight,
         db'.status = "SLASHED" <=> db.status = "SLASHED",
         standing' = standing,
         Undisturbed /\ VoteOrder => VoteOrder'
  PROVE  InstanceInv'
<1>1. /\ pc' = "down" /\ booting' = FALSE /\ criticalErr' = "none" /\ mem' = db'
      /\ stopper' = "none" /\ stopPc' = "idle" /\ quit' = FALSE
  BY DEF InstanceGone
<1>2. \A g \in Nat : Settled(g) => Settled(g)'
  BY SettledStays DEF InstanceInv
<1>3. ThreadInv' /\ SyncInv'
  BY <1>1 DEF InstanceInv, ThreadInv, SyncInv, SyncPcs
<1>4. StoreInv'
  BY DEF InstanceInv, StoreInv, Forward
<1>5. Progress => Progress'
  BY <1>1, <1>2 DEF Progress, SettledTo, SyncPcs
<1>6. (Active' <=> Active) /\ (Undisturbed' <=> Undisturbed)
  BY DEF Active, Undisturbed
<1> QED BY <1>3, <1>4, <1>5, <1>6 DEF InstanceInv

\* A step of Start or of the submission loop.
LEMMA MainStep ==
  ASSUME InstanceInv, Types', Forward, UNCHANGED <<staticStartHeight, standing, stopVars, stops>>,
         db'.status = db.status,
         booting' => db.status # "SLASHED" /\ pc' \in {"startPoller"} \cup SyncPcs,
         pc' = "startPoller" => booting',
         criticalErr' = "ErrFinalityProviderSlashed" => standing = "slashed",
         SyncInv', StoreInv',
         Active /\ Progress => Progress',
         Undisturbed /\ VoteOrder => VoteOrder'
  PROVE  InstanceInv'
<1>1. ThreadInv'
  BY DEF InstanceInv, ThreadInv, stopVars
<1>2. (Active' <=> Active) /\ (Undisturbed' <=> Undisturbed)
  BY DEF Active, Undisturbed
<1> QED BY <1>1, <1>2 DEF InstanceInv

(***************************************************************************)
(* The chain, the lagging check and Stop.                                  *)
(***************************************************************************)
LEMMA ChainStep ==
  ASSUME InstanceInv, UNCHANGED staticStartHeight, NewBlock \/ FinalizeBlock \/ Punish
  PROVE  InstanceInv'
<1>1. /\ UNCHANGED <<stateVars, pollerVars, loopVars, lagVars, stopVars, stops, votes>>
      /\ UNCHANGED <<pc, booting, sync, criticalErr, db, mem, cursor, received,
                     laggingTargetChan, lagTarget, stopper, stopPc, quit>>
  BY DEF NewBlock, FinalizeBlock, Punish, loopVars, stateVars, pollerVars, lagVars, stopVars
<1>2. Types' /\ Forward
  <2>1. ActivatedHeight \in Nat
    BY InstanceAssumption
  <2>2. CASE NewBlock
    BY <1>1, <2>2 DEF NewBlock, InstanceInv, Types, Forward
  <2>3. CASE FinalizeBlock
    BY <1>1, <2>1, <2>3 DEF FinalizeBlock, InstanceInv, Types, Forward
  <2>4. CASE Punish
    BY <1>1, <2>4 DEF Punish, InstanceInv, Types, Forward
  <2> QED BY <2>2, <2>3, <2>4
<1>3. standing = "slashed" => standing' = "slashed"
  BY DEF NewBlock, FinalizeBlock, Punish
<1>4. ThreadInv'
  BY <1>1, <1>3 DEF InstanceInv, ThreadInv
<1> QED BY <1>1, <1>2, <1>4, AsideStep

LEMMA LaggingStep ==
  ASSUME InstanceInv, UNCHANGED staticStartHeight, LaggingFound \/ SendLaggingTarget \/ LaggingQuit
  PROVE  InstanceInv'
<1>1. UNCHANGED <<tip, finalized, power, votes, standing, stateVars, pollerVars, pc, booting, sync, criticalErr,
                  stopVars, stops>>
      /\ UNCHANGED <<db, mem, cursor, received, stopper, stopPc, quit>>
  BY DEF LaggingFound, SendLaggingTarget, LaggingQuit, chainVars, loopVars, stateVars, pollerVars, stopVars
<1>2. Types'
  BY <1>1 DEF LaggingFound, SendLaggingTarget, LaggingQuit, InstanceInv, Types
<1>3. Forward /\ ThreadInv'
  BY <1>1 DEF InstanceInv, Types, Forward, ThreadInv
<1> QED BY <1>1, <1>2, <1>3, AsideStep

LEMMA StopStep ==
  ASSUME InstanceInv, UNCHANGED staticStartHeight, DaemonStops \/ PollerStopped \/ CloseQuit
  PROVE  InstanceInv'
<1>1. UNCHANGED <<tip, finalized, power, votes, standing, stateVars, pollerVars, pc, booting, sync, criticalErr>>
      /\ UNCHANGED <<db, mem, cursor, received, laggingTargetChan, lagTarget>>
  BY DEF DaemonStops, PollerStopped, CloseQuit, chainVars, loopVars, stateVars, pollerVars, lagVars
<1>2. Types' /\ Forward /\ (stops' = 0 => stops = 0)
  BY <1>1 DEF DaemonStops, PollerStopped, CloseQuit, InstanceInv, Types, Forward
<1>3. ThreadInv'
  BY <1>1, <1>2 DEF DaemonStops, PollerStopped, CloseQuit, InstanceInv, Types, ThreadInv
<1> QED BY <1>1, <1>2, <1>3, AsideStep

LEMMA DroppedStep ==
  ASSUME InstanceInv, UNCHANGED staticStartHeight, Crash \/ StartFails \/ StopReturns
  PROVE  InstanceInv'
<1>1. InstanceGone /\ UNCHANGED <<db, tip, finalized, power, votes, standing, stops>>
  BY DEF Crash, StartFails, StopReturns, chainVars
<1>2. Types' /\ Forward
  BY <1>1 DEF InstanceGone, InstanceInv, Types, Forward, NoSync, SyncRecord
<1>3. VoteOrder => VoteOrder'
  BY <1>1, <1>2, VoteOrderStays DEF InstanceInv
<1> QED BY <1>1, <1>2, <1>3, GoneStep

(***************************************************************************)
(* Start.                                                                  *)
(***************************************************************************)
LEMMA StartStep ==
  ASSUME InstanceInv, UNCHANGED staticStartHeight, StartInstance
  PROVE  InstanceInv'
<1>1. /\ UNCHANGED <<tip, finalized, power, votes, standing, db, cursor, received, criticalErr,
                     laggingTargetChan, lagTarget, stopVars, stops>>
      /\ mem' = db /\ booting' = TRUE /\ pc' \in {"sync", "startPoller"} /\ db.status # "SLASHED"
      /\ sync' = [NoSync EXCEPT !.end = tip] \/ (sync' = sync /\ pc' = "startPoller")
  BY DEF StartInstance, chainVars, pollerVars, lagVars, ShouldStart
<1>2. [NoSync EXCEPT !.end = tip] \in SyncRecord /\ [NoSync EXCEPT !.end = tip].synced = 0
  BY DEF InstanceInv, Types, NoSync, SyncRecord
<1>3. Types' /\ Forward
  BY <1>1, <1>2 DEF InstanceInv, Types, Forward
<1>4. \A g \in Nat : Settled(g) => Settled(g)'
  BY <1>3, SettledStays DEF InstanceInv
<1>5. SyncInv' /\ StoreInv'
  BY <1>1, <1>2, Zenon DEF InstanceInv, SyncInv, StoreInv
<1>6. Progress => Progress'
  BY <1>1, <1>4 DEF Progress, SettledTo
<1>7. VoteOrder => VoteOrder'
  BY <1>1, <1>3, VoteOrderStays DEF InstanceInv
<1>8. criticalErr = "ErrFinalityProviderSlashed" => standing = "slashed"
  BY DEF InstanceInv, ThreadInv
<1> QED BY <1>1, <1>3, <1>5, <1>6, <1>7, <1>8, MainStep DEF SyncPcs

\* The poller starts after blocks that are all settled.
LEMMA StartingHeightSettled ==
  ASSUME InstanceInv, Active, Progress
  PROVE  SettledTo(Larger(PollerStartingHeight + 1, ActivatedHeight) - 1)
<1>1. /\ staticStartHeight \in Nat /\ staticStartHeight < ActivatedHeight /\ ActivatedHeight \in Nat
      /\ ActivatedHeight >= 2 /\ finalized \in Nat /\ mem.lastProcessedHeight \in Nat
      /\ power \subseteq ActivatedHeight..MaxHeight /\ MaxHeight \in Nat
  BY InstanceAssumption DEF InstanceInv, Types, Active, Undisturbed, StoredFinalityProvider
<1>2. \A g \in Nat : g < ActivatedHeight => Settled(g)
  BY <1>1 DEF Settled
<1>3. \A g \in Nat : g <= finalized => Settled(g)
  BY DEF Settled
<1>4. \A g \in Nat : 1 <= g /\ g <= mem.lastProcessedHeight => Settled(g)
  BY <1>1 DEF Progress, SettledTo
<1> SUFFICES ASSUME NEW g \in 1..(Larger(PollerStartingHeight + 1, ActivatedHeight) - 1)
             PROVE  Settled(g)
  BY DEF SettledTo
<1>5. CASE staticStartHeight # 0
  <2>1. Larger(PollerStartingHeight + 1, ActivatedHeight) = ActivatedHeight
    BY <1>1, <1>5 DEF PollerStartingHeight, Larger
  <2> QED BY <1>1, <1>2, <2>1
<1>6. CASE staticStartHeight = 0
  <2>1. PollerStartingHeight \in {mem.lastProcessedHeight, finalized, 1}
    BY <1>6 DEF PollerStartingHeight, Larger
  <2>2. g \in Nat /\ g >= 1 /\ (g < ActivatedHeight \/ g <= PollerStartingHeight)
    BY <1>1, <2>1 DEF Larger
  <2> QED BY <1>1, <1>2, <1>3, <1>4, <2>1, <2>2
<1> QED BY <1>5, <1>6

LEMMA StartPollerStep ==
  ASSUME InstanceInv, UNCHANGED staticStartHeight, StartPoller
  PROVE  InstanceInv'
<1>1. /\ UNCHANGED <<tip, finalized, power, votes, standing, db, mem, received, sync, criticalErr,
                     laggingTargetChan, lagTarget, stopVars, stops>>
      /\ booting' = FALSE /\ pc' = "loop" /\ cursor' = Larger(PollerStartingHeight + 1, ActivatedHeight)
  BY DEF StartPoller, chainVars, stateVars
<1>2. cursor' \in Nat
  <2>1. staticStartHeight \in Nat /\ ActivatedHeight \in Nat /\ finalized \in Nat
        /\ mem.lastProcessedHeight \in Nat
    BY InstanceAssumption DEF InstanceInv, Types, StoredFinalityProvider
  <2> QED BY <1>1, <2>1 DEF PollerStartingHeight, Larger
<1>3. Types' /\ Forward
  BY <1>1, <1>2 DEF InstanceInv, Types, Forward
<1>4. \A g \in Nat : Settled(g) => Settled(g)'
  BY <1>3, SettledStays DEF InstanceInv
<1>5. SyncInv' /\ StoreInv'
  BY <1>1 DEF InstanceInv, SyncInv, StoreInv
<1>6. ASSUME Active, Progress PROVE Progress'
  <2>1. \A g \in 1..(cursor' - 1) : Settled(g)
    BY <1>1, <1>6, StartingHeightSettled DEF SettledTo
  <2> QED BY <1>1, <1>2, <1>4, <1>6, <2>1 DEF Progress, SettledTo
<1>7. VoteOrder => VoteOrder'
  BY <1>1, <1>3, VoteOrderStays DEF InstanceInv
<1>8. criticalErr = "ErrFinalityProviderSlashed" => standing = "slashed"
  BY DEF InstanceInv, ThreadInv
<1> QED BY <1>1, <1>3, <1>5, <1>6, <1>7, <1>8, MainStep

(***************************************************************************)
(* Fast sync.                                                              *)
(***************************************************************************)
LEMMA SyncFailsStep ==
  ASSUME InstanceInv, NEW err, SyncFails(err), pc \in SyncPcs,
         err = "ErrFinalityProviderSlashed" => standing = "slashed",
         UNCHANGED <<staticStartHeight, tip, finalized, power, standing, stops>>,
         votes \subseteq votes', votes' \subseteq Nat,
         Undisturbed /\ VoteOrder => VoteOrder'
  PROVE  InstanceInv'
<1>1. Forward
  BY DEF Forward, InstanceInv, Types
<1>2. CASE booting
  <2>1. db' \in {db, SetFpStatus(db, "JAILED")} /\ InstanceGone
    BY <1>2 DEF SyncFails
  <2>2. db \in StoredFinalityProvider /\ db.status # "SLASHED"
    BY <1>2 DEF InstanceInv, Types, ThreadInv
  <2>3. /\ db' \in StoredFinalityProvider /\ db'.status # "SLASHED"
        /\ db'.lastVotedHeight = db.lastVotedHeight
        /\ db'.lastProcessedHeight = db.lastProcessedHeight
    BY <2>1, <2>2, StatusRecord DEF Statuses
  <2>4. Types'
    BY <2>1, <2>3 DEF InstanceGone, InstanceInv, Types, NoSync, SyncRecord
  <2> QED BY <1>1, <2>1, <2>2, <2>3, <2>4, GoneStep
<1>3. CASE ~booting
  <2>1. /\ UNCHANGED <<db, mem, cursor, received, booting, laggingTargetChan, lagTarget, stopVars>>
        /\ sync' = NoSync /\ pc' \in {"loop", "report"}
        /\ criticalErr' \in {criticalErr, err}
    BY <1>3 DEF SyncFails, stateVars, pollerVars
  <2>2. Types'
    BY <2>1 DEF InstanceInv, Types, NoSync, SyncRecord
  <2>3. \A g \in Nat : Settled(g) => Settled(g)'
    BY <1>1, <2>2, SettledStays DEF InstanceInv
  <2>4. SyncInv' /\ StoreInv'
    BY <2>1, Zenon DEF InstanceInv, SyncInv, StoreInv
  <2>5. Progress => Progress'
    BY <1>3, <2>1, <2>3 DEF Progress, SettledTo
  <2>6. criticalErr' = "ErrFinalityProviderSlashed" => standing = "slashed"
    BY <2>1 DEF InstanceInv, ThreadInv
  <2> QED BY <1>1, <1>3, <2>1, <2>2, <2>4, <2>5, <2>6, MainStep
<1> QED BY <1>2, <1>3

LEMMA TryFastSyncStep ==
  ASSUME InstanceInv, UNCHANGED staticStartHeight, TryFastSync
  PROVE  InstanceInv'
<1>1. pc = "sync" /\ UNCHANGED <<tip, finalized, power, votes, standing, stops>>
  BY DEF TryFastSync, chainVars
<1>2. Forward
  BY <1>1 DEF Forward, InstanceInv, Types
<1>3. CASE SyncFails("other")
  <2>1. VoteOrder => VoteOrder'
    BY <1>1 DEF VoteOrder, Settled
  <2> QED BY <1>1, <1>3, <2>1, SyncFailsStep DEF SyncPcs, InstanceInv, Types
<1>4. CASE /\ pc' = IF booting THEN "startPoller" ELSE "loop"
           /\ sync' = NoSync
           /\ UNCHANGED <<stateVars, pollerVars, booting, criticalErr, laggingTargetChan, lagTarget,
                          stopVars>>
  <2>1. UNCHANGED <<db, mem, cursor, received>>
    BY <1>4 DEF stateVars, pollerVars
  <2>2. Types'
    BY <1>1, <1>4, <2>1 DEF InstanceInv, Types, NoSync, SyncRecord
  <2>3. SyncInv' /\ StoreInv'
    BY <1>1, <1>4, <2>1 DEF InstanceInv, SyncInv, StoreInv
  <2>4. Progress => Progress'
    <3>1. \A g \in Nat : Settled(g) => Settled(g)'
      BY <1>2, <2>2, SettledStays DEF InstanceInv
    <3> QED BY <1>1, <1>4, <2>1, <3>1 DEF Progress, SettledTo, SyncPcs
  <2>5. VoteOrder => VoteOrder'
    BY <1>1, <1>2, <2>2, VoteOrderStays DEF InstanceInv
  <2>6. /\ criticalErr' = "ErrFinalityProviderSlashed" => standing = "slashed"
        /\ booting => db.status # "SLASHED"
    BY <1>4 DEF InstanceInv, ThreadInv
  <2> QED BY <1>1, <1>2, <1>4, <2>1, <2>2, <2>3, <2>4, <2>5, <2>6, MainStep
<1>5. CASE /\ sync' = [sync EXCEPT !.start = SyncStartHeight]
           /\ pc' = "round"
           /\ UNCHANGED <<stateVars, pollerVars, booting, failedCycles, criticalErr, lagVars,
                          stopVars, faults>>
           /\ sync.synced = 0
  <2>1. UNCHANGED <<db, mem, cursor, received, laggingTargetChan, lagTarget>>
    BY <1>5 DEF stateVars, pollerVars, lagVars
  <2>2. /\ SyncStartHeight \in Nat /\ SyncStartHeight >= 1
        /\ SyncStartHeight - 1 \in {finalized, mem.lastProcessedHeight}
    <3>1. finalized \in Nat /\ mem.lastProcessedHeight \in Nat
      BY DEF InstanceInv, Types, StoredFinalityProvider
    <3> QED BY <3>1 DEF SyncStartHeight, Larger
  <2>3. sync' \in SyncRecord /\ sync'.start = SyncStartHeight /\ sync'.synced = 0
    BY <1>5, <2>2 DEF InstanceInv, Types, SyncRecord
  <2>4. Types'
    BY <1>1, <1>5, <2>1, <2>3 DEF InstanceInv, Types
  <2>5. SyncInv' /\ StoreInv'
    BY <1>1, <1>5, <2>1, <2>2, <2>3 DEF InstanceInv, SyncInv, StoreInv
  <2>6. Progress => Progress'
    <3>1. \A g \in Nat : Settled(g) => Settled(g)'
      BY <1>2, <2>4, SettledStays DEF InstanceInv
    <3>2. \A g \in 1..finalized : Settled(g)
      BY DEF Settled, InstanceInv, Types
    <3>3. Progress => \A g \in 1..(sync'.start - 1) : Settled(g)'
      BY <2>2, <2>3, <3>1, <3>2 DEF Progress, SettledTo
    <3> QED BY <1>1, <1>5, <2>1, <3>1, <3>3 DEF Progress, SettledTo, SyncPcs
  <2>7. VoteOrder => VoteOrder'
    BY <1>1, <1>2, <2>4, VoteOrderStays DEF InstanceInv
  <2>8. /\ criticalErr' = "ErrFinalityProviderSlashed" => standing = "slashed"
        /\ booting => db.status # "SLASHED"
    BY <1>5 DEF InstanceInv, ThreadInv
  <2> QED BY <1>1, <1>2, <1>5, <2>1, <2>4, <2>5, <2>6, <2>7, <2>8, MainStep DEF SyncPcs
<1> QED BY <1>1, <1>3, <1>4, <1>5 DEF TryFastSync, SyncInv, InstanceInv

LEMMA FastSyncRoundStep ==
  ASSUME InstanceInv, UNCHANGED staticStartHeight, FastSyncRound
  PROVE  InstanceInv'
<1>1. pc = "round" /\ sync.start <= sync.end /\ UNCHANGED <<tip, finalized, power, votes, standing, stops>>
  BY DEF FastSyncRound, chainVars
<1>2. Forward /\ (VoteOrder => VoteOrder')
  BY <1>1 DEF Forward, InstanceInv, Types, VoteOrder, Settled
<1>3. CASE SyncFails("other")
  BY <1>1, <1>2, <1>3, SyncFailsStep DEF SyncPcs, InstanceInv, Types
<1>4. CASE ~SyncFails("other")
  <2>1. PICK last \in Nat : last = Min({sync.end, sync.start + FastSyncLimit - 1})
    <3>1. sync.end \in Nat /\ sync.start + FastSyncLimit - 1 \in Nat
      BY InstanceAssumption DEF InstanceInv, Types, SyncRecord
    <3> QED BY <3>1, SmallerOfTwo
  <2> DEFINE catchUpBlocks == {b \in sync.start..last : ~HasProcessed(b) /\ b \in power}
             noBlocks == [sync EXCEPT !.start = last + 1]
             someBlocks == [sync EXCEPT !.start = last + 1, !.batch = catchUpBlocks,
                                        !.synced = Max(catchUpBlocks)]
  <2>2. /\ \/ catchUpBlocks = {} /\ sync' = noBlocks /\ pc' = pc
           \/ catchUpBlocks # {} /\ sync' = someBlocks /\ pc' = "batch"
        /\ UNCHANGED <<stateVars, pollerVars, booting, criticalErr, lagVars, stopVars>>
    BY <1>4, <2>1 DEF FastSyncRound
  <2>3. UNCHANGED <<db, mem, cursor, received, laggingTargetChan, lagTarget>>
    BY <2>2 DEF stateVars, pollerVars, lagVars
  <2>4. /\ sync.start \in Nat /\ sync.end \in Nat /\ sync.start >= 1 /\ last >= sync.start
        /\ sync.synced \in Nat /\ sync.synced < sync.start /\ sync \in SyncRecord
    <3>1. sync.start \in Nat /\ sync.end \in Nat /\ sync.synced \in Nat /\ sync \in SyncRecord
      BY DEF InstanceInv, Types, SyncRecord
    <3>2. sync.synced < sync.start
      BY <1>1 DEF InstanceInv, SyncInv
    <3>3. FastSyncLimit \in Nat /\ FastSyncLimit >= 1
      BY InstanceAssumption
    <3>4. last \in {sync.end, sync.start + FastSyncLimit - 1}
      BY <2>1, <3>1, <3>3, SmallerOfTwo
    <3> QED BY <1>1, <3>1, <3>2, <3>3, <3>4
  <2>5. catchUpBlocks \in SUBSET (1..last)
    BY <2>4
  <2>6. ASSUME Progress PROVE \A g \in 1..last : Settled(g) \/ g \in catchUpBlocks
    <3> SUFFICES ASSUME NEW g \in 1..last, g \notin catchUpBlocks PROVE Settled(g)
      OBVIOUS
    <3>1. CASE g < sync.start
      BY <1>1, <2>4, <2>6, <3>1 DEF Progress, SettledTo
    <3>2. CASE g >= sync.start /\ HasProcessed(g)
      <4>1. \A x \in 1..mem.lastProcessedHeight : Settled(x)
        BY <2>6 DEF Progress, SettledTo
      <4>2. mem.lastProcessedHeight \in Nat /\ g <= mem.lastProcessedHeight
        BY <3>2 DEF HasProcessed, InstanceInv, Types, StoredFinalityProvider
      <4> QED BY <2>4, <4>1, <4>2
    <3>3. CASE g >= sync.start /\ ~HasProcessed(g)
      BY <2>4, <3>3 DEF Settled
    <3> QED BY <2>4, <3>1, <3>2, <3>3
  <2> HIDE DEF catchUpBlocks
  <2>7. catchUpBlocks # {} => Max(catchUpBlocks) \in Nat /\ Max(catchUpBlocks) <= last
    BY <2>5, LargestExists
  <2>8. /\ noBlocks \in SyncRecord /\ noBlocks.start = last + 1 /\ noBlocks.synced = sync.synced
        /\ catchUpBlocks # {} => /\ someBlocks \in SyncRecord /\ someBlocks.start = last + 1
                                 /\ someBlocks.synced = Max(catchUpBlocks)
                                 /\ someBlocks.batch = catchUpBlocks
    <3> DEFINE n == last + 1
               largest == Max(catchUpBlocks)
    <3>1. n \in Nat /\ catchUpBlocks \in SUBSET Nat
      BY <2>1, <2>5
    <3>2. /\ noBlocks = [sync EXCEPT !.start = n]
          /\ someBlocks = [sync EXCEPT !.start = n, !.batch = catchUpBlocks, !.synced = largest]
      OBVIOUS
    <3>3. catchUpBlocks # {} => largest \in Nat
      BY <2>7
    <3> HIDE DEF n, largest, noBlocks, someBlocks
    <3>4. noBlocks \in SyncRecord /\ noBlocks.start = n /\ noBlocks.synced = sync.synced
      BY <2>4, <3>1, <3>2 DEF SyncRecord
    <3>5. catchUpBlocks # {} => /\ someBlocks \in SyncRecord /\ someBlocks.start = n
                                /\ someBlocks.synced = largest /\ someBlocks.batch = catchUpBlocks
      BY <2>4, <3>1, <3>2, <3>3, Zenon DEF SyncRecord
    <3> QED BY <3>4, <3>5 DEF n, largest
  <2> HIDE DEF noBlocks, someBlocks
  <2>9. Types'
    BY <1>1, <2>2, <2>3, <2>8 DEF InstanceInv, Types
  <2>10. SyncInv'
    <3>1. CASE catchUpBlocks = {}
      BY <1>1, <2>2, <2>4, <2>8, <3>1 DEF SyncInv
    <3>2. CASE catchUpBlocks # {}
      <4>1. pc' = "batch" /\ sync'.start = last + 1 /\ sync'.batch = catchUpBlocks
            /\ sync'.synced \in Nat /\ sync'.synced <= last
        BY <2>2, <2>7, <2>8, <3>2
      <4>2. sync'.start - 1 = last /\ sync'.synced < sync'.start
        BY <4>1
      <4> QED BY <2>5, <3>2, <4>1, <4>2 DEF SyncInv
    <3> QED BY <3>1, <3>2
  <2>11. StoreInv'
    BY <1>1, <2>3 DEF InstanceInv, StoreInv
  <2>12. ASSUME Progress PROVE Progress'
    <3>1. \A g \in Nat : Settled(g) => Settled(g)'
      BY <1>2, <2>9, SettledStays DEF InstanceInv
    <3>2. sync'.start - 1 = last
      BY <2>1, <2>2, <2>8
    <3>3. \A g \in 1..(sync'.start - 1) : Settled(g)' \/ g \in catchUpBlocks
      <4> SUFFICES ASSUME NEW g \in 1..last, g \notin catchUpBlocks PROVE Settled(g)'
        BY <3>2
      <4>1. Settled(g)
        BY <2>6, <2>12
      <4> QED BY <3>1, <4>1
    <3>4. pc' = "batch" => \A g \in 1..(sync'.start - 1) : Settled(g)' \/ g \in sync'.batch
      <4>1. pc' = "batch" => sync'.batch = catchUpBlocks
        BY <1>1, <2>2, <2>8
      <4> QED BY <3>3, <4>1
    <3>5. pc' # "batch" => \A g \in 1..(sync'.start - 1) : Settled(g)'
      <4>1. pc' # "batch" => catchUpBlocks = {}
        BY <2>2
      <4> QED BY <3>3, <4>1
    <3>6. ~booting => SettledTo(cursor - 1)'
      <4>1. ~booting => \A g \in 1..(cursor - 1) : Settled(g)
        BY <1>1, <2>12 DEF Progress, SettledTo, SyncPcs
      <4> QED BY <2>3, <3>1, <4>1 DEF SettledTo
    <3>7. pc' # "batch" => SettledTo(sync.start - 1)'
      BY <3>5 DEF SettledTo
    <3>8. SettledTo(db.lastProcessedHeight)' /\ SettledTo(mem.lastProcessedHeight)'
      BY <2>3, <2>12, <3>1, HeightsKept
    <3>9. pc' \in {"round", "batch"} /\ booting' = booting
      BY <1>1, <2>2
    <3> QED BY <3>4, <3>6, <3>7, <3>8, <3>9 DEF Progress
  <2>13. /\ criticalErr' = "ErrFinalityProviderSlashed" => standing = "slashed"
         /\ booting => db.status # "SLASHED"
    BY <2>2 DEF InstanceInv, ThreadInv
  <2> QED BY <1>1, <1>2, <2>2, <2>3, <2>9, <2>10, <2>11, <2>12, <2>13, MainStep DEF SyncPcs
<1> QED BY <1>3, <1>4

\* Votes that leave no unsettled block behind keep the order.
LEMMA VotesInOrder ==
  ASSUME InstanceInv, NEW B, B \subseteq Nat, votes' = votes \cup B, UNCHANGED <<power, finalized>>,
         Active, \A h \in B : \A g \in 1..(h - 1) : Settled(g) \/ g \in B
  PROVE  VoteOrder'
<1>1. \A g : Settled(g) \/ g \in B => Settled(g)'
  BY DEF Settled
<1>2. VoteOrder
  BY DEF InstanceInv, Active
<1> SUFFICES ASSUME NEW h \in votes', NEW g \in 1..(h - 1) PROVE Settled(g)'
  BY DEF VoteOrder
<1>3. CASE h \in votes
  BY <1>1, <1>2, <1>3 DEF VoteOrder
<1>4. CASE h \in B
  BY <1>1, <1>4
<1> QED BY <1>3, <1>4

\* Only a provider that the chain has slashed is recorded as slashed.
LEMMA GoodIsActive ==
  ASSUME InstanceInv, Undisturbed, standing = "good"
  PROVE  Active /\ Progress
BY DEF InstanceInv, ThreadInv, Active

LEMMA SubmitBatchStep ==
  ASSUME InstanceInv, UNCHANGED staticStartHeight, SubmitBatch
  PROVE  InstanceInv'
<1>1. pc = "batch" /\ UNCHANGED <<tip, finalized, power, standing, stops>>
  BY DEF SubmitBatch
<1>2. sync.start \in Nat /\ sync.batch \subseteq 1..(sync.start - 1) /\ sync.batch # {}
  BY <1>1 DEF InstanceInv, SyncInv, Types, SyncRecord
<1>3. votes' = votes \/ (votes' = votes \cup sync.batch /\ standing = "good")
  BY DEF SubmitBatch
<1>4. votes \subseteq votes' /\ votes' \subseteq Nat
  <2>1. votes \subseteq Nat /\ sync.batch \subseteq Nat
    BY DEF InstanceInv, Types, SyncRecord
  <2> QED BY <1>3, <2>1, Zenon
<1>5. Forward
  BY <1>1, <1>4 DEF Forward, InstanceInv, Types
<1>6. ASSUME Undisturbed, VoteOrder PROVE VoteOrder'
  <2>1. CASE votes' = votes
    BY <1>1, <1>6, <2>1 DEF VoteOrder, Settled
  <2>2. CASE votes' = votes \cup sync.batch /\ standing = "good"
    <3>1. Active /\ Progress
      BY <1>6, <2>2, GoodIsActive
    <3>2. ASSUME NEW h \in sync.batch, NEW g \in 1..(h - 1) PROVE Settled(g) \/ g \in sync.batch
      <4>1. g \in 1..(sync.start - 1)
        BY <1>2, <3>2
      <4> QED BY <1>1, <3>1, <4>1 DEF Progress
    <3>3. sync.batch \subseteq Nat
      BY <1>2
    <3> QED BY <1>1, <2>2, <3>1, <3>2, <3>3, VotesInOrder
  <2> QED BY <1>3, <2>1, <2>2
<1>7. ASSUME NEW err, SyncFails(err), err = "ErrFinalityProviderSlashed" => standing = "slashed"
      PROVE  InstanceInv'
  BY <1>1, <1>4, <1>6, <1>7, SyncFailsStep DEF SyncPcs
<1>8. CASE /\ votes' = votes \cup sync.batch
           /\ pc' = "recordBatch"
           /\ UNCHANGED <<stateVars, pollerVars, booting, failedCycles, sync, criticalErr,
                          lagVars, stopVars, faults>>
  <2>1. UNCHANGED <<db, mem, cursor, received, laggingTargetChan, lagTarget>>
    BY <1>8 DEF stateVars, pollerVars, lagVars
  <2>2. Types'
    BY <1>1, <1>4, <1>8, <2>1 DEF InstanceInv, Types
  <2>3. SyncInv' /\ StoreInv'
    BY <1>1, <1>2, <1>8, <2>1 DEF InstanceInv, SyncInv, StoreInv
  <2>4. ASSUME Progress PROVE Progress'
    <3>1. \A g \in Nat : Settled(g) => Settled(g)'
      BY <1>5, <2>2, SettledStays DEF InstanceInv
    <3>2. \A g : g \in sync.batch => Settled(g)'
      BY <1>8 DEF Settled
    <3>3. \A g \in 1..(sync.start - 1) : Settled(g)'
      BY <1>1, <2>4, <3>1, <3>2 DEF Progress
    <3> QED BY <1>1, <1>8, <2>1, <2>4, <3>1, <3>3 DEF Progress, SettledTo, SyncPcs
  <2>5. /\ criticalErr' = "ErrFinalityProviderSlashed" => standing = "slashed"
        /\ booting => db.status # "SLASHED"
    BY <1>8 DEF InstanceInv, ThreadInv
  <2> QED BY <1>1, <1>5, <1>6, <1>8, <2>1, <2>2, <2>3, <2>4, <2>5, MainStep DEF SyncPcs
<1> QED BY <1>7, <1>8 DEF SubmitBatch

\* The two ways to record a height that is settled.
LEMMA RecordVoted ==
  ASSUME InstanceInv, NEW h \in votes, SetLastProcessedAndVotedHeight(h), UNCHANGED votes
  PROVE  /\ db' \in StoredFinalityProvider /\ mem' \in StoredFinalityProvider
         /\ db'.status = db.status /\ StoreInv'
         /\ mem'.lastProcessedHeight = h
         /\ db'.lastProcessedHeight \in {db.lastProcessedHeight, h}
<1>1. /\ h \in Nat /\ db \in StoredFinalityProvider /\ mem \in StoredFinalityProvider
      /\ db.lastVotedHeight \in Nat /\ db.lastProcessedHeight \in Nat
  BY DEF InstanceInv, Types, StoredFinalityProvider
<1>2. db' = SetFpLastVotedHeight(db, h)
      /\ mem' = [mem EXCEPT !.lastVotedHeight = h, !.lastProcessedHeight = h]
  BY DEF SetLastProcessedAndVotedHeight
<1>3. /\ db' \in StoredFinalityProvider /\ db'.status = db.status
      /\ db'.lastVotedHeight = Larger(db.lastVotedHeight, h)
      /\ db'.lastProcessedHeight = Larger(db.lastProcessedHeight, h)
  BY <1>1, <1>2, VotedRecord, Zenon
<1>4. mem' \in StoredFinalityProvider /\ mem'.lastProcessedHeight = h
  BY <1>1, <1>2, Zenon DEF StoredFinalityProvider
<1>5. StoreInv'
  BY <1>1, <1>3 DEF InstanceInv, StoreInv, Larger
<1> QED BY <1>1, <1>3, <1>4, <1>5 DEF Larger

LEMMA RecordProcessed ==
  ASSUME InstanceInv, NEW h \in Nat, SetLastProcessedHeight(h), UNCHANGED votes
  PROVE  /\ db' \in StoredFinalityProvider /\ mem' \in StoredFinalityProvider
         /\ db'.status = db.status /\ StoreInv'
         /\ mem'.lastProcessedHeight = h
         /\ db'.lastProcessedHeight \in {db.lastProcessedHeight, h}
<1>1. /\ db \in StoredFinalityProvider /\ mem \in StoredFinalityProvider
      /\ db.lastVotedHeight \in Nat /\ db.lastProcessedHeight \in Nat
  BY DEF InstanceInv, Types, StoredFinalityProvider
<1>2. db' = SetFpLastProcessedHeight(db, h) /\ mem' = [mem EXCEPT !.lastProcessedHeight = h]
  BY DEF SetLastProcessedHeight
<1>3. /\ db' \in StoredFinalityProvider /\ db'.status = db.status
      /\ db'.lastVotedHeight = db.lastVotedHeight
      /\ db'.lastProcessedHeight = Larger(db.lastProcessedHeight, h)
  BY <1>1, <1>2, ProcessedRecord, Zenon
<1>4. mem' \in StoredFinalityProvider /\ mem'.lastProcessedHeight = h
  BY <1>1, <1>2 DEF StoredFinalityProvider
<1>5. StoreInv'
  BY <1>1, <1>3 DEF InstanceInv, StoreInv, Larger
<1> QED BY <1>1, <1>3, <1>4, <1>5 DEF Larger

LEMMA RecordBatchStep ==
  ASSUME InstanceInv, UNCHANGED staticStartHeight, RecordBatch
  PROVE  InstanceInv'
<1>1. /\ pc = "recordBatch" /\ pc' = "round" /\ sync' = [sync EXCEPT !.batch = {}]
      /\ SetLastProcessedAndVotedHeight(Max(sync.batch))
      /\ UNCHANGED <<tip, finalized, power, votes, standing, stops, cursor, received, booting,
                     criticalErr, laggingTargetChan, lagTarget, stopVars>>
  BY DEF RecordBatch, chainVars, pollerVars, lagVars
<1>2. /\ sync \in SyncRecord /\ sync.start \in Nat /\ sync.synced \in Nat /\ sync.synced < sync.start
      /\ sync.batch \in SUBSET (1..(sync.start - 1)) /\ sync.batch # {} /\ sync.batch \subseteq votes
  BY <1>1 DEF InstanceInv, Types, SyncInv, SyncRecord
<1>3. PICK h \in votes : h = Max(sync.batch) /\ h \in Nat /\ h <= sync.start - 1
  <2>1. sync.start - 1 \in Nat
    BY <1>2
  <2>2. Max(sync.batch) \in sync.batch /\ Max(sync.batch) \in Nat /\ Max(sync.batch) <= sync.start - 1
    BY <1>2, <2>1, LargestExists
  <2> QED BY <1>2, <2>2
<1>4. SetLastProcessedAndVotedHeight(h)
  BY <1>1, <1>3
<1>5. /\ db' \in StoredFinalityProvider /\ mem' \in StoredFinalityProvider
      /\ db'.status = db.status /\ StoreInv'
      /\ mem'.lastProcessedHeight = h
      /\ db'.lastProcessedHeight \in {db.lastProcessedHeight, h}
  BY <1>1, <1>4, RecordVoted
<1>6. sync' \in SyncRecord /\ sync'.start = sync.start /\ sync'.synced = sync.synced
  BY <1>1, <1>2 DEF SyncRecord
<1>7. Types' /\ Forward
  BY <1>1, <1>5, <1>6 DEF InstanceInv, Types, Forward
<1>8. SyncInv'
  BY <1>1, <1>2, <1>6 DEF SyncInv
<1>9. ASSUME Progress PROVE Progress'
  <2>1. \A g \in Nat : Settled(g) => Settled(g)'
    BY <1>7, SettledStays DEF InstanceInv
  <2>2. \A g \in 1..(sync.start - 1) : Settled(g)'
    <3>1. \A g \in 1..(sync.start - 1) : Settled(g)
      BY <1>1, <1>9 DEF Progress, SettledTo
    <3> QED BY <2>1, <3>1
  <2>3. \A g \in 1..h : Settled(g)'
    BY <1>2, <1>3, <2>2
  <2>4. SettledTo(db.lastProcessedHeight)' /\ SettledTo(mem.lastProcessedHeight)'
    BY <1>3, <1>5, <1>9, <2>1, <2>3, HeightsRecorded
  <2>5. SettledTo(sync.start - 1)'
    BY <1>6, <2>2 DEF SettledTo
  <2>6. ~booting => SettledTo(cursor - 1)'
    <3>1. ~booting => \A g \in 1..(cursor - 1) : Settled(g)
      BY <1>1, <1>9 DEF Progress, SettledTo, SyncPcs
    <3> QED BY <1>1, <2>1, <3>1 DEF SettledTo
  <2> QED BY <1>1, <2>4, <2>5, <2>6 DEF Progress
<1>10. VoteOrder => VoteOrder'
  BY <1>1, <1>7, VoteOrderStays DEF InstanceInv
<1>11. /\ criticalErr' = "ErrFinalityProviderSlashed" => standing = "slashed"
       /\ booting => db.status # "SLASHED"
  BY <1>1 DEF InstanceInv, ThreadInv
<1> QED BY <1>1, <1>5, <1>7, <1>8, <1>9, <1>10, <1>11, MainStep DEF SyncPcs

LEMMA FastSyncDoneStep ==
  ASSUME InstanceInv, UNCHANGED staticStartHeight, FastSyncDone
  PROVE  InstanceInv'
<1>1. /\ pc = "round" /\ pc' = IF booting THEN "startPoller" ELSE "skip"
      /\ sync' = NoSync /\ SetLastProcessedHeight(sync.synced)
      /\ UNCHANGED <<tip, finalized, power, votes, standing, stops, cursor, received, booting,
                     criticalErr, laggingTargetChan, lagTarget, stopVars>>
  BY DEF FastSyncDone, chainVars, pollerVars
<1>2. PICK h \in Nat : h = sync.synced /\ sync.start \in Nat /\ h < sync.start
  BY <1>1 DEF InstanceInv, Types, SyncInv, SyncRecord
<1>3. /\ db' \in StoredFinalityProvider /\ mem' \in StoredFinalityProvider
      /\ db'.status = db.status /\ StoreInv'
      /\ mem'.lastProcessedHeight = h
      /\ db'.lastProcessedHeight \in {db.lastProcessedHeight, h}
  BY <1>1, <1>2, RecordProcessed
<1>4. Types' /\ Forward
  <2>1. NoSync \in SyncRecord
    BY DEF NoSync, SyncRecord
  <2>2. Types'
    BY <1>1, <1>3, <2>1 DEF InstanceInv, Types
  <2>3. Forward
    BY <1>1 DEF InstanceInv, Types, Forward
  <2> QED BY <2>2, <2>3
<1>5. SyncInv'
  BY <1>1 DEF SyncInv
<1>6. ASSUME Progress PROVE Progress'
  <2>1. \A g \in Nat : Settled(g) => Settled(g)'
    BY <1>4, SettledStays DEF InstanceInv
  <2>2. \A g \in 1..(sync.start - 1) : Settled(g)'
    <3>1. \A g \in 1..(sync.start - 1) : Settled(g)
      BY <1>1, <1>6 DEF Progress, SettledTo
    <3> QED BY <2>1, <3>1
  <2>3. \A g \in 1..h : Settled(g)'
    BY <1>2, <2>2
  <2>4. SettledTo(db.lastProcessedHeight)' /\ SettledTo(mem.lastProcessedHeight)'
    BY <1>3, <1>6, <2>1, <2>3, HeightsRecorded
  <2>5. ~booting => SettledTo(cursor - 1)'
    <3>1. ~booting => \A g \in 1..(cursor - 1) : Settled(g)
      BY <1>1, <1>6 DEF Progress, SettledTo, SyncPcs
    <3> QED BY <1>1, <2>1, <3>1 DEF SettledTo
  <2> QED BY <1>1, <2>4, <2>5 DEF Progress
<1>7. VoteOrder => VoteOrder'
  BY <1>1, <1>4, VoteOrderStays DEF InstanceInv
<1>8. /\ criticalErr' = "ErrFinalityProviderSlashed" => standing = "slashed"
      /\ booting => db.status # "SLASHED"
  BY <1>1 DEF InstanceInv, ThreadInv
<1> QED BY <1>1, <1>3, <1>4, <1>5, <1>6, <1>7, <1>8, MainStep

(***************************************************************************)
(* The submission loop.                                                    *)
(***************************************************************************)
\* A step of the loop that leaves fast sync and the chain's votes alone.
LEMMA LoopStep ==
  ASSUME InstanceInv, ~booting, pc' \notin {"startPoller", "recordVote"} \cup SyncPcs,
         UNCHANGED <<staticStartHeight, chainVars, booting, sync, laggingTargetChan, lagTarget, stopVars, stops>>,
         db' \in StoredFinalityProvider, mem' \in StoredFinalityProvider, db'.status = db.status,
         cursor' \in Nat, received' \in Nat,
         criticalErr' \in {criticalErr, "other", "ErrFpAlreadySlashed", "ErrFpAlreadyJailed"},
         StoreInv', Active /\ Progress => Progress'
  PROVE  InstanceInv'
<1>1. Types' /\ Forward /\ standing' = standing /\ votes' = votes
  BY DEF InstanceInv, Types, Forward, chainVars
<1>2. VoteOrder => VoteOrder'
  BY <1>1, VoteOrderStays DEF InstanceInv
<1>3. SyncInv'
  BY DEF SyncInv, SyncPcs
<1>4. criticalErr' = "ErrFinalityProviderSlashed" => standing = "slashed"
  BY DEF InstanceInv, ThreadInv
<1> QED BY <1>1, <1>2, <1>3, <1>4, MainStep

LEMMA NotBooting ==
  ASSUME InstanceInv, pc \in LoopPcs
  PROVE  ~booting
BY DEF InstanceInv, ThreadInv, LoopPcs, SyncPcs

LEMMA ReceiveBlockStep ==
  ASSUME InstanceInv, UNCHANGED staticStartHeight, ReceiveBlock
  PROVE  InstanceInv'
<1>1. /\ pc = "loop" /\ received' = cursor /\ cursor' = cursor + 1
      /\ UNCHANGED <<chainVars, booting, sync, laggingTargetChan, lagTarget, stopVars, stops>>
  BY DEF ReceiveBlock, Poller!Deliver, lagVars
<1>2. ~booting /\ cursor \in Nat /\ cursor' \in Nat /\ received' \in Nat /\ cursor' = received' + 1
      /\ cursor' - 1 = cursor
  BY <1>1, NotBooting DEF InstanceInv, Types, LoopPcs
<1>3. \A g : Settled(g)' <=> Settled(g)
  BY <1>1 DEF Settled, chainVars
<1>4. Progress => \A g \in 1..(cursor - 1) : Settled(g)
  BY <1>1, <1>2 DEF Progress, SettledTo
<1>5. ASSUME Progress, cursor >= 1 => Settled(cursor) PROVE \A g \in 1..cursor : Settled(g)
  BY <1>2, <1>4, <1>5
<1>6. CASE /\ UNCHANGED stateVars
           /\ \/ pc' = "loop" /\ HasProcessed(cursor) /\ criticalErr' = criticalErr
              \/ pc' = "vote" /\ criticalErr' = criticalErr
              \/ Report("other")
  <2>1. UNCHANGED <<db, mem>> /\ db \in StoredFinalityProvider /\ mem \in StoredFinalityProvider
    BY <1>6 DEF stateVars, InstanceInv, Types
  <2>2. StoreInv'
    BY <1>1, <2>1 DEF InstanceInv, StoreInv, chainVars
  <2>3. CASE pc' = "loop" /\ HasProcessed(cursor) /\ criticalErr' = criticalErr
    <3>1. ASSUME Progress PROVE Progress'
      <4>1. cursor >= 1 => Settled(cursor)
        <5>1. \A g \in 1..mem.lastProcessedHeight : Settled(g)
          BY <3>1 DEF Progress, SettledTo
        <5>2. mem.lastProcessedHeight \in Nat /\ cursor <= mem.lastProcessedHeight
          BY <2>1, <2>3 DEF HasProcessed, StoredFinalityProvider
        <5> QED BY <1>2, <5>1, <5>2
      <4>2. \A g \in 1..(cursor' - 1) : Settled(g)'
        BY <1>2, <1>3, <1>5, <3>1, <4>1, Zenon
      <4> QED BY <1>1, <1>2, <1>3, <2>1, <2>3, <3>1, <4>2 DEF Progress, SettledTo
    <3> QED BY <1>1, <1>2, <2>1, <2>2, <2>3, <3>1, LoopStep DEF SyncPcs
  <2>4. CASE pc' = "vote" /\ criticalErr' = criticalErr
    <3>1. Progress => Progress'
      BY <1>1, <1>2, <1>3, <1>4, <2>1, <2>4 DEF Progress, SettledTo, SyncPcs
    <3> QED BY <1>1, <1>2, <2>1, <2>2, <2>4, <3>1, LoopStep DEF SyncPcs
  <2>5. CASE Report("other")
    <3>1. pc' = "report" /\ criticalErr' = "other"
      BY <2>5 DEF Report
    <3>2. Progress => Progress'
      BY <1>1, <1>2, <1>3, <2>1, <3>1 DEF Progress, SettledTo, SyncPcs
    <3> QED BY <1>1, <1>2, <2>1, <2>2, <3>1, <3>2, LoopStep DEF SyncPcs
  <2> QED BY <1>6, <2>3, <2>4, <2>5
<1>7. CASE /\ cursor \notin power /\ SetLastProcessedHeight(cursor)
           /\ pc' = pc /\ criticalErr' = criticalErr
  <2>1. /\ db' \in StoredFinalityProvider /\ mem' \in StoredFinalityProvider
        /\ db'.status = db.status /\ StoreInv'
        /\ mem'.lastProcessedHeight = cursor
        /\ db'.lastProcessedHeight \in {db.lastProcessedHeight, cursor}
    BY <1>1, <1>2, <1>7, RecordProcessed, Zenon DEF chainVars
  <2>2. ASSUME Progress PROVE Progress'
    <3>1. \A g \in 1..cursor : Settled(g)'
      BY <1>3, <1>5, <1>7, <2>2 DEF Settled
    <3>2. \A g \in 1..db'.lastProcessedHeight : Settled(g)'
      BY <1>3, <2>1, <2>2, <3>1 DEF Progress, SettledTo
    <3> QED BY <1>1, <1>2, <1>7, <2>1, <3>1, <3>2 DEF Progress, SettledTo
  <2> QED BY <1>1, <1>2, <1>7, <2>1, <2>2, LoopStep DEF SyncPcs
<1> QED BY <1>1, <1>6, <1>7 DEF ReceiveBlock

\* The block is behind the cursor and everything before it is settled.
LEMMA SubmitStep ==
  ASSUME InstanceInv, UNCHANGED staticStartHeight, SubmitFinalitySignature
  PROVE  InstanceInv'
<1>1. /\ pc = "vote"
      /\ UNCHANGED <<tip, finalized, power, standing, db, mem, cursor, received, booting, sync,
                     laggingTargetChan, lagTarget, stopVars, stops>>
  BY DEF SubmitFinalitySignature, stateVars, pollerVars, lagVars
<1>2. votes' = votes \/ (votes' = votes \cup {received} /\ standing = "good")
  BY DEF SubmitFinalitySignature
<1>3. ~booting /\ received \in Nat
  BY <1>1, NotBooting DEF InstanceInv, Types, LoopPcs
<1>4. votes \subseteq votes' /\ votes' \subseteq Nat
  BY <1>2, <1>3, Zenon DEF InstanceInv, Types
<1>5. Types' /\ Forward
  BY <1>1, <1>4 DEF InstanceInv, Types, Forward
<1>6. ASSUME Undisturbed, VoteOrder PROVE VoteOrder'
  <2>1. CASE votes' = votes
    BY <1>5, <1>6, <2>1, VoteOrderStays DEF InstanceInv
  <2>2. CASE votes' = votes \cup {received} /\ standing = "good"
    <3>1. Active /\ Progress
      BY <1>6, <2>2, GoodIsActive
    <3>2. \A h \in {received} : \A g \in 1..(h - 1) : Settled(g) \/ g \in {received}
      BY <1>1, <3>1 DEF Progress, SettledTo
    <3>3. {received} \subseteq Nat
      BY <1>3
    <3> QED BY <1>1, <2>2, <3>1, <3>2, <3>3, VotesInOrder, Zenon
  <2> QED BY <1>2, <2>1, <2>2
<1>7. /\ pc' \in {"recordVote", "report", "retry"}
      /\ pc' = "recordVote" => received \in votes'
      /\ criticalErr' \in {criticalErr, "other", "ErrFpAlreadySlashed", "ErrFpAlreadyJailed"}
  BY DEF SubmitFinalitySignature, Report
<1>8. SyncInv' /\ StoreInv'
  BY <1>1, <1>4, <1>7, Zenon DEF InstanceInv, SyncInv, StoreInv
<1>9. Progress => Progress'
  <2>1. \A g \in Nat : Settled(g) => Settled(g)'
    BY <1>5, SettledStays DEF InstanceInv
  <2> SUFFICES ASSUME Progress PROVE Progress'
    OBVIOUS
  <2>2. SettledTo(db.lastProcessedHeight)' /\ SettledTo(mem.lastProcessedHeight)'
    BY <1>1, <2>1, HeightsKept
  <2>3. cursor = received + 1 /\ \A g \in 1..(received - 1) : Settled(g)
    BY <1>1 DEF Progress, SettledTo
  <2>4. cursor' = received' + 1 /\ SettledTo(received - 1)'
    BY <1>1, <2>1, <2>3 DEF SettledTo
  <2> QED BY <1>7, <2>2, <2>4 DEF Progress, SyncPcs
<1>10. criticalErr' = "ErrFinalityProviderSlashed" => standing = "slashed"
  BY <1>7 DEF InstanceInv, ThreadInv
<1> QED BY <1>1, <1>3, <1>5, <1>6, <1>7, <1>8, <1>9, <1>10, MainStep DEF SyncPcs

LEMMA RecordVoteStep ==
  ASSUME InstanceInv, UNCHANGED staticStartHeight, RecordVote
  PROVE  InstanceInv'
<1>1. /\ pc = "recordVote" /\ pc' = "loop" /\ SetLastProcessedAndVotedHeight(received)
      /\ UNCHANGED <<chainVars, cursor, received, booting, sync, criticalErr, laggingTargetChan,
                     lagTarget, stopVars, stops>>
  BY DEF RecordVote, pollerVars, lagVars
<1>2. ~booting /\ received \in votes /\ received \in Nat /\ cursor \in Nat
  BY <1>1, NotBooting DEF InstanceInv, Types, SyncInv, LoopPcs
<1>3. /\ db' \in StoredFinalityProvider /\ mem' \in StoredFinalityProvider
      /\ db'.status = db.status /\ StoreInv'
      /\ mem'.lastProcessedHeight = received
      /\ db'.lastProcessedHeight \in {db.lastProcessedHeight, received}
  BY <1>1, <1>2, RecordVoted DEF chainVars
<1>4. ASSUME Progress PROVE Progress'
  <2>1. \A g : Settled(g)' <=> Settled(g)
    BY <1>1 DEF Settled, chainVars
  <2>2. Settled(received)
    BY <1>2 DEF Settled
  <2>3. cursor - 1 = received /\ \A g \in 1..(received - 1) : Settled(g)
    <3>1. cursor = received + 1 /\ \A g \in 1..(received - 1) : Settled(g)
      BY <1>1, <1>4 DEF Progress, SettledTo
    <3> QED BY <1>2, <3>1
  <2>4. PICK h \in Nat : h = received
    BY <1>2
  <2>5. \A g \in 1..h : Settled(g)'
    BY <2>1, <2>2, <2>3, <2>4
  <2>6. SettledTo(db.lastProcessedHeight)' /\ SettledTo(mem.lastProcessedHeight)'
    BY <1>3, <1>4, <2>1, <2>4, <2>5, HeightsRecorded
  <2>7. SettledTo(cursor - 1)'
    BY <1>1, <2>3, <2>4, <2>5 DEF SettledTo
  <2> QED BY <1>1, <2>6, <2>7 DEF Progress
<1> QED BY <1>1, <1>2, <1>3, <1>4, LoopStep DEF SyncPcs

LEMMA RetryStep ==
  ASSUME InstanceInv, UNCHANGED staticStartHeight, RetryInterval \/ RetryQuit
  PROVE  InstanceInv'
<1>1. /\ pc = "retry"
      /\ UNCHANGED <<chainVars, db, mem, cursor, received, booting, sync, laggingTargetChan,
                     lagTarget, stopVars, stops>>
      /\ pc' \in {"loop", "vote", "report"}
      /\ criticalErr' \in {criticalErr, "other"}
  BY DEF RetryInterval, RetryQuit, Report, stateVars, pollerVars, lagVars
<1>2. ~booting /\ received \in Nat /\ cursor \in Nat /\ finalized \in Nat
      /\ db \in StoredFinalityProvider /\ mem \in StoredFinalityProvider
  BY <1>1, NotBooting DEF InstanceInv, Types, LoopPcs
<1>3. ASSUME Active PROVE pc' = "loop" => received <= finalized
  <2>1. ~quit
    BY <1>3 DEF InstanceInv, ThreadInv, Active, Undisturbed
  <2> QED BY <2>1 DEF RetryInterval, RetryQuit, Report, CheckBlockFinalization
<1>4. ASSUME Active, Progress PROVE Progress'
  <2>1. \A g : Settled(g)' <=> Settled(g)
    BY <1>1 DEF Settled, chainVars
  <2>2. cursor = received + 1 /\ \A g \in 1..(received - 1) : Settled(g)
    BY <1>1, <1>4 DEF Progress, SettledTo
  <2>3. pc' = "loop" => Settled(received)
    BY <1>3, <1>4 DEF Settled
  <2>4. pc' = "loop" => \A g \in 1..(cursor - 1) : Settled(g)
    BY <1>2, <2>2, <2>3
  <2> QED BY <1>1, <1>4, <2>1, <2>2, <2>4 DEF Progress, SettledTo, SyncPcs
<1>5. StoreInv'
  BY <1>1 DEF InstanceInv, StoreInv, chainVars
<1> QED BY <1>1, <1>2, <1>4, <1>5, LoopStep DEF SyncPcs

LEMMA SkipStep ==
  ASSUME InstanceInv, UNCHANGED staticStartHeight, SkipToHeight \/ LoopQuit
  PROVE  InstanceInv'
<1>1. /\ pc \in {"skip", "loop"} /\ pc' \in {"loop", "exited"}
      /\ UNCHANGED <<chainVars, db, mem, received, booting, sync, criticalErr, laggingTargetChan,
                     lagTarget, stopVars, stops>>
      /\ cursor' = cursor \/ cursor' = mem.lastProcessedHeight + 1
  BY DEF SkipToHeight, LoopQuit, SkipHeight, stateVars, pollerVars, lagVars
<1>2. ~booting /\ received \in Nat /\ cursor \in Nat /\ mem.lastProcessedHeight \in Nat
      /\ db \in StoredFinalityProvider /\ mem \in StoredFinalityProvider
  BY <1>1, NotBooting DEF InstanceInv, Types, LoopPcs, StoredFinalityProvider
<1>3. cursor' \in Nat
  BY <1>1, <1>2
<1>4. ASSUME Progress PROVE Progress'
  <2>1. \A g : Settled(g)' <=> Settled(g)
    BY <1>1 DEF Settled, chainVars
  <2>2. /\ \A g \in 1..(cursor - 1) : Settled(g)
        /\ \A g \in 1..mem.lastProcessedHeight : Settled(g)
    BY <1>1, <1>2, <1>4 DEF Progress, SettledTo
  <2>3. SettledTo(cursor - 1)'
    <3>1. CASE cursor' = cursor
      BY <2>1, <2>2, <3>1 DEF SettledTo
    <3>2. CASE cursor' = mem.lastProcessedHeight + 1
      <4>1. cursor' - 1 = mem.lastProcessedHeight
        BY <1>2, <3>2
      <4> QED BY <2>1, <2>2, <4>1 DEF SettledTo
    <3> QED BY <1>1, <3>1, <3>2
  <2>4. SettledTo(db.lastProcessedHeight)' /\ SettledTo(mem.lastProcessedHeight)'
    BY <1>1, <1>4, <2>1, HeightsKept
  <2> QED BY <1>1, <2>3, <2>4 DEF Progress, SyncPcs
<1>5. StoreInv'
  BY <1>1 DEF InstanceInv, StoreInv, chainVars
<1> QED BY <1>1, <1>2, <1>3, <1>4, <1>5, LoopStep DEF SyncPcs

LEMMA TakeTargetStep ==
  ASSUME InstanceInv, UNCHANGED staticStartHeight, TakeLaggingTarget
  PROVE  InstanceInv'
<1>1. /\ pc = "loop" /\ pc' = "sync" /\ sync' = [NoSync EXCEPT !.end = laggingTargetChan]
      /\ laggingTargetChan' = 0
      /\ UNCHANGED <<tip, finalized, power, votes, standing, db, mem, cursor, received, booting,
                     criticalErr, lagTarget, stopVars, stops>>
  BY DEF TakeLaggingTarget, chainVars, stateVars, pollerVars
<1>2. sync' \in SyncRecord /\ sync'.synced = 0
  BY <1>1 DEF InstanceInv, Types, NoSync, SyncRecord
<1>3. Types' /\ Forward
  BY <1>1, <1>2 DEF InstanceInv, Types, Forward
<1>4. SyncInv' /\ StoreInv'
  BY <1>1, <1>2 DEF InstanceInv, SyncInv, StoreInv
<1>5. ~booting
  BY <1>1, NotBooting DEF LoopPcs
<1>6. Progress => Progress'
  <2>1. \A g \in Nat : Settled(g) => Settled(g)'
    BY <1>3, SettledStays DEF InstanceInv
  <2> QED BY <1>1, <1>5, <2>1 DEF Progress, SettledTo
<1>7. VoteOrder => VoteOrder'
  BY <1>1, <1>3, VoteOrderStays DEF InstanceInv
<1>8. criticalErr' = "ErrFinalityProviderSlashed" => standing = "slashed"
  BY <1>1 DEF InstanceInv, ThreadInv
<1> QED BY <1>1, <1>3, <1>4, <1>5, <1>6, <1>7, <1>8, MainStep

LEMMA MonitorStep ==
  ASSUME InstanceInv, UNCHANGED staticStartHeight, MonitorCriticalErr
  PROVE  InstanceInv'
<1>1. pc = "report" /\ UNCHANGED <<tip, finalized, power, votes, standing, stops>>
  BY DEF MonitorCriticalErr, chainVars
<1>2. Forward /\ (VoteOrder => VoteOrder')
  BY <1>1 DEF Forward, InstanceInv, Types, VoteOrder, Settled
<1>3. CASE db' = db /\ InstanceGone
  <2>1. Types'
    BY <1>1, <1>3 DEF InstanceGone, InstanceInv, Types, NoSync, SyncRecord
  <2> QED BY <1>1, <1>2, <1>3, <2>1, GoneStep
<1>4. CASE /\ HandledAsSlashed(criticalErr)
           /\ SetStatus("SLASHED") /\ pc' = "loop" /\ criticalErr' = "none"
           /\ stopper' = "monitor" /\ stopPc' = "poller"
           /\ UNCHANGED <<pollerVars, booting, failedCycles, sync, lagVars, quit, lastPolled>>
  <2>1. standing = "slashed" /\ ~booting
    BY <1>1, <1>4, NotBooting DEF HandledAsSlashed, InstanceInv, ThreadInv, LoopPcs
  <2>2. /\ db' \in StoredFinalityProvider /\ db'.status = "SLASHED"
        /\ db'.lastVotedHeight = db.lastVotedHeight
        /\ db'.lastProcessedHeight = db.lastProcessedHeight
        /\ mem' \in StoredFinalityProvider
    <3>1. db' = SetFpStatus(db, "SLASHED") /\ mem' = [mem EXCEPT !.status = "SLASHED"]
      BY <1>4 DEF SetStatus
    <3>2. mem' = SetFpStatus(mem, "SLASHED")
      BY <3>1 DEF SetFpStatus
    <3>3. db \in StoredFinalityProvider /\ mem \in StoredFinalityProvider /\ "SLASHED" \in Statuses
      BY DEF InstanceInv, Types, Statuses
    <3> QED BY <3>1, <3>2, <3>3, StatusRecord
  <2>3. Types'
    BY <1>1, <1>4, <2>2 DEF InstanceInv, Types, pollerVars, lagVars
  <2>4. ThreadInv'
    BY <1>1, <1>4, <2>1, <2>2 DEF InstanceInv, ThreadInv
  <2>5. SyncInv' /\ StoreInv'
    BY <1>1, <1>4, <2>2 DEF InstanceInv, SyncInv, StoreInv
  <2>6. ~Active' /\ (Undisturbed' => Undisturbed)
    BY <1>1, <2>2 DEF Active, Undisturbed
  <2> QED BY <1>2, <2>3, <2>4, <2>5, <2>6 DEF InstanceInv
<1> QED BY <1>3, <1>4 DEF MonitorCriticalErr

(***************************************************************************)
(* The invariant and what follows from it.                                 *)
(***************************************************************************)
LEMMA InstanceInvInit ==
  ASSUME Init
  PROVE  InstanceInv
<1>1. /\ db \in StoredFinalityProvider /\ db.status = "REGISTERED"
      /\ db.lastVotedHeight = 0 /\ db.lastProcessedHeight = 0
  <2>1. CreateFinalityProvider \in StoredFinalityProvider /\ CreateFinalityProvider.lastVotedHeight = 0
        /\ CreateFinalityProvider.lastProcessedHeight = 0
    BY DEF CreateFinalityProvider, StoredFinalityProvider, Statuses
  <2>2. "REGISTERED" \in Statuses
    BY DEF Statuses
  <2> QED BY <2>1, <2>2, StatusRecord DEF Init
<1>2. power \subseteq ActivatedHeight..MaxHeight /\ votes = {} /\ tip = 1 /\ finalized = 0
  BY DEF Init, ChainInit
<1>3. Types
  BY <1>1, <1>2, InstanceAssumption DEF Init, Types, NoSync, SyncRecord
<1>4. ThreadInv /\ SyncInv
  BY <1>1 DEF Init, ThreadInv, SyncInv
<1>5. StoreInv
  BY <1>1 DEF StoreInv
<1>6. VoteOrder
  BY <1>2 DEF VoteOrder
<1>7. mem.lastProcessedHeight = 0 /\ pc = "down"
  BY <1>1 DEF Init
<1>8. Progress
  <2>1. SettledTo(db.lastProcessedHeight) /\ SettledTo(mem.lastProcessedHeight)
    BY <1>1, <1>7 DEF SettledTo
  <2> QED BY <1>7, <2>1 DEF Progress, SyncPcs
<1> QED BY <1>3, <1>4, <1>5, <1>6, <1>8 DEF InstanceInv

LEMMA InstanceInvNext ==
  ASSUME InstanceInv, [Next]_vars
  PROVE  InstanceInv'
<1>1. CASE UNCHANGED vars
  <2>1. UNCHANGED <<staticStartHeight, tip, finalized, power, votes, standing, db, mem, cursor, received,
                    pc, booting, sync, criticalErr, laggingTargetChan, lagTarget, quit, stopPc, stopper, stops>>
    BY <1>1 DEF vars, chainVars, stateVars, pollerVars, loopVars, lagVars, stopVars
  <2>2. Types' /\ Forward
    BY <2>1 DEF InstanceInv, Types, Forward
  <2>3. ThreadInv'
    BY <2>1 DEF InstanceInv, ThreadInv
  <2> QED BY <2>1, <2>2, <2>3, AsideStep DEF stateVars, pollerVars
<1>2. CASE Next
  <2>1. UNCHANGED staticStartHeight /\ Step
    BY <1>2 DEF Next
  <2>2. CASE FastSync
    BY <2>1, <2>2, TryFastSyncStep, FastSyncRoundStep, SubmitBatchStep, RecordBatchStep,
       FastSyncDoneStep DEF FastSync
  <2>3. CASE Vote
    BY <2>1, <2>3, SubmitStep, RecordVoteStep, RetryStep DEF Vote
  <2>4. CASE Stop
    BY <2>1, <2>4, StopStep, DroppedStep DEF Stop
  <2> QED BY <2>1, <2>2, <2>3, <2>4, ChainStep, DroppedStep, StartStep, StartPollerStep,
       ReceiveBlockStep, RetryStep, TakeTargetStep, SkipStep, LaggingStep, MonitorStep, StopStep
       DEF Step
<1> QED BY <1>1, <1>2

\* The invariant holds of every behaviour of an instance.
LEMMA InstanceInvHolds == Spec => []InstanceInv
<1>1. Init => InstanceInv
  BY InstanceInvInit
<1>2. InstanceInv /\ [Next]_vars => InstanceInv'
  BY InstanceInvNext
<1> QED BY <1>1, <1>2, PTL DEF Spec

\* Votes are cast in the order of the heights, over any number of crashes,
\* restarts, lost answers and fast syncs, as long as the daemon has stopped
\* no instance (Stop interrupts the retries of a block and the loop may still
\* take the next one) and a static start height is below the activated one
\* (a higher one leaves out the blocks in between).
THEOREM VotesAreCastInOrder ==
  Spec => [](stops = 0 /\ staticStartHeight < ActivatedHeight => VoteOrder)
<1>1. InstanceInv => (stops = 0 /\ staticStartHeight < ActivatedHeight => VoteOrder)
  BY DEF InstanceInv, Undisturbed
<1> QED BY <1>1, InstanceInvHolds, PTL

\* Under the same conditions a restart from the store misses no block: what
\* it holds as voted is on the chain and what it holds as processed is
\* settled there.
THEOREM TheStoreTellsTheTruth ==
  Spec => [](stops = 0 /\ staticStartHeight < ActivatedHeight => StoredProgressIsReal)
<1>1. InstanceInv => (stops = 0 /\ staticStartHeight < ActivatedHeight => StoredProgressIsReal)
  BY DEF InstanceInv, Active, Undisturbed, Progress, SettledTo, StoreInv, StoredProgressIsReal
<1> QED BY <1>1, InstanceInvHolds, PTL

\* Every write to the record goes through one of three transitions.
LEMMA RecordChanges ==
  ASSUME InstanceInv, [Next]_vars
  PROVE  \/ db' = db
         \/ \E s \in Statuses : db' = SetFpStatus(db, s)
         \/ \E h \in Nat : db' = SetFpLastProcessedHeight(db, h) \/ db' = SetFpLastVotedHeight(db, h)
<1> DEFINE Changes == \/ db' = db
                      \/ \E s \in Statuses : db' = SetFpStatus(db, s)
                      \/ \E h \in Nat : \/ db' = SetFpLastProcessedHeight(db, h)
                                        \/ db' = SetFpLastVotedHeight(db, h)
<1>1. cursor \in Nat /\ received \in Nat /\ sync.synced \in Nat
  BY DEF InstanceInv, Types, SyncRecord
<1>2. ASSUME NEW err, SyncFails(err) PROVE Changes
  BY <1>2 DEF SyncFails, stateVars, Statuses
<1>3. CASE RecordBatch
  <2>1. sync.batch \in SUBSET (1..(sync.start - 1)) /\ sync.batch # {} /\ sync.start - 1 \in Nat
    BY <1>1, <1>3 DEF RecordBatch, InstanceInv, Types, SyncInv, SyncRecord
  <2>2. Max(sync.batch) \in Nat
    BY <2>1, LargestExists
  <2> QED BY <1>3, <2>2 DEF RecordBatch, SetLastProcessedAndVotedHeight
<1>4. CASE TryFastSync \/ FastSyncRound \/ SubmitBatch
  BY <1>2, <1>4 DEF TryFastSync, FastSyncRound, SubmitBatch, stateVars
<1>5. CASE FastSyncDone \/ ReceiveBlock \/ RecordVote
  BY <1>1, <1>5 DEF FastSyncDone, ReceiveBlock, RecordVote, SetLastProcessedHeight,
     SetLastProcessedAndVotedHeight, stateVars
<1>6. CASE MonitorCriticalErr
  BY <1>6 DEF MonitorCriticalErr, SetStatus, Statuses
<1>7. CASE \/ NewBlock \/ FinalizeBlock \/ Punish \/ Crash \/ StartInstance \/ StartPoller \/ StartFails
           \/ DaemonStops \/ Stop
  BY <1>7 DEF NewBlock, FinalizeBlock, Punish, Crash, StartInstance, StartPoller, StartFails,
     DaemonStops, Stop, PollerStopped, CloseQuit, StopReturns, stateVars
<1>8. CASE \/ SubmitFinalitySignature \/ RetryInterval \/ RetryQuit \/ TakeLaggingTarget
           \/ SkipToHeight \/ LoopQuit \/ LaggingFound \/ SendLaggingTarget \/ LaggingQuit
  BY <1>8 DEF SubmitFinalitySignature, RetryInterval, RetryQuit, TakeLaggingTarget, SkipToHeight,
     LoopQuit, LaggingFound, SendLaggingTarget, LaggingQuit, stateVars
<1>9. CASE UNCHANGED vars
  BY <1>9 DEF vars, stateVars
<1> QED BY <1>3, <1>4, <1>5, <1>6, <1>7, <1>8, <1>9 DEF Next, Step, FastSync, Vote

\* The stored heights never move back, whatever height fast sync, the loop or
\* a restarted instance writes, and for every configuration.
THEOREM StoredHeightsNeverFall == Spec => StoredHeightsRise
<1> DEFINE A == /\ db'.lastVotedHeight >= db.lastVotedHeight
                /\ db'.lastProcessedHeight >= db.lastProcessedHeight
<1>1. InstanceInv /\ [Next]_vars => [A]_vars
  <2> SUFFICES ASSUME InstanceInv, [Next]_vars PROVE A
    OBVIOUS
  <2>1. db \in StoredFinalityProvider /\ db.lastVotedHeight \in Nat /\ db.lastProcessedHeight \in Nat
    BY DEF InstanceInv, Types, StoredFinalityProvider
  <2>2. CASE db' = db
    BY <2>1, <2>2
  <2>3. CASE \E s \in Statuses : db' = SetFpStatus(db, s)
    BY <2>1, <2>3, StatusRecord
  <2>4. ASSUME NEW h \in Nat, db' = SetFpLastProcessedHeight(db, h) PROVE A
    <3>1. /\ db'.lastVotedHeight = db.lastVotedHeight
          /\ db'.lastProcessedHeight = Larger(db.lastProcessedHeight, h)
      BY <2>1, <2>4, ProcessedRecord, Zenon
    <3> QED BY <2>1, <2>4, <3>1 DEF Larger
  <2>5. ASSUME NEW h \in Nat, db' = SetFpLastVotedHeight(db, h) PROVE A
    <3>1. /\ db'.lastVotedHeight = Larger(db.lastVotedHeight, h)
          /\ db'.lastProcessedHeight = Larger(db.lastProcessedHeight, h)
      BY <2>1, <2>5, VotedRecord, Zenon
    <3> QED BY <2>1, <2>5, <3>1 DEF Larger
  <2> QED BY <2>2, <2>3, <2>4, <2>5, RecordChanges
<1> QED BY <1>1, InstanceInvHolds, PTL DEF Spec, StoredHeightsRise

\* Whatever the configuration and however often instances are stopped, the
\* store holds no voted height without a vote on the chain, and the processed
\* height is never behind the voted one: an accepted vote is recorded after it
\* was accepted, in one transition of the store (SetFpLastVotedHeight).
THEOREM RecordedVotesAreReal == Spec => []StoreInv
<1>1. InstanceInv => StoreInv
  BY DEF InstanceInv
<1> QED BY <1>1, InstanceInvHolds, PTL

-----------------------------------------------------------------------------
(* Nothing is ahead of the chain.                                          *)

\* A finality signature is for a block that exists and in which the provider has
\* voting power.
VotesHavePower == \A h \in votes : h \in power /\ h <= tip

BehindTip(fp) == fp.lastVotedHeight <= tip /\ fp.lastProcessedHeight <= tip

SyncReached ==
  /\ sync.start <= tip + 1 /\ sync.end <= tip /\ sync.synced <= tip
  /\ \A b \in sync.batch : b \in power /\ b <= tip

\* The poller waits for the next block, or for the activated height.
LoopReached ==
  /\ received <= tip
  /\ pc \in {"vote", "retry", "recordVote"} => received \in power
  /\ cursor <= Larger(tip + 1, ActivatedHeight)

LagReached == laggingTargetChan <= tip /\ lagTarget <= tip

\* Every height that a thread, a channel or the store holds is one the chain has
\* reached.
Reached ==
  /\ tip \in Heights /\ finalized <= tip
  /\ VotesHavePower
  /\ BehindTip(db) /\ BehindTip(mem)
  /\ SyncReached /\ LoopReached /\ LagReached

HeightTypes ==
  /\ tip \in Nat /\ finalized \in Nat /\ cursor \in Nat /\ received \in Nat
  /\ laggingTargetChan \in Nat /\ lagTarget \in Nat
  /\ mem.lastVotedHeight \in Nat /\ mem.lastProcessedHeight \in Nat
  /\ db.lastVotedHeight \in Nat /\ db.lastProcessedHeight \in Nat
  /\ sync.start \in Nat /\ sync.end \in Nat /\ sync.synced \in Nat
  /\ staticStartHeight \in Nat
  /\ votes \subseteq Nat /\ sync.batch \subseteq Nat
  /\ \A h \in power : h \in Nat /\ h >= 1 /\ h <= MaxHeight

LEMMA ConstantHeights ==
  ActivatedHeight \in Nat /\ ActivatedHeight <= MaxHeight /\ MaxHeight \in Nat /\ FastSyncLimit \in Nat \ {0}
BY InstanceAssumption

LEMMA LargerRises ==
  ASSUME NEW a \in Nat, NEW b \in Nat, NEW c \in Nat, a <= b
  PROVE  Larger(a, c) \in Nat /\ Larger(b, c) \in Nat /\ Larger(a, c) <= Larger(b, c)
BY DEF Larger

LEMMA HeightsAreNat ==
  ASSUME InstanceInv
  PROVE  HeightTypes
<1>1. \A h \in power : h \in Nat /\ h >= 1 /\ h <= MaxHeight
  BY InstanceAssumption DEF InstanceInv, Types
<1> QED BY <1>1 DEF InstanceInv, Types, StoredFinalityProvider, SyncRecord, HeightTypes

\* The chain moves on; the power in the blocks that exist stays.
LEMMA ChainReached ==
  ASSUME InstanceInv, Reached, NewBlock \/ FinalizeBlock \/ Punish
  PROVE  Reached'
<1>0. HeightTypes
  BY HeightsAreNat
<1>1. UNCHANGED <<db, mem, cursor, received, pc, sync, laggingTargetChan, lagTarget, votes>>
  BY DEF NewBlock, FinalizeBlock, Punish, stateVars, pollerVars, loopVars, lagVars
<1>2. tip' \in Heights /\ tip' \in Nat /\ tip <= tip' /\ finalized' <= tip'
  <2>1. tip \in Nat /\ finalized \in Nat /\ finalized <= tip /\ tip >= 1 /\ tip <= MaxHeight
    BY <1>0, ConstantHeights DEF HeightTypes, Reached, Heights
  <2>2. CASE NewBlock
    BY <2>1, <2>2, ConstantHeights DEF NewBlock, Heights
  <2>3. CASE FinalizeBlock
    BY <2>1, <2>3, ConstantHeights DEF FinalizeBlock, Heights
  <2>4. CASE Punish
    BY <2>1, <2>4, ConstantHeights DEF Punish, Heights
  <2> QED BY <2>2, <2>3, <2>4
<1>3. \A h \in power : h <= tip => h \in power'
  <2>1. CASE Punish
    <3>1. \A h \in power : h <= tip => h \in 1..tip
      BY <1>0 DEF HeightTypes
    <3> QED BY <2>1, <3>1 DEF Punish
  <2> QED BY <2>1 DEF NewBlock, FinalizeBlock
<1>4. VotesHavePower' /\ \A b \in sync'.batch : b \in power' /\ b <= tip'
  <2>1. \A h \in Nat : h <= tip => h <= tip'
    BY <1>0, <1>2 DEF HeightTypes
  <2> QED BY <1>0, <1>1, <1>3, <2>1 DEF HeightTypes, Reached, VotesHavePower, SyncReached
<1>5. BehindTip(db)' /\ BehindTip(mem)' /\ LagReached'
  BY <1>0, <1>1, <1>2 DEF HeightTypes, Reached, BehindTip, LagReached
<1>6. SyncReached'
  <2>1. sync.start <= tip' + 1 /\ sync.end <= tip' /\ sync.synced <= tip'
    BY <1>0, <1>2 DEF HeightTypes, Reached, SyncReached
  <2> QED BY <1>1, <1>4, <2>1 DEF SyncReached
<1>7. LoopReached'
  <2>1. received <= tip' /\ cursor <= Larger(tip' + 1, ActivatedHeight)
    <3>1. tip \in Nat /\ cursor \in Nat /\ received \in Nat
      BY <1>0 DEF HeightTypes
    <3>2. PICK n \in Nat : tip' = n /\ tip <= n
      BY <1>2
    <3>3. received <= tip /\ cursor <= Larger(tip + 1, ActivatedHeight)
      BY DEF Reached, LoopReached
    <3>4. tip + 1 \in Nat /\ n + 1 \in Nat /\ tip + 1 <= n + 1
      BY <3>1, <3>2
    <3>5. Larger(tip + 1, ActivatedHeight) \in Nat /\ Larger(n + 1, ActivatedHeight) \in Nat
          /\ Larger(tip + 1, ActivatedHeight) <= Larger(n + 1, ActivatedHeight)
      BY <3>4, LargerRises, ConstantHeights, Zenon
    <3>6. received <= n /\ cursor <= Larger(n + 1, ActivatedHeight)
      BY <3>1, <3>2, <3>3, <3>5
    <3> QED BY <3>2, <3>6
  <2> QED BY <1>1, <1>3, <2>1 DEF Reached, LoopReached
<1> QED BY <1>2, <1>4, <1>5, <1>6, <1>7 DEF Reached

\* The instance is gone; the store keeps its heights.
LEMMA GoneReached ==
  ASSUME InstanceInv, Reached, InstanceGone, UNCHANGED <<tip, finalized, power>>, VotesHavePower',
         db'.lastVotedHeight = db.lastVotedHeight, db'.lastProcessedHeight = db.lastProcessedHeight
  PROVE  Reached'
<1>1. /\ mem' = db' /\ received' = 0 /\ cursor' = 0 /\ pc' = "down"
      /\ laggingTargetChan' = 0 /\ lagTarget' = 0
      /\ sync'.start = 0 /\ sync'.end = 0 /\ sync'.synced = 0 /\ sync'.batch = {}
  BY DEF InstanceGone, NoSync
<1>2. BehindTip(db)' /\ BehindTip(mem)'
  BY <1>1 DEF Reached, BehindTip
<1>3. tip \in Nat
  BY HeightsAreNat DEF HeightTypes
<1>4. SyncReached' /\ LagReached'
  BY <1>1, <1>3 DEF SyncReached, LagReached
<1>5. LoopReached'
  BY <1>1, <1>3, ConstantHeights DEF LoopReached, Larger
<1> QED BY <1>2, <1>4, <1>5 DEF Reached

\* Steps that leave every height where it is, or hand it over.
LEMMA AsideReached ==
  ASSUME InstanceInv, Reached,
         \/ LaggingFound \/ SendLaggingTarget \/ LaggingQuit \/ DaemonStops \/ PollerStopped \/ CloseQuit
         \/ RetryInterval \/ RetryQuit \/ LoopQuit
  PROVE  Reached'
<1>1. UNCHANGED <<tip, finalized, power, votes, db, mem, cursor, received, sync>>
  BY Zenon DEF LaggingFound, SendLaggingTarget, LaggingQuit, DaemonStops, PollerStopped, CloseQuit, RetryInterval,
     RetryQuit, LoopQuit, chainVars, stateVars, pollerVars, loopVars
<1>2. pc' = pc \/ pc = "retry" \/ pc' = "exited"
  BY Zenon DEF LaggingFound, SendLaggingTarget, LaggingQuit, DaemonStops, PollerStopped, CloseQuit, RetryInterval,
     RetryQuit, LoopQuit, loopVars
<1>3. /\ laggingTargetChan' \in {laggingTargetChan, lagTarget}
      /\ lagTarget' \in {lagTarget, tip, 0}
  BY Zenon DEF LaggingFound, SendLaggingTarget, LaggingQuit, DaemonStops, PollerStopped, CloseQuit, RetryInterval,
     RetryQuit, LoopQuit, lagVars
<1>4. LagReached'
  <2>1. tip \in Nat /\ laggingTargetChan <= tip /\ lagTarget <= tip
    BY HeightsAreNat DEF HeightTypes, Reached, LagReached
  <2> QED BY <1>1, <1>3, <2>1 DEF LagReached
<1> QED BY <1>1, <1>2, <1>4 DEF Reached, VotesHavePower, BehindTip, SyncReached, LoopReached

\* A step of Start or of the submission loop.
LEMMA MainReached ==
  ASSUME Reached, UNCHANGED <<tip, finalized, power, laggingTargetChan, lagTarget>>, VotesHavePower',
         BehindTip(db)', BehindTip(mem)', SyncReached', LoopReached'
  PROVE  Reached'
BY DEF Reached, LagReached

\* A height that the chain has reached may be recorded.
LEMMA RecordingReached ==
  ASSUME InstanceInv, Reached, tip' = tip, NEW h \in Nat, h <= tip,
         SetLastProcessedHeight(h) \/ SetLastProcessedAndVotedHeight(h)
  PROVE  BehindTip(db)' /\ BehindTip(mem)'
<1>1. HeightTypes /\ db \in StoredFinalityProvider /\ mem \in StoredFinalityProvider
  BY HeightsAreNat DEF InstanceInv, Types
<1>2. /\ db'.lastVotedHeight \in {db.lastVotedHeight, Larger(db.lastVotedHeight, h)}
      /\ db'.lastProcessedHeight = Larger(db.lastProcessedHeight, h)
  BY <1>1, ProcessedRecord, VotedRecord DEF SetLastProcessedHeight, SetLastProcessedAndVotedHeight
<1>3. mem'.lastVotedHeight \in {mem.lastVotedHeight, h} /\ mem'.lastProcessedHeight = h
  BY <1>1, Zenon DEF SetLastProcessedHeight, SetLastProcessedAndVotedHeight, StoredFinalityProvider
<1>4. BehindTip(db) /\ BehindTip(mem)
  BY DEF Reached
<1> QED BY <1>1, <1>2, <1>3, <1>4, Zenon DEF HeightTypes, BehindTip, Larger

LEMMA SyncFailsReached ==
  ASSUME InstanceInv, Reached, NEW err, SyncFails(err), UNCHANGED <<tip, finalized, power>>, VotesHavePower'
  PROVE  Reached'
<1>1. CASE booting
  <2>1. InstanceGone /\ (db' = db \/ db' = SetFpStatus(db, "JAILED"))
    BY <1>1 DEF SyncFails
  <2>2. "JAILED" \in Statuses /\ db \in StoredFinalityProvider
    BY DEF Statuses, InstanceInv, Types
  <2>3. db'.lastVotedHeight = db.lastVotedHeight /\ db'.lastProcessedHeight = db.lastProcessedHeight
    BY <2>1, <2>2, StatusRecord
  <2> QED BY <2>1, <2>3, GoneReached
<1>2. CASE ~booting
  <2>1. /\ sync' = NoSync /\ pc' \in {"report", "loop"}
        /\ UNCHANGED <<db, mem, cursor, received, laggingTargetChan, lagTarget>>
    BY <1>2 DEF SyncFails, stateVars, pollerVars
  <2>2. tip \in Nat
    BY HeightsAreNat DEF HeightTypes
  <2>3. SyncReached'
    BY <2>1, <2>2 DEF SyncReached, NoSync
  <2>4. LoopReached' /\ BehindTip(db)' /\ BehindTip(mem)'
    BY <2>1 DEF Reached, LoopReached, BehindTip
  <2> QED BY <2>1, <2>3, <2>4, MainReached
<1> QED BY <1>1, <1>2

LEMMA StartReached ==
  ASSUME InstanceInv, Reached, StartInstance \/ StartPoller
  PROVE  Reached'
<1>1. /\ UNCHANGED <<tip, finalized, power, votes, db, received, laggingTargetChan, lagTarget>>
      /\ mem' \in {mem, db}
  BY DEF StartInstance, StartPoller, chainVars, pollerVars, stateVars, lagVars
<1>2. VotesHavePower' /\ BehindTip(db)' /\ BehindTip(mem)'
  BY <1>1 DEF Reached, VotesHavePower, BehindTip
<1>3. SyncReached'
  <2>1. tip \in Nat
    BY HeightsAreNat DEF HeightTypes
  <2>2. sync' = sync \/ sync' = [NoSync EXCEPT !.end = tip]
    BY DEF StartInstance, StartPoller
  <2>3. CASE sync' = [NoSync EXCEPT !.end = tip]
    BY <1>1, <2>1, <2>3 DEF SyncReached, NoSync
  <2> QED BY <1>1, <2>2, <2>3 DEF Reached, SyncReached
<1>4. LoopReached'
  <2>1. CASE StartInstance
    BY <1>1, <2>1 DEF StartInstance, pollerVars, Reached, LoopReached
  <2>2. CASE StartPoller
    <3>1. PollerStartingHeight \in Nat
      BY HeightsAreNat DEF HeightTypes, PollerStartingHeight, Larger
    <3>2. PollerStartingHeight <= tip /\ cursor' = Larger(PollerStartingHeight + 1, ActivatedHeight)
          /\ pc' = "loop"
      BY <2>2 DEF StartPoller
    <3>3. tip \in Nat
      BY HeightsAreNat DEF HeightTypes
    <3>4. cursor' <= Larger(tip + 1, ActivatedHeight)
      BY <3>1, <3>2, <3>3, ConstantHeights DEF Larger
    <3> QED BY <1>1, <3>2, <3>4 DEF Reached, LoopReached
  <2> QED BY <2>1, <2>2
<1> QED BY <1>1, <1>2, <1>3, <1>4, MainReached

LEMMA TryFastSyncReached ==
  ASSUME InstanceInv, Reached, TryFastSync
  PROVE  Reached'
<1>1. UNCHANGED <<tip, finalized, power, votes>>
  BY DEF TryFastSync, chainVars
<1>2. VotesHavePower'
  BY <1>1 DEF Reached, VotesHavePower
<1>3. CASE \E err : SyncFails(err)
  BY <1>1, <1>2, <1>3, SyncFailsReached
<1>4. CASE /\ UNCHANGED <<stateVars, pollerVars, laggingTargetChan, lagTarget>>
           /\ pc' \in {"startPoller", "loop", "round"}
           /\ \/ sync' = NoSync
              \/ SyncStartHeight <= sync.end /\ sync' = [sync EXCEPT !.start = SyncStartHeight]
  <2>1. UNCHANGED <<db, mem, cursor, received, laggingTargetChan, lagTarget>>
    BY <1>4 DEF stateVars, pollerVars
  <2>2. HeightTypes /\ sync \in SyncRecord
    BY HeightsAreNat DEF InstanceInv, Types
  <2>3. SyncStartHeight \in Nat
    BY <2>2 DEF HeightTypes, SyncStartHeight, Larger
  <2>4. SyncReached'
    <3>1. CASE sync' = NoSync
      BY <1>1, <2>2, <3>1 DEF HeightTypes, SyncReached, NoSync
    <3>2. CASE SyncStartHeight <= sync.end /\ sync' = [sync EXCEPT !.start = SyncStartHeight]
      <4>1. /\ sync'.start = SyncStartHeight /\ sync'.end = sync.end /\ sync'.synced = sync.synced
            /\ sync'.batch = sync.batch
        BY <2>2, <3>2 DEF SyncRecord
      <4>2. sync'.start <= tip + 1
        BY <2>2, <2>3, <3>2, <4>1 DEF HeightTypes, Reached, SyncReached
      <4> QED BY <1>1, <4>1, <4>2 DEF Reached, SyncReached
    <3> QED BY <1>4, <3>1, <3>2
  <2>5. LoopReached' /\ BehindTip(db)' /\ BehindTip(mem)'
    BY <1>1, <1>4, <2>1 DEF Reached, LoopReached, BehindTip
  <2> QED BY <1>1, <1>2, <2>1, <2>4, <2>5, MainReached
<1> QED BY <1>3, <1>4 DEF TryFastSync, lagVars

LEMMA FastSyncRoundReached ==
  ASSUME InstanceInv, Reached, FastSyncRound
  PROVE  Reached'
<1> DEFINE last == Min({sync.end, sync.start + FastSyncLimit - 1})
           catchUp == {b \in sync.start..last : ~HasProcessed(b) /\ b \in power}
<1>1. UNCHANGED <<tip, finalized, power, votes>>
  BY DEF FastSyncRound, chainVars
<1>2. VotesHavePower'
  BY <1>1 DEF Reached, VotesHavePower
<1>3. CASE \E err : SyncFails(err)
  BY <1>1, <1>2, <1>3, SyncFailsReached
<1>4. CASE /\ UNCHANGED <<stateVars, pollerVars, laggingTargetChan, lagTarget>>
           /\ pc' \in {pc, "batch"} /\ pc = "round"
           /\ \/ sync' = [sync EXCEPT !.start = last + 1]
              \/ /\ catchUp # {}
                 /\ sync' = [sync EXCEPT !.start = last + 1, !.batch = catchUp, !.synced = Max(catchUp)]
  <2>1. UNCHANGED <<db, mem, cursor, received, laggingTargetChan, lagTarget>>
    BY <1>4 DEF stateVars, pollerVars
  <2>2. HeightTypes /\ sync \in SyncRecord
    BY HeightsAreNat DEF InstanceInv, Types
  <2>3. last \in Nat /\ last <= tip
    <3>1. sync.end \in Nat /\ sync.start + FastSyncLimit - 1 \in Nat
      BY <2>2, ConstantHeights DEF HeightTypes
    <3>2. last \in {sync.end, sync.start + FastSyncLimit - 1} /\ last <= sync.end
      BY <3>1, SmallerOfTwo
    <3> HIDE DEF last
    <3> QED BY <2>2, <3>1, <3>2 DEF HeightTypes, Reached, SyncReached
  <2> HIDE DEF last
  <2>4. \A b \in catchUp : b \in power /\ b <= tip /\ b \in 1..last
    BY <2>2, <2>3 DEF HeightTypes
  <2> HIDE DEF catchUp
  <2>5. catchUp # {} => Max(catchUp) \in Nat /\ Max(catchUp) <= tip
    <3>1. catchUp \in SUBSET (1..last)
      BY <2>4
    <3>2. catchUp # {} => Max(catchUp) \in Nat /\ Max(catchUp) <= last
      BY <2>3, <3>1, LargestExists
    <3> QED BY <2>2, <2>3, <3>2 DEF HeightTypes
  <2>6. last + 1 <= tip + 1
    BY <2>2, <2>3 DEF HeightTypes
  <2>7. SyncReached'
    <3>1. CASE sync' = [sync EXCEPT !.start = last + 1]
      <4>1. /\ sync'.start = last + 1 /\ sync'.end = sync.end /\ sync'.synced = sync.synced
            /\ sync'.batch = sync.batch
        BY <2>2, <3>1 DEF SyncRecord
      <4> QED BY <1>1, <2>6, <4>1 DEF Reached, SyncReached
    <3>2. CASE /\ catchUp # {}
               /\ sync' = [sync EXCEPT !.start = last + 1, !.batch = catchUp, !.synced = Max(catchUp)]
      <4>1. /\ sync'.start = last + 1 /\ sync'.end = sync.end /\ sync'.synced = Max(catchUp)
            /\ sync'.batch = catchUp
        BY <2>2, <3>2 DEF SyncRecord
      <4> QED BY <1>1, <2>4, <2>5, <2>6, <3>2, <4>1 DEF Reached, SyncReached
    <3> QED BY <1>4, <3>1, <3>2
  <2>8. LoopReached' /\ BehindTip(db)' /\ BehindTip(mem)'
    BY <1>1, <1>4, <2>1 DEF Reached, LoopReached, BehindTip
  <2> QED BY <1>1, <1>2, <2>1, <2>7, <2>8, MainReached
<1> QED BY <1>3, <1>4, Zenon DEF FastSyncRound, lagVars

LEMMA SubmitBatchReached ==
  ASSUME InstanceInv, Reached, SubmitBatch
  PROVE  Reached'
<1>1. UNCHANGED <<tip, finalized, power>> /\ votes' \in {votes, votes \cup sync.batch}
  BY DEF SubmitBatch
<1>2. VotesHavePower'
  BY <1>1 DEF Reached, VotesHavePower, SyncReached
<1>3. CASE \E err : SyncFails(err)
  BY <1>1, <1>2, <1>3, SyncFailsReached
<1>4. CASE UNCHANGED <<stateVars, pollerVars, sync, lagVars>> /\ pc' = "recordBatch"
  <2>1. UNCHANGED <<db, mem, cursor, received, laggingTargetChan, lagTarget>>
    BY <1>4 DEF stateVars, pollerVars, lagVars
  <2>2. SyncReached' /\ LoopReached' /\ BehindTip(db)' /\ BehindTip(mem)'
    BY <1>1, <1>4, <2>1, Zenon DEF Reached, SyncReached, LoopReached, BehindTip
  <2> QED BY <1>1, <1>2, <2>1, <2>2, MainReached, Zenon
<1> QED BY <1>3, <1>4 DEF SubmitBatch

LEMMA RecordSyncReached ==
  ASSUME InstanceInv, Reached, RecordBatch \/ FastSyncDone
  PROVE  Reached'
<1>1. UNCHANGED <<tip, finalized, power, votes, cursor, received, laggingTargetChan, lagTarget>>
  BY DEF RecordBatch, FastSyncDone, chainVars, pollerVars, lagVars
<1>2. HeightTypes /\ sync \in SyncRecord
  BY HeightsAreNat DEF InstanceInv, Types
<1>3. VotesHavePower' /\ LoopReached'
  <2>1. pc' \in {"round", "startPoller", "skip"}
    BY DEF RecordBatch, FastSyncDone
  <2> QED BY <1>1, <2>1 DEF Reached, VotesHavePower, LoopReached
<1>4. CASE RecordBatch
  <2>1. sync.batch \in SUBSET (1..(sync.start - 1)) /\ sync.batch # {} /\ sync.start - 1 \in Nat
    BY <1>2, <1>4 DEF RecordBatch, InstanceInv, SyncInv, HeightTypes
  <2>2. Max(sync.batch) \in sync.batch /\ Max(sync.batch) \in Nat
    BY <2>1, LargestExists
  <2>3. Max(sync.batch) <= tip
    BY <2>2 DEF Reached, SyncReached
  <2>4. BehindTip(db)' /\ BehindTip(mem)'
    BY <1>1, <1>4, <2>2, <2>3, RecordingReached DEF RecordBatch
  <2>5. /\ sync'.start = sync.start /\ sync'.end = sync.end /\ sync'.synced = sync.synced
        /\ sync'.batch = {}
    BY <1>2, <1>4 DEF RecordBatch, SyncRecord
  <2>6. SyncReached'
    BY <1>1, <2>5 DEF Reached, SyncReached
  <2> QED BY <1>1, <1>3, <2>4, <2>6, MainReached
<1>5. CASE FastSyncDone
  <2>1. sync.synced \in Nat /\ sync.synced <= tip
    BY <1>2 DEF HeightTypes, Reached, SyncReached
  <2>2. BehindTip(db)' /\ BehindTip(mem)'
    BY <1>1, <1>5, <2>1, RecordingReached DEF FastSyncDone
  <2>3. sync'.start = 0 /\ sync'.end = 0 /\ sync'.synced = 0 /\ sync'.batch = {}
    BY <1>5, Zenon DEF FastSyncDone, NoSync
  <2>4. tip \in Nat
    BY <1>2 DEF HeightTypes
  <2>5. SyncReached'
    BY <1>1, <2>3, <2>4 DEF SyncReached
  <2> QED BY <1>1, <1>3, <2>2, <2>5, MainReached
<1> QED BY <1>4, <1>5

LEMMA ReceiveReached ==
  ASSUME InstanceInv, Reached, ReceiveBlock
  PROVE  Reached'
<1>1. /\ UNCHANGED <<tip, finalized, power, votes, sync, laggingTargetChan, lagTarget>>
      /\ cursor <= tip /\ received' = cursor /\ cursor' = cursor + 1 /\ pc = "loop"
  BY DEF ReceiveBlock, chainVars, lagVars, Poller!Deliver
<1>2. tip \in Nat /\ cursor \in Nat
  BY HeightsAreNat DEF HeightTypes
<1>3. pc' = "vote" => cursor \in power
  BY <1>1 DEF ReceiveBlock, Report
<1>4. pc' \in {"loop", "vote", "report"}
  BY <1>1 DEF ReceiveBlock, Report
<1>5. LoopReached'
  <2>1. cursor + 1 <= Larger(tip + 1, ActivatedHeight)
    BY <1>1, <1>2, ConstantHeights DEF Larger
  <2> QED BY <1>1, <1>3, <1>4, <2>1 DEF LoopReached
<1>6. BehindTip(db)' /\ BehindTip(mem)'
  <2>1. CASE UNCHANGED stateVars
    BY <1>1, <2>1 DEF stateVars, Reached, BehindTip
  <2>2. CASE SetLastProcessedHeight(cursor)
    BY <1>1, <1>2, <2>2, RecordingReached
  <2> QED BY <2>1, <2>2 DEF ReceiveBlock
<1>7. VotesHavePower' /\ SyncReached'
  BY <1>1 DEF Reached, VotesHavePower, SyncReached
<1> QED BY <1>1, <1>5, <1>6, <1>7, MainReached

LEMMA VoteReached ==
  ASSUME InstanceInv, Reached, SubmitFinalitySignature \/ RecordVote
  PROVE  Reached'
<1>1. /\ UNCHANGED <<tip, finalized, power, cursor, received, sync, laggingTargetChan, lagTarget>>
      /\ pc \in {"vote", "recordVote"}
  BY DEF SubmitFinalitySignature, RecordVote, chainVars, pollerVars, lagVars
<1>2. received \in power /\ received <= tip /\ received \in Nat
  BY <1>1, HeightsAreNat DEF HeightTypes, Reached, LoopReached
<1>3. votes' \in {votes, votes \cup {received}}
  BY DEF SubmitFinalitySignature, RecordVote, chainVars
<1>4. VotesHavePower' /\ SyncReached' /\ LoopReached'
  BY <1>1, <1>2, <1>3 DEF Reached, VotesHavePower, SyncReached, LoopReached
<1>5. BehindTip(db)' /\ BehindTip(mem)'
  <2>1. CASE UNCHANGED stateVars
    BY <1>1, <2>1 DEF stateVars, Reached, BehindTip
  <2>2. CASE RecordVote
    BY <1>1, <1>2, <2>2, RecordingReached DEF RecordVote
  <2> QED BY <2>1, <2>2 DEF SubmitFinalitySignature
<1> QED BY <1>1, <1>4, <1>5, MainReached

LEMMA TargetReached ==
  ASSUME InstanceInv, Reached, TakeLaggingTarget \/ SkipToHeight
  PROVE  Reached'
<1>1. UNCHANGED <<tip, finalized, power, votes, db, mem, received, lagTarget>>
  BY DEF TakeLaggingTarget, SkipToHeight, chainVars, stateVars, pollerVars, lagVars
<1>2. HeightTypes
  BY HeightsAreNat
<1>3. VotesHavePower' /\ BehindTip(db)' /\ BehindTip(mem)'
  BY <1>1 DEF Reached, VotesHavePower, BehindTip
<1>4. CASE TakeLaggingTarget
  <2>1. /\ UNCHANGED cursor /\ pc' = "sync" /\ laggingTargetChan' = 0
        /\ sync' = [NoSync EXCEPT !.end = laggingTargetChan]
    BY <1>4 DEF TakeLaggingTarget, pollerVars
  <2>2. tip \in Nat /\ laggingTargetChan <= tip
    BY <1>2 DEF HeightTypes, Reached, LagReached
  <2>3. SyncReached'
    BY <1>1, <2>1, <2>2 DEF SyncReached, NoSync
  <2>4. LoopReached' /\ LagReached'
    BY <1>1, <2>1, <2>2 DEF Reached, LoopReached, LagReached
  <2> QED BY <1>1, <1>3, <2>3, <2>4 DEF Reached
<1>5. CASE SkipToHeight
  <2>1. /\ UNCHANGED <<sync, laggingTargetChan>> /\ pc' = "loop"
        /\ cursor' \in {cursor, SkipHeight}
    BY <1>5 DEF SkipToHeight, lagVars
  <2>2. tip \in Nat /\ mem.lastProcessedHeight \in Nat /\ mem.lastProcessedHeight <= tip
    BY <1>2 DEF HeightTypes, Reached, BehindTip
  <2>3. SkipHeight <= Larger(tip + 1, ActivatedHeight)
    BY <2>2, ConstantHeights DEF SkipHeight, Larger
  <2>4. LoopReached' /\ SyncReached'
    BY <1>1, <2>1, <2>3 DEF Reached, LoopReached, SyncReached
  <2> QED BY <1>1, <1>3, <2>1, <2>4, MainReached
<1> QED BY <1>4, <1>5

LEMMA MonitorReached ==
  ASSUME InstanceInv, Reached, MonitorCriticalErr
  PROVE  Reached'
<1>1. UNCHANGED <<tip, finalized, power, votes>>
  BY DEF MonitorCriticalErr, chainVars
<1>2. VotesHavePower'
  BY <1>1 DEF Reached, VotesHavePower
<1>3. CASE db' = db /\ InstanceGone
  BY <1>1, <1>2, <1>3, GoneReached
<1>4. CASE SetStatus("SLASHED") /\ pc' = "loop" /\ UNCHANGED <<pollerVars, sync, lagVars>>
  <2>1. UNCHANGED <<cursor, received, laggingTargetChan, lagTarget>>
    BY <1>4 DEF pollerVars, lagVars
  <2>2. /\ "SLASHED" \in Statuses
        /\ db \in StoredFinalityProvider /\ mem \in StoredFinalityProvider
    BY DEF Statuses, InstanceInv, Types
  <2>3. db'.lastVotedHeight = db.lastVotedHeight /\ db'.lastProcessedHeight = db.lastProcessedHeight
    BY <1>4, <2>2, StatusRecord DEF SetStatus
  <2>4. mem'.lastVotedHeight = mem.lastVotedHeight /\ mem'.lastProcessedHeight = mem.lastProcessedHeight
    BY <1>4, <2>2 DEF SetStatus, StoredFinalityProvider
  <2>5. BehindTip(db)' /\ BehindTip(mem)'
    BY <1>1, <2>3, <2>4 DEF Reached, BehindTip
  <2>6. SyncReached' /\ LoopReached'
    BY <1>1, <1>4, <2>1 DEF Reached, SyncReached, LoopReached
  <2> QED BY <1>1, <1>2, <2>1, <2>5, <2>6, MainReached
<1> QED BY <1>3, <1>4 DEF MonitorCriticalErr

LEMMA DroppedReached ==
  ASSUME InstanceInv, Reached, Crash \/ StartFails \/ StopReturns
  PROVE  Reached'
<1>1. UNCHANGED <<tip, finalized, power, votes, db>> /\ InstanceGone
  BY DEF Crash, StartFails, StopReturns, chainVars
<1>2. VotesHavePower'
  BY <1>1 DEF Reached, VotesHavePower
<1> QED BY <1>1, <1>2, GoneReached

LEMMA ReachedInit ==
  ASSUME Init
  PROVE  Reached
<1>1. db.lastVotedHeight = 0 /\ db.lastProcessedHeight = 0
  <2>1. CreateFinalityProvider \in StoredFinalityProvider /\ CreateFinalityProvider.lastVotedHeight = 0
        /\ CreateFinalityProvider.lastProcessedHeight = 0
    BY DEF CreateFinalityProvider, StoredFinalityProvider, Statuses
  <2>2. "REGISTERED" \in Statuses
    BY DEF Statuses
  <2> QED BY <2>1, <2>2, StatusRecord DEF Init
<1>2. tip = 1 /\ finalized = 0 /\ votes = {} /\ mem = db
  BY DEF Init, ChainInit
<1>3. cursor = 0 /\ received = 0 /\ laggingTargetChan = 0 /\ lagTarget = 0 /\ pc = "down"
      /\ sync.start = 0 /\ sync.end = 0 /\ sync.synced = 0 /\ sync.batch = {}
  BY DEF Init, NoSync
<1>4. tip \in Heights /\ finalized <= tip
  BY <1>2, InstanceAssumption DEF Heights
<1>5. VotesHavePower /\ BehindTip(db) /\ BehindTip(mem)
  BY <1>1, <1>2 DEF VotesHavePower, BehindTip
<1>6. SyncReached /\ LagReached
  BY <1>2, <1>3 DEF SyncReached, LagReached
<1>7. LoopReached
  BY <1>2, <1>3, ConstantHeights DEF LoopReached, Larger
<1> QED BY <1>4, <1>5, <1>6, <1>7 DEF Reached

LEMMA ReachedNext ==
  ASSUME InstanceInv, Reached, [Next]_vars
  PROVE  Reached'
<1>1. CASE UNCHANGED vars
  <2>1. UNCHANGED <<tip, finalized, power, votes, db, mem, cursor, received, pc, sync, laggingTargetChan,
                    lagTarget>>
    BY <1>1 DEF vars, chainVars, stateVars, pollerVars, loopVars, lagVars
  <2> QED BY <2>1 DEF Reached, VotesHavePower, BehindTip, SyncReached, LoopReached, LagReached
<1>2. CASE Step
  <2>1. CASE FastSync
    BY <2>1, TryFastSyncReached, FastSyncRoundReached, SubmitBatchReached, RecordSyncReached DEF FastSync
  <2>2. CASE Vote
    BY <2>2, VoteReached, AsideReached DEF Vote
  <2>3. CASE Stop
    BY <2>3, AsideReached, DroppedReached DEF Stop
  <2> QED BY <1>2, <2>1, <2>2, <2>3, ChainReached, DroppedReached, StartReached, ReceiveReached,
       AsideReached, TargetReached, MonitorReached DEF Step
<1> QED BY <1>1, <1>2 DEF Next

LEMMA ReachedHolds == Spec => [](InstanceInv /\ Reached)
<1>1. Init => Reached
  BY ReachedInit
<1>2. InstanceInv /\ Reached /\ [Next]_vars => Reached'
  BY ReachedNext
<1> QED BY <1>1, <1>2, InstanceInvHolds, PTL DEF Spec

\* Whatever the daemon, the chain and the network do, every finality signature
\* is for a block that exists and in which the provider has voting power
\* (hasVotingPower in the submission loop and, for each block of a batch, in
\* FastSync), also when the signature is a retry of one whose answer was lost or
\* the provider is jailed or slashed in between.
THEOREM VotesAreForPoweredBlocks == Spec => []VotesHavePower
<1>1. Reached => VotesHavePower
  BY DEF Reached
<1> QED BY <1>1, ReachedHolds, PTL

\* The heights in the store, in memory, in fast sync and in the lagging channel
\* never run ahead of the chain, and the poller waits at most for the next block
\* or for the activated height: no stop, restart, skip or fast sync to a target
\* that is out of date makes the provider pass over a block that does not exist
\* yet.
THEOREM NothingAheadOfTheChain == Spec => []Reached
BY ReachedHolds, PTL

-----------------------------------------------------------------------------
(* The threads of an instance.                                             *)

\* checkLaggingLoop finds room in the channel whenever it sends.
SendFindsRoom == lagPc = "send" => laggingTargetChan = 0

\* isLagging is set from the moment a target is found until its fast sync is
\* over, and while it is set no second target is looked for.
OneTarget ==
  /\ lagPc = "send" => laggingTargetChan = 0 /\ isLagging
  /\ laggingTargetChan # 0 => isLagging
  /\ pc \in SyncPcs => laggingTargetChan = 0 /\ lagPc # "send" /\ (booting \/ isLagging)
  /\ booting \/ pc = "down" => laggingTargetChan = 0 /\ lagPc = "off"

\* The submissions of a block that failed leave room for one more while the
\* loop still tries.
RetriesBounded == pc \in {"vote", "retry"} => failedCycles \in 0..MaxSubmissionRetries

\* Only an instance that has started is stopped, and it has a poller.
Started ==
  /\ stopPc # "idle" => pc # "down" /\ ~booting
  /\ pc # "down" /\ ~booting => cursor >= 1

Places ==
  /\ standing \in {"good", "jailed", "slashed"}
  /\ pc \in StartPcs \cup SyncPcs \cup LoopPcs
  /\ booting \in BOOLEAN
  /\ criticalErr \in Errors
  /\ isLagging \in BOOLEAN
  /\ lagPc \in {"off", "idle", "send", "exited"}
  /\ quit \in BOOLEAN
  /\ stopPc \in {"idle", "poller", "close", "waiting"}
  /\ stopper \in {"none", "daemon", "monitor"}

Counts ==
  /\ lastPolled \in 0..MaxHeight
  /\ faults \in 0..MaxFaults
  /\ stops \in 0..MaxStops

\* What a step does with a fast sync: fail it, end it or go on with it.
SyncOver ==
  /\ pc \in SyncPcs /\ pc' \notin SyncPcs /\ pc' # "down"
  /\ isLagging' = FALSE
  /\ UNCHANGED <<booting, laggingTargetChan, lagPc>>

\* The step leaves the lagging check alone and begins no fast sync.
NoLagging ==
  /\ pc' \in SyncPcs => pc \in SyncPcs
  /\ pc' = "down" => pc = "down"
  /\ UNCHANGED <<booting, isLagging, laggingTargetChan, lagPc>>

LEMMA SyncFailsIsOver ==
  ASSUME NEW err, SyncFails(err), pc \in SyncPcs
  PROVE  SyncOver \/ InstanceGone
BY DEF SyncFails, SyncOver, SyncPcs

LEMMA FastSyncEffect ==
  ASSUME FastSync
  PROVE  NoLagging \/ SyncOver \/ InstanceGone
<1>1. CASE TryFastSync
  <2>1. pc \in SyncPcs
    BY <1>1 DEF TryFastSync, SyncPcs
  <2>2. CASE SyncFails("other")
    BY <2>1, <2>2, SyncFailsIsOver
  <2> QED BY <1>1, <2>1, <2>2, Zenon DEF TryFastSync, SyncPcs, NoLagging, SyncOver, lagVars
<1>2. CASE FastSyncRound
  <2>1. pc \in SyncPcs
    BY <1>2 DEF FastSyncRound, SyncPcs
  <2>2. CASE SyncFails("other")
    BY <2>1, <2>2, SyncFailsIsOver
  <2>3. CASE pc' \in {pc, "batch"} /\ UNCHANGED <<booting, lagVars>>
    BY <2>1, <2>3 DEF NoLagging, lagVars, SyncPcs
  <2> QED BY <1>2, <2>2, <2>3 DEF FastSyncRound
<1>3. CASE SubmitBatch
  <2>1. pc \in SyncPcs
    BY <1>3 DEF SubmitBatch, SyncPcs
  <2>2. CASE \E err : SyncFails(err)
    BY <2>1, <2>2, SyncFailsIsOver
  <2>3. CASE pc' = "recordBatch" /\ UNCHANGED <<booting, lagVars>>
    BY <2>1, <2>3 DEF NoLagging, lagVars, SyncPcs
  <2> QED BY <1>3, <2>2, <2>3, Zenon DEF SubmitBatch
<1>4. CASE RecordBatch
  BY <1>4 DEF RecordBatch, SyncPcs, NoLagging, lagVars
<1>5. CASE FastSyncDone
  BY <1>5 DEF FastSyncDone, SyncPcs, SyncOver
<1> QED BY <1>1, <1>2, <1>3, <1>4, <1>5 DEF FastSync

LEMMA OneTargetStep ==
  ASSUME InstanceInv, OneTarget, [Next]_vars
  PROVE  OneTarget'
<1>1. CASE NoLagging
  BY <1>1 DEF NoLagging, OneTarget
<1>2. CASE InstanceGone
  BY <1>2 DEF InstanceGone, OneTarget, SyncPcs
<1>3. CASE SyncOver
  BY <1>3 DEF SyncOver, OneTarget
<1>4. CASE FastSync
  BY <1>1, <1>2, <1>3, <1>4, FastSyncEffect
<1>5. CASE StartInstance
  <2>1. booting' = TRUE /\ pc' # "down" /\ laggingTargetChan = 0 /\ lagPc = "off" /\ UNCHANGED lagVars
    BY <1>5 DEF StartInstance, OneTarget
  <2> QED BY <2>1 DEF OneTarget, lagVars
<1>6. CASE StartPoller
  <2>1. booting
    BY <1>6 DEF StartPoller, InstanceInv, ThreadInv
  <2>2. /\ pc' = "loop" /\ booting' = FALSE /\ lagPc' = "idle" /\ laggingTargetChan' = 0
    BY <1>6, <2>1 DEF StartPoller, OneTarget
  <2> QED BY <2>2 DEF OneTarget, SyncPcs
<1>7. CASE TakeLaggingTarget
  <2>1. pc = "loop" /\ laggingTargetChan # 0
    BY <1>7 DEF TakeLaggingTarget
  <2>2. isLagging /\ lagPc # "send" /\ ~booting
    BY <2>1 DEF OneTarget
  <2>3. pc' = "sync" /\ laggingTargetChan' = 0 /\ UNCHANGED <<booting, isLagging, lagPc>>
    BY <1>7 DEF TakeLaggingTarget
  <2> QED BY <2>2, <2>3 DEF OneTarget
<1>8. CASE LaggingFound
  <2>1. lagPc = "idle" /\ ~isLagging
    BY <1>8 DEF LaggingFound, MayCheckLagging
  <2>2. laggingTargetChan = 0 /\ pc \notin SyncPcs /\ ~booting /\ pc # "down"
    BY <2>1 DEF OneTarget
  <2>3. isLagging' = TRUE /\ lagPc' = "send" /\ UNCHANGED <<laggingTargetChan, pc, booting>>
    BY <1>8 DEF LaggingFound, loopVars
  <2> QED BY <2>2, <2>3 DEF OneTarget
<1>9. CASE SendLaggingTarget
  <2>1. lagPc = "send"
    BY <1>9 DEF SendLaggingTarget
  <2>2. isLagging /\ pc \notin SyncPcs /\ ~booting /\ pc # "down"
    BY <2>1 DEF OneTarget
  <2>3. lagPc' = "idle" /\ UNCHANGED <<isLagging, pc, booting>>
    BY <1>9 DEF SendLaggingTarget, loopVars
  <2> QED BY <2>2, <2>3 DEF OneTarget
<1>10. CASE LaggingQuit
  <2>1. lagPc = "idle" /\ lagPc' = "exited" /\ UNCHANGED <<isLagging, laggingTargetChan, pc, booting>>
    BY <1>10 DEF LaggingQuit, loopVars
  <2> QED BY <2>1 DEF OneTarget
<1>11. CASE Crash \/ StartFails \/ StopReturns
  BY <1>2, <1>11 DEF Crash, StartFails, StopReturns
<1>12. CASE MonitorCriticalErr
  <2>1. CASE pc' = "loop" /\ pc = "report" /\ UNCHANGED <<booting, lagVars>>
    BY <1>1, <2>1 DEF NoLagging, SyncPcs, lagVars
  <2> QED BY <1>2, <1>12, <2>1 DEF MonitorCriticalErr
<1>13. CASE NewBlock \/ FinalizeBlock \/ Punish \/ DaemonStops \/ PollerStopped \/ CloseQuit
  <2>1. UNCHANGED <<loopVars, lagVars>>
    BY <1>13 DEF NewBlock, FinalizeBlock, Punish, DaemonStops, PollerStopped, CloseQuit
  <2> QED BY <1>1, <2>1 DEF NoLagging, loopVars, lagVars
<1>14. CASE ReceiveBlock \/ Vote \/ RetryQuit \/ SkipToHeight \/ LoopQuit
  <2>1. pc' = pc \/ pc' \in LoopPcs
    BY <1>14, Zenon DEF ReceiveBlock, Vote, RetryQuit, SkipToHeight, LoopQuit, SubmitFinalitySignature,
       RecordVote, RetryInterval, Report, LoopPcs
  <2>2. UNCHANGED <<booting, lagVars>>
    BY <1>14, Zenon DEF ReceiveBlock, Vote, RetryQuit, SkipToHeight, LoopQuit, SubmitFinalitySignature,
       RecordVote, RetryInterval
  <2> QED BY <1>1, <2>1, <2>2 DEF NoLagging, LoopPcs, SyncPcs, lagVars
<1>15. CASE UNCHANGED vars
  BY <1>1, <1>15 DEF NoLagging, vars, loopVars, lagVars
<1> QED BY <1>4, <1>5, <1>6, <1>7, <1>8, <1>9, <1>10, <1>11, <1>12, <1>13, <1>14, <1>15
     DEF Next, Step, Stop

LEMMA GonePlaces ==
  ASSUME InstanceGone, standing' \in {"good", "jailed", "slashed"}
  PROVE  Places'
<1>1. booting' = FALSE /\ isLagging' = FALSE /\ quit' = FALSE
  BY DEF InstanceGone
<1>2. booting' \in BOOLEAN /\ isLagging' \in BOOLEAN /\ quit' \in BOOLEAN
  BY <1>1, Zenon
<1>3. pc' = "down" /\ criticalErr' = "none" /\ lagPc' = "off" /\ stopPc' = "idle" /\ stopper' = "none"
  BY DEF InstanceGone
<1> QED BY <1>2, <1>3 DEF Places, StartPcs, Errors

\* The loops change only where they are and the error they report.
LEMMA LoopPlaces ==
  ASSUME Places, UNCHANGED <<standing, booting, lagPc, stopVars>>, isLagging' \in {isLagging, FALSE},
         pc' \in {pc} \cup StartPcs \cup SyncPcs \cup LoopPcs, criticalErr' \in {criticalErr} \cup Errors
  PROVE  Places'
<1>1. isLagging' \in BOOLEAN
  BY Zenon DEF Places
<1>2. booting' \in BOOLEAN /\ quit' \in BOOLEAN
  BY Zenon DEF Places, stopVars
<1> QED BY <1>1, <1>2 DEF Places, stopVars

LEMMA SyncFailsPlaces ==
  ASSUME Places, NEW err, SyncFails(err), standing' = standing
  PROVE  Places'
<1>1. CASE InstanceGone
  BY <1>1, GonePlaces DEF Places
<1>2. CASE ~InstanceGone
  <2>1. /\ UNCHANGED <<booting, lagPc, stopVars>> /\ isLagging' = FALSE
        /\ pc' \in {"report", "loop"} /\ criticalErr' \in {criticalErr, "ErrFinalityProviderSlashed"}
    BY <1>2 DEF SyncFails
  <2> QED BY <2>1, LoopPlaces, Zenon DEF LoopPcs, Errors
<1> QED BY <1>1, <1>2

LEMMA FastSyncPlaces ==
  ASSUME Places, FastSync
  PROVE  Places'
<1>1. standing' = standing
  BY DEF FastSync, TryFastSync, FastSyncRound, SubmitBatch, RecordBatch, FastSyncDone, chainVars
<1>2. CASE \E err : SyncFails(err)
  BY <1>1, <1>2, SyncFailsPlaces
<1>3. CASE ~\E err : SyncFails(err)
  <2>1. UNCHANGED <<booting, lagPc, stopVars, criticalErr>>
    BY <1>3 DEF FastSync, TryFastSync, FastSyncRound, SubmitBatch, RecordBatch, FastSyncDone, lagVars
  <2>2. isLagging' \in {isLagging, FALSE}
    BY <1>3, Zenon DEF FastSync, TryFastSync, FastSyncRound, SubmitBatch, RecordBatch, FastSyncDone, lagVars
  <2>3. pc' \in {pc} \cup {"startPoller", "loop", "round", "batch", "recordBatch", "skip"}
    BY <1>3 DEF FastSync, TryFastSync, FastSyncRound, SubmitBatch, RecordBatch, FastSyncDone
  <2>4. pc' \in {pc} \cup StartPcs \cup SyncPcs \cup LoopPcs
    BY <2>3 DEF StartPcs, SyncPcs, LoopPcs
  <2> QED BY <1>1, <2>1, <2>2, <2>4, LoopPlaces, Zenon
<1> QED BY <1>2, <1>3

LEMMA PlacesStep ==
  ASSUME Places, [Next]_vars
  PROVE  Places'
<1>1. CASE FastSync
  BY <1>1, FastSyncPlaces
<1>2. CASE Crash \/ StartFails \/ StopReturns
  <2>1. InstanceGone /\ standing' = standing
    BY <1>2 DEF Crash, StartFails, StopReturns, chainVars
  <2> QED BY <2>1, GonePlaces DEF Places
<1>3. CASE NewBlock \/ FinalizeBlock \/ ReceiveBlock \/ Vote \/ RetryQuit \/ TakeLaggingTarget
           \/ SkipToHeight \/ LoopQuit
  <2>1. UNCHANGED <<standing, booting, lagPc, stopVars, isLagging>>
    BY <1>3 DEF NewBlock, FinalizeBlock, ReceiveBlock, Vote, RetryQuit, TakeLaggingTarget, SkipToHeight,
       LoopQuit, SubmitFinalitySignature, RecordVote, RetryInterval, chainVars, loopVars, lagVars
  <2>2. pc' \in {pc} \cup {"vote", "report", "recordVote", "retry", "loop", "sync", "exited"}
    BY <1>3 DEF NewBlock, FinalizeBlock, ReceiveBlock, Vote, RetryQuit, TakeLaggingTarget, SkipToHeight,
       LoopQuit, SubmitFinalitySignature, RecordVote, RetryInterval, Report, loopVars
  <2>3. criticalErr' \in {criticalErr} \cup {"other", "ErrFpAlreadySlashed", "ErrFpAlreadyJailed"}
    BY <1>3 DEF NewBlock, FinalizeBlock, ReceiveBlock, Vote, RetryQuit, TakeLaggingTarget, SkipToHeight,
       LoopQuit, SubmitFinalitySignature, RecordVote, RetryInterval, Report, loopVars
  <2>4. /\ pc' \in {pc} \cup StartPcs \cup SyncPcs \cup LoopPcs
        /\ criticalErr' \in {criticalErr} \cup Errors
    BY <2>2, <2>3 DEF LoopPcs, SyncPcs, Errors
  <2> QED BY <2>1, <2>4, LoopPlaces
<1>4. CASE Punish
  <2>1. standing' \in {"jailed", "slashed"} /\ UNCHANGED <<loopVars, lagVars, stopVars>>
    BY <1>4, InstanceAssumption DEF Punish
  <2> QED BY <2>1 DEF Places, loopVars, lagVars, stopVars
<1>5. CASE StartInstance
  <2>1. booting' \in BOOLEAN
    BY <1>5, Zenon DEF StartInstance
  <2>2. pc' \in {"sync", "startPoller"} /\ UNCHANGED <<standing, criticalErr, lagVars, stopVars>>
    BY <1>5 DEF StartInstance, chainVars
  <2> QED BY <2>1, <2>2 DEF Places, StartPcs, SyncPcs, lagVars, stopVars
<1>6. CASE StartPoller
  <2>1. booting' \in BOOLEAN
    BY <1>6, Zenon DEF StartPoller
  <2>2. pc' = "loop" /\ lagPc' = "idle" /\ UNCHANGED <<standing, criticalErr, isLagging, stopVars>>
    BY <1>6 DEF StartPoller, chainVars
  <2> QED BY <2>1, <2>2 DEF Places, LoopPcs, stopVars
<1>7. CASE LaggingFound \/ SendLaggingTarget \/ LaggingQuit
  <2>1. isLagging' \in BOOLEAN
    <3>1. CASE isLagging' = TRUE
      BY <3>1, Zenon
    <3> QED BY <1>7, <3>1, Zenon DEF LaggingFound, SendLaggingTarget, LaggingQuit, Places
  <2>2. lagPc' \in {"send", "idle", "exited"} /\ UNCHANGED <<standing, loopVars, stopVars>>
    BY <1>7 DEF LaggingFound, SendLaggingTarget, LaggingQuit, chainVars
  <2> QED BY <2>1, <2>2 DEF Places, loopVars, stopVars
<1>8. CASE MonitorCriticalErr
  <2>1. standing' = standing
    BY <1>8 DEF MonitorCriticalErr, chainVars
  <2>2. CASE InstanceGone
    BY <2>1, <2>2, GonePlaces DEF Places
  <2>3. CASE ~InstanceGone
    <3>1. /\ pc' = "loop" /\ criticalErr' = "none" /\ stopper' = "monitor" /\ stopPc' = "poller"
          /\ UNCHANGED <<booting, lagVars, quit>>
      BY <1>8, <2>3 DEF MonitorCriticalErr
    <3> QED BY <2>1, <3>1 DEF Places, LoopPcs, Errors, lagVars
  <2> QED BY <2>2, <2>3
<1>9. CASE DaemonStops \/ PollerStopped \/ CloseQuit
  <2>1. quit' \in BOOLEAN
    <3>1. CASE quit' = TRUE
      BY <3>1, Zenon
    <3> QED BY <1>9, <3>1, Zenon DEF DaemonStops, PollerStopped, CloseQuit, Places
  <2>2. /\ stopper' \in {stopper, "daemon"} /\ stopPc' \in {"poller", "close", "waiting"}
        /\ UNCHANGED <<standing, loopVars, lagVars>>
    BY <1>9 DEF DaemonStops, PollerStopped, CloseQuit, chainVars
  <2> QED BY <2>1, <2>2 DEF Places, loopVars, lagVars
<1>10. CASE UNCHANGED vars
  BY <1>10 DEF vars, chainVars, loopVars, lagVars, stopVars, Places
<1> QED BY <1>1, <1>2, <1>3, <1>4, <1>5, <1>6, <1>7, <1>8, <1>9, <1>10 DEF Next, Step, Stop

\* Outside of Start and Stop the poller's height only rises.
LoopGoesOn ==
  /\ UNCHANGED <<booting, stopPc>>
  /\ pc # "down" /\ pc' # "down"
  /\ cursor' \in Nat /\ cursor' >= cursor

LEMMA SyncGoesOn ==
  ASSUME InstanceInv, FastSync
  PROVE  LoopGoesOn \/ InstanceGone
<1>1. cursor \in Nat
  BY DEF InstanceInv, Types
<1>2. pc \in SyncPcs
  BY DEF FastSync, TryFastSync, FastSyncRound, SubmitBatch, RecordBatch, FastSyncDone, SyncPcs
<1>3. CASE \E err : SyncFails(err)
  <2>1. SUFFICES ASSUME ~InstanceGone PROVE LoopGoesOn
    OBVIOUS
  <2>2. UNCHANGED <<booting, pollerVars, stopVars>> /\ pc' \in {"report", "loop"}
    BY <1>3, <2>1 DEF SyncFails
  <2> QED BY <1>1, <1>2, <2>2 DEF LoopGoesOn, pollerVars, stopVars, SyncPcs
<1>4. CASE ~\E err : SyncFails(err)
  <2>1. UNCHANGED <<booting, pollerVars, stopVars>>
    BY <1>4 DEF FastSync, TryFastSync, FastSyncRound, SubmitBatch, RecordBatch, FastSyncDone
  <2>2. pc' \in {pc} \cup {"startPoller", "loop", "round", "batch", "recordBatch", "skip"}
    BY <1>4 DEF FastSync, TryFastSync, FastSyncRound, SubmitBatch, RecordBatch, FastSyncDone
  <2> QED BY <1>1, <1>2, <2>1, <2>2 DEF LoopGoesOn, pollerVars, stopVars, SyncPcs
<1> QED BY <1>3, <1>4

LEMMA StartedStep ==
  ASSUME InstanceInv, Started, [Next]_vars
  PROVE  Started'
<1>1. cursor \in Nat /\ mem.lastProcessedHeight \in Nat
  BY DEF InstanceInv, Types, StoredFinalityProvider
<1>2. CASE LoopGoesOn
  BY <1>1, <1>2 DEF LoopGoesOn, Started
<1>3. CASE InstanceGone
  BY <1>3 DEF InstanceGone, Started
<1>4. CASE FastSync
  BY <1>2, <1>3, <1>4, SyncGoesOn
<1>5. CASE Crash \/ StartFails \/ StopReturns
  BY <1>3, <1>5 DEF Crash, StartFails, StopReturns
<1>6. CASE ReceiveBlock \/ Vote \/ RetryQuit \/ TakeLaggingTarget \/ SkipToHeight \/ LoopQuit
  <2>1. UNCHANGED <<booting, stopVars>> /\ pc # "down"
    BY <1>6 DEF ReceiveBlock, Vote, RetryQuit, TakeLaggingTarget, SkipToHeight, LoopQuit,
       SubmitFinalitySignature, RecordVote, RetryInterval
  <2>2. pc' # "down"
    BY <1>6 DEF ReceiveBlock, Vote, RetryQuit, TakeLaggingTarget, SkipToHeight, LoopQuit,
       SubmitFinalitySignature, RecordVote, RetryInterval, Report
  <2>3. cursor' \in Nat /\ cursor' >= cursor
    <3>1. CASE ReceiveBlock
      BY <1>1, <3>1 DEF ReceiveBlock, Poller!Deliver
    <3>2. CASE SkipToHeight
      BY <1>1, <3>2 DEF SkipToHeight, SkipHeight
    <3>3. CASE cursor' = cursor
      BY <1>1, <3>3
    <3> QED BY <1>6, <3>1, <3>2, <3>3 DEF Vote, RetryQuit, TakeLaggingTarget, LoopQuit,
         SubmitFinalitySignature, RecordVote, RetryInterval, pollerVars
  <2> QED BY <1>2, <2>1, <2>2, <2>3 DEF LoopGoesOn, stopVars
<1>7. CASE NewBlock \/ FinalizeBlock \/ Punish \/ LaggingFound \/ SendLaggingTarget \/ LaggingQuit
  <2>1. UNCHANGED <<loopVars, stopVars, pollerVars>>
    BY <1>7 DEF NewBlock, FinalizeBlock, Punish, LaggingFound, SendLaggingTarget, LaggingQuit
  <2> QED BY <2>1 DEF Started, loopVars, stopVars, pollerVars
<1>8. CASE StartInstance
  <2>1. pc = "down" /\ booting' = TRUE /\ stopPc' = stopPc
    BY <1>8 DEF StartInstance, stopVars
  <2> QED BY <2>1 DEF Started
<1>9. CASE StartPoller
  <2>1. stopPc = "idle"
    BY <1>9 DEF StartPoller, Started, InstanceInv, ThreadInv
  <2>2. stopPc' = stopPc /\ cursor' = Larger(PollerStartingHeight + 1, ActivatedHeight)
    BY <1>9 DEF StartPoller, stopVars
  <2>3. PollerStartingHeight \in Nat
    BY <1>1, InstanceAssumption DEF PollerStartingHeight, Larger, InstanceInv, Types
  <2>4. cursor' >= 1
    BY <2>2, <2>3, InstanceAssumption DEF Larger
  <2> QED BY <2>1, <2>2, <2>4 DEF Started
<1>10. CASE MonitorCriticalErr
  <2>1. ~booting /\ pc = "report"
    BY <1>10 DEF MonitorCriticalErr, InstanceInv, ThreadInv, SyncPcs
  <2>2. CASE pc' = "loop" /\ UNCHANGED <<pollerVars, booting>>
    BY <2>1, <2>2 DEF Started, pollerVars
  <2> QED BY <1>3, <1>10, <2>2 DEF MonitorCriticalErr
<1>11. CASE DaemonStops \/ PollerStopped \/ CloseQuit
  <2>1. ~booting /\ pc # "down"
    BY <1>11 DEF DaemonStops, PollerStopped, CloseQuit, Started
  <2>2. UNCHANGED <<loopVars, pollerVars>>
    BY <1>11 DEF DaemonStops, PollerStopped, CloseQuit
  <2> QED BY <2>1, <2>2 DEF Started, loopVars, pollerVars
<1>12. CASE UNCHANGED vars
  BY <1>12 DEF vars, loopVars, stopVars, pollerVars, Started
<1> QED BY <1>4, <1>5, <1>6, <1>7, <1>8, <1>9, <1>10, <1>11, <1>12 DEF Next, Step, Stop

\* The retries of one block are counted up to the limit and then reported.
LEMMA RetriesStep ==
  ASSUME RetriesBounded, failedCycles \in 0..(MaxSubmissionRetries + 1), [Next]_vars
  PROVE  RetriesBounded' /\ failedCycles' \in 0..(MaxSubmissionRetries + 1)
<1>0. MaxSubmissionRetries \in Nat
  BY InstanceAssumption
<1>1. CASE failedCycles' = failedCycles /\ (pc' \in {"vote", "retry"} => pc \in {"vote", "retry"})
  BY <1>1 DEF RetriesBounded
<1>2. CASE failedCycles' = 0
  BY <1>0, <1>2 DEF RetriesBounded
<1>3. CASE SubmitFinalitySignature
  <2>1. failedCycles \in 0..MaxSubmissionRetries
    BY <1>3 DEF SubmitFinalitySignature, RetriesBounded
  <2>2. CASE failedCycles' = failedCycles
    BY <1>1, <1>3, <2>2 DEF SubmitFinalitySignature
  <2>3. CASE failedCycles' = failedCycles + 1 /\ (failedCycles' > MaxSubmissionRetries => pc' = "report")
    BY <1>0, <2>1, <2>3 DEF RetriesBounded
  <2> QED BY <1>3, <2>2, <2>3 DEF SubmitFinalitySignature, Report
<1>4. CASE FastSync
  <2>1. CASE \E err : SyncFails(err)
    <3>1. CASE InstanceGone
      BY <1>2, <3>1 DEF InstanceGone
    <3>2. CASE ~InstanceGone
      BY <1>1, <2>1, <3>2 DEF SyncFails
    <3> QED BY <3>1, <3>2
  <2>2. CASE ~\E err : SyncFails(err)
    <3>1. failedCycles' = failedCycles
      BY <1>4, <2>2 DEF FastSync, TryFastSync, FastSyncRound, SubmitBatch, RecordBatch, FastSyncDone
    <3>2. pc' \notin {"vote", "retry"}
      BY <1>4, <2>2 DEF FastSync, TryFastSync, FastSyncRound, SubmitBatch, RecordBatch, FastSyncDone
    <3> QED BY <1>1, <3>1, <3>2
  <2> QED BY <2>1, <2>2
<1>5. CASE Crash \/ StartFails \/ StopReturns
  BY <1>2, <1>5 DEF Crash, StartFails, StopReturns, InstanceGone
<1>6. CASE ReceiveBlock
  BY <1>2, <1>6 DEF ReceiveBlock
<1>7. CASE MonitorCriticalErr
  <2>1. failedCycles' = 0 \/ (failedCycles' = failedCycles /\ pc' = "loop")
    BY <1>7 DEF MonitorCriticalErr, InstanceGone
  <2> QED BY <1>1, <1>2, <2>1
<1>8. CASE RecordVote \/ RetryInterval \/ RetryQuit \/ TakeLaggingTarget \/ SkipToHeight \/ LoopQuit
           \/ StartInstance \/ StartPoller
  <2>1. failedCycles' = failedCycles
    BY <1>8 DEF RecordVote, RetryInterval, RetryQuit, TakeLaggingTarget, SkipToHeight, LoopQuit,
       StartInstance, StartPoller
  <2>2. pc' \in {"vote", "retry"} => pc = "retry"
    BY <1>8 DEF RecordVote, RetryInterval, RetryQuit, TakeLaggingTarget, SkipToHeight, LoopQuit,
       StartInstance, StartPoller
  <2> QED BY <1>1, <2>1, <2>2
<1>9. CASE NewBlock \/ FinalizeBlock \/ Punish \/ LaggingFound \/ SendLaggingTarget \/ LaggingQuit
           \/ DaemonStops \/ PollerStopped \/ CloseQuit \/ UNCHANGED vars
  <2>1. UNCHANGED loopVars
    BY <1>9, Zenon DEF NewBlock, FinalizeBlock, Punish, LaggingFound, SendLaggingTarget, LaggingQuit, DaemonStops,
       PollerStopped, CloseQuit, vars
  <2> QED BY <1>1, <2>1 DEF loopVars
<1> QED BY <1>3, <1>4, <1>5, <1>6, <1>7, <1>8, <1>9 DEF Next, Step, Vote, Stop

LEMMA CountsStep ==
  ASSUME InstanceInv, Reached, Started, Counts, [Next]_vars
  PROVE  Counts'
<1>1. MaxHeight \in Nat /\ MaxFaults \in Nat /\ MaxStops \in Nat
  BY InstanceAssumption
<1>2. faults' = faults \/ Fault
  BY Zenon DEF Next, Step, FastSync, Vote, Stop, NewBlock, FinalizeBlock, Punish, Crash, StartInstance, StartPoller,
     StartFails, TryFastSync, FastSyncRound, SubmitBatch, RecordBatch, FastSyncDone, ReceiveBlock,
     SubmitFinalitySignature, RecordVote, RetryInterval, RetryQuit, TakeLaggingTarget, SkipToHeight, LoopQuit,
     LaggingFound, SendLaggingTarget, LaggingQuit, MonitorCriticalErr, DaemonStops, PollerStopped, CloseQuit,
     StopReturns, vars
<1>3. stops' = stops \/ (stops < MaxStops /\ stops' = stops + 1)
  BY Zenon DEF Next, Step, FastSync, Vote, Stop, NewBlock, FinalizeBlock, Punish, Crash, StartInstance, StartPoller,
     StartFails, TryFastSync, FastSyncRound, SubmitBatch, RecordBatch, FastSyncDone, ReceiveBlock,
     SubmitFinalitySignature, RecordVote, RetryInterval, RetryQuit, TakeLaggingTarget, SkipToHeight, LoopQuit,
     LaggingFound, SendLaggingTarget, LaggingQuit, MonitorCriticalErr, DaemonStops, PollerStopped, CloseQuit,
     StopReturns, vars
<1>4. faults' \in 0..MaxFaults /\ stops' \in 0..MaxStops
  BY <1>1, <1>2, <1>3 DEF Counts, Fault
<1>5. lastPolled' \in 0..MaxHeight
  <2>1. CASE lastPolled' \in {lastPolled, MaxHeight}
    BY <1>1, <2>1 DEF Counts
  <2>2. CASE PollerStopped
    <3>1. cursor \in Nat /\ cursor >= 1
      BY <2>2 DEF PollerStopped, Started, InstanceInv, Types
    <3>2. tip \in Nat /\ tip <= MaxHeight
      BY <1>1 DEF Reached, Heights
    <3> QED BY <1>1, <2>2, <3>1, <3>2 DEF PollerStopped
  <2>3. CASE FastSync
    <3>1. CASE \E err : SyncFails(err)
      BY <2>1, <3>1 DEF SyncFails, InstanceGone, stopVars
    <3> QED BY <2>1, <2>3, <3>1 DEF FastSync, TryFastSync, FastSyncRound, SubmitBatch, RecordBatch,
         FastSyncDone, stopVars
  <2>4. CASE Crash \/ StartFails \/ StopReturns \/ MonitorCriticalErr
    BY <2>1, <2>4, Zenon DEF Crash, StartFails, StopReturns, MonitorCriticalErr, InstanceGone, stopVars
  <2> QED BY <2>1, <2>2, <2>3, <2>4, Zenon DEF Next, Step, Vote, Stop, NewBlock, FinalizeBlock, Punish,
       StartInstance, StartPoller, ReceiveBlock, SubmitFinalitySignature, RecordVote, RetryInterval, RetryQuit,
       TakeLaggingTarget, SkipToHeight, LoopQuit, LaggingFound, SendLaggingTarget, LaggingQuit, DaemonStops,
       CloseQuit, stopVars, vars
<1> QED BY <1>4, <1>5 DEF Counts

\* All that is known of the threads.
Threads ==
  /\ OneTarget /\ Places /\ Started /\ RetriesBounded /\ Counts
  /\ failedCycles \in 0..(MaxSubmissionRetries + 1)
  /\ staticStartHeight \in StaticStartHeights

LEMMA ThreadsInit ==
  ASSUME Init
  PROVE  Threads
<1>1. OneTarget /\ Started /\ RetriesBounded
  BY DEF Init, OneTarget, Started, RetriesBounded, SyncPcs
<1>2. booting \in BOOLEAN /\ isLagging \in BOOLEAN /\ quit \in BOOLEAN
  <2>1. booting = FALSE /\ isLagging = FALSE /\ quit = FALSE
    BY DEF Init
  <2> QED BY <2>1, Zenon
<1>3. Places
  BY <1>2 DEF Init, ChainInit, Places, StartPcs, Errors
<1>4. Counts /\ failedCycles \in 0..(MaxSubmissionRetries + 1)
  BY InstanceAssumption DEF Init, Counts
<1>5. staticStartHeight \in StaticStartHeights
  BY DEF Init
<1> QED BY <1>1, <1>3, <1>4, <1>5 DEF Threads

LEMMA ThreadsHold == Spec => [](InstanceInv /\ Reached /\ Threads)
<1>1. Init => Threads
  BY ThreadsInit
<1>2. InstanceInv /\ Reached /\ Threads /\ [Next]_vars => Threads'
  <2> SUFFICES ASSUME InstanceInv, Reached, Threads, [Next]_vars
               PROVE  Threads'
    OBVIOUS
  <2>1. OneTarget' /\ Places' /\ Started'
    BY OneTargetStep, PlacesStep, StartedStep DEF Threads
  <2>2. RetriesBounded' /\ failedCycles' \in 0..(MaxSubmissionRetries + 1)
    BY RetriesStep DEF Threads
  <2>3. Counts'
    BY CountsStep DEF Threads
  <2>4. staticStartHeight' \in StaticStartHeights
    BY DEF Threads, Next, vars
  <2> QED BY <2>1, <2>2, <2>3, <2>4 DEF Threads
<1> QED BY <1>1, <1>2, ReachedHolds, PTL DEF Spec

\* The send of checkLaggingLoop into laggingTargetChan, which does not listen to
\* quit, never waits: isLagging keeps the loop from looking for a second target
\* until the fast sync of the first one is over.  This is what lets Stop return.
THEOREM LaggingSendNeverWaits == Spec => []SendFindsRoom
<1>1. Threads => SendFindsRoom
  BY DEF Threads, OneTarget, SendFindsRoom
<1> QED BY <1>1, ThreadsHold, PTL

\* retrySubmitFinalitySignatureUntilBlockFinalized submits a block only while
\* fewer than MaxSubmissionRetries + 1 of its submissions have failed: the count
\* starts anew with every block, and neither a lagging target nor a stop in
\* between carries an old count over or loses the limit.
THEOREM RetriesAreBounded == Spec => []RetriesBounded
<1>1. Threads => RetriesBounded
  BY DEF Threads
<1> QED BY <1>1, ThreadsHold, PTL

\* Every variable of an instance keeps its type; with Reached, the heights stay
\* within those of the chain.
THEOREM InstanceTypeCorrect == Spec => []TypeOK
<1>1. ASSUME InstanceInv, Reached, Threads
      PROVE  TypeOK
  <2>1. MaxHeight \in Nat /\ ActivatedHeight \in Nat /\ ActivatedHeight >= 2 /\ ActivatedHeight <= MaxHeight
    BY InstanceAssumption
  <2>2. HeightTypes
    BY <1>1, HeightsAreNat
  <2>3. tip \in Nat /\ tip >= 1 /\ tip <= MaxHeight
    BY <1>1, <2>1 DEF Reached, Heights
  <2>4. tip \in Heights /\ finalized \in 0..MaxHeight
    BY <1>1, <2>1, <2>2, <2>3 DEF Reached, HeightTypes
  <2>5. power \subseteq Heights
    BY <2>1, <2>2 DEF HeightTypes, Heights
  <2>6. votes \subseteq Heights /\ sync.batch \in SUBSET Heights
    <3>1. \A h \in votes : h \in power
      BY <1>1 DEF Reached, VotesHavePower
    <3>2. \A h \in sync.batch : h \in power
      BY <1>1 DEF Reached, SyncReached
    <3> QED BY <2>5, <3>1, <3>2
  <2>7. cursor \in 0..(MaxHeight + 1)
    <3>1. cursor \in Nat /\ cursor <= Larger(tip + 1, ActivatedHeight)
      BY <1>1, <2>2 DEF HeightTypes, Reached, LoopReached
    <3>2. Larger(tip + 1, ActivatedHeight) \in Nat /\ Larger(tip + 1, ActivatedHeight) <= MaxHeight + 1
      BY <2>1, <2>3 DEF Larger
    <3> QED BY <2>1, <3>1, <3>2
  <2>8. received \in 0..MaxHeight /\ laggingTargetChan \in 0..MaxHeight /\ lagTarget \in 0..MaxHeight
    BY <1>1, <2>1, <2>2, <2>3 DEF HeightTypes, Reached, LoopReached, LagReached
  <2>9. sync.start \in 0..(MaxHeight + 1) /\ sync.end \in 0..MaxHeight /\ sync.synced \in 0..MaxHeight
    BY <1>1, <2>1, <2>2, <2>3 DEF HeightTypes, Reached, SyncReached
  <2>10. sync \in [start : 0..(MaxHeight + 1), end : 0..MaxHeight, synced : 0..MaxHeight,
                   batch : SUBSET Heights]
    <3>1. sync \in SyncRecord
      BY <1>1 DEF InstanceInv, Types
    <3> QED BY <2>6, <2>9, <3>1 DEF SyncRecord
  <2>11. db \in StoredFinalityProvider /\ mem \in StoredFinalityProvider
    BY <1>1 DEF InstanceInv, Types
  <2> QED BY <1>1, <2>4, <2>5, <2>6, <2>7, <2>8, <2>10, <2>11 DEF Threads, Places, Counts, TypeOK
<1> QED BY <1>1, ThreadsHold, PTL
=============================================================================
