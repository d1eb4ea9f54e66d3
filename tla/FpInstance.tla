----------------------------- MODULE FpInstance -----------------------------
(***************************************************************************)
(* The voting side of a finality-provider instance                         *)
(* (finality-provider/service/fp_instance.go, fastsync.go and              *)
(* fp_store_adapter.go): bootstrap, the finality signature submission      *)
(* loop, fast sync, the lagging check, critical errors and Stop, with      *)
(* crashes and restarts of the daemon.                                     *)
(*                                                                         *)
(* The instance reads its blocks from the abstract stream that the chain   *)
(* poller is proved to implement (BlockStream, ChainPollerProofs), so the  *)
(* buffer between the two does not appear here.  A block is its height.  A *)
(* retried query is one step.  The randomness side is in PubRand.          *)
(***************************************************************************)
EXTENDS FpStore, FiniteSetsExt

CONSTANTS
  MaxHeight,             \* bound: the chain stops growing at this height
  ActivatedHeight,       \* BTC staking activation: no voting power below it
  FastSyncGap,           \* config FastSyncGap
  FastSyncLimit,         \* config FastSyncLimit
  MaxSubmissionRetries,  \* config MaxSubmissionRetries
  StaticStartHeights,    \* configs StaticChainScanningStartHeight that are tried, 0
                         \* for the AutoChainScanningMode
  MaxFaults,             \* bound: crashes, failed queries and failed submissions
  MaxStops,              \* bound: calls of Stop by the daemon
  Punishments            \* what the chain may do to the provider

ASSUME InstanceAssumption ==
  /\ MaxHeight \in Nat
  /\ ActivatedHeight \in 2..MaxHeight
  /\ FastSyncGap \in Nat
  /\ FastSyncLimit \in Nat \ {0}
  /\ MaxSubmissionRetries \in Nat
  /\ StaticStartHeights \subseteq Nat
  /\ MaxFaults \in Nat
  /\ MaxStops \in Nat
  /\ Punishments \subseteq {"jailed", "slashed"}

VARIABLES
  staticStartHeight,  \* config: the static start height, 0 in the automatic mode
  tip,                \* chain: height of the best block
  finalized,          \* chain: height of the last finalized block, 0 if none
  power,              \* chain: the heights at which the provider has voting power
  votes,              \* chain: the heights it has a finality signature for
  standing,           \* chain: "good", "jailed" or "slashed"
  db,                 \* the stored record of the provider
  mem,                \* fpState.fp, the copy in memory
  cursor,             \* the poller: the height it hands over next
  received,           \* the block the submission loop works on
  pc,                 \* where the submission loop (or Start, before it) is
  booting,            \* TRUE while Start runs bootstrap
  failedCycles,       \* retrySubmitFinalitySignatureUntilBlockFinalized's count
  sync,               \* the locals of tryFastSync and FastSync
  criticalErr,        \* the error that waits in reportCriticalErr
  isLagging,          \* FinalityProviderInstance.isLagging
  laggingTargetChan,  \* the channel of capacity one, 0 when empty
  lagPc,              \* where checkLaggingLoop is
  lagTarget,          \* its local latestBlock
  quit,               \* TRUE once FinalityProviderInstance.quit is closed
  stopPc,             \* where the thread in Stop is
  stopper,            \* which thread that is: the daemon or monitorCriticalErr
  lastPolled,         \* the last block of a stopped poller's buffer
  faults, stops       \* used up so far of MaxFaults and MaxStops

chainVars == <<tip, finalized, power, votes, standing>>
stateVars == <<db, mem>>
pollerVars == <<cursor, received>>
loopVars == <<pc, booting, failedCycles, sync, criticalErr>>
lagVars == <<isLagging, laggingTargetChan, lagPc, lagTarget>>
stopVars == <<quit, stopPc, stopper, lastPolled>>
vars == <<staticStartHeight, chainVars, stateVars, pollerVars, loopVars, lagVars, stopVars,
          faults, stops>>

Heights == 1..MaxHeight
StartPcs == {"down", "startPoller"}
SyncPcs == {"sync", "round", "batch", "recordBatch"}
LoopPcs == {"loop", "vote", "recordVote", "retry", "skip", "report", "exited"}
Errors == {"none", "ErrFinalityProviderSlashed", "ErrFpAlreadySlashed",
           "ErrFpAlreadyJailed", "other"}
NoSync == [start |-> 0, end |-> 0, synced |-> 0, batch |-> {}]

TypeOK ==
  /\ staticStartHeight \in StaticStartHeights
  /\ tip \in Heights
  /\ finalized \in 0..MaxHeight
  /\ power \subseteq Heights
  /\ votes \subseteq Heights
  /\ standing \in {"good", "jailed", "slashed"}
  /\ db \in StoredFinalityProvider
  /\ mem \in StoredFinalityProvider
  /\ cursor \in 0..(MaxHeight + 1)
  /\ received \in 0..MaxHeight
  /\ pc \in StartPcs \cup SyncPcs \cup LoopPcs
  /\ booting \in BOOLEAN
  /\ failedCycles \in 0..(MaxSubmissionRetries + 1)
  /\ sync \in [start : 0..(MaxHeight + 1), end : 0..MaxHeight, synced : 0..MaxHeight,
               batch : SUBSET Heights]
  /\ criticalErr \in Errors
  /\ isLagging \in BOOLEAN
  /\ laggingTargetChan \in 0..MaxHeight
  /\ lagPc \in {"off", "idle", "send", "exited"}
  /\ lagTarget \in 0..MaxHeight
  /\ quit \in BOOLEAN
  /\ stopPc \in {"idle", "poller", "close", "waiting"}
  /\ stopper \in {"none", "daemon", "monitor"}
  /\ lastPolled \in 0..MaxHeight
  /\ faults \in 0..MaxFaults
  /\ stops \in 0..MaxStops

-----------------------------------------------------------------------------
(* The consumer chain.  The provider's power at a height is fixed once the *)
(* block exists; other providers decide when a block is finalized.         *)

ChainInit ==
  /\ tip = 1
  /\ finalized = 0
  /\ power \in SUBSET (ActivatedHeight..MaxHeight)
  /\ votes = {}
  /\ standing = "good"

NewBlock ==
  /\ tip < MaxHeight
  /\ tip' = tip + 1
  /\ UNCHANGED <<finalized, power, votes, standing, stateVars, pollerVars, loopVars, lagVars,
                 stopVars, faults, stops>>

FinalizeBlock ==
  /\ finalized' = IF finalized = 0 THEN ActivatedHeight ELSE finalized + 1
  /\ finalized' <= tip
  /\ UNCHANGED <<tip, power, votes, standing, stateVars, pollerVars, loopVars, lagVars,
                 stopVars, faults, stops>>

\* A punished provider has no power in later blocks.
Punish ==
  /\ standing = "good"
  /\ standing' \in Punishments
  /\ power' = power \cap 1..tip
  /\ UNCHANGED <<tip, finalized, votes, stateVars, pollerVars, loopVars, lagVars, stopVars,
                 faults, stops>>

\* Something went wrong outside of the program.
Fault == faults < MaxFaults /\ faults' = faults + 1

-----------------------------------------------------------------------------
(* The state of the provider, in memory and in the store.                  *)

\* setStatus.
SetStatus(status) ==
  /\ mem' = [mem EXCEPT !.status = status]
  /\ db' = SetFpStatus(db, status)

\* setLastProcessedHeight: memory is assigned, the store only rises.
SetLastProcessedHeight(height) ==
  /\ mem' = [mem EXCEPT !.lastProcessedHeight = height]
  /\ db' = SetFpLastProcessedHeight(db, height)

\* setLastProcessedAndVotedHeight.
SetLastProcessedAndVotedHeight(height) ==
  /\ mem' = [mem EXCEPT !.lastVotedHeight = height, !.lastProcessedHeight = height]
  /\ db' = SetFpLastVotedHeight(db, height)

HasProcessed(height) == height <= mem.lastProcessedHeight

CheckLagging(height) == height >= mem.lastProcessedHeight + FastSyncGap

\* There is no instance any more: its memory, goroutines and channels are
\* gone and only the store is left.
InstanceGone ==
  /\ mem' = db'
  /\ cursor' = 0 /\ received' = 0
  /\ pc' = "down" /\ booting' = FALSE /\ failedCycles' = 0
  /\ sync' = NoSync /\ criticalErr' = "none"
  /\ isLagging' = FALSE /\ laggingTargetChan' = 0 /\ lagPc' = "off" /\ lagTarget' = 0
  /\ quit' = FALSE /\ stopPc' = "idle" /\ stopper' = "none" /\ lastPolled' = MaxHeight

\* The daemon is killed, or a Fatal log entry ends it.
Crash ==
  /\ pc # "down"
  /\ Fault
  /\ db' = db
  /\ InstanceGone
  /\ UNCHANGED <<chainVars, stops>>

-----------------------------------------------------------------------------
(* Start and bootstrap.                                                    *)

\* NewFinalityProviderInstance loads the record; Start queries the latest
\* block and enters fast sync if it lags behind.
StartInstance ==
  /\ pc = "down"
  /\ ShouldStart(db)
  /\ mem' = db
  /\ booting' = TRUE
  /\ IF tip >= db.lastProcessedHeight + FastSyncGap
     THEN pc' = "sync" /\ sync' = [NoSync EXCEPT !.end = tip]
     ELSE pc' = "startPoller" /\ UNCHANGED sync
  /\ UNCHANGED <<chainVars, db, pollerVars, failedCycles, criticalErr, lagVars, stopVars,
                 faults, stops>>

\* Mutant: the block after the last processed one is left out.
PollerStartingHeight_TooHigh == mem.lastProcessedHeight + 1

\* getPollerStartingHeight.
PollerStartingHeight ==
  IF staticStartHeight # 0
  THEN staticStartHeight
  ELSE Larger(Larger(mem.lastProcessedHeight, finalized), 1)

\* The end of Start.  The poller accepts heights up to the next one of the
\* chain (validateStartHeight) and moves on to the activated height if that
\* is higher (waitForActivation).
StartPoller ==
  /\ pc = "startPoller"
  /\ PollerStartingHeight <= tip
  /\ cursor' = Larger(PollerStartingHeight + 1, ActivatedHeight)
  /\ pc' = "loop"
  /\ booting' = FALSE
  /\ lagPc' = "idle"
  /\ UNCHANGED <<chainVars, stateVars, received, failedCycles, sync, criticalErr, isLagging,
                 laggingTargetChan, lagTarget, stopVars, faults, stops>>

\* The poller rejects the height and Start fails.
StartFails ==
  /\ pc = "startPoller"
  /\ PollerStartingHeight > tip
  /\ db' = db
  /\ InstanceGone
  /\ UNCHANGED <<chainVars, faults, stops>>

-----------------------------------------------------------------------------
(* Fast sync, from bootstrap and from the submission loop.                 *)

\* What the callers of tryFastSync do with an error: bootstrap fails Start,
\* and records that the provider is jailed; the loop reports a slashed
\* provider and otherwise goes on.
SyncFails(err) ==
  IF booting
  THEN /\ db' = IF err = "ErrFinalityProviderJailed" THEN SetFpStatus(db, "JAILED") ELSE db
       /\ InstanceGone
  ELSE /\ isLagging' = FALSE
       /\ sync' = NoSync
       /\ IF err = "ErrFinalityProviderSlashed"
          THEN pc' = "report" /\ criticalErr' = err
          ELSE pc' = "loop" /\ UNCHANGED criticalErr
       /\ UNCHANGED <<stateVars, pollerVars, booting, failedCycles, laggingTargetChan, lagPc,
                      lagTarget, stopVars>>

SyncStartHeight == Larger(finalized, mem.lastProcessedHeight) + 1

\* tryFastSync up to its call of FastSync.  inSync is never set here: only
\* one thread syncs, Start before the loops exist and then the loop.
TryFastSync ==
  /\ pc = "sync"
  /\ \/ /\ finalized = 0
        /\ pc' = IF booting THEN "startPoller" ELSE "loop"
        /\ isLagging' = FALSE
        /\ sync' = NoSync
        /\ UNCHANGED <<stateVars, pollerVars, booting, failedCycles, criticalErr,
                       laggingTargetChan, lagPc, lagTarget, stopVars, faults>>
     \/ /\ finalized # 0
        /\ SyncStartHeight > sync.end
        /\ SyncFails("other")
        /\ UNCHANGED faults
     \/ /\ finalized # 0
        /\ SyncStartHeight <= sync.end
        /\ sync' = [sync EXCEPT !.start = SyncStartHeight]
        /\ pc' = "round"
        /\ UNCHANGED <<stateVars, pollerVars, booting, failedCycles, criticalErr, lagVars,
                       stopVars, faults>>
     \/ Fault /\ SyncFails("other")
  /\ UNCHANGED <<chainVars, stops>>

\* One round of FastSync: a limited query, then the blocks that still need a
\* vote.
FastSyncRound ==
  LET last == Min({sync.end, sync.start + FastSyncLimit - 1})
      catchUpBlocks == {b \in sync.start..last : ~HasProcessed(b) /\ b \in power}
  IN  /\ pc = "round"
      /\ sync.start <= sync.end
      /\ \/ /\ IF catchUpBlocks = {}
               THEN sync' = [sync EXCEPT !.start = last + 1] /\ UNCHANGED pc
               ELSE /\ sync' = [sync EXCEPT !.start = last + 1, !.batch = catchUpBlocks,
                                            !.synced = Max(catchUpBlocks)]
                    /\ pc' = "batch"
            /\ UNCHANGED <<stateVars, pollerVars, booting, failedCycles, criticalErr, lagVars,
                           stopVars, faults>>
         \/ Fault /\ SyncFails("other")
      /\ UNCHANGED <<chainVars, stops>>

\* SubmitBatchFinalitySignatures asks for as many consecutive values of
\* randomness as there are blocks, from the first block on.
BatchRandomness(batch) == Min(batch)..(Min(batch) + Cardinality(batch) - 1)

\* The chain accepts the signatures of a batch together, if the randomness
\* of each one is that of its block.
SubmitBatch ==
  /\ pc = "batch"
  /\ \/ /\ standing = "good"
        /\ BatchRandomness(sync.batch) = sync.batch
        /\ votes' = votes \cup sync.batch
        /\ pc' = "recordBatch"
        /\ UNCHANGED <<stateVars, pollerVars, booting, failedCycles, sync, criticalErr,
                       lagVars, stopVars, faults>>
     \/ /\ standing = "good"
        /\ BatchRandomness(sync.batch) # sync.batch
        /\ SyncFails("other")
        /\ UNCHANGED <<votes, faults>>
     \/ /\ standing = "jailed"
        /\ SyncFails("ErrFinalityProviderJailed")
        /\ UNCHANGED <<votes, faults>>
     \/ /\ standing = "slashed"
        /\ SyncFails("ErrFinalityProviderSlashed")
        /\ UNCHANGED <<votes, faults>>
     \/ /\ Fault
        /\ \/ UNCHANGED votes
           \/ /\ standing = "good" /\ BatchRandomness(sync.batch) = sync.batch
              /\ votes' = votes \cup sync.batch
        /\ SyncFails("other")
  /\ UNCHANGED <<tip, finalized, power, standing, stops>>

\* The end of SubmitBatchFinalitySignatures.
RecordBatch ==
  /\ pc = "recordBatch"
  /\ SetLastProcessedAndVotedHeight(Max(sync.batch))
  /\ sync' = [sync EXCEPT !.batch = {}]
  /\ pc' = "round"
  /\ UNCHANGED <<chainVars, pollerVars, booting, failedCycles, criticalErr, lagVars, stopVars,
                 faults, stops>>

\* FastSync has reached the end of its range.
FastSyncDone ==
  /\ pc = "round"
  /\ sync.start > sync.end
  /\ SetLastProcessedHeight(sync.synced)
  /\ sync' = NoSync
  /\ isLagging' = FALSE
  /\ pc' = IF booting THEN "startPoller" ELSE "skip"
  /\ UNCHANGED <<chainVars, pollerVars, booting, failedCycles, criticalErr, laggingTargetChan,
                 lagPc, lagTarget, stopVars, faults, stops>>

-----------------------------------------------------------------------------
(* finalitySigSubmissionLoop.                                              *)

Poller == INSTANCE BlockStream

Report(err) == pc' = "report" /\ criticalErr' = err

\* A block arrives from the poller, unless Stop has ended it and its buffer
\* is drained.
ReceiveBlock ==
  /\ pc = "loop"
  /\ cursor <= tip /\ cursor <= lastPolled
  /\ Poller!Deliver
  /\ failedCycles' = 0
  /\ \/ /\ HasProcessed(cursor)
        /\ UNCHANGED <<pc, criticalErr, stateVars, faults>>
     \/ /\ ~HasProcessed(cursor)
        /\ IF cursor \in power
           THEN pc' = "vote" /\ UNCHANGED stateVars
           ELSE SetLastProcessedHeight(cursor) /\ UNCHANGED pc
        /\ UNCHANGED <<criticalErr, faults>>
     \/ /\ ~HasProcessed(cursor)
        /\ Fault
        /\ Report("other")
        /\ UNCHANGED stateVars
  /\ UNCHANGED <<chainVars, booting, sync, lagVars, stopVars, stops>>

\* SubmitFinalitySignature up to the answer of the chain.  A failed
\* submission may have been included nevertheless.  An unrecoverable error
\* ends the retries at once, any other one after MaxSubmissionRetries.
SubmitFinalitySignature ==
  /\ pc = "vote"
  /\ \/ /\ standing = "good"
        /\ votes' = votes \cup {received}
        /\ pc' = "recordVote"
        /\ UNCHANGED <<criticalErr, failedCycles, faults>>
     \/ /\ standing # "good"
        /\ Report(IF standing = "slashed" THEN "ErrFpAlreadySlashed" ELSE "ErrFpAlreadyJailed")
        /\ UNCHANGED <<votes, failedCycles, faults>>
     \/ /\ Fault
        /\ UNCHANGED votes \/ (standing = "good" /\ votes' = votes \cup {received})
        /\ failedCycles' = failedCycles + 1
        /\ IF failedCycles' > MaxSubmissionRetries
           THEN Report("other")
           ELSE pc' = "retry" /\ UNCHANGED criticalErr
  /\ UNCHANGED <<tip, finalized, power, standing, stateVars, pollerVars, booting, sync, lagVars,
                 stopVars, stops>>

\* The end of SubmitFinalitySignature.
RecordVote ==
  /\ pc = "recordVote"
  /\ SetLastProcessedAndVotedHeight(received)
  /\ pc' = "loop"
  /\ UNCHANGED <<chainVars, pollerVars, booting, failedCycles, sync, criticalErr, lagVars,
                 stopVars, faults, stops>>

\* Mutant: a block that exists is held to be finalized.
CheckBlockFinalization_Exists(height) == height <= tip

CheckBlockFinalization(height) == height <= finalized

\* The retry interval is over: a finalized block needs no vote any more.
RetryInterval ==
  /\ pc = "retry"
  /\ \/ /\ pc' = IF CheckBlockFinalization(received) THEN "loop" ELSE "vote"
        /\ UNCHANGED <<criticalErr, faults>>
     \/ Fault /\ Report("other")
  /\ UNCHANGED <<chainVars, stateVars, pollerVars, booting, failedCycles, sync, lagVars,
                 stopVars, stops>>

\* Stop interrupts the retries and the loop goes on to its select.
RetryQuit ==
  /\ pc = "retry"
  /\ quit
  /\ pc' = "loop"
  /\ UNCHANGED <<chainVars, stateVars, pollerVars, booting, failedCycles, sync, criticalErr,
                 lagVars, stopVars, faults, stops>>

TakeLaggingTarget ==
  /\ pc = "loop"
  /\ laggingTargetChan # 0
  /\ sync' = [NoSync EXCEPT !.end = laggingTargetChan]
  /\ laggingTargetChan' = 0
  /\ pc' = "sync"
  /\ UNCHANGED <<chainVars, stateVars, pollerVars, booting, failedCycles, criticalErr,
                 isLagging, lagPc, lagTarget, stopVars, faults, stops>>

SkipHeight == mem.lastProcessedHeight + 1

\* SkipToHeight.  The poller refuses a height that it has already polled and
\* any height once it is stopped.
SkipToHeight ==
  /\ pc = "skip"
  /\ pc' = "loop"
  /\ \/ UNCHANGED cursor
     \/ /\ stopPc \in {"idle", "poller"}
        /\ SkipHeight > cursor
        /\ cursor' = SkipHeight
  /\ UNCHANGED <<chainVars, stateVars, received, booting, failedCycles, sync, criticalErr,
                 lagVars, stopVars, faults, stops>>

LoopQuit ==
  /\ pc = "loop"
  /\ quit
  /\ pc' = "exited"
  /\ UNCHANGED <<chainVars, stateVars, pollerVars, booting, failedCycles, sync, criticalErr,
                 lagVars, stopVars, faults, stops>>

-----------------------------------------------------------------------------
(* checkLaggingLoop.                                                       *)

\* Mutant: the check does not look at isLagging.
MayCheckLagging_Always == lagPc = "idle"

MayCheckLagging == lagPc = "idle" /\ ~isLagging

LaggingFound ==
  /\ MayCheckLagging
  /\ CheckLagging(tip)
  /\ isLagging' = TRUE
  /\ lagTarget' = tip
  /\ lagPc' = "send"
  /\ UNCHANGED <<chainVars, stateVars, pollerVars, loopVars, laggingTargetChan, stopVars,
                 faults, stops>>

\* fp.laggingTargetChan <- latestBlock does not listen to quit.
SendLaggingTarget ==
  /\ lagPc = "send"
  /\ laggingTargetChan = 0
  /\ laggingTargetChan' = lagTarget
  /\ lagTarget' = 0
  /\ lagPc' = "idle"
  /\ UNCHANGED <<chainVars, stateVars, pollerVars, loopVars, isLagging, stopVars, faults,
                 stops>>

LaggingQuit ==
  /\ lagPc = "idle"
  /\ quit
  /\ lagPc' = "exited"
  /\ UNCHANGED <<chainVars, stateVars, pollerVars, loopVars, isLagging, laggingTargetChan,
                 lagTarget, stopVars, faults, stops>>

-----------------------------------------------------------------------------
(* Critical errors and Stop.                                               *)

\* monitorCriticalErr recognises a slashed provider by errors.Is.
HandledAsSlashed(err) == err = "ErrFinalityProviderSlashed"

\* monitorCriticalErr takes the error from the unbuffered criticalErrChan.
\* It sets a slashed provider's status and stops the instance in its own
\* thread (setFinalityProviderSlashed); any other error is Fatal.
MonitorCriticalErr ==
  /\ pc = "report"
  /\ stopper = "none"
  /\ IF HandledAsSlashed(criticalErr)
     THEN /\ SetStatus("SLASHED")
          /\ pc' = "loop"
          /\ criticalErr' = "none"
          /\ stopper' = "monitor"
          /\ stopPc' = "poller"
          /\ UNCHANGED <<pollerVars, booting, failedCycles, sync, lagVars, quit, lastPolled>>
     ELSE db' = db /\ InstanceGone
  /\ UNCHANGED <<chainVars, faults, stops>>

\* FinalityProviderManager.Stop: its monitors have exited when it stops the
\* instance.
DaemonStops ==
  /\ ~booting /\ pc # "down"
  /\ stopper = "none"
  /\ stops < MaxStops
  /\ stops' = stops + 1
  /\ stopper' = "daemon"
  /\ stopPc' = "poller"
  /\ UNCHANGED <<chainVars, stateVars, pollerVars, loopVars, lagVars, quit, lastPolled, faults>>

\* poller.Stop() has returned: its buffer holds the blocks up to lastPolled.
PollerStopped ==
  /\ stopPc = "poller"
  /\ stopPc' = "close"
  /\ lastPolled' \in (cursor - 1)..tip
  /\ UNCHANGED <<chainVars, stateVars, pollerVars, loopVars, lagVars, quit, stopper, faults,
                 stops>>

CloseQuit ==
  /\ stopPc = "close"
  /\ quit' = TRUE
  /\ stopPc' = "waiting"
  /\ UNCHANGED <<chainVars, stateVars, pollerVars, loopVars, lagVars, stopper, lastPolled,
                 faults, stops>>

\* wg.Wait() returns and the instance is dropped.
StopReturns ==
  /\ stopPc = "waiting"
  /\ pc = "exited" /\ lagPc = "exited"
  /\ db' = db
  /\ InstanceGone
  /\ UNCHANGED <<chainVars, faults, stops>>

-----------------------------------------------------------------------------

Init ==
  /\ staticStartHeight \in StaticStartHeights
  /\ ChainInit
  /\ db = SetFpStatus(CreateFinalityProvider, "REGISTERED")
  /\ mem = db
  /\ cursor = 0 /\ received = 0
  /\ pc = "down" /\ booting = FALSE /\ failedCycles = 0
  /\ sync = NoSync /\ criticalErr = "none"
  /\ isLagging = FALSE /\ laggingTargetChan = 0 /\ lagPc = "off" /\ lagTarget = 0
  /\ quit = FALSE /\ stopPc = "idle" /\ stopper = "none" /\ lastPolled = MaxHeight
  /\ faults = 0 /\ stops = 0

FastSync == TryFastSync \/ FastSyncRound \/ SubmitBatch \/ RecordBatch \/ FastSyncDone

Vote == SubmitFinalitySignature \/ RecordVote \/ RetryInterval

Stop == PollerStopped \/ CloseQuit \/ StopReturns

Step ==
  \/ NewBlock \/ FinalizeBlock \/ Punish \/ Crash
  \/ StartInstance \/ StartPoller \/ StartFails
  \/ FastSync
  \/ ReceiveBlock \/ Vote \/ RetryQuit \/ TakeLaggingTarget \/ SkipToHeight \/ LoopQuit
  \/ LaggingFound \/ SendLaggingTarget \/ LaggingQuit
  \/ MonitorCriticalErr \/ DaemonStops \/ Stop

Next == Step /\ UNCHANGED staticStartHeight

Spec == Init /\ [][Next]_vars

(***************************************************************************)
(* Fairness.  Every goroutine that can run does.  A select chooses at      *)
(* random among its ready cases, hence strong fairness for the cases of    *)
(* the two loops.  Nothing is assumed of the chain, of the ticker of       *)
(* checkLaggingLoop, or of anyone starting or stopping the instance.       *)
(***************************************************************************)
Live(A) == A /\ UNCHANGED staticStartHeight

Fairness ==
  /\ WF_vars(Live(StartPoller \/ StartFails \/ FastSync \/ Vote \/ SkipToHeight))
  /\ SF_vars(Live(ReceiveBlock))
  /\ SF_vars(Live(TakeLaggingTarget))
  /\ SF_vars(Live(LoopQuit))
  /\ WF_vars(Live(SendLaggingTarget))
  /\ SF_vars(Live(LaggingQuit))
  /\ WF_vars(Live(MonitorCriticalErr))
  /\ WF_vars(Live(Stop))

FairSpec == Spec /\ Fairness

-----------------------------------------------------------------------------
(* Properties.                                                             *)

\* The block needs no vote any more, or never did.
Settled(height) == height \in power => height \in votes \/ height <= finalized

\* A vote is cast only after every earlier block with voting power has been
\* voted for or finalized (docs/fp-core.md, Invariants): neither a crash nor
\* a lost answer, a restart, a fast sync or a skip makes the provider jump
\* over a block.
VoteOrder == \A h \in votes : \A g \in 1..(h - 1) : Settled(g)

\* What the store claims is true on the chain: it holds no voted height
\* without a vote and every block up to the processed height is settled, so
\* a restart from the store misses no block.  (A provider recorded as slashed
\* never restarts.)
StoredProgressIsReal ==
  /\ db.lastVotedHeight = 0 \/ db.lastVotedHeight \in votes
  /\ db.status # "SLASHED" => \A g \in 1..db.lastProcessedHeight : Settled(g)
  /\ db.lastProcessedHeight >= db.lastVotedHeight

\* The stored heights never move back, although fast sync writes the height
\* it synced to, which is 0 when there was nothing to vote for.
StoredHeightsRise ==
  [][ /\ db'.lastVotedHeight >= db.lastVotedHeight
      /\ db'.lastProcessedHeight >= db.lastProcessedHeight ]_vars

\* An instance that stays up votes for every block in which it has power,
\* unless the block is finalized first.  It is not being stopped and the
\* daemon has not stopped an earlier one.
EveryBlockSettled ==
  <>[](pc # "down" /\ stopper = "none" /\ stops = 0) =>
    \A h \in Heights : (h \in power /\ h <= tip) ~> Settled(h)

\* Stop returns, unless the submission loop is caught in reportCriticalErr.
StopTerminates == stopPc = "waiting" ~> pc \in {"down", "report"}

-----------------------------------------------------------------------------
(* What the documentation says and the code does not do.                   *)

\* fastsync.go: a batch may have gaps, so each block's signature needs the
\* randomness of its own height.
BatchUsesOwnRandomness == pc = "batch" => BatchRandomness(sync.batch) = sync.batch
=============================================================================
