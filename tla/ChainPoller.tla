---------------------------- MODULE ChainPoller ----------------------------
(***************************************************************************)
(* The chain poller of the finality provider                               *)
(* (finality-provider/service/chain_poller.go): a goroutine that queries   *)
(* one block after the other and pushes it into the bounded channel        *)
(* blockInfoChan, its single consumer, which takes blocks from the channel *)
(* and may ask it to skip ahead, and the thread that stops it.             *)
(*                                                                         *)
(* A block is its height.  A retried query (blockWithRetry and             *)
(* latestBlockWithRetry, five attempts each) is one step that succeeds or  *)
(* fails.  A Fatal log entry ends the process: no step follows it.         *)
(***************************************************************************)
EXTENDS Integers, Sequences, FiniteSetsExt

CONSTANTS
  MaxHeight,       \* bound: the chain stops growing at this height
  BufferSize,      \* capacity of blockInfoChan (PollerConfig.BufferSize)
  MaxFailedCycles  \* failed polls in a row that are tolerated (maxFailedCycles)

ASSUME PollerAssumption ==
  /\ MaxHeight \in Nat \ {0}
  /\ BufferSize \in Nat \ {0}
  /\ MaxFailedCycles \in Nat

VARIABLES
  tip,            \* chain: height of the best block
  activated,      \* chain: BTC staking activation height, 0 while not activated
  isStarted,      \* ChainPoller.isStarted
  quit,           \* TRUE once ChainPoller.quit is closed
  nextHeight,     \* ChainPoller.nextHeight
  blockInfoChan,  \* ChainPoller.blockInfoChan: the buffered heights
  failedCycles,   \* pollChain's local failedCycles
  pollPc,         \* where pollChain is
  stopPc,         \* where the thread in Stop is
  skipPc,         \* where the consumer is: in its loop or inside SkipToHeight
  skipTarget,     \* the height of the current skipHeightRequest
  skipResp,       \* its buffered response
  received        \* the height the consumer took last from the channel

chainVars == <<tip, activated>>
pollVars == <<nextHeight, blockInfoChan, failedCycles, pollPc>>
skipVars == <<skipPc, skipTarget, skipResp>>
stopVars == <<isStarted, quit, stopPc>>
vars == <<chainVars, pollVars, skipVars, stopVars, received>>

PollPcs == {"new", "rejected", "activation", "query", "push", "select", "exited", "fatal"}

TypeOK ==
  /\ tip \in 1..MaxHeight
  /\ activated \in 0..MaxHeight
  /\ isStarted \in BOOLEAN
  /\ quit \in BOOLEAN
  /\ nextHeight \in 0..(MaxHeight + 1)
  /\ blockInfoChan \in Seq(1..MaxHeight)
  /\ Len(blockInfoChan) <= BufferSize
  /\ failedCycles \in 0..(MaxFailedCycles + 1)
  /\ pollPc \in PollPcs
  /\ stopPc \in {"idle", "closing", "waiting", "done", "failed"}
  /\ skipPc \in {"loop", "send", "await"}
  /\ skipTarget \in 0..(MaxHeight + 1)
  /\ skipResp \in {"none", "ok", "err"}
  /\ received \in 0..MaxHeight

-----------------------------------------------------------------------------
(* The consumer chain.                                                     *)

ChainInit ==
  /\ tip \in 1..MaxHeight
  /\ activated \in 0..tip

NewBlock ==
  /\ tip < MaxHeight
  /\ tip' = tip + 1
  /\ UNCHANGED <<activated, pollVars, skipVars, stopVars, received>>

Activate ==
  /\ activated = 0
  /\ activated' = tip
  /\ UNCHANGED <<tip, pollVars, skipVars, stopVars, received>>

-----------------------------------------------------------------------------
(* The poller goroutine.                                                   *)

\* NewChainPoller.
PollerInit ==
  /\ isStarted = FALSE
  /\ quit = FALSE
  /\ nextHeight = 0
  /\ blockInfoChan = <<>>
  /\ failedCycles = 0
  /\ pollPc = "new"
  /\ stopPc = "idle"
  /\ skipPc = "loop"
  /\ skipTarget = 0
  /\ skipResp = "none"
  /\ received = 0

\* validateStartHeight: the next chain height is still accepted.
ValidStartHeight(startHeight) == startHeight # 0 /\ startHeight <= tip + 1

\* Start.  isStarted is set before the height is validated and stays set
\* when the height is rejected.
Start(startHeight) ==
  /\ pollPc = "new"
  /\ ~isStarted
  /\ isStarted' = TRUE
  /\ IF ValidStartHeight(startHeight)
     THEN nextHeight' = startHeight /\ pollPc' = "activation"
     ELSE pollPc' = "rejected" /\ UNCHANGED nextHeight
  /\ UNCHANGED <<chainVars, blockInfoChan, failedCycles, skipVars, quit, stopPc, received>>

\* waitForActivation, when the activated height can be queried.
Activated ==
  /\ pollPc = "activation"
  /\ activated # 0
  /\ nextHeight' = IF nextHeight < activated THEN activated ELSE nextHeight
  /\ pollPc' = "query"
  /\ UNCHANGED <<chainVars, blockInfoChan, failedCycles, skipVars, stopVars, received>>

\* Mutant: the activation wait does not listen to quit.
ActivationQuit_Deaf == FALSE /\ UNCHANGED vars

\* waitForActivation, when quit is closed: pollChain goes on to its loop.
ActivationQuit ==
  /\ pollPc = "activation"
  /\ quit
  /\ pollPc' = "query"
  /\ UNCHANGED <<chainVars, nextHeight, blockInfoChan, failedCycles, skipVars, stopVars, received>>

\* pollChain got the block it asked for.
BlockRetrieved ==
  /\ pollPc = "query"
  /\ nextHeight <= tip
  /\ nextHeight' = nextHeight + 1
  /\ failedCycles' = 0
  /\ pollPc' = "push"
  /\ UNCHANGED <<chainVars, blockInfoChan, skipVars, stopVars, received>>

\* The query failed: the block does not exist yet or the node did not answer.
QueryFailed ==
  /\ pollPc = "query"
  /\ failedCycles' = failedCycles + 1
  /\ pollPc' = IF failedCycles' > MaxFailedCycles THEN "fatal" ELSE "select"
  /\ UNCHANGED <<chainVars, nextHeight, blockInfoChan, skipVars, stopVars, received>>

HasRoom == Len(blockInfoChan) < BufferSize

\* cp.blockInfoChan <- block: blocks while the buffer is full, and does not
\* listen to quit.
PushBlock ==
  /\ pollPc = "push"
  /\ HasRoom
  /\ blockInfoChan' = Append(blockInfoChan, nextHeight - 1)
  /\ pollPc' = "select"
  /\ UNCHANGED <<chainVars, nextHeight, failedCycles, skipVars, stopVars, received>>

\* The select of pollChain: the poll interval is over.
PollInterval ==
  /\ pollPc = "select"
  /\ pollPc' = "query"
  /\ UNCHANGED <<chainVars, nextHeight, blockInfoChan, failedCycles, skipVars, stopVars, received>>

\* Mutant: the buffer is left as it is.
Cleared_Nothing(chan, upToHeight) == chan

\* clearChanBufferUpToHeight: take blocks up to and including the first one
\* whose successor has reached the target.
Cleared(chan, upToHeight) ==
  LET last == {i \in DOMAIN chan : chan[i] + 1 >= upToHeight}
  IN  IF last = {} THEN <<>> ELSE SubSeq(chan, Min(last) + 1, Len(chan))

\* Mutant: the target is not compared with the next height.
SkipNotNeeded_Never == FALSE

SkipNotNeeded == skipTarget <= nextHeight

\* Mutant: the early continue sends no response.
SkipResponse_Forgotten == IF SkipNotNeeded THEN "none" ELSE "ok"

SkipResponse == IF SkipNotNeeded THEN "err" ELSE "ok"

\* The select of pollChain: a request arrives on the unbuffered channel
\* skipHeightChan.  Its response goes into a channel of capacity one.
HandleSkip ==
  /\ pollPc = "select"
  /\ skipPc = "send"
  /\ skipPc' = "await"
  /\ pollPc' = "query"
  /\ skipResp' = SkipResponse
  /\ IF SkipNotNeeded
     THEN UNCHANGED <<nextHeight, blockInfoChan>>
     ELSE /\ blockInfoChan' = Cleared(blockInfoChan, skipTarget)
          /\ nextHeight' = skipTarget
  /\ UNCHANGED <<chainVars, failedCycles, skipTarget, stopVars, received>>

\* The select of pollChain: quit is closed.
PollQuit ==
  /\ pollPc = "select"
  /\ quit
  /\ pollPc' = "exited"
  /\ UNCHANGED <<chainVars, nextHeight, blockInfoChan, failedCycles, skipVars, stopVars, received>>

Poll ==
  \/ Activated \/ ActivationQuit \/ BlockRetrieved \/ QueryFailed \/ PushBlock
  \/ PollInterval \/ HandleSkip \/ PollQuit

-----------------------------------------------------------------------------
(* The consumer.                                                           *)

\* A receive from GetBlockInfoChan().
ReceiveBlock ==
  /\ skipPc = "loop"
  /\ blockInfoChan # <<>>
  /\ received' = Head(blockInfoChan)
  /\ blockInfoChan' = Tail(blockInfoChan)
  /\ UNCHANGED <<chainVars, nextHeight, failedCycles, pollPc, skipVars, stopVars>>

\* SkipToHeight up to its first select; a poller that is not running is an
\* error that changes nothing.  The consumer's goroutine exists only once
\* Start has succeeded (fp_instance.go:116-127).
CallSkip(height) ==
  /\ skipPc = "loop"
  /\ isStarted
  /\ pollPc \notin {"new", "rejected"}
  /\ skipPc' = "send"
  /\ skipTarget' = height
  /\ UNCHANGED <<chainVars, pollVars, skipResp, stopVars, received>>

\* Both selects of SkipToHeight return when quit is closed; the response
\* channel is dropped with the call.
SkipQuit ==
  /\ skipPc \in {"send", "await"}
  /\ quit
  /\ skipPc' = "loop"
  /\ skipResp' = "none"
  /\ UNCHANGED <<chainVars, pollVars, skipTarget, stopVars, received>>

SkipReturns ==
  /\ skipPc = "await"
  /\ skipResp # "none"
  /\ skipPc' = "loop"
  /\ skipResp' = "none"
  /\ UNCHANGED <<chainVars, pollVars, skipTarget, stopVars, received>>

-----------------------------------------------------------------------------
(* Stop.                                                                   *)

StopBegins ==
  /\ stopPc = "idle"
  /\ isStarted
  /\ isStarted' = FALSE
  /\ stopPc' = "closing"
  /\ UNCHANGED <<chainVars, pollVars, skipVars, quit, received>>

\* cc.Close() succeeded.
CloseQuit ==
  /\ stopPc = "closing"
  /\ quit' = TRUE
  /\ stopPc' = "waiting"
  /\ UNCHANGED <<chainVars, pollVars, skipVars, isStarted, received>>

\* cc.Close() failed: Stop returns before it closes quit.
CloseFailed ==
  /\ stopPc = "closing"
  /\ stopPc' = "failed"
  /\ UNCHANGED <<chainVars, pollVars, skipVars, isStarted, quit, received>>

\* wg.Wait() returns.
StopReturns ==
  /\ stopPc = "waiting"
  /\ pollPc \in {"rejected", "exited"}
  /\ stopPc' = "done"
  /\ UNCHANGED <<chainVars, pollVars, skipVars, isStarted, quit, received>>

Stop == StopBegins \/ CloseQuit \/ CloseFailed \/ StopReturns

-----------------------------------------------------------------------------

Init == ChainInit /\ PollerInit

Next ==
  /\ pollPc # "fatal"
  /\ \/ NewBlock
     \/ Activate
     \/ \E h \in 0..(tip + 2) : Start(h)
     \/ Poll
     \/ ReceiveBlock
     \/ \E h \in 1..(tip + 1) : CallSkip(h)
     \/ SkipQuit
     \/ SkipReturns
     \/ Stop

Spec == Init /\ [][Next]_vars

(***************************************************************************)
(* Fairness.  The goroutines run.  The select of pollChain takes a request *)
(* or a closed quit that is ready on entry before its timer, which is not, *)
(* hence strong fairness.  Nothing is assumed of the chain or of a caller  *)
(* deciding to skip or to stop.                                            *)
(***************************************************************************)
Live(A) == pollPc # "fatal" /\ A

Fairness ==
  /\ WF_vars(Live(Poll))
  /\ SF_vars(Live(HandleSkip))
  /\ SF_vars(Live(PollQuit))
  /\ WF_vars(Live(ReceiveBlock))
  /\ WF_vars(Live(SkipQuit))
  /\ WF_vars(Live(SkipReturns))
  /\ WF_vars(Live(CloseQuit \/ CloseFailed))
  /\ WF_vars(Live(StopReturns))

FairSpec == Spec /\ Fairness

-----------------------------------------------------------------------------
(* Properties.                                                             *)

\* The height the consumer is due to receive next, read off the channel, the
\* block that waits to be pushed and the next height to poll.
Cursor == nextHeight - Len(blockInfoChan) - (IF pollPc = "push" THEN 1 ELSE 0)

\* The buffered blocks, then the block pollChain holds, then the next height
\* to poll are consecutive heights, all above what the consumer has already
\* received: no polled block is lost, repeated or reordered on its way
\* through blockInfoChan, whatever skips happen.
Contiguous ==
  /\ \A i \in DOMAIN blockInfoChan : blockInfoChan[i] = Cursor + i - 1
  /\ received > 0 => received < Cursor

\* When SkipToHeight is told that the skip succeeded, the buffer holds no
\* block below the target and the very next block the consumer receives is
\* the target (docs/fp-core.md, fast sync, step 4).
SkipTakesEffect == skipResp = "ok" => Cursor = skipTarget

\* The poller implements the abstract stream of consecutive heights: every
\* receive hands over the height at the cursor, and the cursor only moves
\* forward, by a delivery, the activation height or a granted skip.
Stream == INSTANCE BlockStream WITH cursor <- Cursor
ImplementsStream == Stream!StreamSpec

\* Stop returns once it has closed quit, even if pollChain is blocked on a
\* full buffer at that moment, as long as the consumer keeps running.
StopTerminates == stopPc = "waiting" ~> stopPc = "done" \/ pollPc = "fatal"

\* A skip request that the poller has taken is answered, and it takes every
\* request unless it finds its buffer full.
SkipAnsweredUnlessFull ==
  /\ skipPc = "await" ~> skipPc = "loop" \/ pollPc = "fatal"
  /\ skipPc = "send" /\ activated # 0 ~>
       skipPc # "send" \/ pollPc = "fatal" \/ (pollPc = "push" /\ ~HasRoom)

-----------------------------------------------------------------------------
(* What the documentation says and the code does not do.                   *)

\* docs/fp-core.md, fast sync, steps 4 and 5: the buffer is cleared, the next
\* height is reset and the poller is unblocked, so a skip is answered.
SkipAnswered ==
  skipPc = "send" /\ activated # 0 ~> skipPc = "loop" \/ pollPc = "fatal"
=============================================================================
