-------------------------- MODULE ClientController --------------------------
(***************************************************************************)
(* The client controller (clientcontroller/babylon.go, retry_utils.go):    *)
(* calls that send messages to Babylon, several of them at once, each      *)
(* with retries.  ChainQueries has the queries.                            *)
(*                                                                         *)
(* reliablySendMsgs hands its messages to the Babylon client's             *)
(* ReliablySendMsgs, which is not part of this repository.  It builds a    *)
(* transaction with the account's current sequence, waits for it, and      *)
(* tries again unless the error is on the list of unrecoverable errors     *)
(* the caller gave.  A transaction nobody waits for any more stays in the  *)
(* mempool and may be executed later.  All calls of the daemon sign with   *)
(* one account, and a transaction is executed only at its sequence.        *)
(***************************************************************************)
EXTENDS Integers, FiniteSets

CONSTANTS
  Calls,         \* the calls a behaviour makes
  MaxAttempts,   \* attempts of one ReliablySendMsgs
  NumPubRand,    \* heights covered by one commit of public randomness
  MaxPunish      \* how often the chain jails or slashes the provider

ASSUME ClientAssumption ==
  /\ MaxAttempts \in Nat \ {0}
  /\ NumPubRand \in Nat \ {0}
  /\ MaxPunish \in Nat

VARIABLES
  call,          \* what each call is doing
  pending,       \* transactions nobody waits for, not yet executed
  seq,           \* the account's sequence on the chain
  registered,    \* the chain's record of the provider ...
  standing,      \* ... whether it is in good standing ...
  committed,     \* ... the heights with public randomness ...
  votes,         \* ... and the heights it has voted for
  punished,      \* how often it has been punished
  landed         \* the calls whose message the chain has executed

callVars == <<call, pending>>
chainVars == <<registered, standing, committed, votes>>
vars == <<call, pending, seq, chainVars, punished, landed>>

(* The messages. Votes and commits of randomness name the heights they cover. *)
Heights == 1..2 * NumPubRand
Commits == {1..NumPubRand, NumPubRand + 1..2 * NumPubRand}
Message(op, arg) == [op |-> op, arg |-> arg]
Messages ==
  [op : {"register", "unjail"}, arg : {{}}]
    \union [op : {"commit"}, arg : Commits]
    \union [op : {"vote"}, arg : {{h} : h \in Heights}]
    \union [op : {"batch"}, arg : {s \in SUBSET Heights : Cardinality(s) = 2}]
NoMessage == Message("none", {})

(* The errors of the chain, and the two of the transport.                  *)
ChainErrors == {"ErrFpRegistered", "ErrFpNotFound", "ErrInvalidPubRand", "ErrPubRandNotFound",
                "ErrFpAlreadySlashed", "ErrFpAlreadyJailed", "ErrFpNotJailed"}
Errors == ChainErrors \union {"ErrRejected", "ErrTimeout"}

(***************************************************************************)
(* What each kind of call declares as not worth another attempt.           *)
(***************************************************************************)
CommitUnrecoverable ==
  {"ErrInvalidPubRand", "ErrTooFewPubRand", "ErrNoPubRandYet", "ErrFpNotFound"}

VoteUnrecoverable == {"ErrInvalidFinalitySig", "ErrPubRandNotFound", "ErrFpAlreadySlashed"}

UnjailUnrecoverable == {"ErrFpNotFound", "ErrFpNotJailed", "ErrFpAlreadySlashed"}

Unrecoverable(op) ==
  CASE op = "commit" -> CommitUnrecoverable
    [] op \in {"vote", "batch"} -> VoteUnrecoverable
    [] op = "unjail" -> UnjailUnrecoverable
    [] OTHER -> {}

\* Mutant: the list repeats what CommitPubRandList declares.
IsUnrecoverable_InvalidPubRand(err) ==
  err \in {"ErrBlockNotFound", "ErrInvalidFinalitySig", "ErrNoPubRandYet", "ErrPubRandNotFound",
           "ErrTooFewPubRand", "ErrFpAlreadySlashed", "ErrFpAlreadyJailed", "ErrInvalidPubRand"}

\* What the callers of the controller take for critical.
IsUnrecoverable(err) ==
  err \in {"ErrBlockNotFound", "ErrInvalidFinalitySig", "ErrNoPubRandYet", "ErrPubRandNotFound",
           "ErrTooFewPubRand", "ErrFpAlreadySlashed", "ErrFpAlreadyJailed"}

(***************************************************************************)
(* The chain.  What executing a message does: the error it is refused      *)
(* with, or its effect.                                                    *)
(***************************************************************************)
Refusal(m) ==
  LET unless(reason, applies) == IF applies THEN reason ELSE "none" IN
  IF m.op = "register" THEN unless("ErrFpRegistered", registered)
  ELSE IF ~registered THEN "ErrFpNotFound"
  ELSE IF m.op = "commit"
    THEN unless("ErrInvalidPubRand", \E h \in m.arg, k \in committed : h <= k)
  ELSE IF standing = "slashed" THEN "ErrFpAlreadySlashed"
  ELSE IF m.op = "unjail" THEN unless("ErrFpNotJailed", standing # "jailed")
  ELSE IF standing = "jailed" THEN "ErrFpAlreadyJailed"
  ELSE unless("ErrPubRandNotFound", ~(m.arg \subseteq committed))

Effect(m) ==
  /\ registered' = (registered \/ m.op = "register")
  /\ standing' = IF m.op = "unjail" THEN "good" ELSE standing
  /\ committed' = IF m.op = "commit" THEN committed \union m.arg ELSE committed
  /\ votes' = IF m.op \in {"vote", "batch"} THEN votes \union m.arg ELSE votes

\* A transaction of call c is executed: it uses up the sequence in either case.
Execute(c, m) ==
  /\ seq' = seq + 1
  /\ IF Refusal(m) = "none"
       THEN Effect(m) /\ landed' = landed \union {c}
       ELSE UNCHANGED <<chainVars, landed>>
  /\ UNCHANGED punished

Punish ==
  /\ registered /\ standing # "slashed"
  /\ punished < MaxPunish
  /\ punished' = punished + 1
  /\ \E s \in {"jailed", "slashed"} \ {standing} : standing' = s
  /\ UNCHANGED <<callVars, seq, registered, committed, votes, landed>>

(***************************************************************************)
(* A call.                                                                 *)
(***************************************************************************)
Idle == [pc |-> "idle", msg |-> NoMessage, attempts |-> 0, seq |-> 0, err |-> "none"]

Init ==
  /\ call = [c \in Calls |-> Idle]
  /\ pending = {}
  /\ seq = 0
  /\ \/ registered = FALSE /\ committed = {}
     \/ registered = TRUE /\ committed \in {{}, Heights}
  /\ standing = "good" /\ votes = {}
  /\ punished = 0
  /\ landed = {}

reliablySendMsgs(c, m) ==
  /\ call[c].pc = "idle"
  /\ call' = [call EXCEPT ![c].pc = "send", ![c].msg = m]
  /\ UNCHANGED <<pending, seq, chainVars, punished, landed>>

RegisterFinalityProvider(c) == reliablySendMsgs(c, Message("register", {}))

CommitPubRandList(c) ==
  \E range \in Commits : reliablySendMsgs(c, Message("commit", range))

SubmitFinalitySig(c) == \E h \in Heights : reliablySendMsgs(c, Message("vote", {h}))

\* All the signatures of a batch are messages of one transaction.
SubmitBatchFinalitySigs(c) ==
  \E m \in Messages : m.op = "batch" /\ reliablySendMsgs(c, m)

UnjailFinalityProvider(c) == reliablySendMsgs(c, Message("unjail", {}))

\* An attempt: a transaction with the account's sequence is broadcast.
SendMsgs(c) ==
  /\ call[c].pc = "send"
  /\ call' = [call EXCEPT ![c].pc = "wait", ![c].attempts = @ + 1, ![c].seq = seq]
  /\ UNCHANGED <<pending, seq, chainVars, punished, landed>>

\* Mutant: a timeout is taken for one of the expected errors.
Answered_TimeoutExpected(c, err) ==
  call' = [call EXCEPT ![c].err = IF err = "ErrTimeout" THEN "none" ELSE err,
                       ![c].pc = IF \/ err \in {"none", "ErrTimeout"} \union Unrecoverable(call[c].msg.op)
                                    \/ call[c].attempts = MaxAttempts
                                 THEN "done" ELSE "send"]

\* Mutant: attempts that time out are not counted.
Answered_TimeoutFree(c, err) ==
  call' = [call EXCEPT ![c].err = err,
                       ![c].attempts = IF err = "ErrTimeout" THEN @ - 1 ELSE @,
                       ![c].pc = IF \/ err \in {"none"} \union Unrecoverable(call[c].msg.op)
                                    \/ call[c].attempts = MaxAttempts /\ err # "ErrTimeout"
                                 THEN "done" ELSE "send"]

\* The outcome of an attempt; no error is expected, as every call passes emptyErrs.
Answered(c, err) ==
  call' = [call EXCEPT ![c].err = err,
                       ![c].pc = IF \/ err \in {"none"} \union Unrecoverable(call[c].msg.op)
                                    \/ call[c].attempts = MaxAttempts
                                 THEN "done" ELSE "send"]

Included(c) ==
  /\ call[c].pc = "wait"
  /\ call[c].seq = seq
  /\ Execute(c, call[c].msg)
  /\ Answered(c, Refusal(call[c].msg))
  /\ UNCHANGED pending

\* The node does not take the transaction: another one has used the sequence.
Rejected(c) ==
  /\ call[c].pc = "wait"
  /\ call[c].seq # seq
  /\ Answered(c, "ErrRejected")
  /\ UNCHANGED <<pending, seq, chainVars, punished, landed>>

\* The answer is late or lost; the transaction is still in the mempool.
TimedOut(c) ==
  /\ call[c].pc = "wait"
  /\ call[c].seq = seq
  /\ pending' = pending \union {[by |-> c, msg |-> call[c].msg, seq |-> call[c].seq]}
  /\ Answered(c, "ErrTimeout")
  /\ UNCHANGED <<seq, chainVars, punished, landed>>

IncludedLate ==
  \E tx \in pending :
    /\ tx.seq = seq
    /\ Execute(tx.by, tx.msg)
    /\ pending' = pending \ {tx}
    /\ UNCHANGED call

Evicted ==
  \E tx \in pending :
    /\ pending' = pending \ {tx}
    /\ UNCHANGED <<call, seq, chainVars, punished, landed>>

Begin(c) ==
  \/ RegisterFinalityProvider(c)
  \/ CommitPubRandList(c)
  \/ SubmitFinalitySig(c)
  \/ SubmitBatchFinalitySigs(c)
  \/ UnjailFinalityProvider(c)

Attempt(c) == SendMsgs(c) \/ Included(c) \/ Rejected(c) \/ TimedOut(c)

Next == (\E c \in Calls : Begin(c) \/ Attempt(c)) \/ IncludedLate \/ Evicted \/ Punish

Spec == Init /\ [][Next]_vars

\* An attempt that was sent is answered or times out.
FairSpec == Spec /\ \A c \in Calls : WF_vars(Attempt(c))

CallRecords ==
  [pc : {"idle", "send", "wait", "done"}, msg : Messages \union {NoMessage},
   attempts : 0..MaxAttempts, seq : Nat, err : Errors \union {"none"}]

TypeOK ==
  /\ call \in [Calls -> CallRecords]
  /\ pending \subseteq [by : Calls, msg : Messages, seq : Nat]
  /\ seq \in Nat
  /\ registered \in BOOLEAN
  /\ standing \in {"good", "jailed", "slashed"}
  /\ committed \subseteq Heights
  /\ votes \subseteq Heights
  /\ punished \in 0..MaxPunish
  /\ landed \subseteq Calls

(***************************************************************************)
(* An error that the instance takes for critical (IsUnrecoverable,         *)
(* retry_utils.go:25) never comes from the call's own success.  A retry of *)
(* a message that has landed unnoticed is refused by the chain; the        *)
(* provider must not be ended for it.  Only a punishment can turn a vote   *)
(* that has landed into a critical error.                                  *)
(***************************************************************************)
SuccessIsNeverCritical ==
  \A c \in landed :
    call[c].pc = "done" /\ IsUnrecoverable(call[c].err) => punished > 0

(***************************************************************************)
(* A call implements Submission: what the callers may conclude from its    *)
(* answer.                                                                 *)
(***************************************************************************)
Answer(c) ==
  IF call[c].pc # "done" THEN "none"
  ELSE IF call[c].err = "none" THEN "ok"
  ELSE IF call[c].err \in ChainErrors THEN "refused"
  ELSE "unknown"

Promise == INSTANCE Submission WITH answer <- [c \in Calls |-> Answer(c)]

PromiseKept == Promise!Spec

(***************************************************************************)
(* Every call returns: the attempts are limited (reliablySendMsgs,         *)
(* babylon.go:99).                                                         *)
(***************************************************************************)
CallReturns == \A c \in Calls : call[c].pc = "send" ~> call[c].pc = "done"
=============================================================================
