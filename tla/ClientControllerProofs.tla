----------------------- MODULE ClientControllerProofs -----------------------
(***************************************************************************)
(* Proofs about the calls of the client controller, for any number of      *)
(* concurrent calls, attempts and punishments.                             *)
(***************************************************************************)
EXTENDS ClientController, TLAPS

\* No transaction is ahead of the account.
SequencesPast ==
  /\ \A tx \in pending : tx.seq <= seq
  /\ \A c \in Calls : call[c].pc = "wait" => call[c].seq <= seq

\* An answer by the chain leaves no transaction of the call that could still
\* be executed.
NothingLeft ==
  \A c \in Calls, tx \in pending :
    tx.by = c /\ Answer(c) \in {"ok", "refused"} => tx.seq < seq

\* Transactions are those of their calls.
OwnMessages == \A tx \in pending : tx.msg = call[tx.by].msg /\ call[tx.by].pc # "idle"

\* What is known of a call that has landed, and of the error a call saw last.
LandedFact(c) ==
  /\ call[c].pc # "idle"
  /\ call[c].msg.op \in {"vote", "batch"} => call[c].msg.arg \subseteq committed

LandedFacts == \A c \in landed : LandedFact(c)

ErrorOf(c) ==
  /\ call[c].err \in {"ErrFpAlreadySlashed", "ErrFpAlreadyJailed"} => punished > 0
  /\ call[c].err = "ErrPubRandNotFound" => call[c].pc = "done" /\ c \notin landed
  /\ call[c].pc = "idle" => call[c].err = "none"

ErrorFacts ==
  /\ standing # "good" => punished > 0
  /\ \A c \in Calls : ErrorOf(c)

SucceededLanded == \A c \in Calls : Answer(c) = "ok" => c \in landed

\* A call that has begun has a message.
SentMessages == \A c \in Calls : call[c].pc # "idle" => call[c].msg \in Messages

\* A call that is about to send has an attempt left.
AttemptsLeft == \A c \in Calls : call[c].pc \in {"idle", "send"} => call[c].attempts < MaxAttempts

\* The inductive invariant.
ClientInv ==
  /\ TypeOK
  /\ SequencesPast
  /\ NothingLeft
  /\ OwnMessages
  /\ LandedFacts
  /\ ErrorFacts
  /\ SucceededLanded
  /\ AttemptsLeft
  /\ SentMessages

-----------------------------------------------------------------------------
(* What the chain answers, and what an answer does to the call.            *)

\* The chain answers with one of its errors or with none, and for a reason.
LEMMA RefusalHasReason ==
  ASSUME TypeOK, NEW m \in Messages
  PROVE  /\ Refusal(m) \in ChainErrors \union {"none"}
         /\ Refusal(m) \in {"ErrFpAlreadySlashed", "ErrFpAlreadyJailed"} => standing # "good"
         /\ Refusal(m) = "ErrPubRandNotFound" =>
              m.op \in {"vote", "batch"} /\ ~(m.arg \subseteq committed)
         /\ Refusal(m) = "none" /\ m.op \in {"vote", "batch"} => m.arg \subseteq committed
<1>1. m.op \in {"register", "unjail", "commit", "vote", "batch"}
  BY DEF Messages
<1>. QED
  BY <1>1 DEF TypeOK, Refusal, ChainErrors

\* A message concerns heights of the model only.
LEMMA MessageHeights ==
  ASSUME NEW m \in Messages
  PROVE  m.arg \subseteq Heights
BY ClientAssumption DEF Messages, Commits, Heights

\* Executing a transaction uses up the sequence, adds at most its call to
\* those that have landed, and takes no randomness away.
LEMMA ExecuteStep ==
  ASSUME TypeOK, NEW c \in Calls, NEW m \in Messages, Execute(c, m)
  PROVE  /\ seq' = seq + 1 /\ seq' \in Nat
         /\ registered' \in BOOLEAN
         /\ standing' \in {"good", "jailed", "slashed"}
         /\ standing' \in {"good", standing}
         /\ committed' \subseteq Heights /\ committed \subseteq committed'
         /\ votes' \subseteq Heights
         /\ punished' = punished
         /\ landed' = IF Refusal(m) = "none" THEN landed \union {c} ELSE landed
<1>1. m.arg \subseteq Heights
  BY MessageHeights
<1>2. CASE Refusal(m) = "none"
  BY <1>1, <1>2 DEF Execute, Effect, TypeOK
<1>3. CASE Refusal(m) # "none"
  BY <1>3 DEF Execute, TypeOK, chainVars
<1>. QED
  BY <1>2, <1>3

\* An answer ends the call or leads to another attempt; success ends it.
LEMMA AnsweredStep ==
  ASSUME TypeOK, NEW c \in Calls, NEW err \in Errors \union {"none"}, Answered(c, err)
  PROVE  /\ call' \in [Calls -> CallRecords]
         /\ \A d \in Calls \ {c} : call'[d] = call[d]
         /\ call'[c].msg = call[c].msg
         /\ call'[c].err = err
         /\ call'[c].pc \in {"done", "send"}
         /\ err \in {"none"} \union Unrecoverable(call[c].msg.op) => call'[c].pc = "done"
         /\ call'[c].pc = "send" => call'[c].attempts < MaxAttempts
<1>1. call[c] \in CallRecords
  BY DEF TypeOK
<1>. DEFINE ends == \/ err \in {"none"} \union Unrecoverable(call[c].msg.op)
                    \/ call[c].attempts = MaxAttempts
<1>3. call' = [call EXCEPT ![c] =
                 [@ EXCEPT !.err = err, !.pc = IF ends THEN "done" ELSE "send"]]
  BY <1>1 DEF Answered, TypeOK, CallRecords
<1>4. [call[c] EXCEPT !.err = err, !.pc = IF ends THEN "done" ELSE "send"] \in CallRecords
  BY <1>1 DEF CallRecords
<1>5. call' \in [Calls -> CallRecords] /\ \A d \in Calls \ {c} : call'[d] = call[d]
  BY <1>3, <1>4 DEF TypeOK
<1>6. call'[c] = [call[c] EXCEPT !.err = err, !.pc = IF ends THEN "done" ELSE "send"]
  BY <1>3 DEF TypeOK
<1>7. /\ call'[c].msg = call[c].msg
      /\ call'[c].err = err
      /\ call'[c].attempts = call[c].attempts
      /\ call'[c].pc = IF ends THEN "done" ELSE "send"
  BY <1>1, <1>6 DEF CallRecords
<1>8. ~ends => call[c].attempts < MaxAttempts
  BY <1>1, ClientAssumption DEF CallRecords
<1>. QED
  BY <1>5, <1>7, <1>8

-----------------------------------------------------------------------------
(* The invariant is inductive: one lemma per action.                       *)

LEMMA InitHolds ==
  ASSUME Init
  PROVE  ClientInv
<1>1. /\ \A c \in Calls : call[c] = Idle
      /\ pending = {} /\ landed = {} /\ standing = "good" /\ seq = 0
  BY DEF Init
<1>2. TypeOK
  <2>1. Idle \in CallRecords
    BY ClientAssumption DEF Idle, CallRecords
  <2>2. call \in [Calls -> CallRecords]
    BY <2>1 DEF Init
  <2>3. registered \in BOOLEAN /\ committed \subseteq Heights /\ votes \subseteq Heights
    BY DEF Init
  <2>. QED
    BY <2>2, <2>3, ClientAssumption DEF Init, TypeOK
<1>3. \A c \in Calls : Answer(c) = "none"
  BY <1>1 DEF Answer, Idle
<1>. QED
  BY <1>1, <1>2, <1>3, ClientAssumption DEF ClientInv, SequencesPast, NothingLeft, OwnMessages, LandedFacts,
     ErrorFacts, ErrorOf, SucceededLanded, AttemptsLeft, SentMessages, Idle

\* The answer of a call depends on nothing but its record.
LEMMA AnswerOfRecord ==
  ASSUME NEW c \in Calls, call'[c] = call[c]
  PROVE  Answer(c)' = Answer(c)
BY DEF Answer

\* A call that begins.
LEMMA BeginPreserves ==
  ASSUME ClientInv, NEW c \in Calls, NEW m \in Messages, reliablySendMsgs(c, m)
  PROVE  ClientInv' /\ Answer(c) = "none" /\ Answer(c)' = "none"
<1>1. /\ call[c].pc = "idle"
      /\ call'[c] = [call[c] EXCEPT !.pc = "send", !.msg = m]
      /\ \A d \in Calls \ {c} : call'[d] = call[d]
  BY DEF ClientInv, TypeOK, reliablySendMsgs
<1>2. /\ call'[c].pc = "send" /\ call'[c].msg = m /\ call'[c].err = "none"
      /\ call'[c].attempts = call[c].attempts
  BY <1>1 DEF ClientInv, TypeOK, ErrorFacts, ErrorOf, CallRecords
<1>3. TypeOK'
  <2>1. call[c] \in CallRecords
    BY DEF ClientInv, TypeOK
  <2>2. [call[c] EXCEPT !.pc = "send", !.msg = m] \in CallRecords
    BY <2>1 DEF CallRecords
  <2>. QED
    BY <1>1, <2>2 DEF ClientInv, TypeOK, reliablySendMsgs, chainVars
<1>4. UNCHANGED <<pending, seq, registered, standing, committed, votes, punished, landed>>
  BY DEF reliablySendMsgs, chainVars
<1>5. Answer(c) = "none" /\ Answer(c)' = "none"
  BY <1>1, <1>2 DEF Answer
<1>6. \A d \in Calls \ {c} : Answer(d)' = Answer(d)
  BY <1>1, AnswerOfRecord
<1>7. SequencesPast'
  BY <1>1, <1>2, <1>4 DEF ClientInv, SequencesPast
<1>8. NothingLeft'
  BY <1>4, <1>5, <1>6 DEF ClientInv, NothingLeft
<1>9. OwnMessages'
  BY <1>1, <1>4 DEF ClientInv, OwnMessages, TypeOK
<1>10. LandedFacts'
  BY <1>1, <1>4 DEF ClientInv, LandedFacts, LandedFact, TypeOK
<1>11. ErrorFacts'
  <2>1. \A d \in Calls \ {c} : ErrorOf(d)'
    BY <1>1, <1>4 DEF ClientInv, ErrorFacts, ErrorOf
  <2>2. ErrorOf(c)'
    BY <1>2 DEF ErrorOf
  <2>. QED
    BY <1>4, <2>1, <2>2 DEF ClientInv, ErrorFacts
<1>12. SucceededLanded'
  BY <1>4, <1>5, <1>6 DEF ClientInv, SucceededLanded
<1>13. AttemptsLeft' /\ SentMessages'
  BY <1>1, <1>2 DEF ClientInv, AttemptsLeft, SentMessages
<1>. QED
  BY <1>3, <1>5, <1>7, <1>8, <1>9, <1>10, <1>11, <1>12, <1>13 DEF ClientInv

\* An attempt that is sent.
LEMMA SendPreserves ==
  ASSUME ClientInv, NEW c \in Calls, SendMsgs(c)
  PROVE  ClientInv' /\ Answer(c) = "none" /\ Answer(c)' = "none"
<1>1. /\ call[c].pc = "send" /\ call[c] \in CallRecords
      /\ call'[c] = [call[c] EXCEPT !.pc = "wait", !.attempts = @ + 1, !.seq = seq]
      /\ \A d \in Calls \ {c} : call'[d] = call[d]
  BY DEF ClientInv, TypeOK, SendMsgs
<1>2. /\ call'[c].pc = "wait" /\ call'[c].seq = seq /\ call'[c].msg = call[c].msg
      /\ call'[c].err = call[c].err /\ call'[c] \in CallRecords
  <2>1. call[c].attempts + 1 \in 0..MaxAttempts /\ seq \in Nat
    BY <1>1, ClientAssumption DEF ClientInv, AttemptsLeft, TypeOK, CallRecords
  <2>. QED
    BY <1>1, <2>1 DEF CallRecords
<1>3. UNCHANGED <<pending, seq, registered, standing, committed, votes, punished, landed>>
  BY DEF SendMsgs, chainVars
<1>4. TypeOK'
  BY <1>2, <1>3 DEF ClientInv, TypeOK, SendMsgs
<1>5. Answer(c) = "none" /\ Answer(c)' = "none"
  BY <1>1, <1>2 DEF Answer
<1>6. \A d \in Calls \ {c} : Answer(d)' = Answer(d)
  BY <1>1, AnswerOfRecord
<1>7. SequencesPast'
  <2>1. \A tx \in pending' : tx.seq <= seq'
    BY <1>3 DEF ClientInv, SequencesPast
  <2>2. call'[c].seq <= seq'
    BY <1>2, <1>3 DEF ClientInv, TypeOK
  <2>. QED
    BY <1>1, <1>3, <2>1, <2>2 DEF ClientInv, SequencesPast
<1>8. NothingLeft'
  BY <1>3, <1>5, <1>6 DEF ClientInv, NothingLeft
<1>9. OwnMessages'
  <2>1. \A d \in Calls : call'[d].msg = call[d].msg /\ (call[d].pc # "idle" => call'[d].pc # "idle")
    BY <1>1, <1>2
  <2>2. \A tx \in pending : tx.by \in Calls
    BY DEF ClientInv, TypeOK
  <2>. QED
    BY <1>3, <2>1, <2>2 DEF ClientInv, OwnMessages
<1>10. LandedFacts'
  <2>1. \A d \in landed \ {c} : LandedFact(d) => LandedFact(d)'
    BY <1>1, <1>3 DEF ClientInv, TypeOK, LandedFact
  <2>2. LandedFact(c) => LandedFact(c)'
    BY <1>2, <1>3 DEF LandedFact
  <2>. QED
    BY <1>3, <2>1, <2>2 DEF ClientInv, LandedFacts
<1>11. ErrorFacts'
  <2>1. \A d \in Calls \ {c} : ErrorOf(d)'
    BY <1>1, <1>3 DEF ClientInv, ErrorFacts, ErrorOf
  <2>2. ErrorOf(c)'
    BY <1>1, <1>2, <1>3 DEF ClientInv, ErrorFacts, ErrorOf
  <2>. QED
    BY <1>3, <2>1, <2>2 DEF ClientInv, ErrorFacts
<1>12. SucceededLanded'
  BY <1>3, <1>5, <1>6 DEF ClientInv, SucceededLanded
<1>13. AttemptsLeft' /\ SentMessages'
  BY <1>1, <1>2 DEF ClientInv, AttemptsLeft, SentMessages
<1>. QED
  BY <1>4, <1>5, <1>7, <1>8, <1>9, <1>10, <1>11, <1>12, <1>13 DEF ClientInv

\* The awaited transaction is executed: what was pending is past its sequence.
LEMMA IncludedPreserves ==
  ASSUME ClientInv, NEW c \in Calls, Included(c)
  PROVE  /\ ClientInv'
         /\ \A d \in Calls \ {c} : Answer(d)' = Answer(d)
         /\ Answer(c) = "none"
         /\ \/ Answer(c)' = "ok" /\ landed' = landed \union {c}
            \/ Answer(c)' \in {"none", "refused"} /\ landed' = landed
<1>. DEFINE m == call[c].msg
<1>. DEFINE err == Refusal(m)
<1>1. TypeOK /\ call[c].pc = "wait" /\ call[c] \in CallRecords
  BY DEF ClientInv, Included, TypeOK
<1>2. m \in Messages
  BY <1>1 DEF ClientInv, SentMessages
<1>3. Execute(c, m) /\ Answered(c, err) /\ UNCHANGED pending
  BY DEF Included
<1>4. /\ err \in ChainErrors \union {"none"}
      /\ err \in {"ErrFpAlreadySlashed", "ErrFpAlreadyJailed"} => standing # "good"
      /\ err = "ErrPubRandNotFound" => m.op \in {"vote", "batch"} /\ ~(m.arg \subseteq committed)
      /\ err = "none" /\ m.op \in {"vote", "batch"} => m.arg \subseteq committed
  BY <1>1, <1>2, RefusalHasReason
<1>5. /\ seq' = seq + 1 /\ seq' \in Nat
      /\ registered' \in BOOLEAN
      /\ standing' \in {"good", "jailed", "slashed"}
      /\ standing' \in {"good", standing}
      /\ committed' \subseteq Heights /\ committed \subseteq committed'
      /\ votes' \subseteq Heights
      /\ punished' = punished
      /\ landed' = IF err = "none" THEN landed \union {c} ELSE landed
  BY <1>1, <1>2, <1>3, ExecuteStep
<1>6. err \in Errors \union {"none"}
  BY <1>4 DEF Errors
<1>7. /\ call' \in [Calls -> CallRecords]
      /\ \A d \in Calls \ {c} : call'[d] = call[d]
      /\ call'[c].msg = m
      /\ call'[c].err = err
      /\ call'[c].pc \in {"done", "send"}
      /\ err \in {"none"} \union Unrecoverable(m.op) => call'[c].pc = "done"
      /\ call'[c].pc = "send" => call'[c].attempts < MaxAttempts
  BY <1>1, <1>3, <1>6, AnsweredStep
<1>. HIDE DEF m, err
<1>8. \A d \in Calls \ {c} : Answer(d)' = Answer(d)
  BY <1>7, AnswerOfRecord
<1>9. Answer(c) = "none" /\ (Answer(c)' = "ok" <=> err = "none") /\ Answer(c)' # "unknown"
  BY <1>1, <1>4, <1>7 DEF Answer, ChainErrors
<1>10. Answer(c)' \in {"none", "ok", "refused", "unknown"}
  BY DEF Answer
<1>11. TypeOK'
  BY <1>1, <1>3, <1>5, <1>7 DEF TypeOK
<1>12. SequencesPast'
  <2>1. \A tx \in pending' : tx.seq <= seq'
    BY <1>1, <1>3, <1>5 DEF ClientInv, SequencesPast, TypeOK
  <2>2. \A d \in Calls : call'[d].pc = "wait" => call'[d].seq <= seq'
    <3>1. \A d \in Calls : call[d].seq \in Nat
      BY <1>1 DEF TypeOK, CallRecords
    <3>. QED
      BY <1>1, <1>5, <1>7, <3>1 DEF ClientInv, SequencesPast, TypeOK
  <2>. QED
    BY <2>1, <2>2 DEF SequencesPast
<1>13. NothingLeft'
  <2>1. \A tx \in pending' : tx.seq < seq'
    BY <1>1, <1>3, <1>5 DEF ClientInv, SequencesPast, TypeOK
  <2>. QED
    BY <2>1 DEF NothingLeft
<1>14. OwnMessages'
  BY <1>1, <1>3, <1>7 DEF ClientInv, OwnMessages, TypeOK, m
<1>15. LandedFacts'
  <2>1. \A d \in landed \ {c} : LandedFact(d)'
    BY <1>1, <1>5, <1>7 DEF ClientInv, LandedFacts, LandedFact, TypeOK
  <2>2. c \in landed' => LandedFact(c)'
    BY <1>1, <1>4, <1>5, <1>7 DEF ClientInv, LandedFacts, LandedFact, m
  <2>. QED
    BY <1>5, <2>1, <2>2 DEF LandedFacts
<1>16. ErrorFacts'
  <2>1. \A d \in Calls \ {c} : ErrorOf(d)'
    BY <1>5, <1>7 DEF ClientInv, ErrorFacts, ErrorOf
  <2>2. err = "ErrPubRandNotFound" => c \notin landed' /\ call'[c].pc = "done"
    BY <1>4, <1>5, <1>7 DEF ClientInv, LandedFacts, LandedFact, Unrecoverable,
       VoteUnrecoverable, m
  <2>3. ErrorOf(c)'
    BY <1>4, <1>5, <1>7, <2>2 DEF ClientInv, ErrorFacts, ErrorOf
  <2>. QED
    BY <1>5, <2>1, <2>3 DEF ClientInv, ErrorFacts
<1>17. SucceededLanded'
  BY <1>5, <1>8, <1>9 DEF ClientInv, SucceededLanded
<1>18. AttemptsLeft' /\ SentMessages'
  BY <1>2, <1>7 DEF ClientInv, AttemptsLeft, SentMessages
<1>. QED
  BY <1>5, <1>8, <1>9, <1>10, <1>11, <1>12, <1>13, <1>14, <1>15, <1>16, <1>17, <1>18
  DEF ClientInv

\* An attempt without an answer of the chain, whose transaction may stay behind.
LEMMA UnansweredPreserves ==
  ASSUME ClientInv, NEW c \in Calls, Rejected(c) \/ TimedOut(c)
  PROVE  /\ ClientInv'
         /\ \A d \in Calls \ {c} : Answer(d)' = Answer(d)
         /\ Answer(c) = "none" /\ Answer(c)' \in {"none", "unknown"}
         /\ landed' = landed
<1>. DEFINE m == call[c].msg
<1>. DEFINE tx == [by |-> c, msg |-> m, seq |-> call[c].seq]
<1>1. TypeOK /\ call[c].pc = "wait" /\ call[c] \in CallRecords
  BY DEF ClientInv, Rejected, TimedOut, TypeOK
<1>2. m \in Messages
  BY <1>1 DEF ClientInv, SentMessages
<1>3. PICK err \in {"ErrRejected", "ErrTimeout"} : Answered(c, err)
  BY DEF Rejected, TimedOut
<1>4. /\ UNCHANGED <<seq, registered, standing, committed, votes, punished, landed>>
      /\ pending' \subseteq pending \union {tx}
  BY DEF Rejected, TimedOut, chainVars
<1>5. /\ call' \in [Calls -> CallRecords]
      /\ \A d \in Calls \ {c} : call'[d] = call[d]
      /\ call'[c].msg = m
      /\ call'[c].err = err
      /\ call'[c].pc \in {"done", "send"}
      /\ call'[c].pc = "send" => call'[c].attempts < MaxAttempts
  BY <1>1, <1>3, AnsweredStep DEF Errors
<1>6. /\ tx \in [by : Calls, msg : Messages, seq : Nat]
      /\ tx.by = c /\ tx.msg = m /\ tx.seq <= seq
  BY <1>1, <1>2 DEF ClientInv, SequencesPast, CallRecords
<1>. HIDE DEF m, tx
<1>7. \A d \in Calls \ {c} : Answer(d)' = Answer(d)
  BY <1>5, AnswerOfRecord
<1>8. Answer(c) = "none" /\ Answer(c)' \in {"none", "unknown"}
  BY <1>1, <1>5 DEF Answer, ChainErrors
<1>9. TypeOK'
  BY <1>1, <1>4, <1>5, <1>6 DEF TypeOK
<1>10. SequencesPast'
  <2>1. \A t \in pending' : t.seq <= seq'
    BY <1>4, <1>6 DEF ClientInv, SequencesPast
  <2>. QED
    BY <1>4, <1>5, <2>1 DEF ClientInv, SequencesPast
<1>11. NothingLeft'
  BY <1>4, <1>6, <1>7, <1>8 DEF ClientInv, NothingLeft
<1>12. OwnMessages'
  <2>1. \A t \in pending : t.msg = call'[t.by].msg /\ call'[t.by].pc # "idle"
    BY <1>1, <1>5 DEF ClientInv, OwnMessages, TypeOK, m
  <2>. QED
    BY <1>4, <1>5, <1>6, <2>1 DEF OwnMessages
<1>13. LandedFacts'
  BY <1>1, <1>4, <1>5 DEF ClientInv, LandedFacts, LandedFact, TypeOK, m
<1>14. ErrorFacts'
  <2>1. \A d \in Calls \ {c} : ErrorOf(d)'
    BY <1>4, <1>5 DEF ClientInv, ErrorFacts, ErrorOf
  <2>2. ErrorOf(c)'
    BY <1>5 DEF ErrorOf
  <2>. QED
    BY <1>4, <2>1, <2>2 DEF ClientInv, ErrorFacts
<1>15. SucceededLanded'
  BY <1>4, <1>7, <1>8 DEF ClientInv, SucceededLanded
<1>16. AttemptsLeft' /\ SentMessages'
  BY <1>2, <1>5 DEF ClientInv, AttemptsLeft, SentMessages
<1>. QED
  BY <1>4, <1>7, <1>8, <1>9, <1>10, <1>11, <1>12, <1>13, <1>14, <1>15, <1>16 DEF ClientInv

\* A transaction nobody waits for is executed: its call has no answer of the
\* chain, else the sequence would be past.
LEMMA LatePreserves ==
  ASSUME ClientInv, NEW tx \in pending,
         tx.seq = seq, Execute(tx.by, tx.msg), pending' = pending \ {tx}, UNCHANGED call
  PROVE  /\ ClientInv'
         /\ \A d \in Calls : Answer(d)' = Answer(d)
         /\ tx.by \in Calls /\ Answer(tx.by) \in {"none", "unknown"}
         /\ landed' \in {landed, landed \union {tx.by}}
<1>. DEFINE c == tx.by
<1>. DEFINE m == tx.msg
<1>1. TypeOK /\ c \in Calls /\ m \in Messages /\ seq \in Nat
  BY DEF ClientInv, TypeOK
<1>2. m = call[c].msg /\ call[c].pc # "idle"
  BY DEF ClientInv, OwnMessages
<1>3. /\ seq' = seq + 1 /\ seq' \in Nat
      /\ registered' \in BOOLEAN
      /\ standing' \in {"good", "jailed", "slashed"}
      /\ standing' \in {"good", standing}
      /\ committed' \subseteq Heights /\ committed \subseteq committed'
      /\ votes' \subseteq Heights
      /\ punished' = punished
      /\ landed' = IF Refusal(m) = "none" THEN landed \union {c} ELSE landed
  BY <1>1, ExecuteStep
<1>4. Refusal(m) = "none" /\ m.op \in {"vote", "batch"} => m.arg \subseteq committed
  BY <1>1, RefusalHasReason
<1>5. \A d \in Calls : Answer(d)' = Answer(d)
  BY AnswerOfRecord
<1>6. Answer(c) \in {"none", "unknown"}
  <2>1. Answer(c) \in {"none", "ok", "refused", "unknown"}
    BY DEF Answer
  <2>. QED
    BY <1>1, <2>1 DEF ClientInv, NothingLeft
<1>. HIDE DEF c, m
<1>7. TypeOK'
  BY <1>1, <1>3 DEF TypeOK
<1>8. SequencesPast' /\ NothingLeft'
  <2>1. \A t \in pending' : t.seq < seq'
    BY <1>1, <1>3 DEF ClientInv, SequencesPast, TypeOK
  <2>2. \A t \in pending' : t.seq <= seq'
    BY <1>1, <1>3 DEF ClientInv, SequencesPast, TypeOK
  <2>3. \A d \in Calls : call[d].seq \in Nat
    BY <1>1 DEF TypeOK, CallRecords
  <2>4. \A d \in Calls : call'[d].pc = "wait" => call'[d].seq <= seq'
    BY <1>1, <1>3, <2>3 DEF ClientInv, SequencesPast
  <2>. QED
    BY <2>1, <2>2, <2>4 DEF SequencesPast, NothingLeft
<1>9. OwnMessages' /\ AttemptsLeft' /\ SentMessages'
  BY DEF ClientInv, OwnMessages, AttemptsLeft, SentMessages
<1>10. LandedFacts'
  <2>1. \A d \in landed : LandedFact(d)'
    BY <1>3 DEF ClientInv, LandedFacts, LandedFact
  <2>2. Refusal(m) = "none" => LandedFact(c)'
    BY <1>2, <1>3, <1>4 DEF LandedFact
  <2>. QED
    BY <1>3, <2>1, <2>2 DEF LandedFacts
<1>11. ErrorFacts'
  <2>1. call[c].err = "ErrPubRandNotFound" => Answer(c) = "refused"
    BY <1>1 DEF ClientInv, ErrorFacts, ErrorOf, Answer, ChainErrors
  <2>2. \A d \in Calls : ErrorOf(d)'
    BY <1>3, <1>6, <2>1 DEF ClientInv, ErrorFacts, ErrorOf
  <2>. QED
    BY <1>3, <2>2 DEF ClientInv, ErrorFacts
<1>12. SucceededLanded'
  BY <1>3, <1>5 DEF ClientInv, SucceededLanded
<1>. QED
  BY <1>1, <1>3, <1>5, <1>6, <1>7, <1>8, <1>9, <1>10, <1>11, <1>12 DEF ClientInv, c

\* Steps that change no call and land nothing: the mempool drops a
\* transaction, or the chain punishes the provider.
LEMMA QuietPreserves ==
  ASSUME ClientInv, UNCHANGED <<call, seq, registered, committed, votes, landed>>,
         pending' \subseteq pending,
         \/ UNCHANGED <<standing, punished>>
         \/ standing' \in {"jailed", "slashed"} /\ punished' = punished + 1 /\ punished < MaxPunish
  PROVE  ClientInv'
<1>1. TypeOK' /\ (standing' # "good" => punished' > 0) /\ (punished > 0 => punished' > 0)
  <2>1. punished \in 0..MaxPunish
    BY DEF ClientInv, TypeOK
  <2>2. punished' \in 0..MaxPunish /\ (punished > 0 => punished' > 0)
    BY <2>1, ClientAssumption
  <2>3. standing' # "good" => punished' > 0
    BY <2>1, ClientAssumption DEF ClientInv, ErrorFacts
  <2>4. standing' \in {"good", "jailed", "slashed"}
    BY DEF ClientInv, TypeOK
  <2>. QED
    BY <2>2, <2>3, <2>4 DEF ClientInv, TypeOK
<1>2. \A d \in Calls : Answer(d)' = Answer(d)
  BY AnswerOfRecord
<1>3. SequencesPast' /\ NothingLeft' /\ SucceededLanded'
  BY <1>2 DEF ClientInv, SequencesPast, NothingLeft, SucceededLanded
<1>4. OwnMessages' /\ LandedFacts' /\ AttemptsLeft' /\ SentMessages'
  BY DEF ClientInv, OwnMessages, LandedFacts, LandedFact, AttemptsLeft, SentMessages
<1>5. ErrorFacts'
  BY <1>1 DEF ClientInv, ErrorFacts, ErrorOf
<1>. QED
  BY <1>1, <1>3, <1>4, <1>5 DEF ClientInv

\* Whatever a call begins with is one of the messages.
LEMMA BeginSends ==
  ASSUME NEW c \in Calls, Begin(c)
  PROVE  \E m \in Messages : reliablySendMsgs(c, m)
<1>1. Message("register", {}) \in Messages /\ Message("unjail", {}) \in Messages
  BY DEF Message, Messages
<1>2. \A range \in Commits : Message("commit", range) \in Messages
  BY DEF Message, Messages
<1>3. \A h \in Heights : Message("vote", {h}) \in Messages
  BY DEF Message, Messages
<1>. QED
  BY <1>1, <1>2, <1>3 DEF Begin, RegisterFinalityProvider, CommitPubRandList, SubmitFinalitySig,
     SubmitBatchFinalitySigs, UnjailFinalityProvider

\* A step preserves the invariant and is a step of Submission, or none.
LEMMA StepHolds ==
  ASSUME ClientInv, [Next]_vars
  PROVE  ClientInv' /\ [Promise!Next]_<<[c \in Calls |-> Answer(c)], landed>>
<1>. DEFINE answer == [c \in Calls |-> Answer(c)]
<1>1. ASSUME NEW c \in Calls, Begin(c)
      PROVE  ClientInv' /\ UNCHANGED <<answer, landed>>
  <2>1. PICK m \in Messages : reliablySendMsgs(c, m)
    BY <1>1, BeginSends
  <2>2. ClientInv' /\ Answer(c) = "none" /\ Answer(c)' = "none"
    BY <2>1, BeginPreserves
  <2>3. \A d \in Calls \ {c} : call'[d] = call[d]
    BY <2>1 DEF reliablySendMsgs, ClientInv, TypeOK
  <2>4. \A d \in Calls : Answer(d)' = Answer(d)
    BY <2>2, <2>3, AnswerOfRecord
  <2>. QED
    BY <2>1, <2>2, <2>4 DEF reliablySendMsgs
<1>2. ASSUME NEW c \in Calls, SendMsgs(c)
      PROVE  ClientInv' /\ UNCHANGED <<answer, landed>>
  <2>1. ClientInv' /\ Answer(c) = "none" /\ Answer(c)' = "none"
    BY <1>2, SendPreserves
  <2>2. \A d \in Calls \ {c} : call'[d] = call[d]
    BY <1>2 DEF SendMsgs, ClientInv, TypeOK
  <2>3. \A d \in Calls : Answer(d)' = Answer(d)
    BY <2>1, <2>2, AnswerOfRecord
  <2>. QED
    BY <1>2, <2>1, <2>3 DEF SendMsgs
<1>3. ASSUME NEW c \in Calls, Included(c)
      PROVE  ClientInv' /\ [Promise!Next]_<<answer, landed>>
  <2>1. /\ ClientInv'
        /\ \A d \in Calls \ {c} : Answer(d)' = Answer(d)
        /\ Answer(c) = "none"
        /\ \/ Answer(c)' = "ok" /\ landed' = landed \union {c}
           \/ Answer(c)' \in {"none", "refused"} /\ landed' = landed
    BY <1>3, IncludedPreserves
  <2>2. answer' = [answer EXCEPT ![c] = Answer(c)']
    BY <2>1
  <2>3. CASE Answer(c)' = "ok" /\ landed' = landed \union {c}
    <3>1. Promise!Succeed(c)
      BY <2>1, <2>2, <2>3 DEF Promise!Succeed
    <3>. QED
      BY <2>1, <3>1 DEF Promise!Next
  <2>4. CASE Answer(c)' = "refused" /\ landed' = landed
    <3>1. Promise!Fail(c)
      BY <2>1, <2>2, <2>4 DEF Promise!Fail
    <3>. QED
      BY <2>1, <3>1 DEF Promise!Next
  <2>5. CASE Answer(c)' = "none" /\ landed' = landed
    BY <2>1, <2>2, <2>5
  <2>. QED
    BY <2>1, <2>3, <2>4, <2>5
<1>4. ASSUME NEW c \in Calls, Rejected(c) \/ TimedOut(c)
      PROVE  ClientInv' /\ [Promise!Next]_<<answer, landed>>
  <2>1. /\ ClientInv'
        /\ \A d \in Calls \ {c} : Answer(d)' = Answer(d)
        /\ Answer(c) = "none" /\ Answer(c)' \in {"none", "unknown"}
        /\ landed' = landed
    BY <1>4, UnansweredPreserves
  <2>2. answer' = [answer EXCEPT ![c] = Answer(c)']
    BY <2>1
  <2>3. CASE Answer(c)' = "unknown"
    <3>1. Promise!Fail(c)
      BY <2>1, <2>2, <2>3 DEF Promise!Fail
    <3>. QED
      BY <2>1, <3>1 DEF Promise!Next
  <2>4. CASE Answer(c)' = "none"
    BY <2>1, <2>2, <2>4
  <2>. QED
    BY <2>1, <2>3, <2>4
<1>5. ASSUME IncludedLate
      PROVE  ClientInv' /\ [Promise!Next]_<<answer, landed>>
  <2>1. PICK tx \in pending : /\ tx.seq = seq
                              /\ Execute(tx.by, tx.msg)
                              /\ pending' = pending \ {tx}
                              /\ UNCHANGED call
    BY <1>5 DEF IncludedLate
  <2>2. /\ ClientInv'
        /\ \A d \in Calls : Answer(d)' = Answer(d)
        /\ tx.by \in Calls /\ Answer(tx.by) \in {"none", "unknown"}
        /\ landed' \in {landed, landed \union {tx.by}}
    BY <2>1, LatePreserves
  <2>3. answer' = answer
    BY <2>2
  <2>4. CASE landed' = landed \union {tx.by}
    <3>1. Promise!Land(tx.by)
      BY <2>2, <2>3, <2>4 DEF Promise!Land
    <3>. QED
      BY <2>2, <3>1 DEF Promise!Next
  <2>5. CASE landed' = landed
    BY <2>2, <2>3, <2>5
  <2>. QED
    BY <2>2, <2>4, <2>5
<1>6. ASSUME Evicted \/ Punish
      PROVE  ClientInv' /\ UNCHANGED <<answer, landed>>
  <2>1. /\ UNCHANGED <<call, seq, registered, committed, votes, landed>>
        /\ pending' \subseteq pending
        /\ \/ UNCHANGED <<standing, punished>>
           \/ standing' \in {"jailed", "slashed"} /\ punished' = punished + 1 /\ punished < MaxPunish
    BY <1>6 DEF Evicted, Punish, chainVars, callVars
  <2>2. \A d \in Calls : Answer(d)' = Answer(d)
    BY <2>1, AnswerOfRecord
  <2>. QED
    BY <2>1, <2>2, QuietPreserves
<1>7. CASE UNCHANGED vars
  <2>1. /\ UNCHANGED <<call, seq, registered, committed, votes, landed>>
        /\ pending' \subseteq pending
        /\ UNCHANGED <<standing, punished>>
    BY <1>7 DEF vars, chainVars
  <2>2. \A d \in Calls : Answer(d)' = Answer(d)
    BY <2>1, AnswerOfRecord
  <2>. QED
    BY <2>1, <2>2, QuietPreserves
<1>. QED
  BY <1>1, <1>2, <1>3, <1>4, <1>5, <1>6, <1>7 DEF Next, Attempt

-----------------------------------------------------------------------------

\* The variables keep their types, and no call makes more attempts than it is
\* given (reliablySendMsgs).
THEOREM ClientTypeCorrect == Spec => []TypeOK
<1>1. ClientInv => TypeOK
  BY DEF ClientInv
<1>2. Init => ClientInv
  BY InitHolds
<1>3. ClientInv /\ [Next]_vars => ClientInv'
  BY StepHolds
<1>. QED
  BY <1>1, <1>2, <1>3, PTL DEF Spec

\* A call that has landed never returns an error that IsUnrecoverable takes for
\* critical, unless the chain has punished the provider.
THEOREM SuccessNeverCritical == Spec => []SuccessIsNeverCritical
<1>1. ClientInv => SuccessIsNeverCritical
  <2>. SUFFICES ASSUME ClientInv, NEW c \in landed,
                       call[c].pc = "done", IsUnrecoverable(call[c].err)
                PROVE  punished > 0
    BY DEF SuccessIsNeverCritical
  <2>1. c \in Calls /\ call[c].err \in Errors \union {"none"}
    BY DEF ClientInv, TypeOK, CallRecords
  <2>2. call[c].err \in {"ErrPubRandNotFound", "ErrFpAlreadySlashed", "ErrFpAlreadyJailed"}
    BY <2>1 DEF IsUnrecoverable, Errors, ChainErrors
  <2>. QED
    BY <2>1, <2>2 DEF ClientInv, ErrorFacts, ErrorOf
<1>2. Init => ClientInv
  BY InitHolds
<1>3. ClientInv /\ [Next]_vars => ClientInv'
  BY StepHolds
<1>. QED
  BY <1>1, <1>2, <1>3, PTL DEF Spec

\* The controller keeps the promise of Submission: success means the message
\* is on the chain, and after a success or a refusal nothing of it lands.
THEOREM ClientKeepsPromise == Spec => PromiseKept
<1>1. Init => Promise!Init
  BY DEF Init, Promise!Init, Answer, Idle
<1>2. Init => ClientInv
  BY InitHolds
<1>3. ClientInv /\ [Next]_vars => ClientInv' /\ [Promise!Next]_<<[c \in Calls |-> Answer(c)], landed>>
  BY StepHolds
<1>. QED
  BY <1>1, <1>2, <1>3, PTL DEF Spec, PromiseKept, Promise!Spec
=============================================================================
