------------------------- MODULE ChainPollerProofs -------------------------
(***************************************************************************)
(* Proofs about the chain poller, for every chain length, buffer size and  *)
(* number of tolerated failures, and about the queries of the chain, for   *)
(* every chain the poller can meet.                                        *)
(***************************************************************************)
EXTENDS ExactQueries, FiniteSetTheorems, WellFoundedInduction, TLAPS

\* What holds besides the types: before Start there is nothing to deliver,
\* nothing is polled before activation, a response exists only while the
\* consumer waits for it, and the failure counter is within its bound as
\* long as the process lives.
Phases ==
  /\ pollPc \in {"new", "rejected"} =>
       nextHeight = 0 /\ skipPc = "loop"
  /\ pollPc \in {"new", "rejected", "activation"} =>
       blockInfoChan = <<>> /\ received = 0 /\ skipResp = "none"
  /\ pollPc \notin {"new", "rejected"} => nextHeight >= 1 /\ received < Cursor
  /\ pollPc = "push" => nextHeight >= 2
  /\ skipResp # "none" => skipPc = "await"
  /\ pollPc # "fatal" => failedCycles <= MaxFailedCycles

\* The inductive invariant.
PollerInv == TypeOK /\ Phases /\ Contiguous /\ SkipTakesEffect

\* A granted skip empties the buffer: the target lies above the next height,
\* and every buffered block lies below it, so the early exit of
\* clearChanBufferUpToHeight is never taken.
LEMMA GrantedSkipClearsAll ==
  ASSUME TypeOK, Contiguous, skipTarget > nextHeight
  PROVE  Cleared(blockInfoChan, skipTarget) = <<>>
<1>1. \A i \in DOMAIN blockInfoChan : ~(blockInfoChan[i] + 1 >= skipTarget)
  <2> TAKE i \in DOMAIN blockInfoChan
  <2>1. i \in 1..Len(blockInfoChan) /\ Len(blockInfoChan) \in Nat
    BY DEF TypeOK
  <2>2. blockInfoChan[i] = Cursor + i - 1
    BY DEF Contiguous
  <2>3. nextHeight \in Nat /\ skipTarget \in Nat
    BY PollerAssumption DEF TypeOK
  <2>4. Cursor \in Int /\ Cursor + Len(blockInfoChan) <= nextHeight
    BY <2>1, <2>3 DEF Cursor
  <2> QED
    BY <2>1, <2>2, <2>3, <2>4
<1> QED
  BY <1>1 DEF Cleared

\* The invariant holds of a new poller.
LEMMA PollerInvInit == Init => PollerInv
<1> SUFFICES ASSUME Init PROVE PollerInv
  OBVIOUS
<1> USE PollerAssumption DEF Init, ChainInit, PollerInit
<1>1. TypeOK
  <2>1. isStarted \in BOOLEAN /\ quit \in BOOLEAN
    BY Zenon
  <2>2. tip \in 1..MaxHeight /\ activated \in 0..MaxHeight
    BY SMT
  <2>3. blockInfoChan \in Seq(1..MaxHeight) /\ Len(blockInfoChan) <= BufferSize
    BY SMT
  <2> QED
    BY <2>1, <2>2, <2>3 DEF TypeOK, PollPcs
<1>2. Phases
  BY DEF Phases
<1>3. Contiguous
  BY DEF Contiguous
<1>4. SkipTakesEffect
  BY Zenon DEF SkipTakesEffect
<1> QED
  BY <1>1, <1>2, <1>3, <1>4 DEF PollerInv

\* Every step preserves the invariant.
LEMMA PollerInvNext == PollerInv /\ [Next]_vars => PollerInv'
<1> SUFFICES ASSUME PollerInv, [Next]_vars PROVE PollerInv'
  OBVIOUS
<1> USE PollerAssumption DEF PollerInv, TypeOK, Phases, Contiguous, SkipTakesEffect,
        Cursor, PollPcs, chainVars, pollVars, skipVars, stopVars
<1>1. CASE NewBlock
  BY <1>1 DEF NewBlock
<1>2. CASE Activate
  BY <1>2 DEF Activate
<1>3. CASE Activated
  BY <1>3 DEF Activated
<1>4. CASE ActivationQuit
  BY <1>4 DEF ActivationQuit
<1>5. CASE QueryFailed
  BY <1>5 DEF QueryFailed
<1>6. CASE PollInterval
  BY <1>6 DEF PollInterval
<1>7. CASE PollQuit
  BY <1>7 DEF PollQuit
<1>8. CASE SkipQuit
  BY <1>8 DEF SkipQuit
<1>9. CASE SkipReturns
  BY <1>9 DEF SkipReturns
<1>10. CASE StopBegins
  BY <1>10 DEF StopBegins
<1>11. CASE CloseQuit
  BY <1>11 DEF CloseQuit
<1>12. CASE CloseFailed
  BY <1>12 DEF CloseFailed
<1>13. CASE StopReturns
  BY <1>13 DEF StopReturns
<1>14. CASE UNCHANGED vars
  BY <1>14 DEF vars
<1>15. ASSUME NEW h \in 0..(tip + 2), Start(h) PROVE PollerInv'
  BY <1>15 DEF Start, ValidStartHeight
<1>16. CASE BlockRetrieved
  <2> USE <1>16 DEF BlockRetrieved
  <2>1. Cursor' = Cursor
    OBVIOUS
  <2>2. Contiguous' /\ SkipTakesEffect'
    BY <2>1
  <2>3. TypeOK'
    OBVIOUS
  <2>4. Phases'
    BY <2>1
  <2> QED
    BY <2>2, <2>3, <2>4
<1>17. CASE PushBlock
  <2> USE <1>17 DEF PushBlock, HasRoom
  <2>1. /\ nextHeight - 1 \in 1..MaxHeight
        /\ blockInfoChan' \in Seq(1..MaxHeight)
        /\ Len(blockInfoChan') = Len(blockInfoChan) + 1
    OBVIOUS
  <2>2. Cursor' = Cursor
    BY <2>1
  <2>3. \A i \in DOMAIN blockInfoChan' : blockInfoChan'[i] = Cursor' + i - 1
    <3> TAKE i \in DOMAIN blockInfoChan'
    <3>1. CASE i = Len(blockInfoChan) + 1
      BY <2>1, <2>2, <3>1
    <3>2. CASE i \in 1..Len(blockInfoChan)
      BY <2>2, <3>2
    <3> QED
      BY <2>1, <3>1, <3>2
  <2>4. Contiguous' /\ SkipTakesEffect'
    BY <2>2, <2>3
  <2>5. TypeOK'
    BY <2>1
  <2>6. Phases'
    BY <2>2
  <2> QED
    BY <2>4, <2>5, <2>6
<1>18. CASE HandleSkip
  <2> USE <1>18 DEF HandleSkip, SkipNotNeeded, SkipResponse
  <2>1. CASE SkipNotNeeded
    BY <2>1
  <2>2. CASE ~SkipNotNeeded
    <3>1. blockInfoChan' = <<>>
      BY <2>2, GrantedSkipClearsAll
    <3>2. Cursor' = skipTarget /\ skipTarget > nextHeight
      BY <2>2, <3>1
    <3>3. received < skipTarget
      BY <3>2
    <3>4. TypeOK'
      BY <2>2, <3>1
    <3>5. Phases'
      BY <2>2, <3>1, <3>2, <3>3
    <3>6. Contiguous' /\ SkipTakesEffect'
      BY <2>2, <3>1, <3>2, <3>3
    <3> QED
      BY <3>4, <3>5, <3>6
  <2> QED
    BY <2>1, <2>2
<1>19. CASE ReceiveBlock
  <2> USE <1>19 DEF ReceiveBlock
  <2>1. /\ Len(blockInfoChan) \in Nat \ {0}
        /\ blockInfoChan' \in Seq(1..MaxHeight)
        /\ Len(blockInfoChan') = Len(blockInfoChan) - 1
        /\ \A i \in 1..Len(blockInfoChan') : blockInfoChan'[i] = blockInfoChan[i + 1]
    OBVIOUS
  <2>2. Cursor' = Cursor + 1 /\ received' = Cursor /\ received' \in 1..MaxHeight
    <3>1. 1 \in DOMAIN blockInfoChan /\ received' = blockInfoChan[1]
      BY <2>1
    <3>2. \A i \in DOMAIN blockInfoChan : blockInfoChan[i] = Cursor + i - 1
      OBVIOUS
    <3>3. Cursor \in Int /\ Cursor' = Cursor + 1
      BY <2>1
    <3>4. blockInfoChan \in Seq(1..MaxHeight)
      OBVIOUS
    <3> HIDE <1>19 DEF PollerInv, TypeOK, Phases, Contiguous, Cursor, ReceiveBlock
    <3>5. received' \in 1..MaxHeight
      BY <3>1, <3>4
    <3> QED
      BY <3>1, <3>2, <3>3, <3>5
  <2>3. \A i \in DOMAIN blockInfoChan' : blockInfoChan'[i] = Cursor' + i - 1
    <3>1. \A i \in DOMAIN blockInfoChan : blockInfoChan[i] = Cursor + i - 1
      OBVIOUS
    <3>2. Cursor \in Int
      BY <2>1
    <3>3. DOMAIN blockInfoChan = 1..Len(blockInfoChan)
      OBVIOUS
    <3> HIDE <1>19 DEF PollerInv, TypeOK, Phases, Contiguous, Cursor, ReceiveBlock
    <3> TAKE i \in DOMAIN blockInfoChan'
    <3>4. i \in 1..Len(blockInfoChan') /\ i + 1 \in DOMAIN blockInfoChan
      BY <2>1, <3>3
    <3>5. blockInfoChan'[i] = Cursor + (i + 1) - 1
      BY <2>1, <3>1, <3>4
    <3> QED
      BY <2>2, <3>2, <3>4, <3>5
  <2>4. skipResp' = "none"
    OBVIOUS
  <2>5. Contiguous' /\ SkipTakesEffect'
    BY <2>2, <2>3, <2>4
  <2>6. TypeOK'
    BY <2>1, <2>2
  <2>7. Phases'
    BY <2>1, <2>2
  <2> QED
    BY <2>5, <2>6, <2>7
<1>20. ASSUME NEW h \in 1..(tip + 1), CallSkip(h) PROVE PollerInv'
  BY <1>20 DEF CallSkip
<1> QED
  BY <1>1, <1>2, <1>3, <1>4, <1>5, <1>6, <1>7, <1>8, <1>9, <1>10, <1>11, <1>12, <1>13,
     <1>14, <1>15, <1>16, <1>17, <1>18, <1>19, <1>20 DEF Next, Poll, Stop

LEMMA PollerInvariant == Spec => []PollerInv
<1> QED
  BY PollerInvInit, PollerInvNext, PTL DEF Spec

\* Type correctness: in particular blockInfoChan never holds more than
\* BufferSize blocks.
THEOREM PollerTypeCorrect == Spec => []TypeOK
<1>1. PollerInv => TypeOK
  BY DEF PollerInv
<1> QED
  BY <1>1, PollerInvariant, PTL

\* No block that pollChain retrieved is lost, repeated or reordered between
\* the query and the consumer.
THEOREM PollerContiguous == Spec => []Contiguous
<1>1. PollerInv => Contiguous
  BY DEF PollerInv
<1> QED
  BY <1>1, PollerInvariant, PTL

\* A skip that SkipToHeight reports as successful makes the target the very
\* next block the consumer receives.
THEOREM PollerSkipTakesEffect == Spec => []SkipTakesEffect
<1>1. PollerInv => SkipTakesEffect
  BY DEF PollerInv
<1> QED
  BY <1>1, PollerInvariant, PTL

\* Every step of the poller is a delivery at the cursor, a forward jump of
\* the cursor, or invisible to the consumer.
LEMMA PollerStepRefines ==
  PollerInv /\ [Next]_vars => [Stream!StreamNext]_(Stream!streamVars)
<1> SUFFICES ASSUME PollerInv, [Next]_vars
             PROVE  [Stream!StreamNext]_(Stream!streamVars)
  OBVIOUS
<1> USE PollerAssumption DEF PollerInv, TypeOK, Phases, Cursor, chainVars, pollVars,
        skipVars, stopVars, Stream!StreamNext, Stream!Jump, Stream!streamVars
<1>1. ASSUME NEW h \in 0..(tip + 2), Start(h) PROVE Stream!Jump \/ UNCHANGED <<Cursor, received>>
  BY <1>1 DEF Start, ValidStartHeight
<1>2. CASE Activated
  BY <1>2 DEF Activated
<1>3. CASE HandleSkip
  <2>1. CASE SkipNotNeeded
    BY <1>3, <2>1 DEF HandleSkip
  <2>2. CASE ~SkipNotNeeded
    BY <1>3, <2>2, GrantedSkipClearsAll DEF HandleSkip, SkipNotNeeded
  <2> QED
    BY <2>1, <2>2
<1>4. CASE ReceiveBlock
  <2>1. received' = blockInfoChan[1] /\ 1 \in DOMAIN blockInfoChan
    BY <1>4 DEF ReceiveBlock
  <2>2. Cursor \in Int /\ Cursor' = Cursor + 1
    BY <1>4 DEF ReceiveBlock
  <2>3. \A i \in DOMAIN blockInfoChan : blockInfoChan[i] = Cursor + i - 1
    BY DEF Contiguous
  <2> HIDE DEF Cursor
  <2> QED
    BY <2>1, <2>2, <2>3 DEF Stream!Deliver
<1>5. CASE PushBlock
  BY <1>5 DEF PushBlock
<1>6. CASE BlockRetrieved
  BY <1>6 DEF BlockRetrieved
<1>7. CASE ActivationQuit \/ QueryFailed \/ PollInterval \/ PollQuit
  BY <1>7 DEF ActivationQuit, QueryFailed, PollInterval, PollQuit
<1>8. CASE NewBlock \/ Activate \/ SkipQuit \/ SkipReturns \/ Stop
  BY <1>8 DEF NewBlock, Activate, SkipQuit, SkipReturns, Stop, StopBegins, CloseQuit,
     CloseFailed, StopReturns
<1>9. ASSUME NEW h \in 1..(tip + 1), CallSkip(h) PROVE UNCHANGED <<Cursor, received>>
  BY <1>9 DEF CallSkip
<1>10. CASE UNCHANGED vars
  BY <1>10 DEF vars
<1> QED
  BY <1>1, <1>2, <1>3, <1>4, <1>5, <1>6, <1>7, <1>8, <1>9, <1>10 DEF Next, Poll

\* The poller implements the stream of consecutive heights.
THEOREM PollerImplementsStream == Spec => ImplementsStream
<1>1. Init => Stream!StreamInit
  BY PollerAssumption DEF Init, PollerInit, Stream!StreamInit, Cursor
<1> QED
  BY <1>1, PollerInvariant, PollerStepRefines, PTL DEF Spec, ImplementsStream, Stream!StreamSpec
-----------------------------------------------------------------------------
(* The queries.  Pages are handed out in ascending order, so everything    *)
(* rests on the ascending list of a bounded set: there is exactly one.     *)

\* s lists the elements of S in ascending order, each once.
Enumerates(s, S) ==
  /\ s \in Seq(Nat)
  /\ \A i, j \in 1..Len(s) : i < j => s[i] < s[j]
  /\ S = {s[i] : i \in 1..Len(s)}

\* The elements of S up to x, and from x on.
UpTo(S, x) == {h \in S : h <= x}
From(S, x) == {h \in S : h >= x}

\* What the positions of an ascending list hold.
LEMMA EnumerationFacts ==
  ASSUME NEW S, NEW s, Enumerates(s, S)
  PROVE  /\ s \in Seq(Nat)
         /\ Len(s) \in Nat
         /\ s = [i \in 1..Len(s) |-> s[i]]
         /\ \A i \in 1..Len(s) : s[i] \in Nat /\ s[i] \in S
         /\ \A i, j \in 1..Len(s) : i < j => s[i] < s[j]
         /\ \A x \in S : x \in Nat /\ \E i \in 1..Len(s) : x = s[i]
<1>1. s \in Seq(Nat) /\ Len(s) \in Nat
  BY DEF Enumerates
<1>2. S = {s[i] : i \in 1..Len(s)}
  BY DEF Enumerates
<1>3. \A i \in 1..Len(s) : s[i] \in Nat
  BY <1>1
<1>4. \A i \in 1..Len(s) : s[i] \in S
  BY <1>2
<1>5. \A x \in S : \E i \in 1..Len(s) : x = s[i]
  BY <1>2
<1>6. s = [i \in 1..Len(s) |-> s[i]]
  BY <1>1
<1>7. \A i, j \in 1..Len(s) : i < j => s[i] < s[j]
  BY DEF Enumerates
<1> QED
  BY <1>1, <1>3, <1>4, <1>5, <1>6, <1>7

\* A nonempty set of naturals has a least element.
LEMMA LeastExists ==
  ASSUME NEW T \in SUBSET Nat, T # {}
  PROVE  \E k \in T : \A j \in T : k <= j
<1>1. PICK k \in T : \A j \in T : ~(<<j, k>> \in OpToRel(<, Nat))
  BY NatLessThanWellFounded, WFMin, Zenon
<1>2. \A j \in T : ~(j < k)
  BY <1>1, Zenon DEF OpToRel
<1> QED
  BY <1>2

\* Two ascending lists of one set agree as far as the first goes.
LEMMA EnumerationAgrees ==
  ASSUME NEW S, NEW s, NEW t, Enumerates(s, S), Enumerates(t, S)
  PROVE  \A k \in 1..Len(s) : k <= Len(t) /\ s[k] = t[k]
<1> DEFINE T == {k \in 1..Len(s) : ~(k <= Len(t) /\ s[k] = t[k])}
<1>1. Len(s) \in Nat /\ Len(t) \in Nat
  BY DEF Enumerates
<1> SUFFICES ASSUME T # {} PROVE FALSE
  BY <1>1
<1>2. T \in SUBSET Nat
  BY <1>1
<1> HIDE DEF T
<1>3. PICK k \in T : \A j \in T : k <= j
  BY <1>2, LeastExists
<1>4. k \in 1..Len(s) /\ ~(k <= Len(t) /\ s[k] = t[k])
  BY <1>3 DEF T
<1>5. \A j \in 1..Len(s) : j < k => j <= Len(t) /\ s[j] = t[j]
  BY <1>1, <1>3, <1>4 DEF T
<1>6. \A i \in 1..Len(s) : s[i] \in Nat /\ \E m \in 1..Len(t) : s[i] = t[m]
  BY EnumerationFacts
<1>7. \A i \in 1..Len(t) : t[i] \in Nat /\ \E m \in 1..Len(s) : t[i] = s[m]
  BY EnumerationFacts
<1>8. \A i, j \in 1..Len(s) : i < j => s[i] < s[j]
  BY DEF Enumerates
<1>9. \A i, j \in 1..Len(t) : i < j => t[i] < t[j]
  BY DEF Enumerates
<1>10. PICK m \in 1..Len(t) : s[k] = t[m]
  BY <1>4, <1>6
<1>11. m >= k
  <2> SUFFICES ASSUME m < k PROVE FALSE
    BY <1>1, <1>4
  <2>1. m \in 1..Len(s) /\ s[m] = t[m]
    BY <1>1, <1>4, <1>5
  <2> QED
    BY <2>1, <1>4, <1>6, <1>8, <1>10
<1>12. k \in 1..Len(t)
  BY <1>1, <1>4, <1>11
<1>13. PICK n \in 1..Len(s) : t[k] = s[n]
  BY <1>12, <1>7
<1>14. n >= k
  <2> SUFFICES ASSUME n < k PROVE FALSE
    BY <1>1, <1>4
  <2>1. n \in 1..Len(t) /\ s[n] = t[n]
    BY <1>1, <1>4, <1>5
  <2> QED
    BY <2>1, <1>12, <1>7, <1>9, <1>13
<1>15. s[k] >= t[k]
  BY <1>9, <1>10, <1>11, <1>12, <1>7, <1>1
<1>16. t[k] >= s[k]
  BY <1>8, <1>13, <1>14, <1>4, <1>6, <1>1
<1>17. s[k] = t[k]
  <2>1. s[k] \in Nat /\ t[k] \in Nat
    BY <1>4, <1>6, <1>7, <1>12
  <2> QED
    BY <2>1, <1>15, <1>16
<1> QED
  BY <1>17, <1>12, <1>4, <1>1

\* A set has one ascending list.
LEMMA EnumerationUnique ==
  ASSUME NEW S, NEW s, NEW t, Enumerates(s, S), Enumerates(t, S)
  PROVE  s = t
<1>1. \A k \in 1..Len(s) : k <= Len(t) /\ s[k] = t[k]
  BY EnumerationAgrees
<1>2. \A k \in 1..Len(t) : k <= Len(s) /\ t[k] = s[k]
  BY EnumerationAgrees
<1>3. Len(s) \in Nat /\ Len(t) \in Nat
  BY EnumerationFacts
<1>4. Len(s) = Len(t)
  <2>1. Len(s) <= Len(t)
    BY <1>1, <1>3
  <2>2. Len(t) <= Len(s)
    BY <1>2, <1>3
  <2> QED
    BY <2>1, <2>2, <1>3
<1>5. s = [i \in 1..Len(s) |-> s[i]] /\ t = [i \in 1..Len(t) |-> t[i]]
  BY EnumerationFacts
<1> QED
  BY <1>1, <1>4, <1>5

LEMMA EmptyEnumerated == Enumerates(<<>>, {})
  BY DEF Enumerates

\* An element above all others goes last.
LEMMA EnumerationAppend ==
  ASSUME NEW S, NEW s, Enumerates(s, S), NEW h \in Nat, \A g \in S : g < h
  PROVE  Enumerates(Append(s, h), S \union {h})
<1> DEFINE t == Append(s, h)
<1>1. s \in Seq(Nat) /\ Len(s) \in Nat
  BY DEF Enumerates
<1>2. t \in Seq(Nat) /\ Len(t) = Len(s) + 1 /\ t[Len(s) + 1] = h
  BY <1>1
<1>3. \A i \in 1..Len(s) : t[i] = s[i]
  BY <1>1
<1>4. \A i \in 1..Len(s) : s[i] \in S
  BY DEF Enumerates
<1>5. S = {s[i] : i \in 1..Len(s)} /\ \A i, j \in 1..Len(s) : i < j => s[i] < s[j]
  BY DEF Enumerates
<1> HIDE DEF t
<1>6. \A i, j \in 1..Len(t) : i < j => t[i] < t[j]
  <2> SUFFICES ASSUME NEW i \in 1..Len(t), NEW j \in 1..Len(t), i < j
               PROVE  t[i] < t[j]
    OBVIOUS
  <2>1. i \in 1..Len(s) /\ t[i] = s[i]
    BY <1>1, <1>2, <1>3
  <2>2. CASE j = Len(s) + 1
    BY <2>1, <2>2, <1>2, <1>4
  <2>3. CASE j # Len(s) + 1
    <3>1. j \in 1..Len(s)
      BY <2>3, <1>1, <1>2
    <3>2. t[j] = s[j]
      BY <3>1, <1>3
    <3> QED
      BY <3>1, <3>2, <2>1, <1>5
  <2> QED
    BY <2>2, <2>3
<1>7. S \union {h} = {t[i] : i \in 1..Len(t)}
  <2>1. ASSUME NEW x \in S \union {h} PROVE \E i \in 1..Len(t) : x = t[i]
    <3>1. CASE x = h
      BY <3>1, <1>1, <1>2
    <3>2. CASE x \in S
      <4>1. PICK i \in 1..Len(s) : x = s[i]
        BY <3>2, <1>5
      <4> QED
        BY <4>1, <1>1, <1>2, <1>3
    <3> QED
      BY <3>1, <3>2
  <2>2. ASSUME NEW i \in 1..Len(t) PROVE t[i] \in S \union {h}
    <3>1. CASE i = Len(s) + 1
      BY <3>1, <1>2
    <3>2. CASE i # Len(s) + 1
      BY <3>2, <1>1, <1>2, <1>3, <1>4
    <3> QED
      BY <3>1, <3>2
  <2> QED
    BY <2>1, <2>2
<1>8. Enumerates(t, S \union {h})
  BY <1>2, <1>6, <1>7 DEF Enumerates
<1> QED
  BY <1>8 DEF t

\* Every bounded set of naturals has an ascending list.
LEMMA EnumerationExists ==
  ASSUME NEW n \in Nat, NEW S \in SUBSET (0..n)
  PROVE  \E s : Enumerates(s, S)
<1> DEFINE Below(m) == {h \in S : h < m}
           T == {m \in 0..(n + 1) : ~\E s : Enumerates(s, Below(m))}
<1>0. \A h \in S : h \in Nat /\ h <= n
  OBVIOUS
<1>1. Below(n + 1) = S
  <2>1. \A h \in S : h < n + 1
    BY <1>0
  <2> QED
    BY <2>1, Zenon
<1> SUFFICES ASSUME T # {} PROVE FALSE
  <2>1. n + 1 \in 0..(n + 1)
    OBVIOUS
  <2> QED
    BY <1>1, <2>1
<1>2. T \in SUBSET Nat
  OBVIOUS
<1>3. PICK m \in T : \A j \in T : m <= j
  <2> HIDE DEF T
  <2> QED
    BY <1>2, LeastExists
<1>4. m \in 0..(n + 1) /\ ~\E s : Enumerates(s, Below(m))
  BY Zenon
<1>5. m # 0
  <2>1. Below(0) = {}
    <3>1. \A h \in S : ~(h < 0)
      BY <1>0
    <3> QED
      BY <3>1, Zenon
  <2> HIDE DEF Below
  <2> QED
    BY <2>1, <1>4, EmptyEnumerated
<1>6. m - 1 \in 0..(n + 1) /\ m - 1 \in Nat /\ ~(m <= m - 1)
  BY <1>4, <1>5
<1>7. m - 1 \notin T
  <2> HIDE DEF T
  <2> QED
    BY <1>3, <1>6
<1>8. PICK s : Enumerates(s, Below(m - 1))
  BY <1>6, <1>7, Zenon
<1>9. CASE m - 1 \in S
  <2>1. Below(m) = Below(m - 1) \union {m - 1}
    <3>1. \A h \in S : h < m <=> (h < m - 1 \/ h = m - 1)
      BY <1>0, <1>4
    <3> QED
      BY <3>1, <1>9, Zenon
  <2>2. \A g \in Below(m - 1) : g < m - 1
    OBVIOUS
  <2> HIDE DEF Below
  <2>3. Enumerates(Append(s, m - 1), Below(m - 1) \union {m - 1})
    BY <1>6, <1>8, <2>2, EnumerationAppend
  <2> QED
    BY <2>1, <2>3, <1>4
<1>10. CASE m - 1 \notin S
  <2>1. Below(m) = Below(m - 1)
    <3>1. \A h \in S : h < m <=> h < m - 1
      BY <1>0, <1>10, <1>4
    <3> QED
      BY <3>1, Zenon
  <2> HIDE DEF Below
  <2> QED
    BY <2>1, <1>8, <1>4
<1> QED
  BY <1>9, <1>10

\* The list is as long as the set is large.
LEMMA EnumerationCounts ==
  ASSUME NEW S, NEW s, Enumerates(s, S)
  PROVE  IsFiniteSet(S) /\ Cardinality(S) = Len(s) /\ s \in [1..Len(s) -> S]
<1>1. Len(s) \in Nat /\ s = [i \in 1..Len(s) |-> s[i]]
  BY EnumerationFacts
<1>2. \A i \in 1..Len(s) : s[i] \in Nat /\ s[i] \in S
  BY EnumerationFacts
<1>3. s \in [1..Len(s) -> S]
  BY <1>1, <1>2
<1>4. \A i, j \in 1..Len(s) : s[i] = s[j] => i = j
  <2> SUFFICES ASSUME NEW i \in 1..Len(s), NEW j \in 1..Len(s), s[i] = s[j], i # j
               PROVE  FALSE
    OBVIOUS
  <2>1. i < j \/ j < i
    BY <1>1
  <2>2. s[i] < s[j] \/ s[j] < s[i]
    BY <2>1, EnumerationFacts
  <2> QED
    BY <2>2, <1>2
<1>5. \A x \in S : \E i \in 1..Len(s) : s[i] = x
  BY EnumerationFacts
<1>6. s \in Bijection(1..Len(s), S)
  BY <1>3, <1>4, <1>5 DEF Bijection, Injection, Surjection, IsInjective
<1>7. ExistsBijection(1..Len(s), S)
  BY <1>6 DEF ExistsBijection
<1>8. IsFiniteSet(S)
  BY <1>1, <1>7, FS_NatBijection
<1>9. Cardinality(S) = Len(s)
  BY <1>1, <1>7, FS_CountingElements
<1> QED
  BY <1>3, <1>8, <1>9

\* Ascending yields the ascending list of a set, whenever there is one.
LEMMA AscendingIs ==
  ASSUME NEW S, NEW s, Enumerates(s, S)
  PROVE  Ascending(S) = s
<1> DEFINE n == Cardinality(S)
           P(f) == \A i, j \in 1..n : i < j => f[i] < f[j]
           f == CHOOSE g \in [1..n -> S] : P(g)
<1>1. IsFiniteSet(S) /\ n = Len(s) /\ s \in [1..n -> S] /\ n \in Nat
  BY EnumerationCounts, EnumerationFacts
<1>2. P(s)
  BY <1>1, EnumerationFacts, Zenon
<1>3. f \in [1..n -> S] /\ P(f)
  <2> HIDE DEF P, n
  <2> QED
    BY <1>1, <1>2
<1>4. Ascending(S) = f
  BY DEF Ascending
<1>5. \A x \in S : x \in Nat
  BY EnumerationFacts
<1>6. 1..n = DOMAIN f /\ \A i, j \in 1..n : i < j => f[i] < f[j]
  BY <1>3
<1> HIDE DEF f, n, P
<1>7. \A i, j \in 1..n : f[i] = f[j] => i = j
  <2> SUFFICES ASSUME NEW i \in 1..n, NEW j \in 1..n, f[i] = f[j], i # j
               PROVE  FALSE
    OBVIOUS
  <2>1. i < j \/ j < i
    BY <1>1
  <2>2. f[i] < f[j] \/ f[j] < f[i]
    BY <2>1, <1>6
  <2>3. f[i] \in Nat /\ f[j] \in Nat
    BY <1>3, <1>5
  <2> QED
    BY <2>2, <2>3
<1>8. f \in Injection(1..n, S)
  BY <1>3, <1>7 DEF Injection, IsInjective
<1>9. Cardinality(1..n) = n
  <2>1. n \in Int /\ 1 \in Int /\ (IF 1 > n THEN 0 ELSE n - 1 + 1) = n
    BY <1>1
  <2>2. \A a, b \in Int : Cardinality(a..b) = IF a > b THEN 0 ELSE b - a + 1
    BY FS_Interval
  <2> QED
    BY <2>1, <2>2
<1>10. f \in Surjection(1..n, S)
  BY <1>1, <1>8, <1>9, FS_Injection DEF n
<1>11. \A x \in S : \E i \in 1..n : f[i] = x
  BY <1>10 DEF Surjection
<1>12. f \in Seq(Nat) /\ Len(f) = n
  BY <1>1, <1>3, <1>5
<1>13. S = {f[i] : i \in 1..n}
  BY <1>3, <1>11
<1>14. Enumerates(f, S)
  BY <1>6, <1>12, <1>13 DEF Enumerates
<1> QED
  BY <1>4, <1>14, EnumerationUnique

\* For a bounded set there is one.
LEMMA AscendingEnumerates ==
  ASSUME NEW n \in Nat, NEW S \in SUBSET (0..n)
  PROVE  Enumerates(Ascending(S), S)
<1>1. PICK s : Enumerates(s, S)
  BY EnumerationExists
<1> QED
  BY <1>1, AscendingIs

\* A prefix lists the elements up to its last one.
LEMMA EnumerationPrefix ==
  ASSUME NEW S, NEW s, Enumerates(s, S), NEW n \in 1..Len(s)
  PROVE  /\ Enumerates(SubSeq(s, 1, n), UpTo(S, s[n]))
         /\ Len(SubSeq(s, 1, n)) = n
         /\ LastOf(SubSeq(s, 1, n)) = s[n]
<1> DEFINE p == SubSeq(s, 1, n)
<1>1. s \in Seq(Nat) /\ Len(s) \in Nat /\ n \in Nat /\ n <= Len(s)
  BY EnumerationFacts
<1>2. p = [i \in 1..n |-> s[i]] /\ p \in Seq(Nat) /\ Len(p) = n
  BY <1>1
<1>3. \A i \in 1..n : i \in 1..Len(s) /\ p[i] = s[i]
  BY <1>1, <1>2
<1> HIDE DEF p
<1>4. \A i, j \in 1..n : i < j => p[i] < p[j]
  <2> SUFFICES ASSUME NEW i \in 1..n, NEW j \in 1..n, i < j PROVE p[i] < p[j]
    OBVIOUS
  <2>1. i \in 1..Len(s) /\ j \in 1..Len(s) /\ p[i] = s[i] /\ p[j] = s[j]
    BY <1>3
  <2> QED
    BY <2>1, EnumerationFacts
<1>5. ASSUME NEW x \in S, x <= s[n] PROVE \E i \in 1..n : x = p[i]
  <2>1. PICK i \in 1..Len(s) : x = s[i]
    BY EnumerationFacts
  <2>2. s[i] \in Nat /\ s[n] \in Nat
    BY EnumerationFacts
  <2>3. ~(n < i)
    <3> SUFFICES ASSUME n < i PROVE FALSE
      OBVIOUS
    <3>1. s[n] < s[i]
      BY EnumerationFacts
    <3> QED
      BY <3>1, <2>1, <2>2, <1>5
  <2>4. i \in 1..n
    BY <1>1, <2>3
  <2> QED
    BY <2>1, <2>4, <1>3
<1>6. ASSUME NEW i \in 1..n PROVE p[i] \in S /\ p[i] <= s[n]
  <2>1. p[i] = s[i] /\ s[i] \in S /\ s[i] \in Nat /\ s[n] \in Nat /\ i \in 1..Len(s)
    BY <1>3, EnumerationFacts
  <2>2. i < n \/ i = n
    BY <1>1
  <2>3. s[i] < s[n] \/ s[i] = s[n]
    BY <2>1, <2>2, EnumerationFacts
  <2> QED
    BY <2>1, <2>3
<1>7. UpTo(S, s[n]) = {p[i] : i \in 1..n}
  BY <1>5, <1>6 DEF UpTo
<1>8. Enumerates(p, UpTo(S, s[n]))
  BY <1>2, <1>4, <1>7 DEF Enumerates
<1>9. LastOf(p) = s[n]
  BY <1>1, <1>2, <1>3 DEF LastOf
<1> QED
  BY <1>2, <1>8, <1>9 DEF p

\* The list of a set, continued by the list of a set above it, lists both.
LEMMA EnumerationConcat ==
  ASSUME NEW S, NEW s, Enumerates(s, S), NEW T, NEW t, Enumerates(t, T),
         \A x \in S, y \in T : x < y
  PROVE  Enumerates(s \o t, S \union T)
<1> DEFINE u == s \o t
<1>1. /\ s \in Seq(Nat) /\ Len(s) \in Nat
      /\ t \in Seq(Nat) /\ Len(t) \in Nat
  BY EnumerationFacts
<1>2. u \in Seq(Nat) /\ Len(u) = Len(s) + Len(t)
  BY <1>1
<1>3. \A i \in 1..Len(s) : i \in 1..Len(u) /\ u[i] = s[i]
  BY <1>1, <1>2
<1>4. \A i \in 1..Len(t) : i + Len(s) \in 1..Len(u) /\ u[i + Len(s)] = t[i]
  BY <1>1, <1>2
<1> HIDE DEF u
<1>5. \A k \in 1..Len(u) : k \in 1..Len(s) \/ (k - Len(s) \in 1..Len(t) /\ k - Len(s) + Len(s) = k)
  BY <1>1, <1>2
<1>6. \A k \in 1..Len(u) : \/ k \in 1..Len(s) /\ u[k] = s[k] /\ s[k] \in S
                           \/ k - Len(s) \in 1..Len(t) /\ u[k] = t[k - Len(s)]
                              /\ t[k - Len(s)] \in T
  <2> TAKE k \in 1..Len(u)
  <2>1. CASE k \in 1..Len(s)
    BY <2>1, <1>3, EnumerationFacts
  <2>2. CASE k \notin 1..Len(s)
    <3> DEFINE i == k - Len(s)
    <3>1. i \in 1..Len(t) /\ i + Len(s) = k
      BY <2>2, <1>5
    <3> HIDE DEF i
    <3>2. u[k] = t[i] /\ t[i] \in T
      BY <3>1, <1>4, EnumerationFacts
    <3> QED
      BY <3>1, <3>2 DEF i
  <2> QED
    BY <2>1, <2>2
<1>7. \A i, j \in 1..Len(u) : i < j => u[i] < u[j]
  <2> SUFFICES ASSUME NEW i \in 1..Len(u), NEW j \in 1..Len(u), i < j
               PROVE  u[i] < u[j]
    OBVIOUS
  <2>1. CASE j \in 1..Len(s)
    <3>1. i \in 1..Len(s)
      BY <2>1, <1>1, <1>2
    <3>2. s[i] < s[j]
      BY <2>1, <3>1, EnumerationFacts
    <3> QED
      BY <3>1, <3>2, <2>1, <1>3
  <2>2. CASE j \notin 1..Len(s) /\ i \in 1..Len(s)
    BY <2>2, <1>6
  <2>3. CASE j \notin 1..Len(s) /\ i \notin 1..Len(s)
    <3> DEFINE a == i - Len(s)
               b == j - Len(s)
    <3>1. a \in 1..Len(t) /\ b \in 1..Len(t) /\ a < b
      BY <2>3, <1>1, <1>2, <1>5
    <3>2. u[i] = t[a] /\ u[j] = t[b]
      BY <2>3, <1>6
    <3> HIDE DEF a, b
    <3>3. t[a] < t[b]
      BY <3>1, EnumerationFacts
    <3> QED
      BY <3>2, <3>3
  <2> QED
    BY <2>1, <2>2, <2>3
<1>8. ASSUME NEW x \in S \union T PROVE \E k \in 1..Len(u) : x = u[k]
  <2>1. CASE x \in S
    <3>1. PICK i \in 1..Len(s) : x = s[i]
      BY <2>1, EnumerationFacts
    <3> QED
      BY <3>1, <1>3
  <2>2. CASE x \in T
    <3>1. PICK i \in 1..Len(t) : x = t[i]
      BY <2>2, EnumerationFacts
    <3> QED
      BY <3>1, <1>4
  <2> QED
    BY <2>1, <2>2
<1>9. ASSUME NEW k \in 1..Len(u) PROVE u[k] \in S \union T
  BY <1>6
<1>10. S \union T = {u[k] : k \in 1..Len(u)}
  BY <1>8, <1>9
<1> QED
  BY <1>2, <1>7, <1>10 DEF Enumerates, u

\* The ascending list of an interval.
LEMMA IntervalEnumerated ==
  ASSUME NEW a \in Nat, NEW n \in Nat
  PROVE  Enumerates([i \in 1..n |-> a + i - 1], a..(a + n - 1))
<1> DEFINE s == [i \in 1..n |-> a + i - 1]
<1>1. \A i \in 1..n : s[i] = a + i - 1 /\ s[i] \in Nat
  OBVIOUS
<1>2. s \in Seq(Nat) /\ Len(s) = n
  OBVIOUS
<1> HIDE DEF s
<1>3. \A i, j \in 1..n : i < j => s[i] < s[j]
  BY <1>1
<1>4. ASSUME NEW x \in a..(a + n - 1) PROVE \E i \in 1..n : x = s[i]
  <2>1. x - a + 1 \in 1..n /\ a + (x - a + 1) - 1 = x
    OBVIOUS
  <2> QED
    BY <2>1, <1>1, Zenon
<1>5. ASSUME NEW i \in 1..n PROVE s[i] \in a..(a + n - 1)
  BY <1>1
<1>6. a..(a + n - 1) = {s[i] : i \in 1..n}
  BY <1>4, <1>5
<1> QED
  BY <1>2, <1>3, <1>6, Zenon DEF Enumerates, s

LEMMA MinOfTwo ==
  ASSUME NEW a \in Int, NEW b \in Int
  PROVE  Min({a, b}) = IF a <= b THEN a ELSE b
<1> DEFINE m == IF a <= b THEN a ELSE b
<1>1. m \in {a, b} /\ \A y \in {a, b} : m <= y
  OBVIOUS
<1>2. \A x \in {a, b} : (\A y \in {a, b} : x <= y) => x = m
  OBVIOUS
<1> HIDE DEF m
<1> QED
  BY <1>1, <1>2 DEF Min, m

LEMMA MinLeast ==
  ASSUME NEW T \in SUBSET Nat, T # {}
  PROVE  Min(T) \in T /\ \A j \in T : Min(T) <= j
  BY LeastExists, Zenon DEF Min

LEMMA AscendingOfNothing == Ascending({}) = <<>>
  BY EmptyEnumerated, AscendingIs

\* p is a page of at most c elements of B: the least ones, up to its last one.
\* It is not empty as long as there is something to list.
IsPage(p, B, c) ==
  /\ B = {} => p = <<>>
  /\ B # {} => /\ Len(p) \in 1..c
               /\ Len(p) \in 1..Len(Ascending(B))
               /\ LastOf(p) = Ascending(B)[Len(p)]
               /\ LastOf(p) \in B
               /\ Enumerates(p, UpTo(B, LastOf(p)))

\* queryLatestBlocks answers with such a page of what lies from the start key on.
LEMMA ForwardPage ==
  ASSUME NEW n \in Nat, NEW A \in SUBSET (0..n), NEW k \in Nat, NEW c \in Nat, c >= 1
  PROVE  IsPage(queryLatestBlocks(A, k, c, FALSE), From(A, k), c)
<1> DEFINE B == From(A, k)
           p == queryLatestBlocks(A, k, c, FALSE)
           from == Ascending(B)
           m == Min({c, Len(from)})
<1>1. p = SubSeq(from, 1, m)
  BY DEF queryLatestBlocks, From
<1>2. Enumerates(from, B)
  <2>1. B \in SUBSET (0..n)
    BY Zenon DEF From
  <2> QED
    BY <2>1, AscendingEnumerates, Zenon
<1> HIDE DEF B, p
<1>3. Len(from) \in Nat
  BY <1>2, EnumerationFacts
<1>4. m = IF c <= Len(from) THEN c ELSE Len(from)
  BY <1>3, MinOfTwo
<1>5. ASSUME B = {} PROVE p = <<>>
  <2>1. from = <<>>
    BY <1>5, AscendingOfNothing
  <2> HIDE DEF from, m
  <2>2. m = 0
    BY <2>1, <1>4
  <2>3. SubSeq(<<>>, 1, 0) = <<>>
    OBVIOUS
  <2> QED
    BY <1>1, <2>1, <2>2, <2>3
<1>6. ASSUME B # {}
      PROVE  /\ Len(p) \in 1..c
             /\ Len(p) \in 1..Len(from)
             /\ LastOf(p) = from[Len(p)]
             /\ LastOf(p) \in B
             /\ Enumerates(p, UpTo(B, LastOf(p)))
  <2> HIDE DEF from, m
  <2>1. PICK x : x \in B
    BY <1>6
  <2>2. PICK i \in 1..Len(from) : x = from[i]
    BY <2>1, <1>2, EnumerationFacts
  <2>3. m \in 1..Len(from) /\ m \in 1..c
    BY <2>2, <1>3, <1>4
  <2>4. /\ Enumerates(p, UpTo(B, from[m]))
        /\ Len(p) = m
        /\ LastOf(p) = from[m]
    <3>1. /\ Enumerates(SubSeq(from, 1, m), UpTo(B, from[m]))
          /\ Len(SubSeq(from, 1, m)) = m
          /\ LastOf(SubSeq(from, 1, m)) = from[m]
      BY <1>2, <2>3, EnumerationPrefix
    <3> QED
      BY <3>1, <1>1, Zenon
  <2>5. from[m] \in B
    BY <2>3, <1>2, EnumerationFacts
  <2> QED
    BY <2>3, <2>4, <2>5
<1>7. IsPage(p, B, c)
  BY <1>5, <1>6 DEF IsPage
<1> QED
  BY <1>7, Zenon DEF p, B

\* One round of FastSync over the indexed blocks a..b: it yields consecutive
\* blocks, from the one it starts with, and never one beyond the end.
LEMMA OneRound ==
  ASSUME NEW a \in Nat, NEW b \in Nat, NEW e \in Nat, NEW c \in Nat, c >= 1,
         NEW s \in Nat, a <= s, s <= e,
         NEW p, p = QueryBlocks(a..b, s, e, c)
  PROVE  /\ s > b => p = <<>>
         /\ s <= b => /\ p # <<>>
                      /\ LastOf(p) \in s..e
                      /\ LastOf(p) <= b
                      /\ Enumerates(p, s..LastOf(p))
<1> DEFINE m == Min({e - s + 1, c})
           A == a..b
           B == From(A, s)
<1>1. m = (IF e - s + 1 <= c THEN e - s + 1 ELSE c)
  BY MinOfTwo
<1>2. m \in Nat /\ m >= 1 /\ m <= e - s + 1
  BY <1>1
<1>3. p = queryLatestBlocks(A, s, m, FALSE)
  BY DEF QueryBlocks
<1>4. B = s..b
  <2>1. \A h \in Int : (h \in a..b /\ h >= s) <=> h \in s..b
    OBVIOUS
  <2> QED
    BY <2>1 DEF From
<1>5. A \in SUBSET (0..b)
  OBVIOUS
<1> HIDE DEF m, A
<1>6. IsPage(p, B, m)
  BY <1>2, <1>3, <1>5, ForwardPage, Zenon
<1> HIDE DEF B
<1>7. ASSUME s > b PROVE p = <<>>
  <2>1. B = {}
    BY <1>4, <1>7
  <2> QED
    BY <2>1, <1>6 DEF IsPage
<1>8. ASSUME s <= b
      PROVE  p # <<>> /\ LastOf(p) \in s..e /\ LastOf(p) <= b /\ Enumerates(p, s..LastOf(p))
  <2>1. B # {}
    <3>1. s \in s..b
      BY <1>8
    <3> QED
      BY <3>1, <1>4, Zenon
  <2> DEFINE n == b - s + 1
             t == [i \in 1..n |-> s + i - 1]
  <2>2. n \in Nat /\ s..b = s..(s + n - 1)
    BY <1>8
  <2>3. Ascending(B) = t
    <3>1. Enumerates(t, s..(s + n - 1))
      <4> HIDE DEF n
      <4> QED
        BY <2>2, IntervalEnumerated
    <3> HIDE DEF t, n
    <3> QED
      BY <3>1, <2>2, <1>4, AscendingIs
  <2>4. Len(t) = n
    <3> HIDE DEF n
    <3> QED
      BY <2>2
  <2>5. \A i \in 1..n : t[i] = s + i - 1
    OBVIOUS
  <2> HIDE DEF n, t
  <2>6. Len(p) \in 1..m /\ Len(p) \in 1..n /\ LastOf(p) = t[Len(p)] /\ LastOf(p) \in s..b
        /\ Enumerates(p, UpTo(B, LastOf(p)))
    BY <2>1, <2>3, <2>4, <1>4, <1>6 DEF IsPage
  <2>7. LastOf(p) = s + Len(p) - 1
    BY <2>5, <2>6
  <2>8. LastOf(p) \in s..e
    BY <2>6, <2>7, <1>2
  <2>9. UpTo(B, LastOf(p)) = s..LastOf(p)
    <3>1. \A h \in Int : (h \in s..b /\ h <= LastOf(p)) <=> h \in s..LastOf(p)
      BY <2>6, <2>8
    <3> QED
      BY <3>1, <1>4 DEF UpTo
  <2>10. p # <<>>
    BY <2>6, <1>2
  <2>11. LastOf(p) <= b
    BY <2>6
  <2>12. Enumerates(p, s..LastOf(p))
    BY <2>6, <2>9
  <2> QED
    BY <2>8, <2>10, <2>11, <2>12
<1> QED
  BY <1>7, <1>8

\* The rounds of FetchedBlocks: what comes from height s on, when f says what
\* comes after that round.
RoundFrom(f, indexed, s, endHeight, limit) ==
  LET blocks == IF s > endHeight THEN <<>> ELSE QueryBlocks(indexed, s, endHeight, limit)
  IN  IF blocks = <<>> THEN <<>> ELSE blocks \o f[LastOf(blocks) + 1]

\* The blocks of a..b from height s on up to e, in order.
Remaining(a, b, s, e) == Ascending((s..e) \intersect (a..b))

\* f knows what remains after height s.
Continues(f, a, b, s, e) == \A r \in (s + 1)..(e + 1) : f[r] = Remaining(a, b, r, e)

\* A round and the blocks that follow it are the blocks of the range.
LEMMA RoundContinues ==
  ASSUME NEW a \in Nat, NEW b \in Nat, NEW e \in Nat, NEW c \in Nat, c >= 1,
         NEW s \in Nat, a <= s, s <= e + 1, NEW f, Continues(f, a, b, s, e)
  PROVE  RoundFrom(f, a..b, s, e, c) = Remaining(a, b, s, e)
<1>1. CASE s > e \/ s > b
  <2>1. (s..e) \intersect (a..b) = {}
    BY <1>1
  <2>2. s <= e => QueryBlocks(a..b, s, e, c) = <<>>
    BY <1>1, OneRound
  <2>3. RoundFrom(f, a..b, s, e, c) = <<>>
    BY <2>2 DEF RoundFrom
  <2> QED
    BY <2>1, <2>3, AscendingOfNothing, Zenon DEF Remaining
<1>2. CASE s <= e /\ s <= b
  <2> DEFINE p == QueryBlocks(a..b, s, e, c)
             l == LastOf(p)
             rest == ((l + 1)..e) \intersect (a..b)
  <2>1. p # <<>> /\ l \in s..e /\ l <= b /\ Enumerates(p, s..l)
    BY <1>2, OneRound
  <2>2. RoundFrom(f, a..b, s, e, c) = p \o f[l + 1]
    <3>1. (IF s > e THEN <<>> ELSE p) = p
      BY <1>2
    <3> QED
      BY <3>1, <2>1, Zenon DEF RoundFrom
  <2> HIDE DEF p, l
  <2>3. l + 1 \in (s + 1)..(e + 1) /\ l \in Nat
    BY <2>1
  <2>4. f[l + 1] = Ascending(rest)
    BY <2>3 DEF Remaining, Continues
  <2>5. rest \in SUBSET (0..b)
    OBVIOUS
  <2>6. \A x \in s..l, y \in rest : x < y
    BY <2>3
  <2>7. (s..e) \intersect (a..b) = (s..l) \union rest
    <3>1. \A h \in Int : (h \in s..e /\ h \in a..b)
                          <=> (h \in s..l \/ (h \in (l + 1)..e /\ h \in a..b))
      BY <2>1, <2>3
    <3> QED
      BY <3>1
  <2> HIDE DEF rest
  <2>8. Enumerates(Ascending(rest), rest)
    BY <2>5, AscendingEnumerates, Zenon
  <2>9. Enumerates(p \o Ascending(rest), (s..l) \union rest)
    BY <2>1, <2>6, <2>8, EnumerationConcat
  <2>10. Ascending((s..l) \union rest) = p \o Ascending(rest)
    BY <2>9, AscendingIs, Zenon
  <2> QED
    BY <2>2, <2>4, <2>7, <2>10, Zenon DEF Remaining
<1> QED
  BY <1>1, <1>2

\* FastSync fetches each indexed block of its range once and in order, whatever
\* the limit of a round.
LEMMA RoundsCoverRange ==
  ASSUME NEW a \in Nat, NEW b \in Nat, NEW start \in Nat, a <= start,
         NEW e \in Nat, start <= e, NEW c \in Nat, c >= 1
  PROVE  FetchedBlocks(a..b, start, e, c) = Remaining(a, b, start, e)
<1> DEFINE D == start..e + 1
           G == [s \in D |-> Remaining(a, b, s, e)]
           Step(f) == [s \in D |-> RoundFrom(f, a..b, s, e, c)]
           R == CHOOSE f : f = Step(f)
<1>1. FetchedBlocks(a..b, start, e, c) = R[start]
  BY DEF FetchedBlocks, RoundFrom
<1>2. \A s \in D : s \in Nat /\ a <= s /\ s <= e + 1 /\ (s + 1)..(e + 1) \subseteq D
  OBVIOUS
<1>3. \A s \in D : G[s] = Remaining(a, b, s, e)
  OBVIOUS
<1> HIDE DEF G
<1>4. ASSUME NEW f, NEW s \in D, \A r \in (s + 1)..(e + 1) : f[r] = G[r]
      PROVE  RoundFrom(f, a..b, s, e, c) = G[s]
  <2>1. Continues(f, a, b, s, e)
    BY <1>2, <1>3, <1>4 DEF Continues
  <2>2. s \in Nat /\ a <= s /\ s <= e + 1
    BY <1>2
  <2> HIDE DEF D, Step, R
  <2>3. RoundFrom(f, a..b, s, e, c) = Remaining(a, b, s, e)
    BY <2>1, <2>2, RoundContinues
  <2> QED
    BY <2>3, <1>3, <1>4
<1>5. G = Step(G)
  <2>1. \A s \in D : RoundFrom(G, a..b, s, e, c) = G[s]
    BY <1>4
  <2>2. G = [s \in D |-> G[s]]
    BY DEF G
  <2> HIDE DEF D
  <2> QED
    BY <2>1, <2>2
<1>6. R = Step(R)
  <2> HIDE DEF Step
  <2> QED
    BY <1>5
<1>7. \A s \in D : R[s] = RoundFrom(R, a..b, s, e, c)
  <2> HIDE DEF R, D
  <2> QED
    BY <1>6
<1> HIDE DEF R
<1>8. \A s \in D : R[s] = G[s]
  <2> DEFINE T == {k \in 0..(e + 1 - start) : R[e + 1 - k] # G[e + 1 - k]}
  <2>1. \A s \in D : e + 1 - s \in 0..(e + 1 - start) /\ e + 1 - (e + 1 - s) = s
    OBVIOUS
  <2> SUFFICES ASSUME T # {} PROVE FALSE
    BY <2>1, Zenon
  <2>2. T \in SUBSET Nat
    OBVIOUS
  <2>3. PICK k \in T : \A j \in T : k <= j
    <3> HIDE DEF T
    <3> QED
      BY <2>2, LeastExists
  <2>4. k \in 0..(e + 1 - start) /\ R[e + 1 - k] # G[e + 1 - k]
    OBVIOUS
  <2>5. PICK s \in D : s = e + 1 - k
    BY <2>4
  <2>6. ASSUME NEW r \in (s + 1)..(e + 1) PROVE R[r] = G[r]
    <3>1. e + 1 - r \in 0..(e + 1 - start) /\ e + 1 - (e + 1 - r) = r /\ ~(k <= e + 1 - r)
      BY <2>4, <2>5
    <3>2. e + 1 - r \notin T
      <4> HIDE DEF T
      <4> QED
        BY <2>3, <3>1
    <3> QED
      BY <3>1, <3>2
  <2> HIDE DEF D
  <2>7. RoundFrom(R, a..b, s, e, c) = G[s]
    BY <1>4, <2>6
  <2> QED
    BY <2>4, <2>5, <2>7, <1>7
<1>9. start \in D
  OBVIOUS
<1> QED
  BY <1>1, <1>3, <1>8, <1>9

\* The pages of QueryFinalityProviders from key k on, when f says what comes after.
PageFrom(f, keys, k, limit) ==
  LET page == queryLatestBlocks(keys, k, limit, FALSE)
      after == {j \in keys : j > LastOf(page)}
  IN  IF after = {} THEN page ELSE page \o f[Min(after)]

\* A page and the pages that follow it are the keys from k on.
LEMMA PageContinues ==
  ASSUME NEW n \in Nat, NEW keys \in SUBSET (0..n), NEW c \in Nat, c >= 1, NEW k \in keys,
         NEW f, \A j \in keys : j > k => f[j] = Ascending(From(keys, j))
  PROVE  PageFrom(f, keys, k, c) = Ascending(From(keys, k))
<1> DEFINE p == queryLatestBlocks(keys, k, c, FALSE)
           B == From(keys, k)
           l == LastOf(p)
           after == {j \in keys : j > l}
<1>1. k \in Nat /\ \A j \in keys : j \in Nat
  OBVIOUS
<1>2. k \in B
  BY <1>1 DEF From
<1>3. IsPage(p, B, c)
  BY <1>1, ForwardPage, Zenon
<1>4. PageFrom(f, keys, k, c) = IF after = {} THEN p ELSE p \o f[Min(after)]
  BY DEF PageFrom
<1>5. \A j \in B : j \in keys /\ j >= k
  BY DEF From
<1>6. \A j \in keys : j >= k => j \in B
  BY DEF From
<1> HIDE DEF p, B, l
<1>7. l \in B /\ Enumerates(p, UpTo(B, l))
  BY <1>2, <1>3 DEF IsPage, l
<1>8. l \in keys /\ l >= k /\ l \in Nat
  BY <1>5, <1>7, <1>1, Zenon
<1>9. CASE after = {}
  <2>1. \A j \in B : j <= l
    <3> TAKE j \in B
    <3>1. j \in keys /\ j \in Nat
      BY <1>1, <1>5, Zenon
    <3>2. ~(j > l)
      BY <3>1, <1>9
    <3> QED
      BY <3>1, <3>2, <1>8
  <2>2. UpTo(B, l) = B
    BY <2>1 DEF UpTo
  <2>3. Ascending(B) = p
    BY <2>2, <1>7, AscendingIs
  <2> QED
    BY <2>3, <1>4, <1>9 DEF B
<1>10. CASE after # {}
  <2> DEFINE m == Min(after)
  <2>1. after \in SUBSET Nat
    BY <1>1, Zenon
  <2>2. m \in after /\ \A j \in after : m <= j
    <3> HIDE DEF after
    <3> QED
      BY <1>10, <2>1, MinLeast
  <2>3. m \in keys /\ m > l /\ m > k /\ m \in Nat
    <3>1. m \in keys /\ m > l
      BY <2>2
    <3> HIDE DEF m
    <3> QED
      BY <3>1, <1>1, <1>8
  <2>4. \A j \in keys : j > l => m <= j
    BY <2>2
  <2>5. PageFrom(f, keys, k, c) = p \o f[m]
    BY <1>4, <1>10
  <2> HIDE DEF m, after
  <2>6. f[m] = Ascending(From(keys, m))
    BY <2>3
  <2>7. B = UpTo(B, l) \union From(keys, m)
    <3>1. \A j \in keys : j >= k <=> (j >= k /\ j <= l) \/ j >= m
      BY <1>1, <1>8, <2>3, <2>4
    <3> QED
      BY <3>1, <1>5, <1>6, Zenon DEF UpTo, From
  <2>8. \A x \in UpTo(B, l), y \in From(keys, m) : x < y
    <3> SUFFICES ASSUME NEW x \in UpTo(B, l), NEW y \in From(keys, m) PROVE x < y
      OBVIOUS
    <3>1. x \in keys /\ x <= l /\ y \in keys /\ y >= m
      BY <1>5 DEF UpTo, From
    <3> QED
      BY <3>1, <1>1, <1>8, <2>3
  <2>9. Enumerates(Ascending(From(keys, m)), From(keys, m))
    <3>1. From(keys, m) \in SUBSET (0..n)
      BY Zenon DEF From
    <3> QED
      BY <3>1, AscendingEnumerates, Zenon
  <2>10. Enumerates(p \o Ascending(From(keys, m)), B)
    BY <1>7, <2>7, <2>8, <2>9, EnumerationConcat
  <2>11. Ascending(B) = p \o Ascending(From(keys, m))
    BY <2>10, AscendingIs, Zenon
  <2> QED
    BY <2>5, <2>6, <2>11 DEF B
<1> QED
  BY <1>9, <1>10

\* QueryFinalityProviders lists every provider once, whatever the size of a page.
LEMMA PagesListAll ==
  ASSUME NEW n \in Nat, NEW keys \in SUBSET (0..n), NEW c \in Nat, c >= 1
  PROVE  QueryFinalityProviders(keys, c) = Ascending(keys)
<1> DEFINE G == [k \in keys |-> Ascending(From(keys, k))]
           Step(f) == [k \in keys |-> PageFrom(f, keys, k, c)]
           R == CHOOSE f : f = Step(f)
<1>1. QueryFinalityProviders(keys, c) = IF keys = {} THEN <<>> ELSE R[Min(keys)]
  BY DEF QueryFinalityProviders, PageFrom
<1>2. \A k \in keys : k \in Nat /\ k <= n
  OBVIOUS
<1>3. \A k \in keys : G[k] = Ascending(From(keys, k))
  OBVIOUS
<1>4. G = [k \in keys |-> G[k]]
  OBVIOUS
<1> HIDE DEF G
<1>5. ASSUME NEW f, NEW k \in keys, \A j \in keys : j > k => f[j] = G[j]
      PROVE  PageFrom(f, keys, k, c) = G[k]
  <2>1. \A j \in keys : j > k => f[j] = Ascending(From(keys, j))
    BY <1>3, <1>5
  <2>2. PageFrom(f, keys, k, c) = Ascending(From(keys, k))
    BY <2>1, PageContinues, Zenon
  <2> QED
    BY <2>2, <1>3
<1>6. G = Step(G)
  <2>1. \A k \in keys : PageFrom(G, keys, k, c) = G[k]
    BY <1>5
  <2> QED
    BY <2>1, <1>4
<1>7. R = Step(R)
  <2> HIDE DEF Step
  <2> QED
    BY <1>6
<1>8. \A k \in keys : R[k] = PageFrom(R, keys, k, c)
  <2> HIDE DEF R
  <2> QED
    BY <1>7
<1> HIDE DEF R
<1>9. \A k \in keys : R[k] = G[k]
  <2> DEFINE T == {d \in 0..n : n - d \in keys /\ R[n - d] # G[n - d]}
  <2>1. \A k \in keys : n - k \in 0..n /\ n - (n - k) = k
    BY <1>2
  <2> SUFFICES ASSUME T # {} PROVE FALSE
    BY <2>1, Zenon
  <2>2. T \in SUBSET Nat
    OBVIOUS
  <2>3. PICK d \in T : \A j \in T : d <= j
    <3> HIDE DEF T
    <3> QED
      BY <2>2, LeastExists
  <2>4. d \in 0..n /\ n - d \in keys /\ R[n - d] # G[n - d]
    OBVIOUS
  <2>5. PICK k \in keys : k = n - d
    BY <2>4
  <2>6. ASSUME NEW j \in keys, j > k PROVE R[j] = G[j]
    <3>1. n - j \in 0..n /\ n - (n - j) = j /\ ~(d <= n - j)
      BY <1>2, <2>4, <2>5, <2>6
    <3>2. n - j \notin T
      <4> HIDE DEF T
      <4> QED
        BY <2>3, <3>1
    <3> QED
      BY <3>1, <3>2
  <2>7. PageFrom(R, keys, k, c) = G[k]
    BY <1>5, <2>6, Zenon
  <2> QED
    BY <2>4, <2>5, <2>7, <1>8
<1>10. CASE keys = {}
  BY <1>1, <1>10, AscendingOfNothing
<1>11. CASE keys # {}
  <2>1. keys \in SUBSET Nat
    BY <1>2
  <2>2. Min(keys) \in keys /\ \A j \in keys : Min(keys) <= j
    BY <1>11, <2>1, MinLeast
  <2>3. From(keys, Min(keys)) = keys
    <3>1. \A j \in keys : j >= Min(keys)
      BY <1>2, <2>2
    <3> QED
      BY <3>1, Zenon DEF From
  <2> QED
    BY <1>1, <1>3, <1>9, <1>11, <2>2, <2>3, Zenon
<1> QED
  BY <1>10, <1>11

\* The newest of the blocks a..b.
LEMMA NewestBlock ==
  ASSUME NEW a \in Nat, NEW b \in Nat
  PROVE  queryLatestBlocks(a..b, 0, 1, TRUE) = IF a <= b THEN <<b>> ELSE <<>>
<1> DEFINE n == b - a + 1
           t == [i \in 1..n |-> a + i - 1]
           r == Reversed(Ascending(a..b))
<1>1. {h \in a..b : h >= 0} = a..b
  <2>1. \A h \in a..b : h >= 0
    OBVIOUS
  <2> QED
    BY <2>1
<1>2. queryLatestBlocks(a..b, 0, 1, TRUE) = SubSeq(r, 1, Min({1, Len(r)}))
  BY <1>1, Zenon DEF queryLatestBlocks
<1>3. CASE a <= b
  <2>1. n \in Nat /\ n >= 1 /\ a..b = a..(a + n - 1) /\ b = a + n - 1
    BY <1>3
  <2> HIDE DEF n
  <2>2. Enumerates(t, a..(a + n - 1))
    BY <2>1, IntervalEnumerated
  <2>3. \A i \in 1..n : t[i] = a + i - 1
    OBVIOUS
  <2>4. Len(t) = n
    BY <2>1
  <2> HIDE DEF t
  <2>5. Ascending(a..b) = t
    BY <2>1, <2>2, AscendingIs
  <2>6. r = [i \in 1..n |-> t[n - i + 1]]
    BY <2>4, <2>5 DEF Reversed
  <2>7. r[1] = b /\ 1 \in 1..n
    BY <2>1, <2>3, <2>6
  <2>8. r \in Seq(Nat) /\ Len(r) = n
    <3>1. \A i \in 1..n : t[n - i + 1] \in Nat
      BY <2>1, <2>3
    <3> HIDE DEF r
    <3> QED
      BY <2>1, <2>6, <3>1
  <2> HIDE DEF r
  <2>9. Min({1, Len(r)}) = 1
    BY <2>1, <2>8, MinOfTwo
  <2>10. SubSeq(r, 1, 1) = <<b>>
    <3>1. SubSeq(r, 1, 1) = [i \in 1..1 |-> r[i]]
      BY <2>1, <2>8
    <3>2. <<b>> = [i \in 1..1 |-> b]
      OBVIOUS
    <3>3. \A i \in 1..1 : r[i] = b
      BY <2>7
    <3> QED
      BY <3>1, <3>2, <3>3, Zenon
  <2> QED
    BY <1>2, <1>3, <2>9, <2>10, Zenon
<1>4. CASE ~(a <= b)
  <2>1. a..b = {}
    BY <1>4
  <2>2. r = <<>>
    BY <2>1, AscendingOfNothing DEF Reversed
  <2> HIDE DEF r
  <2>3. Min({1, Len(r)}) = 0
    BY <2>2, MinOfTwo
  <2>4. SubSeq(<<>>, 1, 0) = <<>>
    OBVIOUS
  <2> QED
    BY <1>2, <1>4, <2>2, <2>3, <2>4, Zenon
<1> QED
  BY <1>3, <1>4, Zenon

LEMMA MaxOfTwo ==
  ASSUME NEW a \in Int, NEW b \in Int
  PROVE  Max({a, b}) = IF a >= b THEN a ELSE b
<1> DEFINE m == IF a >= b THEN a ELSE b
<1>1. m \in {a, b} /\ \A y \in {a, b} : m >= y
  OBVIOUS
<1>2. \A x \in {a, b} : (\A y \in {a, b} : x >= y) => x = m
  OBVIOUS
<1> HIDE DEF m
<1> QED
  BY <1>1, <1>2 DEF Max, m

\* The indexed blocks are an interval, also while there are none.
LEMMA IndexedInterval ==
  ASSUME TypeOK, NEW h \in Nat
  PROVE  \E a, b \in Nat :
           /\ IndexedUpTo(h) = a..b
           /\ a <= Max({1, activated})
           /\ activated = 0 => a > b
           /\ activated # 0 => a = activated /\ b = h
<1>1. activated \in Nat
  BY PollerAssumption DEF TypeOK
<1>2. Max({1, activated}) = IF 1 >= activated THEN 1 ELSE activated
  BY <1>1, MaxOfTwo
<1>3. CASE activated = 0
  <2>1. 1..0 = {} /\ 1 \in Nat /\ 0 \in Nat /\ 1 > 0
    OBVIOUS
  <2>2. IndexedUpTo(h) = 1..0 /\ 1 <= Max({1, activated})
    BY <2>1, <1>2, <1>3 DEF IndexedUpTo
  <2> QED
    BY <2>1, <2>2, <1>3
<1>4. CASE activated # 0
  <2>1. IndexedUpTo(h) = activated..h /\ activated <= Max({1, activated})
    BY <1>1, <1>2, <1>4 DEF IndexedUpTo
  <2> QED
    BY <1>1, <1>4, <2>1
<1> QED
  BY <1>3, <1>4, Zenon

LEMMA ExactFromTypes == TypeOK => QueriesExact
<1> SUFFICES ASSUME TypeOK PROVE QueriesExact
  OBVIOUS
<1>1. tip \in Nat /\ activated \in Nat /\ MaxHeight \in Nat
  BY PollerAssumption DEF TypeOK
<1>2. Max({1, activated}) \in Nat /\ Max({1, activated}) >= 1
  BY <1>1, MaxOfTwo
<1>3. PagesCoverRange
  <2> SUFFICES ASSUME NEW start \in Max({1, activated})..MaxHeight, NEW end \in start..MaxHeight,
                      NEW limit \in 1..2
               PROVE  FetchedBlocks(IndexedUpTo(tip), start, end, limit)
                        = Ascending((start..end) \intersect IndexedUpTo(tip))
    BY DEF PagesCoverRange
  <2>1. PICK a \in Nat, b \in Nat : IndexedUpTo(tip) = a..b /\ a <= Max({1, activated})
    BY <1>1, IndexedInterval, Zenon
  <2>2. start \in Nat /\ a <= start /\ end \in Nat /\ start <= end /\ limit \in Nat /\ limit >= 1
    BY <1>1, <1>2, <2>1
  <2>3. FetchedBlocks(a..b, start, end, limit) = Ascending((start..end) \intersect (a..b))
    <3>1. PICK e \in Nat : e = end
      BY <2>2
    <3>2. FetchedBlocks(a..b, start, e, limit) = Remaining(a, b, start, e)
      BY <2>2, <3>1, RoundsCoverRange
    <3> QED
      BY <3>1, <3>2 DEF Remaining
  <2> QED
    BY <2>1, <2>3
<1>4. ProvidersListedOnce
  <2> SUFFICES ASSUME NEW keys \in SUBSET (1..tip), NEW limit \in 1..2
               PROVE  QueryFinalityProviders(keys, limit) = Ascending(keys)
    BY DEF ProvidersListedOnce
  <2>1. keys \in SUBSET (0..tip) /\ limit \in Nat /\ limit >= 1
    BY <1>1
  <2>2. PICK n \in Nat : n = tip /\ keys \in SUBSET (0..n)
    BY <1>1, <2>1
  <2> QED
    BY <2>1, <2>2, PagesListAll
<1>5. BestBlockCoversFinalized
  <2> SUFFICES ASSUME NEW indexed \in Max({1, activated})..tip, NEW final \in 0..indexed,
                      NEW best, best = QueryBestBlock(IndexedUpTo(indexed), tip),
                      NEW answer, answer = QueryLatestFinalizedBlocks(IndexedUpTo(final), 1)
               PROVE  best \in indexed..tip /\ \A i \in DOMAIN answer : answer[i] <= best
    BY DEF BestBlockCoversFinalized
  <2>1. indexed \in Nat /\ final \in Nat /\ indexed <= tip /\ final <= indexed
        /\ activated <= indexed
    <3>1. activated <= Max({1, activated})
      BY <1>1, MaxOfTwo
    <3> QED
      BY <1>1, <1>2, <3>1
  <2>2. PICK a \in Nat, b \in Nat :
          /\ IndexedUpTo(indexed) = a..b
          /\ activated = 0 => a > b
          /\ activated # 0 => a = activated /\ b = indexed
    BY <2>1, IndexedInterval
  <2>3. PICK c \in Nat, d \in Nat :
          /\ IndexedUpTo(final) = c..d
          /\ activated = 0 => c > d
          /\ activated # 0 => c = activated /\ d = final
    BY <2>1, IndexedInterval
  <2>4. best = IF a <= b THEN b ELSE tip
    <3> DEFINE blocks == queryLatestBlocks(a..b, 0, 1, TRUE)
    <3>1. blocks = IF a <= b THEN <<b>> ELSE <<>>
      BY NewestBlock, Zenon
    <3>2. best = IF Len(blocks) = 1 THEN blocks[1] ELSE tip
      BY <2>2 DEF QueryBestBlock
    <3> HIDE DEF blocks
    <3> QED
      BY <3>1, <3>2
  <2>5. answer = IF c <= d THEN <<d>> ELSE <<>>
    <3>1. queryLatestBlocks(c..d, 0, 1, TRUE) = IF c <= d THEN <<d>> ELSE <<>>
      BY NewestBlock, Zenon
    <3>2. answer = queryLatestBlocks(c..d, 0, 1, TRUE)
      BY <2>3 DEF QueryLatestFinalizedBlocks
    <3> QED
      BY <3>1, <3>2, Zenon
  <2>6. \A i \in DOMAIN answer : c <= d /\ answer[i] = d
    BY <2>5
  <2>7. CASE activated = 0
    <3>1. best = tip /\ ~(c <= d)
      BY <2>2, <2>3, <2>4, <2>7
    <3> QED
      BY <3>1, <2>1, <2>6, <1>1
  <2>8. CASE activated # 0
    <3>1. best = indexed /\ d = final
      BY <2>1, <2>2, <2>3, <2>4, <2>8
    <3> QED
      BY <3>1, <2>1, <2>6, <1>1
  <2> QED
    BY <2>7, <2>8
<1> QED
  BY <1>3, <1>4, <1>5 DEF QueriesExact

(***************************************************************************)
(* On every chain the poller can meet, the queries are exact: the rounds   *)
(* of FastSync over QueryBlocks deliver each indexed block of a range once *)
(* and in order, QueryFinalityProviders lists every provider once, and the *)
(* best block is never behind a finalized one (babylon.go, fastsync.go).   *)
(***************************************************************************)
THEOREM QueriesAreExact == Spec => []QueriesExact
  BY PollerTypeCorrect, ExactFromTypes, PTL
=============================================================================
