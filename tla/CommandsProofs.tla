--------------------------- MODULE CommandsProofs ---------------------------
(***************************************************************************)
(* Proofs about the commands of fpd and the handlers of the daemon, for    *)
(* any number of commands, providers, fields and faults.                   *)
(***************************************************************************)
EXTENDS Commands, TLAPS

(***************************************************************************)
(* The types the proofs need.  The number of edits is any natural number.  *)
(***************************************************************************)
EditRecord == [key : Keys \union {NoKey}, details : Details, flags : SUBSET Fields, base : Nat]

CmdRecord ==
  [pc : {"idle", "sent", "edit", "store", "newKey", "vote", "extract", "done"},
   op : Ops \union {"none"}, key : Keys \union {NoKey}, flags : SUBSET Fields, block : Blocks,
   msg : EditRecord,
   answer : {"none", "usage", "ok", "error", "unavailable", "extracted"}, forked : BOOLEAN]

StoreRecord == [status : {"none", "CREATED", "REGISTERED"}, details : Details]

ChainRecord ==
  [addr : Addrs \union {"none"}, details : Details, standing : {"good", "jailed", "slashed"},
   votes : SUBSET Blocks, edits : Nat]

Types ==
  /\ cmd \in [Cmds -> CmdRecord]
  /\ signer \in Addrs
  /\ running \in Keys \union {NoKey}
  /\ db \in [Keys -> StoreRecord]
  /\ chain \in [Keys -> ChainRecord]

(***************************************************************************)
(* An edit that has been read but not executed keeps the fields it was not *)
(* asked to change, unless another has been executed since; one that has   *)
(* been executed is what the chain has, unless another followed.           *)
(***************************************************************************)
Fresh(m) ==
  /\ m.base <= chain[m.key].edits
  /\ m.base = chain[m.key].edits =>
       \A f \in Fields \ m.flags : m.details[f] = chain[m.key].details[f]

Landed(m) ==
  /\ m.base + 1 <= chain[m.key].edits
  /\ m.base + 1 = chain[m.key].edits => chain[m.key].details = m.details

KeyedOps == {"create", "register", "info", "edit", "addSig", "sign"}

\* Where a command is, what it has been answered, and whether it made a fork.
AnswerFacts(c) ==
  /\ cmd[c].pc # "done" => cmd[c].answer = "none"
  /\ cmd[c].forked => /\ cmd[c].pc \in {"extract", "done"} /\ cmd[c].key \in Keys
                      /\ chain[cmd[c].key].standing = "slashed"
                      /\ cmd[c].answer # "ok"
  /\ cmd[c].pc = "extract" => cmd[c].forked
  /\ cmd[c].answer = "extracted" => cmd[c].forked
  /\ cmd[c].op \in KeyedOps => cmd[c].key \in Keys
  /\ cmd[c].pc = "newKey" => cmd[c].op = "sign"
  /\ cmd[c].pc \in {"vote", "extract"} => cmd[c].op = "addSig"
  /\ cmd[c].pc = "idle" => cmd[c].op = "none"

\* An edit under way.
EditFacts(c) ==
  /\ cmd[c].pc \in {"edit", "store"} =>
       cmd[c].op = "edit" /\ cmd[c].msg.key = cmd[c].key /\ Registered(cmd[c].key)
  /\ cmd[c].pc = "edit" => Fresh(cmd[c].msg)
  /\ cmd[c].pc = "store" => /\ Landed(cmd[c].msg)
                            /\ cmd[c].key \in excused
                               \/ chain[cmd[c].key].details = cmd[c].msg.details

\* Two edits of one provider under way are an excuse.
Overlaps ==
  \A c, d \in Cmds :
    /\ c # d /\ cmd[c].key = cmd[d].key
    /\ cmd[c].pc \in {"edit", "store"} /\ cmd[d].pc \in {"edit", "store"}
    => cmd[c].key \in excused

LateInv ==
  \A m \in late : m \in EditRecord /\ m.key \in Keys /\ m.key \in excused /\ Registered(m.key) /\ Fresh(m)

StoreInv ==
  /\ \A k \in Keys : Registered(k) => db[k].status # "none"
  /\ StoreFollowsChain

CommandsInv ==
  /\ Types
  /\ \A c \in Cmds : AnswerFacts(c) /\ EditFacts(c)
  /\ Overlaps
  /\ LateInv
  /\ StoreInv

(***************************************************************************)
(* What the chain never takes back, and what follows for the commands that *)
(* a step does not move.                                                   *)
(***************************************************************************)
ChainKeeps ==
  \A k \in Keys :
    /\ chain[k].standing = "slashed" => chain'[k].standing = "slashed"
    /\ Registered(k) => Registered(k)'
    /\ chain[k].edits <= chain'[k].edits
    /\ Registered(k) /\ chain'[k].edits = chain[k].edits => chain'[k].details = chain[k].details

LEMMA FreshStays ==
  ASSUME Types, Types', ChainKeeps, NEW m \in EditRecord, m.key \in Keys, Registered(m.key), Fresh(m)
  PROVE  Fresh(m)'
<1>1. chain[m.key].edits \in Nat /\ chain'[m.key].edits \in Nat /\ m.base \in Nat
  BY DEF Types, ChainRecord, EditRecord
<1>2. chain[m.key].edits <= chain'[m.key].edits
  BY DEF ChainKeeps
<1>3. m.base <= chain'[m.key].edits
  BY <1>1, <1>2 DEF Fresh
<1>4. m.base = chain'[m.key].edits => chain'[m.key].edits = chain[m.key].edits
  BY <1>1, <1>2 DEF Fresh
<1>5. m.base = chain'[m.key].edits =>
        \A f \in Fields \ m.flags : m.details[f] = chain'[m.key].details[f]
  BY <1>4 DEF Fresh, ChainKeeps
<1> QED BY <1>3, <1>5 DEF Fresh

LEMMA LandedStays ==
  ASSUME Types, Types', ChainKeeps, NEW m \in EditRecord, m.key \in Keys, Registered(m.key), Landed(m)
  PROVE  Landed(m)'
<1>1. chain[m.key].edits \in Nat /\ chain'[m.key].edits \in Nat /\ m.base \in Nat
  BY DEF Types, ChainRecord, EditRecord
<1>2. chain[m.key].edits <= chain'[m.key].edits
  BY DEF ChainKeeps
<1>3. m.base + 1 <= chain'[m.key].edits
  BY <1>1, <1>2 DEF Landed
<1>4. m.base + 1 = chain'[m.key].edits => chain'[m.key].edits = chain[m.key].edits
  BY <1>1, <1>2 DEF Landed
<1>5. m.base + 1 = chain'[m.key].edits => chain'[m.key].details = m.details
  BY <1>4 DEF Landed, ChainKeeps
<1> QED BY <1>3, <1>5 DEF Landed

LEMMA OtherCommand ==
  ASSUME Types, Types', ChainKeeps, excused \subseteq excused',
         NEW d \in Cmds, cmd'[d] = cmd[d], AnswerFacts(d), EditFacts(d),
         cmd[d].pc = "store" =>
           cmd[d].key \in excused' \/ chain'[cmd[d].key].details = chain[cmd[d].key].details
  PROVE  AnswerFacts(d)' /\ EditFacts(d)'
<1>1. AnswerFacts(d)'
  BY DEF AnswerFacts, ChainKeeps
<1>2. cmd[d] \in CmdRecord /\ cmd[d].msg \in EditRecord
  BY DEF Types, CmdRecord
<1>3. cmd[d].pc \in {"edit", "store"} => cmd[d].key \in Keys /\ cmd[d].msg.key = cmd[d].key
                                         /\ Registered(cmd[d].key)
  BY DEF AnswerFacts, EditFacts, KeyedOps
<1>4. cmd[d].pc \in {"edit", "store"} => Registered(cmd[d].key)'
  BY <1>3 DEF ChainKeeps, Registered
<1>5. PICK m \in EditRecord : m = cmd[d].msg
  BY <1>2
<1>6. (cmd[d].pc = "edit" => Fresh(m)') /\ (cmd[d].pc = "store" => Landed(m)')
  BY <1>3, <1>5, FreshStays, LandedStays DEF EditFacts
<1>7. cmd[d].pc = "store" => cmd[d].key \in excused' \/ chain'[cmd[d].key].details = cmd[d].msg.details
  BY DEF EditFacts
<1> QED BY <1>1, <1>3, <1>4, <1>5, <1>6, <1>7 DEF EditFacts

LEMMA LateStays ==
  ASSUME Types, Types', ChainKeeps, LateInv, excused \subseteq excused', late' \subseteq late
  PROVE  LateInv'
<1> SUFFICES ASSUME NEW m \in late'
             PROVE  m \in EditRecord /\ m.key \in Keys /\ m.key \in excused' /\ Registered(m.key)'
                    /\ Fresh(m)'
  BY DEF LateInv
<1>1. m \in EditRecord /\ m.key \in Keys /\ m.key \in excused /\ Registered(m.key) /\ Fresh(m)
  BY DEF LateInv
<1> QED BY <1>1, FreshStays DEF ChainKeeps

\* A step of command c outside an edit.
LEMMA OutsideStep ==
  ASSUME CommandsInv, NEW c \in Cmds, NEW r \in CmdRecord, Types', ChainKeeps,
         cmd' = [cmd EXCEPT ![c] = r],
         cmd[c].pc \notin {"edit", "store"}, r.pc \notin {"edit", "store"},
         \A k \in Keys : chain'[k].edits = chain[k].edits, UNCHANGED <<late, excused>>,
         AnswerFacts(c)', StoreInv'
  PROVE  CommandsInv'
<1>0. cmd'[c] = r /\ \A d \in Cmds \ {c} : cmd'[d] = cmd[d]
  BY DEF CommandsInv, Types
<1>1. EditFacts(c)'
  BY <1>0 DEF EditFacts
<1>2. ASSUME NEW d \in Cmds, d # c PROVE AnswerFacts(d)' /\ EditFacts(d)'
  <2>1. cmd[d].pc = "store" => cmd[d].key \in Keys /\ Registered(cmd[d].key)
    BY DEF CommandsInv, AnswerFacts, EditFacts, KeyedOps
  <2>2. cmd[d].pc = "store" => chain'[cmd[d].key].details = chain[cmd[d].key].details
    BY <2>1 DEF ChainKeeps
  <2> QED BY <1>0, <1>2, <2>2, OtherCommand DEF CommandsInv
<1>3. Overlaps'
  BY <1>0 DEF CommandsInv, Overlaps
<1>4. LateInv'
  BY LateStays DEF CommandsInv
<1> QED BY <1>1, <1>2, <1>3, <1>4 DEF CommandsInv

LEMMA SameUnderWay ==
  ASSUME Types, NEW c \in Cmds, NEW r, cmd' = [cmd EXCEPT ![c] = r],
         cmd[c].pc \notin {"edit", "store"}, r.pc \notin {"edit", "store"}, NEW k
  PROVE  UnderWay(k)' = UnderWay(k)
<1>1. cmd'[c] = r /\ \A d \in Cmds \ {c} : cmd'[d] = cmd[d]
  BY DEF Types
<1> QED BY <1>1 DEF UnderWay

\* The same, when neither the store nor what the chain has of the details changes.
LEMMA PlainStep ==
  ASSUME CommandsInv, NEW c \in Cmds, NEW r \in CmdRecord,
         cmd' = [cmd EXCEPT ![c] = r],
         cmd[c].pc \notin {"edit", "store"}, r.pc \notin {"edit", "store"},
         signer' \in Addrs, running' \in Keys \union {NoKey},
         chain' \in [Keys -> ChainRecord],
         \A k \in Keys : /\ chain'[k].addr = chain[k].addr /\ chain'[k].details = chain[k].details
                         /\ chain'[k].edits = chain[k].edits
                         /\ chain[k].standing = "slashed" => chain'[k].standing = "slashed",
         UNCHANGED <<db, late, excused>>, AnswerFacts(c)'
  PROVE  CommandsInv'
<1>1. Types'
  BY DEF CommandsInv, Types
<1>2. ChainKeeps
  BY DEF ChainKeeps, Registered, CommandsInv, Types, ChainRecord
<1>3. \A k \in Keys : UnderWay(k)' = UnderWay(k)
  BY SameUnderWay DEF CommandsInv
<1>4. StoreInv'
  BY <1>3 DEF CommandsInv, StoreInv, StoreFollowsChain, Registered
<1> QED BY <1>1, <1>2, <1>4, OutsideStep

LEMMA ReplyRecord ==
  ASSUME Types, NEW c \in Cmds, NEW a \in {"usage", "ok", "error", "unavailable", "extracted"},
         Reply(c, a)
  PROVE  \E r \in CmdRecord :
           /\ cmd' = [cmd EXCEPT ![c] = r]
           /\ r.pc = "done" /\ r.answer = a
           /\ r.op = cmd[c].op /\ r.key = cmd[c].key /\ r.forked = cmd[c].forked
<1> DEFINE r == [cmd[c] EXCEPT !.pc = "done", !.answer = a]
<1>1. cmd[c] \in CmdRecord
  BY DEF Types
<1>2. r \in CmdRecord /\ r.pc = "done" /\ r.answer = a
      /\ r.op = cmd[c].op /\ r.key = cmd[c].key /\ r.forked = cmd[c].forked
  BY <1>1 DEF CmdRecord
<1>3. cmd' = [cmd EXCEPT ![c] = r]
  BY DEF Reply
<1> QED BY <1>2, <1>3

LEMMA GotoRecord ==
  ASSUME Types, NEW c \in Cmds, NEW pc \in {"newKey", "vote", "store"}, Goto(c, pc)
  PROVE  \E r \in CmdRecord :
           /\ cmd' = [cmd EXCEPT ![c] = r]
           /\ r.pc = pc /\ r.answer = cmd[c].answer /\ r.msg = cmd[c].msg
           /\ r.op = cmd[c].op /\ r.key = cmd[c].key /\ r.forked = cmd[c].forked
<1> DEFINE r == [cmd[c] EXCEPT !.pc = pc]
<1>1. cmd[c] \in CmdRecord
  BY DEF Types
<1>2. r \in CmdRecord /\ r.pc = pc /\ r.answer = cmd[c].answer /\ r.msg = cmd[c].msg
      /\ r.op = cmd[c].op /\ r.key = cmd[c].key /\ r.forked = cmd[c].forked
  BY <1>1 DEF CmdRecord
<1>3. cmd' = [cmd EXCEPT ![c] = r]
  BY DEF Goto
<1> QED BY <1>2, <1>3

\* The facts about the answer of a call that has made no fork.
LEMMA PlainAnswer ==
  ASSUME Types, NEW c \in Cmds, AnswerFacts(c), cmd[c].pc \notin {"extract", "done"},
         NEW a \in {"usage", "ok", "error", "unavailable"}, Reply(c, a)
  PROVE  AnswerFacts(c)'
<1>1. PICK r \in CmdRecord :
        /\ cmd' = [cmd EXCEPT ![c] = r]
        /\ r.pc = "done" /\ r.answer = a
        /\ r.op = cmd[c].op /\ r.key = cmd[c].key /\ r.forked = cmd[c].forked
  BY ReplyRecord
<1>2. cmd'[c] = r
  BY <1>1 DEF Types
<1> QED BY <1>1, <1>2 DEF AnswerFacts

\* An answer without an effect.
LEMMA AnswerStep ==
  ASSUME CommandsInv, NEW c \in Cmds, cmd[c].pc \notin {"extract", "done", "edit", "store"},
         NEW a \in {"usage", "ok", "error", "unavailable"}, Reply(c, a),
         UNCHANGED <<signer, running, db, chain, late, excused>>
  PROVE  CommandsInv'
<1>1. PICK r \in CmdRecord : cmd' = [cmd EXCEPT ![c] = r] /\ r.pc = "done"
  BY ReplyRecord DEF CommandsInv
<1>2. AnswerFacts(c)'
  BY PlainAnswer DEF CommandsInv
<1> QED BY <1>1, <1>2, PlainStep DEF CommandsInv, Types

LEMMA InvokeStep ==
  ASSUME CommandsInv, NEW c \in Cmds, NEW op \in Ops, NEW k \in Keys \union {NoKey},
         op \in KeyedOps => k \in Keys, NEW flags \in SUBSET Fields, NEW b \in Blocks,
         Invoke(c, op, k, flags, b)
  PROVE  CommandsInv'
<1> DEFINE r == [Idle EXCEPT !.pc = "sent", !.op = op, !.key = k, !.flags = flags, !.block = b]
<1>1. Idle \in CmdRecord
  BY DEF Idle, NoEdit, Edit, CmdRecord, EditRecord, NoDetails, Details, Values, Blocks
<1>2. r \in CmdRecord /\ r.pc = "sent" /\ r.op = op /\ r.key = k /\ r.answer = "none" /\ ~r.forked
  BY <1>1 DEF CmdRecord, Idle
<1>3. cmd' = [cmd EXCEPT ![c] = r] /\ cmd[c].pc = "idle"
  BY DEF Invoke
<1> HIDE DEF r
<1>4. cmd'[c] = r
  BY <1>3 DEF CommandsInv, Types
<1>5. AnswerFacts(c)'
  BY <1>2, <1>4 DEF AnswerFacts
<1>6. UNCHANGED <<signer, running, db, chain, late, excused>>
  BY DEF Invoke, daemonVars, chainVars
<1> QED BY <1>2, <1>3, <1>5, <1>6, PlainStep DEF CommandsInv, Types

LEMMA RunsStep ==
  ASSUME CommandsInv, NEW c \in Cmds, Runs(c)
  PROVE  CommandsInv'
<1>1. CASE Usage(c)
  BY <1>1, AnswerStep DEF Usage, daemonVars, chainVars
<1>2. CASE \E op \in Ops, k \in Keys \union {NoKey}, flags \in SUBSET Fields, b \in Blocks :
             (op \in KeyedOps => k \in Keys) /\ Invoke(c, op, k, flags, b)
  BY <1>2, InvokeStep
<1>3. CASE \E op \in KeyedOps, k \in Keys, flags \in SUBSET Fields, b \in Blocks :
             Invoke(c, op, k, flags, b)
  BY <1>2, <1>3 DEF KeyedOps, Ops
<1>4. CASE runCommandGetDaemonInfo(c)
  BY <1>2, <1>4 DEF runCommandGetDaemonInfo, Ops, KeyedOps, Blocks
<1>5. CASE runCommandLsFP(c)
  BY <1>2, <1>5 DEF runCommandLsFP, Ops, KeyedOps, Blocks
<1>6. CASE runCommandUnjailFP(c)
  BY <1>2, <1>6 DEF runCommandUnjailFP, Ops, KeyedOps, Blocks
<1>7. CASE runCommandCreateFP(c)
  BY <1>3, <1>7 DEF runCommandCreateFP, KeyedOps, Blocks
<1>8. CASE runCommandInfoFP(c)
  BY <1>3, <1>8 DEF runCommandInfoFP, KeyedOps, Blocks
<1>9. CASE runCommandRegisterFP(c)
  BY <1>3, <1>9 DEF runCommandRegisterFP, KeyedOps, Blocks
<1>10. CASE runCommandAddFinalitySig(c)
  BY <1>3, <1>10 DEF runCommandAddFinalitySig, KeyedOps
<1>11. CASE runCommandEditFinalityDescription(c)
  BY <1>3, <1>11 DEF runCommandEditFinalityDescription, KeyedOps, Blocks
<1>12. CASE SignMessageFromChainKey(c)
  BY <1>3, <1>12 DEF SignMessageFromChainKey, KeyedOps, Blocks
<1> QED BY <1>1, <1>4, <1>5, <1>6, <1>7, <1>8, <1>9, <1>10, <1>11, <1>12 DEF Runs

\* Calls that are answered without an effect on the records.
LEMMA QueriesStep ==
  ASSUME CommandsInv, NEW c \in Cmds,
         \/ Unavailable(c) \/ GetInfo(c) \/ QueryFinalityProviderList(c) \/ QueryFinalityProvider(c)
  PROVE  CommandsInv'
<1>1. cmd[c].pc = "sent" /\ UNCHANGED <<signer, running, db, chain, late, excused>>
  BY DEF Unavailable, GetInfo, QueryFinalityProviderList, QueryFinalityProvider, Handling,
         daemonVars, chainVars
<1>2. \E a \in {"ok", "error", "unavailable"} : Reply(c, a)
  BY DEF Unavailable, GetInfo, QueryFinalityProviderList, QueryFinalityProvider
<1> QED BY <1>1, <1>2, AnswerStep

LEMMA RefuseStep ==
  ASSUME CommandsInv, NEW c \in Cmds, cmd[c].pc \in {"sent", "vote"}, Refuse(c)
  PROVE  CommandsInv'
BY AnswerStep DEF Refuse, daemonVars, chainVars

\* The signature with the chain key.
LEMMA ChainKeyStep ==
  ASSUME CommandsInv, NEW c \in Cmds, loadChainKeyring(c) \/ CreateChainKey(c)
  PROVE  CommandsInv'
<1>1. UNCHANGED <<signer, running, db, chain, late, excused>> /\ cmd[c].pc \in {"sent", "newKey"}
  BY DEF loadChainKeyring, CreateChainKey, Handling, daemonVars, chainVars
<1>2. CASE \E a \in {"ok", "error"} : Reply(c, a)
  BY <1>1, <1>2, AnswerStep
<1>3. CASE loadChainKeyring(c) /\ Goto(c, "newKey")
  <2>1. PICK r \in CmdRecord :
          /\ cmd' = [cmd EXCEPT ![c] = r]
          /\ r.pc = "newKey" /\ r.answer = cmd[c].answer /\ r.msg = cmd[c].msg
          /\ r.op = cmd[c].op /\ r.key = cmd[c].key /\ r.forked = cmd[c].forked
    BY <1>3, GotoRecord DEF CommandsInv
  <2>2. cmd'[c] = r /\ AnswerFacts(c) /\ cmd[c].op = "sign" /\ cmd[c].pc = "sent"
    BY <1>3, <2>1 DEF CommandsInv, Types, loadChainKeyring, Handling
  <2>3. AnswerFacts(c)'
    BY <2>1, <2>2 DEF AnswerFacts
  <2> QED BY <1>1, <2>1, <2>2, <2>3, PlainStep DEF CommandsInv, Types
<1> QED BY <1>2, <1>3 DEF loadChainKeyring, CreateChainKey

(***************************************************************************)
(* The votes.                                                              *)
(***************************************************************************)
LEMMA VoteOnChain ==
  ASSUME Types, NEW k \in Keys, NEW b \in Blocks, Vote(k, b)
  PROVE  /\ chain' \in [Keys -> ChainRecord]
         /\ \A j \in Keys : /\ chain'[j].addr = chain[j].addr /\ chain'[j].details = chain[j].details
                            /\ chain'[j].edits = chain[j].edits
                            /\ chain[j].standing = "slashed" => chain'[j].standing = "slashed"
         /\ chain[k].votes \union {b} = Blocks => chain'[k].standing = "slashed"
<1> DEFINE votes == chain[k].votes \union {b}
           standing == IF votes = Blocks THEN "slashed" ELSE chain[k].standing
           r == [chain[k] EXCEPT !.votes = votes, !.standing = standing]
<1>1. chain[k] \in ChainRecord
  BY DEF Types
<1>2. votes \in SUBSET Blocks /\ standing \in {"good", "jailed", "slashed"}
  BY <1>1 DEF ChainRecord
<1>3. chain' = [chain EXCEPT ![k] = r]
  BY DEF Vote
<1> HIDE DEF votes, standing
<1>4. r \in ChainRecord /\ r.addr = chain[k].addr /\ r.details = chain[k].details
      /\ r.edits = chain[k].edits /\ r.standing = standing
  BY <1>1, <1>2 DEF ChainRecord
<1> HIDE DEF r
<1>5. chain'[k] = r /\ \A j \in Keys \ {k} : chain'[j] = chain[j]
  BY <1>3 DEF Types
<1>6. chain' \in [Keys -> ChainRecord]
  BY <1>3, <1>4 DEF Types
<1>7. (chain[k].standing = "slashed" => standing = "slashed")
      /\ (votes = Blocks => standing = "slashed")
  BY DEF standing
<1> QED BY <1>4, <1>5, <1>6, <1>7 DEF votes

LEMMA AddSignatureStep ==
  ASSUME CommandsInv, NEW c \in Cmds, AddFinalitySignature(c)
  PROVE  CommandsInv'
<1>1. cmd[c].pc = "sent" /\ cmd[c].op = "addSig"
  BY DEF AddFinalitySignature, Handling
<1>2. CASE Refuse(c)
  BY <1>1, <1>2, RefuseStep
<1>3. CASE /\ Goto(c, "vote")
           /\ UNCHANGED <<daemonVars, db, proved, chainVars, excused, faults>>
  <2>1. PICK r \in CmdRecord :
          /\ cmd' = [cmd EXCEPT ![c] = r]
          /\ r.pc = "vote" /\ r.answer = cmd[c].answer /\ r.msg = cmd[c].msg
          /\ r.op = cmd[c].op /\ r.key = cmd[c].key /\ r.forked = cmd[c].forked
    BY <1>3, GotoRecord DEF CommandsInv
  <2>2. cmd'[c] = r /\ AnswerFacts(c)
    BY <2>1 DEF CommandsInv, Types
  <2>3. AnswerFacts(c)'
    BY <1>1, <2>1, <2>2 DEF AnswerFacts
  <2>4. UNCHANGED <<signer, running, db, chain, late, excused>>
    BY <1>3 DEF daemonVars, chainVars
  <2> QED BY <1>1, <2>1, <2>3, <2>4, PlainStep DEF CommandsInv, Types
<1> QED BY <1>2, <1>3 DEF AddFinalitySignature

LEMMA SubmitSignatureStep ==
  ASSUME CommandsInv, NEW c \in Cmds, TestSubmitFinalitySignature(c)
  PROVE  CommandsInv'
<1> DEFINE k == cmd[c].key
           forks == chain[k].votes \union {cmd[c].block} = Blocks
<1>1. cmd[c] \in CmdRecord /\ AnswerFacts(c) /\ cmd[c].pc = "vote" /\ cmd[c].op = "addSig"
      /\ k \in Keys /\ cmd[c].block \in Blocks
  BY DEF CommandsInv, Types, CmdRecord, AnswerFacts, KeyedOps, TestSubmitFinalitySignature
<1>2. CASE Refuse(c)
  BY <1>1, <1>2, RefuseStep
<1>3. ASSUME NEW pc \in {"extract", "done"}, NEW a \in {"none", "ok", "error"},
             cmd' = [cmd EXCEPT ![c].pc = pc, ![c].answer = a, ![c].forked = forks],
             pc = "extract" => forks /\ a = "none", forks => a # "ok",
             Vote(k, cmd[c].block), UNCHANGED <<signer, running, db, late, excused>>
      PROVE  CommandsInv'
  <2> DEFINE r == [cmd[c] EXCEPT !.pc = pc, !.answer = a, !.forked = forks]
  <2>0. forks \in BOOLEAN
    OBVIOUS
  <2> HIDE DEF forks
  <2>1. r \in CmdRecord /\ r.pc = pc /\ r.answer = a /\ r.forked = forks
        /\ r.op = cmd[c].op /\ r.key = cmd[c].key
    BY <1>1, <2>0 DEF CmdRecord
  <2>2. cmd' = [cmd EXCEPT ![c] = r]
    BY <1>3
  <2> HIDE DEF r
  <2>3. cmd'[c] = r
    BY <2>2 DEF CommandsInv, Types
  <2>4. /\ chain' \in [Keys -> ChainRecord]
        /\ \A j \in Keys : /\ chain'[j].addr = chain[j].addr /\ chain'[j].details = chain[j].details
                           /\ chain'[j].edits = chain[j].edits
                           /\ chain[j].standing = "slashed" => chain'[j].standing = "slashed"
        /\ forks => chain'[k].standing = "slashed"
    BY <1>1, <1>3, VoteOnChain DEF CommandsInv, forks
  <2>5. AnswerFacts(c)'
    BY <1>1, <1>3, <2>1, <2>3, <2>4 DEF AnswerFacts
  <2> QED BY <1>1, <1>3, <2>1, <2>2, <2>4, <2>5, PlainStep DEF CommandsInv, Types
<1>4. CASE /\ Vote(k, cmd[c].block)
           /\ cmd' = [cmd EXCEPT ![c].pc = IF forks THEN "extract" ELSE "done",
                                 ![c].answer = IF forks THEN "none" ELSE "ok",
                                 ![c].forked = forks]
           /\ UNCHANGED <<daemonVars, db, proved, late, lastEdit, excused, faults>>
  <2>1. UNCHANGED <<signer, running, db, late, excused>>
    BY <1>4 DEF daemonVars
  <2>2. CASE forks
    <3>1. cmd' = [cmd EXCEPT ![c].pc = "extract", ![c].answer = "none", ![c].forked = forks]
      BY <1>4, <2>2
    <3> QED BY <1>3, <1>4, <2>1, <2>2, <3>1
  <2>3. CASE ~forks
    <3>1. cmd' = [cmd EXCEPT ![c].pc = "done", ![c].answer = "ok", ![c].forked = forks]
      BY <1>4, <2>3
    <3> QED BY <1>3, <1>4, <2>1, <2>3, <3>1
  <2> QED BY <2>2, <2>3
<1>5. CASE /\ cmd' = [cmd EXCEPT ![c].pc = "done", ![c].answer = "error", ![c].forked = forks]
           /\ Vote(k, cmd[c].block)
           /\ UNCHANGED <<daemonVars, db, proved, late, lastEdit, excused>>
  BY <1>3, <1>5 DEF daemonVars
<1> QED BY <1>2, <1>4, <1>5 DEF TestSubmitFinalitySignature

LEMMA ExtractStep ==
  ASSUME CommandsInv, NEW c \in Cmds, getFpPrivKey(c)
  PROVE  CommandsInv'
<1>1. cmd[c].pc = "extract" /\ UNCHANGED <<signer, running, db, chain, late, excused>> /\ AnswerFacts(c)
  BY DEF getFpPrivKey, daemonVars, chainVars, CommandsInv
<1>2. PICK a \in {"extracted", "error"} : Reply(c, a)
  BY DEF getFpPrivKey
<1>3. PICK r \in CmdRecord :
        /\ cmd' = [cmd EXCEPT ![c] = r]
        /\ r.pc = "done" /\ r.answer = a
        /\ r.op = cmd[c].op /\ r.key = cmd[c].key /\ r.forked = cmd[c].forked
  BY <1>2, ReplyRecord DEF CommandsInv
<1>4. cmd'[c] = r
  BY <1>3 DEF CommandsInv, Types
<1>5. AnswerFacts(c)'
  BY <1>1, <1>2, <1>3, <1>4 DEF AnswerFacts
<1> QED BY <1>1, <1>3, <1>5, PlainStep DEF CommandsInv, Types

(***************************************************************************)
(* Creating, registering and unjailing.                                    *)
(***************************************************************************)
LEMMA CreateStep ==
  ASSUME CommandsInv, NEW c \in Cmds, CreateFinalityProvider(c)
  PROVE  CommandsInv'
<1> DEFINE k == cmd[c].key
           d == [status |-> "CREATED", details |-> [f \in Fields |-> c]]
<1>1. cmd[c].pc = "sent" /\ k \in Keys /\ AnswerFacts(c)
  BY DEF CommandsInv, AnswerFacts, KeyedOps, CreateFinalityProvider, Handling
<1>2. CASE Refuse(c)
  BY <1>1, <1>2, RefuseStep
<1>3. CASE ~Refuse(c)
  <2>1. db[k].status = "none" /\ db' = [db EXCEPT ![k] = d] /\ Reply(c, "ok")
        /\ UNCHANGED <<signer, running, chain, late, excused>>
    BY <1>3 DEF CreateFinalityProvider, chainVars
  <2>2. PICK r \in CmdRecord : cmd' = [cmd EXCEPT ![c] = r] /\ r.pc = "done"
    BY <2>1, ReplyRecord DEF CommandsInv
  <2>3. d \in StoreRecord /\ d.status # "none"
    BY DEF StoreRecord, Details, Values
  <2> HIDE DEF d
  <2>4. db'[k] = d /\ \A j \in Keys \ {k} : db'[j] = db[j]
    BY <1>1, <2>1 DEF CommandsInv, Types
  <2>5. Types'
    BY <2>1, <2>2, <2>3 DEF CommandsInv, Types
  <2>6. AnswerFacts(c)'
    BY <1>1, <2>1, PlainAnswer DEF CommandsInv
  <2>7. ChainKeeps
    BY <2>1 DEF ChainKeeps, Registered, CommandsInv, Types, ChainRecord
  <2>8. ~Registered(k)
    BY <1>1, <2>1 DEF CommandsInv, StoreInv
  <2>9. \A j \in Keys : UnderWay(j)' = UnderWay(j)
    BY <1>1, <2>2, SameUnderWay DEF CommandsInv
  <2>10. StoreInv'
    BY <2>1, <2>4, <2>8, <2>9 DEF CommandsInv, StoreInv, StoreFollowsChain, Registered
  <2> QED BY <1>1, <2>1, <2>2, <2>5, <2>6, <2>7, <2>10, OutsideStep
<1> QED BY <1>2, <1>3

\* The chain takes the provider from the store.
LEMMA LandRegistration ==
  ASSUME CommandsInv, NEW c \in Cmds, NEW k \in Keys, ~Registered(k),
         cmd[c].pc = "sent", NEW a \in {"ok", "error"}, Reply(c, a),
         NEW d \in StoreRecord, d.status # "none", d.details = db[k].details,
         NEW h \in ChainRecord, h.details = db[k].details, h.edits = chain[k].edits,
         h.standing = chain[k].standing,
         db' = [db EXCEPT ![k] = d], chain' = [chain EXCEPT ![k] = h],
         running' \in Keys \union {NoKey}, UNCHANGED <<signer, late, excused>>
  PROVE  CommandsInv'
<1>1. db'[k] = d /\ chain'[k] = h /\ \A j \in Keys \ {k} : db'[j] = db[j] /\ chain'[j] = chain[j]
  BY DEF CommandsInv, Types
<1>2. PICK r \in CmdRecord : cmd' = [cmd EXCEPT ![c] = r] /\ r.pc = "done"
  BY ReplyRecord DEF CommandsInv
<1>3. Types'
  BY <1>2 DEF CommandsInv, Types
<1>4. AnswerFacts(c)'
  BY PlainAnswer DEF CommandsInv
<1>5. ChainKeeps
  <2> SUFFICES ASSUME NEW j \in Keys
               PROVE  /\ chain[j].standing = "slashed" => chain'[j].standing = "slashed"
                      /\ Registered(j) => Registered(j)'
                      /\ chain[j].edits <= chain'[j].edits
                      /\ Registered(j) /\ chain'[j].edits = chain[j].edits
                           => chain'[j].details = chain[j].details
    BY DEF ChainKeeps
  <2>1. chain[j].edits \in Nat
    BY DEF CommandsInv, Types, ChainRecord
  <2> QED BY <1>1, <2>1 DEF Registered
<1>6. \A j \in Keys : UnderWay(j)' = UnderWay(j)
  BY <1>2, SameUnderWay DEF CommandsInv
<1>7. StoreInv'
  BY <1>1, <1>6 DEF CommandsInv, StoreInv, StoreFollowsChain, Registered
<1>8. \A j \in Keys : chain'[j].edits = chain[j].edits
  BY <1>1
<1> QED BY <1>2, <1>3, <1>4, <1>5, <1>7, <1>8, OutsideStep

LEMMA RegisterStep ==
  ASSUME CommandsInv, NEW c \in Cmds, RegisterFinalityProvider(c)
  PROVE  CommandsInv'
<1> DEFINE k == cmd[c].key
           d == [db[k] EXCEPT !.status = "REGISTERED"]
           h == [chain[k] EXCEPT !.addr = signer, !.details = db[k].details]
<1>1. cmd[c].pc = "sent" /\ k \in Keys
  BY DEF CommandsInv, AnswerFacts, KeyedOps, RegisterFinalityProvider, Handling
<1>2. CASE Refuse(c)
  BY <1>1, <1>2, RefuseStep
<1>3. CASE ~Refuse(c)
  <2>1. db[k].status = "CREATED" /\ ~Registered(k)
    BY <1>3 DEF RegisterFinalityProvider
  <2>2. db[k] \in StoreRecord /\ chain[k] \in ChainRecord /\ signer \in Addrs
    BY <1>1 DEF CommandsInv, Types
  <2>3. d \in StoreRecord /\ d.status # "none" /\ d.details = db[k].details
    BY <2>2 DEF StoreRecord
  <2>4. h \in ChainRecord /\ h.details = db[k].details /\ h.edits = chain[k].edits
        /\ h.standing = chain[k].standing
    BY <2>2 DEF StoreRecord, ChainRecord
  <2>5. \/ /\ chain' = [chain EXCEPT ![k] = h] /\ db' = [db EXCEPT ![k] = d]
           /\ running' = IF running = NoKey THEN k ELSE running
           /\ Reply(c, IF running = NoKey THEN "ok" ELSE "error")
           /\ UNCHANGED <<signer, late, excused>>
        \/ /\ chain' = [chain EXCEPT ![k] = h] \/ UNCHANGED chain
           /\ Reply(c, "error")
           /\ UNCHANGED <<signer, running, db, late, excused>>
    BY <1>3, <2>1 DEF RegisterFinalityProvider, daemonVars
  <2> HIDE DEF d, h
  <2>6. CASE /\ chain' = [chain EXCEPT ![k] = h] /\ db' = [db EXCEPT ![k] = d]
             /\ running' = IF running = NoKey THEN k ELSE running
             /\ Reply(c, IF running = NoKey THEN "ok" ELSE "error")
             /\ UNCHANGED <<signer, late, excused>>
    <3>1. running' \in Keys \union {NoKey}
      BY <1>1, <2>6 DEF CommandsInv, Types
    <3>2. PICK a \in {"ok", "error"} : Reply(c, a)
      BY <2>6
    <3> QED BY <1>1, <2>1, <2>3, <2>4, <2>6, <3>1, <3>2, LandRegistration
  <2>7. CASE /\ chain' = [chain EXCEPT ![k] = h] /\ Reply(c, "error")
             /\ UNCHANGED <<signer, running, db, late, excused>>
    <3>1. db' = [db EXCEPT ![k] = db[k]] /\ running' \in Keys \union {NoKey}
      BY <2>7 DEF CommandsInv, Types
    <3>2. db[k].status # "none"
      BY <2>1
    <3> QED BY <1>1, <2>1, <2>2, <2>4, <2>7, <3>1, <3>2, LandRegistration
  <2>8. CASE Reply(c, "error") /\ UNCHANGED <<signer, running, db, chain, late, excused>>
    BY <1>1, <2>8, AnswerStep
  <2> QED BY <2>5, <2>6, <2>7, <2>8
<1> QED BY <1>2, <1>3

\* The standing of a provider that is not slashed changes.
LEMMA StandingOnChain ==
  ASSUME Types, NEW k \in Keys, NEW s \in {"good", "jailed"}, chain[k].standing # "slashed",
         chain' = [chain EXCEPT ![k].standing = s]
  PROVE  /\ chain' \in [Keys -> ChainRecord]
         /\ \A j \in Keys : /\ chain'[j].addr = chain[j].addr /\ chain'[j].details = chain[j].details
                            /\ chain'[j].edits = chain[j].edits
                            /\ chain[j].standing = "slashed" => chain'[j].standing = "slashed"
<1> DEFINE r == [chain[k] EXCEPT !.standing = s]
<1>1. chain[k] \in ChainRecord
  BY DEF Types
<1>2. r \in ChainRecord /\ r.addr = chain[k].addr /\ r.details = chain[k].details
      /\ r.edits = chain[k].edits
  BY <1>1 DEF ChainRecord
<1>3. chain' = [chain EXCEPT ![k] = r]
  OBVIOUS
<1> HIDE DEF r
<1>4. chain'[k] = r /\ \A j \in Keys \ {k} : chain'[j] = chain[j]
  BY <1>3 DEF Types
<1> QED BY <1>2, <1>3, <1>4 DEF Types

LEMMA UnjailStep ==
  ASSUME CommandsInv, NEW c \in Cmds, UnjailFinalityProvider(c)
  PROVE  CommandsInv'
<1> DEFINE k == cmd[c].key
<1>1. cmd[c].pc = "sent" /\ k \in Keys \union {NoKey} /\ AnswerFacts(c)
  BY DEF CommandsInv, Types, CmdRecord, UnjailFinalityProvider, Handling
<1>2. CASE Refuse(c)
  BY <1>1, <1>2, RefuseStep
<1>3. CASE ~Refuse(c)
  <2>1. k \in Keys /\ chain[k].standing = "jailed" /\ chain' = [chain EXCEPT ![k].standing = "good"]
        /\ UNCHANGED <<signer, db, late, excused>>
    BY <1>1, <1>3 DEF UnjailFinalityProvider
  <2>2. running' \in Keys \union {NoKey}
    BY <1>3, <2>1 DEF UnjailFinalityProvider, CommandsInv, Types
  <2>3. PICK a \in {"ok", "error"} : Reply(c, a)
    BY <1>3 DEF UnjailFinalityProvider
  <2>4. PICK r \in CmdRecord : cmd' = [cmd EXCEPT ![c] = r] /\ r.pc = "done"
    BY <2>3, ReplyRecord DEF CommandsInv
  <2>5. AnswerFacts(c)'
    BY <1>1, <2>3, PlainAnswer DEF CommandsInv
  <2>6. /\ chain' \in [Keys -> ChainRecord]
        /\ \A j \in Keys : /\ chain'[j].addr = chain[j].addr /\ chain'[j].details = chain[j].details
                           /\ chain'[j].edits = chain[j].edits
                           /\ chain[j].standing = "slashed" => chain'[j].standing = "slashed"
    BY <2>1, StandingOnChain DEF CommandsInv
  <2> QED BY <1>1, <2>1, <2>2, <2>4, <2>5, <2>6, PlainStep DEF CommandsInv, Types
<1> QED BY <1>2, <1>3

(***************************************************************************)
(* The edits.                                                              *)
(***************************************************************************)
\* A step of the edit that command c makes of its provider k.
LEMMA EditingStep ==
  ASSUME CommandsInv, NEW c \in Cmds, NEW r \in CmdRecord, NEW k \in Keys,
         cmd' = [cmd EXCEPT ![c] = r], cmd[c].key = k, r.key = k,
         Types', ChainKeeps, excused \subseteq excused',
         \A j \in Keys \ {k} : chain'[j] = chain[j] /\ db'[j] = db[j],
         cmd[c].pc \in {"edit", "store"} \/ chain'[k].details = chain[k].details,
         r.pc \in {"edit", "store"} =>
           cmd[c].pc \in {"edit", "store"} \/ UnderWay(k) = {} \/ k \in excused',
         AnswerFacts(c)', EditFacts(c)', LateInv',
         db'[k].status # "none",
         db'[k].details # chain'[k].details => k \in excused' \/ r.pc \in {"edit", "store"}
  PROVE  CommandsInv'
<1>1. cmd'[c] = r /\ \A d \in Cmds \ {c} : cmd'[d] = cmd[d]
  BY DEF CommandsInv, Types
<1>2. ASSUME NEW d \in Cmds, d # c PROVE AnswerFacts(d)' /\ EditFacts(d)'
  <2>1. cmd[d].pc = "store" => cmd[d].key \in Keys
    BY DEF CommandsInv, AnswerFacts, EditFacts, KeyedOps
  <2>2. cmd[d].pc = "store" =>
          cmd[d].key \in excused' \/ chain'[cmd[d].key].details = chain[cmd[d].key].details
    <3>1. CASE cmd[d].key # k
      BY <2>1, <3>1
    <3>2. CASE cmd[d].key = k /\ cmd[c].pc \in {"edit", "store"}
      BY <1>2, <3>2 DEF CommandsInv, Overlaps
    <3> QED BY <3>1, <3>2
  <2> QED BY <1>1, <1>2, <2>2, OtherCommand DEF CommandsInv
<1>3. ASSUME NEW d \in Cmds, d # c, cmd[d].key = k, cmd[d].pc \in {"edit", "store"},
             r.pc \in {"edit", "store"}
      PROVE  k \in excused'
  <2>1. CASE cmd[c].pc \in {"edit", "store"}
    BY <1>3, <2>1 DEF CommandsInv, Overlaps
  <2>2. UnderWay(k) # {}
    BY <1>3 DEF UnderWay
  <2> QED BY <1>3, <2>1, <2>2
<1>4. Overlaps'
  <2> SUFFICES ASSUME NEW d \in Cmds, NEW e \in Cmds, d # e, cmd'[d].key = cmd'[e].key,
                      cmd'[d].pc \in {"edit", "store"}, cmd'[e].pc \in {"edit", "store"}
               PROVE  cmd'[d].key \in excused'
    BY DEF Overlaps
  <2>1. CASE d = c
    BY <1>1, <1>3, <2>1
  <2>2. CASE e = c
    BY <1>1, <1>3, <2>2
  <2>3. CASE d # c /\ e # c
    BY <1>1, <2>3 DEF CommandsInv, Overlaps
  <2> QED BY <2>1, <2>2, <2>3
<1>5. r.pc \in {"edit", "store"} => UnderWay(k)' # {}
  <2>1. r.pc \in {"edit", "store"} => c \in UnderWay(k)'
    BY <1>1 DEF UnderWay
  <2> QED BY <2>1
<1>6. \A j \in Keys \ {k} : UnderWay(j)' = UnderWay(j)
  BY <1>1 DEF UnderWay
<1>7. StoreInv'
  BY <1>5, <1>6 DEF CommandsInv, StoreInv, StoreFollowsChain, Registered
<1> QED BY <1>2, <1>4, <1>7 DEF CommandsInv

\* What the chain has after it has executed an edit.
LEMMA LandOnChain ==
  ASSUME Types, NEW m \in EditRecord, m.key \in Keys, Land(m)
  PROVE  /\ chain' \in [Keys -> ChainRecord]
         /\ \A j \in Keys \ {m.key} : chain'[j] = chain[j]
         /\ chain'[m.key].details = m.details /\ chain'[m.key].edits = chain[m.key].edits + 1
         /\ chain'[m.key].addr = chain[m.key].addr /\ chain'[m.key].standing = chain[m.key].standing
         /\ ChainKeeps
<1> DEFINE k == m.key
           h == [chain[k] EXCEPT !.details = m.details, !.edits = chain[k].edits + 1]
<1>1. chain[k] \in ChainRecord /\ m.details \in Details
  BY DEF Types, EditRecord
<1>2. h \in ChainRecord /\ h.details = m.details /\ h.edits = chain[k].edits + 1
      /\ h.addr = chain[k].addr /\ h.standing = chain[k].standing
  <2> DEFINE n == chain[k].edits + 1
             d == m.details
  <2>1. n \in Nat /\ d \in Details
    BY <1>1 DEF ChainRecord
  <2>2. h = [chain[k] EXCEPT !.details = d, !.edits = n]
    OBVIOUS
  <2> HIDE DEF n, d, h
  <2>3. h \in ChainRecord /\ h.details = d /\ h.edits = n
        /\ h.addr = chain[k].addr /\ h.standing = chain[k].standing
    BY <1>1, <2>1, <2>2 DEF ChainRecord
  <2> QED BY <2>3 DEF n, d
<1>3. chain' = [chain EXCEPT ![k] = h]
  BY DEF Land
<1> HIDE DEF h
<1>4. chain'[k] = h /\ \A j \in Keys \ {k} : chain'[j] = chain[j]
  BY <1>3 DEF Types
<1>5. chain' \in [Keys -> ChainRecord]
  BY <1>2, <1>3 DEF Types
<1>6. \A j \in Keys : chain[j].edits \in Nat
  BY DEF Types, ChainRecord
<1>7. ChainKeeps
  <2> SUFFICES ASSUME NEW j \in Keys
               PROVE  /\ chain[j].standing = "slashed" => chain'[j].standing = "slashed"
                      /\ Registered(j) => Registered(j)'
                      /\ chain[j].edits <= chain'[j].edits
                      /\ Registered(j) /\ chain'[j].edits = chain[j].edits
                           => chain'[j].details = chain[j].details
    BY DEF ChainKeeps
  <2>1. CASE j = k
    BY <1>2, <1>4, <1>6, <2>1 DEF Registered
  <2>2. CASE j # k
    BY <1>4, <1>6, <2>2 DEF Registered
  <2> QED BY <2>1, <2>2
<1> QED BY <1>2, <1>4, <1>5, <1>7

\* An edit that was read and is executed is what the chain has.
LEMMA FreshLands ==
  ASSUME Types, NEW m \in EditRecord, m.key \in Keys, Land(m), Fresh(m)
  PROVE  Landed(m)'
<1>1. chain'[m.key].details = m.details /\ chain'[m.key].edits = chain[m.key].edits + 1
  BY LandOnChain
<1>2. chain[m.key].edits \in Nat /\ m.base \in Nat
  BY DEF Types, ChainRecord, EditRecord
<1> QED BY <1>1, <1>2 DEF Landed, Fresh

LEMMA UnchangedChainKeeps ==
  ASSUME Types, UNCHANGED chain
  PROVE  ChainKeeps
BY DEF ChainKeeps, Registered, Types, ChainRecord

LEMMA EditStartStep ==
  ASSUME CommandsInv, NEW c \in Cmds, EditFinalityProvider(c)
  PROVE  CommandsInv'
<1> DEFINE k == cmd[c].key
           flags == cmd[c].flags
           m == Edit(k, merged(k, c, flags), flags, chain[k].edits)
           r == [cmd[c] EXCEPT !.pc = "edit", !.msg = m]
<1>1. cmd[c].pc = "sent" /\ cmd[c].op = "edit" /\ k \in Keys /\ AnswerFacts(c) /\ cmd[c] \in CmdRecord
  BY DEF CommandsInv, Types, AnswerFacts, KeyedOps, EditFinalityProvider, Handling
<1>2. CASE Refuse(c)
  BY <1>1, <1>2, RefuseStep
<1>3. CASE ~Refuse(c)
  <2>1. /\ Registered(k)
        /\ cmd' = [cmd EXCEPT ![c] = r]
        /\ excused' = IF UnderWay(k) = {} THEN excused ELSE excused \union {k}
        /\ UNCHANGED <<signer, running, db, chain, late>>
    BY <1>3 DEF EditFinalityProvider, daemonVars, chainVars
  <2>2. chain[k] \in ChainRecord /\ flags \in SUBSET Fields
    BY <1>1 DEF CommandsInv, Types, CmdRecord
  <2>3. m \in EditRecord /\ m.key = k /\ m.base = chain[k].edits /\ m.flags = flags
        /\ m.details = merged(k, c, flags)
    <3>1. merged(k, c, flags) \in Details
      BY <2>2 DEF merged, Details, Values, ChainRecord
    <3> QED BY <1>1, <2>2, <3>1 DEF Edit, EditRecord, ChainRecord
  <2>4. \A f \in Fields \ flags : merged(k, c, flags)[f] = chain[k].details[f]
    BY DEF merged
  <2> HIDE DEF m
  <2>5. Fresh(m)
    <3>1. chain[k].edits \in Nat
      BY <2>2 DEF ChainRecord
    <3> QED BY <2>3, <2>4, <3>1 DEF Fresh
  <2>6. r \in CmdRecord /\ r.pc = "edit" /\ r.msg = m /\ r.op = "edit" /\ r.key = k
        /\ r.answer = cmd[c].answer /\ r.forked = cmd[c].forked
    BY <1>1, <2>3 DEF CmdRecord
  <2> HIDE DEF r
  <2>7. cmd'[c] = r
    BY <2>1 DEF CommandsInv, Types
  <2>8. Types'
    BY <2>1, <2>6 DEF CommandsInv, Types
  <2>9. ChainKeeps
    BY <2>1, UnchangedChainKeeps DEF CommandsInv
  <2>10. AnswerFacts(c)'
    BY <1>1, <2>6, <2>7 DEF AnswerFacts
  <2>11. EditFacts(c)'
    <3>1. PICK n \in EditRecord : n = m
      BY <2>3
    <3>2. Fresh(n)'
      BY <2>1, <2>5, <3>1 DEF Fresh
    <3>3. cmd'[c].pc = "edit" /\ cmd'[c].op = "edit" /\ cmd'[c].key = k /\ cmd'[c].msg = n /\ n.key = k
      BY <2>3, <2>6, <2>7, <3>1
    <3>4. Registered(cmd[c].key)'
      BY <2>1, <3>3 DEF Registered
    <3> QED BY <3>2, <3>3, <3>4 DEF EditFacts
  <2>12. excused \subseteq excused' /\ (UnderWay(k) = {} \/ k \in excused')
    BY <2>1
  <2>13. LateInv'
    BY <2>1, <2>8, <2>9, <2>12, LateStays DEF CommandsInv
  <2>14. db'[k].status # "none"
    BY <1>1, <2>1 DEF CommandsInv, StoreInv
  <2> QED BY <1>1, <2>1, <2>6, <2>8, <2>9, <2>10, <2>11, <2>12, <2>13, <2>14, EditingStep
<1> QED BY <1>2, <1>3

LEMMA SendEditStep ==
  ASSUME CommandsInv, NEW c \in Cmds, SendEdit(c)
  PROVE  CommandsInv'
<1>1. PICK k \in Keys, m \in EditRecord :
        /\ k = cmd[c].key /\ m = cmd[c].msg /\ m.key = k
        /\ cmd[c].pc = "edit" /\ cmd[c].op = "edit" /\ Registered(k) /\ Fresh(m)
        /\ AnswerFacts(c) /\ cmd[c] \in CmdRecord /\ db[k].status # "none"
  BY DEF CommandsInv, Types, AnswerFacts, EditFacts, StoreInv, KeyedOps, CmdRecord, SendEdit
<1>2. UNCHANGED <<signer, running, db>>
  BY DEF SendEdit, daemonVars
<1>3. Land(m) \/ UNCHANGED chain
  BY <1>1 DEF SendEdit, chainVars
<1>4. /\ chain' \in [Keys -> ChainRecord] /\ ChainKeeps
      /\ \A j \in Keys \ {k} : chain'[j] = chain[j]
  BY <1>1, <1>3, LandOnChain, UnchangedChainKeeps DEF CommandsInv, Types
<1>5. CASE Land(m) /\ Goto(c, "store") /\ UNCHANGED <<late, excused>>
  <2>1. PICK r \in CmdRecord :
          /\ cmd' = [cmd EXCEPT ![c] = r]
          /\ r.pc = "store" /\ r.answer = cmd[c].answer /\ r.msg = cmd[c].msg
          /\ r.op = cmd[c].op /\ r.key = cmd[c].key /\ r.forked = cmd[c].forked
    BY <1>5, GotoRecord DEF CommandsInv
  <2>2. cmd'[c] = r
    BY <2>1 DEF CommandsInv, Types
  <2>3. Types'
    BY <1>2, <1>4, <2>1 DEF CommandsInv, Types
  <2>4. AnswerFacts(c)'
    BY <1>1, <2>1, <2>2 DEF AnswerFacts
  <2>5. Landed(m)' /\ chain'[k].details = m.details
    BY <1>1, <1>5, FreshLands, LandOnChain DEF CommandsInv
  <2>6. Registered(k)'
    BY <1>1, <1>4 DEF ChainKeeps
  <2>7. EditFacts(c)'
    BY <1>1, <2>1, <2>2, <2>5, <2>6 DEF EditFacts
  <2>8. LateInv'
    BY <1>4, <1>5, <2>3, LateStays DEF CommandsInv
  <2> QED BY <1>1, <1>2, <1>4, <1>5, <2>1, <2>3, <2>4, <2>7, <2>8, EditingStep
<1>6. CASE /\ Reply(c, "error") /\ excused' = excused \union {m.key}
           /\ \/ late' = late
              \/ late' = late \union {m} /\ UNCHANGED chain
  <2>1. PICK r \in CmdRecord :
          /\ cmd' = [cmd EXCEPT ![c] = r]
          /\ r.pc = "done" /\ r.answer = "error"
          /\ r.op = cmd[c].op /\ r.key = cmd[c].key /\ r.forked = cmd[c].forked
    BY <1>6, ReplyRecord DEF CommandsInv
  <2>2. cmd'[c] = r
    BY <2>1 DEF CommandsInv, Types
  <2>3. Types'
    BY <1>2, <1>4, <2>1 DEF CommandsInv, Types
  <2>4. AnswerFacts(c)'
    BY <1>1, <1>6, PlainAnswer DEF CommandsInv
  <2>5. EditFacts(c)'
    BY <2>1, <2>2 DEF EditFacts
  <2>6. k \in excused' /\ excused \subseteq excused'
    BY <1>1, <1>6
  <2>7. LateInv'
    <3>1. CASE late' = late
      BY <1>4, <2>3, <2>6, <3>1, LateStays DEF CommandsInv
    <3>2. CASE late' = late \union {m} /\ UNCHANGED chain
      <4>1. Fresh(m)' /\ Registered(k)'
        BY <1>1, <3>2 DEF Fresh, Registered
      <4>2. \A n \in late : Fresh(n)' /\ Registered(n.key)' /\ n \in EditRecord /\ n.key \in Keys
                            /\ n.key \in excused'
        BY <2>6, <3>2 DEF CommandsInv, LateInv, Fresh, Registered
      <4> QED BY <1>1, <2>6, <3>2, <4>1, <4>2 DEF LateInv
    <3> QED BY <1>6, <3>1, <3>2
  <2> QED BY <1>1, <1>2, <1>4, <2>1, <2>3, <2>4, <2>5, <2>6, <2>7, EditingStep
<1> QED BY <1>1, <1>5, <1>6 DEF SendEdit, chainVars

LEMMA StoreEditStep ==
  ASSUME CommandsInv, NEW c \in Cmds, SetFpDescription(c)
  PROVE  CommandsInv'
<1>1. PICK k \in Keys, m \in EditRecord :
        /\ k = cmd[c].key /\ m = cmd[c].msg /\ m.key = k
        /\ cmd[c].pc = "store" /\ (k \in excused \/ chain[k].details = m.details)
        /\ AnswerFacts(c) /\ db[k].status # "none" /\ db[k] \in StoreRecord
  BY DEF CommandsInv, Types, AnswerFacts, EditFacts, StoreInv, KeyedOps, CmdRecord, SetFpDescription
<1> DEFINE d == [db[k] EXCEPT !.details = m.details]
<1>2. db' = [db EXCEPT ![k] = d] /\ Reply(c, "ok") /\ UNCHANGED <<signer, running, chain, late, excused>>
  BY <1>1 DEF SetFpDescription, daemonVars, chainVars
<1>3. d \in StoreRecord /\ d.status # "none" /\ d.details = m.details
  BY <1>1 DEF StoreRecord, EditRecord
<1> HIDE DEF d
<1>4. PICK r \in CmdRecord :
        /\ cmd' = [cmd EXCEPT ![c] = r]
        /\ r.pc = "done" /\ r.answer = "ok"
        /\ r.op = cmd[c].op /\ r.key = cmd[c].key /\ r.forked = cmd[c].forked
  BY <1>2, ReplyRecord DEF CommandsInv
<1>5. cmd'[c] = r /\ db'[k] = d /\ \A j \in Keys \ {k} : db'[j] = db[j]
  BY <1>1, <1>2, <1>4 DEF CommandsInv, Types
<1>6. Types'
  BY <1>2, <1>3, <1>4 DEF CommandsInv, Types
<1>7. ChainKeeps
  BY <1>2, UnchangedChainKeeps DEF CommandsInv
<1>8. AnswerFacts(c)'
  BY <1>1, <1>2, PlainAnswer DEF CommandsInv
<1>9. EditFacts(c)'
  BY <1>4, <1>5 DEF EditFacts
<1>10. LateInv'
  BY <1>2, <1>6, <1>7, LateStays DEF CommandsInv
<1>11. db'[k].details # chain'[k].details => k \in excused'
  BY <1>1, <1>2, <1>3, <1>5
<1>12. /\ excused \subseteq excused' /\ db'[k].status # "none"
       /\ \A j \in Keys \ {k} : chain'[j] = chain[j] /\ db'[j] = db[j]
  BY <1>2, <1>3, <1>5
<1>13. cmd[c].key = k /\ cmd[c].pc \in {"edit", "store"} /\ r.key = k /\ r.pc \notin {"edit", "store"}
       /\ cmd' = [cmd EXCEPT ![c] = r]
  BY <1>1, <1>4
<1> QED BY <1>6, <1>7, <1>8, <1>9, <1>10, <1>11, <1>12, <1>13, EditingStep

(***************************************************************************)
(* The steps of the daemon and of the chain alone.                         *)
(***************************************************************************)
LEMMA LandsLateStep ==
  ASSUME CommandsInv, NEW m \in late, LandsLate(m)
  PROVE  CommandsInv'
<1>1. m \in EditRecord /\ m.key \in Keys /\ m.key \in excused /\ Registered(m.key)
  BY DEF CommandsInv, LateInv
<1>2. Land(m) /\ late' \subseteq late /\ UNCHANGED <<cmd, signer, running, db, excused>>
  BY DEF LandsLate, daemonVars
<1>3. /\ chain' \in [Keys -> ChainRecord] /\ ChainKeeps
      /\ \A j \in Keys \ {m.key} : chain'[j] = chain[j]
      /\ chain'[m.key].addr = chain[m.key].addr
  BY <1>1, <1>2, LandOnChain DEF CommandsInv
<1>4. Types'
  BY <1>2, <1>3 DEF CommandsInv, Types
<1>5. ASSUME NEW d \in Cmds PROVE AnswerFacts(d)' /\ EditFacts(d)'
  <2>1. cmd[d].pc = "store" => cmd[d].key \in Keys
    BY DEF CommandsInv, AnswerFacts, EditFacts, KeyedOps
  <2>2. cmd[d].pc = "store" =>
          cmd[d].key \in excused' \/ chain'[cmd[d].key].details = chain[cmd[d].key].details
    BY <1>1, <1>2, <1>3, <2>1
  <2>3. cmd'[d] = cmd[d] /\ excused \subseteq excused'
    BY <1>2
  <2> QED BY <1>3, <1>4, <2>2, <2>3, OtherCommand DEF CommandsInv
<1>6. Overlaps' /\ LateInv'
  BY <1>2, <1>3, <1>4, LateStays DEF CommandsInv, Overlaps
<1>7. \A k \in Keys : UnderWay(k)' = UnderWay(k) /\ Registered(k)' = Registered(k)
  BY <1>2, <1>3 DEF UnderWay, Registered
<1>8. StoreInv'
  BY <1>1, <1>2, <1>3, <1>7 DEF CommandsInv, StoreInv, StoreFollowsChain
<1> QED BY <1>4, <1>5, <1>6, <1>8 DEF CommandsInv

\* A step that moves no command and leaves the details and the store alone.
LEMMA QuietStep ==
  ASSUME CommandsInv, UNCHANGED <<cmd, db, late, excused>>,
         signer' \in Addrs, running' \in Keys \union {NoKey}, chain' \in [Keys -> ChainRecord],
         \A k \in Keys : /\ chain'[k].addr = chain[k].addr /\ chain'[k].details = chain[k].details
                         /\ chain'[k].edits = chain[k].edits
                         /\ chain[k].standing = "slashed" => chain'[k].standing = "slashed"
  PROVE  CommandsInv'
<1>1. Types'
  BY DEF CommandsInv, Types
<1>2. ChainKeeps
  BY DEF ChainKeeps, Registered, CommandsInv, Types, ChainRecord
<1>3. ASSUME NEW d \in Cmds PROVE AnswerFacts(d)' /\ EditFacts(d)'
  <2>1. cmd[d].pc = "store" => cmd[d].key \in Keys
    BY DEF CommandsInv, AnswerFacts, EditFacts, KeyedOps
  <2> QED BY <1>1, <1>2, <2>1, OtherCommand DEF CommandsInv
<1>4. Overlaps' /\ LateInv'
  BY <1>1, <1>2, LateStays DEF CommandsInv, Overlaps
<1>5. \A k \in Keys : UnderWay(k)' = UnderWay(k) /\ Registered(k)' = Registered(k)
  BY DEF UnderWay, Registered
<1>6. StoreInv'
  BY <1>5 DEF CommandsInv, StoreInv, StoreFollowsChain
<1> QED BY <1>1, <1>3, <1>4, <1>6 DEF CommandsInv

LEMMA InstanceVotesStep ==
  ASSUME CommandsInv, InstanceVotes
  PROVE  CommandsInv'
<1>1. running \in Keys /\ Vote(running, "canonical") /\ "canonical" \in Blocks
      /\ UNCHANGED <<cmd, signer, running, db, late, excused>>
  BY DEF InstanceVotes, CommandsInv, Types, Blocks, daemonVars
<1>2. signer' \in Addrs /\ running' \in Keys \union {NoKey}
  BY <1>1 DEF CommandsInv, Types
<1>3. /\ chain' \in [Keys -> ChainRecord]
      /\ \A j \in Keys : /\ chain'[j].addr = chain[j].addr /\ chain'[j].details = chain[j].details
                         /\ chain'[j].edits = chain[j].edits
                         /\ chain[j].standing = "slashed" => chain'[j].standing = "slashed"
  BY <1>1, VoteOnChain DEF CommandsInv
<1> QED BY <1>1, <1>2, <1>3, QuietStep

LEMMA RestartStep ==
  ASSUME CommandsInv, Restart
  PROVE  CommandsInv'
BY QuietStep DEF Restart, CommandsInv, Types, chainVars

LEMMA JailStep ==
  ASSUME CommandsInv, Jail
  PROVE  CommandsInv'
<1>1. PICK k \in Keys : chain[k].standing = "good" /\ chain' = [chain EXCEPT ![k].standing = "jailed"]
  BY DEF Jail
<1>2. UNCHANGED <<cmd, signer, running, db, late, excused>>
  BY DEF Jail, daemonVars
<1>3. /\ chain' \in [Keys -> ChainRecord]
      /\ \A j \in Keys : /\ chain'[j].addr = chain[j].addr /\ chain'[j].details = chain[j].details
                         /\ chain'[j].edits = chain[j].edits
                         /\ chain[j].standing = "slashed" => chain'[j].standing = "slashed"
  BY <1>1, StandingOnChain DEF CommandsInv
<1> QED BY <1>2, <1>3, QuietStep DEF CommandsInv, Types

LEMMA CrashStep ==
  ASSUME CommandsInv, Crash
  PROVE  CommandsInv'
<1>1. /\ running' = NoKey /\ UNCHANGED <<signer, db, chain, late>>
      /\ excused' = excused \union {k \in Keys : UnderWay(k) # {}}
  BY DEF Crash, chainVars
<1>2. ASSUME NEW c \in Cmds
      PROVE  /\ cmd'[c] \in CmdRecord /\ cmd'[c].pc \in {"idle", "done"}
             /\ AnswerFacts(c)'
  <2>1. cmd[c] \in CmdRecord /\ AnswerFacts(c)
    BY DEF CommandsInv, Types
  <2>2. CASE cmd[c].pc \in {"idle", "done"}
    <3>1. cmd'[c] = cmd[c]
      BY <2>2 DEF Crash
    <3> QED BY <1>1, <2>1, <2>2, <3>1 DEF AnswerFacts
  <2>3. CASE cmd[c].pc \notin {"idle", "done"}
    <3> DEFINE r == [cmd[c] EXCEPT !.pc = "done", !.answer = "unavailable"]
    <3>1. cmd'[c] = r
      BY <2>3 DEF Crash
    <3>2. r \in CmdRecord /\ r.pc = "done" /\ r.answer = "unavailable"
          /\ r.op = cmd[c].op /\ r.key = cmd[c].key /\ r.forked = cmd[c].forked
      BY <2>1 DEF CmdRecord
    <3> HIDE DEF r
    <3> QED BY <1>1, <2>1, <3>1, <3>2 DEF AnswerFacts
  <2> QED BY <2>2, <2>3
<1>3. cmd' \in [Cmds -> CmdRecord]
  <2>1. cmd' = [c \in Cmds |-> cmd'[c]]
    BY DEF Crash
  <2> QED BY <1>2, <2>1
<1>4. Types'
  BY <1>1, <1>3 DEF CommandsInv, Types
<1>5. \A c \in Cmds : EditFacts(c)'
  BY <1>2 DEF EditFacts
<1>6. Overlaps'
  BY <1>2 DEF Overlaps
<1>7. LateInv'
  BY <1>1, <1>4, UnchangedChainKeeps, LateStays DEF CommandsInv
<1>8. StoreInv'
  BY <1>1 DEF CommandsInv, StoreInv, StoreFollowsChain, Registered
<1> QED BY <1>2, <1>4, <1>5, <1>6, <1>7, <1>8 DEF CommandsInv

(***************************************************************************)
(* The invariant.                                                          *)
(***************************************************************************)
LEMMA CommandsInvInit ==
  ASSUME Init
  PROVE  CommandsInv
<1>1. Idle \in CmdRecord /\ Idle.pc = "idle" /\ Idle.op = "none" /\ Idle.answer = "none" /\ ~Idle.forked
  BY DEF Idle, NoEdit, Edit, CmdRecord, EditRecord, NoDetails, Details, Values, Blocks
<1>2. \A c \in Cmds : cmd[c] = Idle
  BY DEF Init
<1>3. NoDetails \in Details
  BY DEF NoDetails, Details, Values
<1>4. db \in [Keys -> StoreRecord] /\ \A k \in Keys : db[k].details = NoDetails
  <2>1. \A s \in {"none", "REGISTERED"} :
          [status |-> s, details |-> NoDetails] \in StoreRecord
    BY <1>3 DEF StoreRecord
  <2>2. \A k \in Keys : db[k] \in {[status |-> s, details |-> NoDetails] : s \in {"none", "REGISTERED"}}
    BY DEF Init
  <2>3. \A k \in Keys : db[k] \in StoreRecord /\ db[k].details = NoDetails
    BY <2>1, <2>2
  <2>4. db = [k \in Keys |-> db[k]]
    BY DEF Init
  <2> QED BY <2>3, <2>4
<1>5. /\ chain \in [Keys -> ChainRecord]
      /\ \A k \in Keys : chain[k].details = NoDetails
                         /\ (chain[k].addr # "none" => db[k].status # "none")
  <2> DEFINE h(k) == [addr |-> IF db[k].status = "none" THEN "none" ELSE signer,
                      details |-> NoDetails, standing |-> "good", votes |-> {}, edits |-> 0]
  <2>1. chain = [k \in Keys |-> h(k)] /\ signer \in Addrs
    BY DEF Init
  <2>2. \A k \in Keys : h(k) \in ChainRecord /\ h(k).details = NoDetails
                        /\ (h(k).addr # "none" => db[k].status # "none")
    BY <1>3, <2>1 DEF ChainRecord
  <2> HIDE DEF h
  <2> QED BY <2>1, <2>2
<1>6. cmd \in [Cmds -> CmdRecord] /\ signer \in Addrs /\ running = NoKey /\ late = {}
  BY <1>1 DEF Init
<1>7. Types
  BY <1>4, <1>5, <1>6 DEF Types
<1>8. \A c \in Cmds : AnswerFacts(c) /\ EditFacts(c)
  BY <1>1, <1>2 DEF AnswerFacts, EditFacts, KeyedOps
<1>9. Overlaps /\ LateInv
  BY <1>1, <1>2, <1>6 DEF Overlaps, LateInv
<1>10. StoreInv
  BY <1>4, <1>5 DEF StoreInv, StoreFollowsChain, Registered
<1> QED BY <1>7, <1>8, <1>9, <1>10 DEF CommandsInv

LEMMA CommandsInvNext ==
  ASSUME CommandsInv, [Next]_vars
  PROVE  CommandsInv'
<1>1. CASE UNCHANGED vars
  BY <1>1, QuietStep DEF vars, daemonVars, chainVars, CommandsInv, Types
<1>2. ASSUME NEW c \in Cmds, Runs(c) PROVE CommandsInv'
  BY <1>2, RunsStep
<1>3. ASSUME NEW c \in Cmds, Serves(c) PROVE CommandsInv'
  BY <1>3, QueriesStep, CreateStep, RegisterStep, UnjailStep, EditStartStep, SendEditStep,
     StoreEditStep, AddSignatureStep, SubmitSignatureStep, ExtractStep, ChainKeyStep DEF Serves
<1> QED BY <1>1, <1>2, <1>3, LandsLateStep, InstanceVotesStep, CrashStep, RestartStep, JailStep DEF Next

\* The invariant holds of every behaviour of the commands.
LEMMA CommandsInvHolds == Spec => []CommandsInv
<1>1. Init => CommandsInv
  BY CommandsInvInit
<1>2. CommandsInv /\ [Next]_vars => CommandsInv'
  BY CommandsInvNext
<1> QED BY <1>1, <1>2, PTL DEF Spec

\* The store and the chain agree about every provider whose edits neither
\* overlapped nor were cut short, however many commands run and crash: the
\* order of EditFinalityProvider (chain first, store last) never leaves a
\* finished edit half done by itself.
THEOREM StoreAndChainAgree == Spec => []StoreFollowsChain
<1>1. CommandsInv => StoreFollowsChain
  BY DEF CommandsInv, StoreInv
<1> QED BY <1>1, CommandsInvHolds, PTL

\* AddFinalitySignature never answers a fork like an ordinary vote, and
\* reports a key as extracted only for the fork it made itself.
THEOREM ForksAreReported == Spec => []ForkIsReported
<1>1. CommandsInv => ForkIsReported
  BY DEF CommandsInv, AnswerFacts, ForkIsReported
<1> QED BY <1>1, CommandsInvHolds, PTL

(***************************************************************************)
(* What a step does to the edits.                                          *)
(***************************************************************************)
\* The chain changes the details of a registered provider by an edit only.
LEMMA EditsLand ==
  ASSUME CommandsInv, [Next]_vars
  PROVE  \/ \E m \in EditRecord : m.key \in Keys /\ Fresh(m) /\ Land(m)
         \/ lastEdit' = lastEdit /\ \A k \in Keys : chain'[k].edits = chain[k].edits
<1> DEFINE Same == lastEdit' = lastEdit /\ \A k \in Keys : chain'[k].edits = chain[k].edits
           Lands == \E m \in EditRecord : m.key \in Keys /\ Fresh(m) /\ Land(m)
<1>1. CASE UNCHANGED chainVars
  BY <1>1 DEF chainVars
<1>2. ASSUME NEW c \in Cmds, SendEdit(c) PROVE Lands \/ Same
  <2>1. cmd[c].msg \in EditRecord /\ cmd[c].msg.key \in Keys /\ Fresh(cmd[c].msg)
    BY <1>2 DEF CommandsInv, Types, CmdRecord, AnswerFacts, EditFacts, KeyedOps, SendEdit
  <2> QED BY <1>2, <2>1 DEF SendEdit, chainVars
<1>3. ASSUME NEW m \in late, LandsLate(m) PROVE Lands
  BY <1>3 DEF LandsLate, CommandsInv, LateInv
<1>4. ASSUME NEW k \in Keys, NEW b \in Blocks, Vote(k, b), UNCHANGED lastEdit PROVE Same
  BY <1>4, VoteOnChain DEF CommandsInv
<1>5. ASSUME NEW k \in Keys, NEW s \in {"good", "jailed"}, chain[k].standing # "slashed",
             chain' = [chain EXCEPT ![k].standing = s], UNCHANGED lastEdit
      PROVE  Same
  BY <1>5, StandingOnChain DEF CommandsInv
<1>6. ASSUME NEW c \in Cmds, RegisterFinalityProvider(c) PROVE Same
  <2>1. CASE UNCHANGED chain
    BY <1>6, <2>1 DEF RegisterFinalityProvider, Refuse, chainVars
  <2>2. CASE chain' = [chain EXCEPT ![cmd[c].key].addr = signer,
                                    ![cmd[c].key].details = db[cmd[c].key].details]
    <3>1. \A k \in Keys : chain'[k].edits = chain[k].edits
      BY <2>2 DEF CommandsInv, Types, ChainRecord
    <3> QED BY <1>6, <3>1 DEF RegisterFinalityProvider, Refuse, chainVars
  <2> QED BY <1>6, <2>1, <2>2 DEF RegisterFinalityProvider, Refuse, chainVars
<1>7. ASSUME NEW c \in Cmds, UnjailFinalityProvider(c) PROVE Same
  <2>1. CASE UNCHANGED chainVars
    BY <2>1 DEF chainVars
  <2>2. CASE ~UNCHANGED chainVars
    <3>1. /\ cmd[c].key \in Keys /\ chain[cmd[c].key].standing = "jailed" /\ UNCHANGED lastEdit
          /\ chain' = [chain EXCEPT ![cmd[c].key].standing = "good"]
      BY <1>7, <2>2 DEF UnjailFinalityProvider, Refuse, CommandsInv, Types, CmdRecord
    <3> QED BY <1>5, <3>1
  <2> QED BY <2>1, <2>2
<1>8. ASSUME NEW c \in Cmds, TestSubmitFinalitySignature(c) PROVE Same
  <2>1. CASE UNCHANGED chainVars
    BY <2>1 DEF chainVars
  <2>2. CASE ~UNCHANGED chainVars
    <3>1. cmd[c].key \in Keys /\ cmd[c].block \in Blocks
      BY <1>8 DEF CommandsInv, Types, CmdRecord, AnswerFacts, KeyedOps, TestSubmitFinalitySignature
    <3>2. Vote(cmd[c].key, cmd[c].block) /\ UNCHANGED lastEdit
      BY <1>8, <2>2 DEF TestSubmitFinalitySignature, Refuse
    <3> QED BY <1>4, <3>1, <3>2
  <2> QED BY <2>1, <2>2
<1>9. CASE InstanceVotes
  <2>1. running \in Keys /\ Vote(running, "canonical") /\ "canonical" \in Blocks /\ UNCHANGED lastEdit
    BY <1>9 DEF InstanceVotes, CommandsInv, Types, Blocks
  <2> QED BY <1>4, <2>1
<1>10. CASE Jail
  BY <1>5, <1>10 DEF Jail
<1>11. ASSUME NEW c \in Cmds, Runs(c) PROVE UNCHANGED chainVars
  BY <1>11 DEF Runs, Usage, Invoke, runCommandGetDaemonInfo, runCommandCreateFP, runCommandUnjailFP,
     runCommandLsFP, runCommandInfoFP, runCommandRegisterFP, runCommandAddFinalitySig,
     runCommandEditFinalityDescription, SignMessageFromChainKey
<1>12. ASSUME NEW c \in Cmds,
              \/ Unavailable(c) \/ GetInfo(c) \/ QueryFinalityProviderList(c) \/ QueryFinalityProvider(c)
              \/ CreateFinalityProvider(c) \/ EditFinalityProvider(c) \/ SetFpDescription(c)
              \/ AddFinalitySignature(c) \/ getFpPrivKey(c) \/ loadChainKeyring(c) \/ CreateChainKey(c)
       PROVE  UNCHANGED chainVars
  BY <1>12 DEF Unavailable, GetInfo, QueryFinalityProviderList, QueryFinalityProvider,
     CreateFinalityProvider, EditFinalityProvider, SetFpDescription, AddFinalitySignature,
     getFpPrivKey, loadChainKeyring, CreateChainKey, Refuse
<1>13. CASE Crash \/ Restart \/ UNCHANGED vars
  BY <1>1, <1>13 DEF Crash, Restart, vars
<1> HIDE DEF Same, Lands
<1>14. ASSUME NEW c \in Cmds, Runs(c) \/ Serves(c) PROVE Lands \/ Same \/ UNCHANGED chainVars
  BY <1>2, <1>6, <1>7, <1>8, <1>11, <1>12, <1>14 DEF Serves
<1> QED BY <1>1, <1>3, <1>9, <1>10, <1>13, <1>14 DEF Next, Same, Lands

LEMMA LastEditFunction == Spec => [](DOMAIN lastEdit = Keys)
<1>1. Init => DOMAIN lastEdit = Keys
  BY DEF Init
<1>2. CommandsInv /\ DOMAIN lastEdit = Keys /\ [Next]_vars => (DOMAIN lastEdit = Keys)'
  <2> SUFFICES ASSUME CommandsInv, DOMAIN lastEdit = Keys, [Next]_vars
               PROVE  DOMAIN lastEdit' = Keys
    OBVIOUS
  <2> QED BY EditsLand DEF Land
<1> QED BY <1>1, <1>2, CommandsInvHolds, PTL DEF Spec

\* An edit that the chain executes, also one that was given up long ago,
\* leaves the fields it was not asked to change as they were, unless another
\* edit came between its reading the details and its execution.
THEOREM EditsKeepOtherFields == Spec => EditKeepsOthers
<1> DEFINE A == \A k \in Keys :
                  LET m == lastEdit'[k] IN
                  chain'[k].edits # chain[k].edits /\ m.base = chain[k].edits
                    => \A f \in Fields : chain'[k].details[f] =
                                           IF f \in m.flags THEN m.details[f] ELSE chain[k].details[f]
<1>1. CommandsInv /\ DOMAIN lastEdit = Keys /\ [Next]_vars => [A]_vars
  <2> SUFFICES ASSUME CommandsInv, DOMAIN lastEdit = Keys, [Next]_vars,
                      NEW k \in Keys, chain'[k].edits # chain[k].edits,
                      lastEdit'[k].base = chain[k].edits,
                      NEW f \in Fields
               PROVE  chain'[k].details[f] = IF f \in lastEdit'[k].flags THEN lastEdit'[k].details[f]
                                             ELSE chain[k].details[f]
    BY Zenon
  <2>1. PICK m \in EditRecord : m.key \in Keys /\ Fresh(m) /\ Land(m)
    BY EditsLand
  <2>2. chain'[m.key].details = m.details /\ \A j \in Keys \ {m.key} : chain'[j] = chain[j]
    BY <2>1, LandOnChain DEF CommandsInv
  <2>3. m.key = k
    BY <2>2
  <2>4. lastEdit'[k] = m
    BY <2>1, <2>3 DEF Land
  <2> QED BY <2>1, <2>2, <2>3, <2>4 DEF Fresh
<1> QED BY <1>1, CommandsInvHolds, LastEditFunction, PTL DEF Spec, EditKeepsOthers

\* A step of one command leaves the others where they are.
LEMMA OnlyOwnStep ==
  ASSUME Types, NEW d \in Cmds, Runs(d) \/ Serves(d), NEW c \in Cmds, c # d
  PROVE  cmd'[c] = cmd[c]
<1>1. ASSUME NEW a, Reply(d, a) PROVE cmd'[c] = cmd[c]
  BY <1>1 DEF Reply, Types
<1>2. ASSUME NEW pc, Goto(d, pc) PROVE cmd'[c] = cmd[c]
  BY <1>2 DEF Goto, Types
<1>3. CASE Runs(d)
  <2>1. ASSUME NEW op, NEW k, NEW flags, NEW b, Invoke(d, op, k, flags, b) PROVE cmd'[c] = cmd[c]
    BY <2>1 DEF Invoke, Types
  <2> QED BY <1>1, <1>3, <2>1 DEF Runs, Usage, runCommandGetDaemonInfo, runCommandCreateFP,
       runCommandUnjailFP, runCommandLsFP, runCommandInfoFP, runCommandRegisterFP,
       runCommandAddFinalitySig, runCommandEditFinalityDescription, SignMessageFromChainKey
<1>4. CASE EditFinalityProvider(d)
  BY <1>1, <1>4 DEF EditFinalityProvider, Refuse, Types
<1>5. CASE TestSubmitFinalitySignature(d)
  BY <1>1, <1>5 DEF TestSubmitFinalitySignature, Refuse, Types
<1>6. CASE \/ Unavailable(d) \/ GetInfo(d) \/ CreateFinalityProvider(d) \/ RegisterFinalityProvider(d)
           \/ UnjailFinalityProvider(d) \/ QueryFinalityProviderList(d) \/ QueryFinalityProvider(d)
  BY <1>1, <1>6 DEF Unavailable, GetInfo, CreateFinalityProvider, RegisterFinalityProvider,
     UnjailFinalityProvider, QueryFinalityProviderList, QueryFinalityProvider, Refuse
<1>7. CASE \/ SendEdit(d) \/ SetFpDescription(d) \/ AddFinalitySignature(d) \/ getFpPrivKey(d)
           \/ loadChainKeyring(d) \/ CreateChainKey(d)
  BY <1>1, <1>2, <1>7 DEF SendEdit, SetFpDescription, AddFinalitySignature, getFpPrivKey,
     loadChainKeyring, CreateChainKey, Refuse
<1> QED BY <1>3, <1>4, <1>5, <1>6, <1>7 DEF Serves

\* Only the write to the store answers an edit with success.
LEMMA EditAnsweredByStore ==
  ASSUME CommandsInv, [Next]_vars, NEW c \in Cmds, cmd[c].op = "edit", cmd[c].pc # "done",
         cmd'[c].answer = "ok"
  PROVE  SetFpDescription(c)
<1>1. cmd[c] \in CmdRecord /\ AnswerFacts(c) /\ cmd[c].answer = "none" /\ cmd'[c] # cmd[c]
      /\ cmd[c].pc \in {"sent", "edit", "store"}
  BY DEF CommandsInv, Types, CmdRecord, AnswerFacts
<1>2. \A a : Reply(c, a) => a = "ok"
  BY DEF Reply, CommandsInv, Types, CmdRecord
<1>3. \A pc : ~Goto(c, pc)
  BY <1>1 DEF Goto, CommandsInv, Types, CmdRecord
<1>4. ~Crash
  <2>1. Crash => cmd'[c] = [cmd[c] EXCEPT !.pc = "done", !.answer = "unavailable"]
    BY <1>1 DEF Crash
  <2>2. [cmd[c] EXCEPT !.pc = "done", !.answer = "unavailable"].answer = "unavailable"
    BY <1>1 DEF CmdRecord
  <2> QED BY <2>1, <2>2
<1>5. Runs(c) \/ Serves(c)
  <2>1. cmd' # cmd
    BY <1>1
  <2> QED BY <1>1, <1>4, <2>1, OnlyOwnStep
       DEF Next, vars, LandsLate, InstanceVotes, Restart, Jail, CommandsInv
<1>6. ~Runs(c)
  BY <1>1 DEF Runs, Usage, Invoke, runCommandGetDaemonInfo, runCommandCreateFP, runCommandUnjailFP,
     runCommandLsFP, runCommandInfoFP, runCommandRegisterFP, runCommandAddFinalitySig,
     runCommandEditFinalityDescription, SignMessageFromChainKey
<1>7. ~EditFinalityProvider(c)
  BY <1>1, <1>2 DEF EditFinalityProvider, Refuse, CommandsInv, Types, CmdRecord
<1>8. ~SendEdit(c)
  BY <1>2, <1>3 DEF SendEdit
<1>9. ~Unavailable(c)
  BY <1>2 DEF Unavailable
<1> QED BY <1>1, <1>5, <1>6, <1>7, <1>8, <1>9 DEF Serves, Handling, GetInfo, CreateFinalityProvider,
     RegisterFinalityProvider, UnjailFinalityProvider, QueryFinalityProviderList,
     QueryFinalityProvider, AddFinalitySignature, TestSubmitFinalitySignature, getFpPrivKey,
     loadChainKeyring, CreateChainKey

\* When EditFinalityProvider answers with success, what it sent is in the
\* store, and on the chain unless another edit has been executed since.
THEOREM SuccessfulEditsTakeEffect == Spec => EditTakesEffect
<1> DEFINE A == \A c \in Cmds :
                  LET k == cmd[c].key
                      m == cmd[c].msg
                  IN
                  cmd[c].op = "edit" /\ cmd[c].pc # "done" /\ cmd'[c].answer = "ok"
                    => /\ db'[k].details = m.details
                       /\ chain'[k].edits <= m.base + 1 => chain'[k].details = m.details
<1>1. CommandsInv /\ [Next]_vars => [A]_vars
  <2> SUFFICES ASSUME CommandsInv, [Next]_vars, NEW c \in Cmds, cmd[c].op = "edit",
                      cmd[c].pc # "done", cmd'[c].answer = "ok"
               PROVE  /\ db'[cmd[c].key].details = cmd[c].msg.details
                      /\ chain'[cmd[c].key].edits <= cmd[c].msg.base + 1
                           => chain'[cmd[c].key].details = cmd[c].msg.details
    BY Zenon
  <2>1. SetFpDescription(c)
    BY EditAnsweredByStore
  <2>2. PICK k \in Keys, m \in EditRecord : k = cmd[c].key /\ m = cmd[c].msg /\ m.key = k /\ Landed(m)
                                            /\ db[k].status # "none"
    BY <2>1 DEF CommandsInv, Types, CmdRecord, AnswerFacts, EditFacts, KeyedOps, SetFpDescription, StoreInv
  <2>3. db' = [db EXCEPT ![k].details = m.details] /\ chain' = chain
    BY <2>1, <2>2 DEF SetFpDescription, chainVars
  <2>4. db'[k].details = m.details
    BY <2>3 DEF CommandsInv, Types, StoreRecord
  <2>5. chain[k].edits \in Nat /\ m.base \in Nat
    BY DEF CommandsInv, Types, ChainRecord, EditRecord
  <2>6. chain'[k].edits <= m.base + 1 => chain'[k].details = m.details
    BY <2>2, <2>3, <2>5 DEF Landed
  <2> QED BY <2>2, <2>4, <2>6
<1> QED BY <1>1, CommandsInvHolds, PTL DEF Spec, EditTakesEffect
=============================================================================
