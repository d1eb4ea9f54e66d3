------------------------------ MODULE Commands ------------------------------
(***************************************************************************)
(* The commands of fpd (finality-provider/cmd/fpd/daemon/                  *)
(* daemon_commands.go), the gRPC client they call                          *)
(* (finality-provider/service/client/rpcclient.go) and the handlers of     *)
(* the daemon (finality-provider/service/rpcserver.go).                    *)
(*                                                                         *)
(* Each command is a process of its own that makes one call, and the       *)
(* daemon serves the calls concurrently.  What a provider says of itself   *)
(* (moniker, website, ..., commission rate) is kept twice: on the chain    *)
(* and in the store of the daemon.  A value is named after the command     *)
(* that gave it.  Creating, registering and unjailing are one step each;   *)
(* FpApp and FpManager have their steps.  The store's status is "CREATED"  *)
(* or "REGISTERED", which stands for every later one.                      *)
(***************************************************************************)
EXTENDS Integers, FiniteSets

CONSTANTS
  Cmds,        \* the commands a behaviour runs
  Keys,        \* public keys of providers
  NoKey,       \* no provider; as an argument, text that is no public key
  DescFields,  \* the fields of a description
  Addrs,       \* chain addresses the daemon may be configured with
  MaxFaults    \* bound: crashes, failed queries, lost answers and jailings

ASSUME CommandsAssumption == NoKey \notin Keys /\ MaxFaults \in Nat

VARIABLES
  cmd,       \* what each command is doing
  up,        \* whether the daemon runs
  signer,    \* the address it signs its transactions with
  running,   \* the provider whose instance runs
  db,        \* the store
  keyring,   \* the providers that have a chain key
  proved,    \* whether the block's randomness has its proof in the store
  chain,     \* the chain's record of each provider
  late,      \* edits nobody waits for, not yet executed
  lastEdit,  \* history: the last edit executed for each provider
  excused,   \* history: providers with overlapping or interrupted edits
  faults

daemonVars == <<up, signer, running, keyring>>
chainVars == <<chain, late, lastEdit>>
vars == <<cmd, daemonVars, db, proved, chainVars, excused, faults>>

Fields == DescFields \union {"rate"}
Values == Cmds \union {"none"}
Blocks == {"canonical", "fork"}
Ops == {"getInfo", "create", "register", "unjail", "list", "info", "edit", "addSig", "sign"}

NoDetails == [f \in Fields |-> "none"]
Edit(k, details, flags, base) == [key |-> k, details |-> details, flags |-> flags, base |-> base]
NoEdit == Edit(NoKey, NoDetails, {}, 0)

Details == [Fields -> Values]
Edits == [key : Keys \union {NoKey}, details : Details, flags : SUBSET Fields,
          base : 0..Cardinality(Cmds)]

TypeOK ==
  /\ cmd \in [Cmds -> [pc : {"idle", "sent", "edit", "store", "newKey", "vote", "extract", "done"},
                       op : Ops \union {"none"}, key : Keys \union {NoKey},
                       flags : SUBSET Fields, block : Blocks, msg : Edits,
                       answer : {"none", "usage", "ok", "error", "unavailable", "extracted"},
                       forked : BOOLEAN]]
  /\ up \in BOOLEAN
  /\ signer \in Addrs
  /\ running \in Keys \union {NoKey}
  /\ db \in [Keys -> [status : {"none", "CREATED", "REGISTERED"}, details : Details]]
  /\ keyring \subseteq Keys
  /\ proved \in BOOLEAN
  /\ chain \in [Keys -> [addr : Addrs \union {"none"}, details : Details,
                         standing : {"good", "jailed", "slashed"},
                         votes : SUBSET Blocks, edits : 0..Cardinality(Cmds)]]
  /\ late \subseteq Edits
  /\ lastEdit \in [Keys -> Edits]
  /\ excused \subseteq Keys
  /\ faults \in 0..MaxFaults

Registered(k) == chain[k].addr # "none"

Fault == faults < MaxFaults /\ faults' = faults + 1

-----------------------------------------------------------------------------
(* A command and its call.                                                 *)

Idle == [pc |-> "idle", op |-> "none", key |-> NoKey, flags |-> {}, block |-> "canonical",
         msg |-> NoEdit, answer |-> "none", forked |-> FALSE]

Goto(c, pc) == cmd' = [cmd EXCEPT ![c].pc = pc]

\* The handler returns, and the command with it.
Reply(c, answer) == cmd' = [cmd EXCEPT ![c].pc = "done", ![c].answer = answer]

\* The command leaves before it calls, because of its arguments.
Usage(c) ==
  /\ cmd[c].pc = "idle"
  /\ Reply(c, "usage")
  /\ UNCHANGED <<daemonVars, db, proved, chainVars, excused, faults>>

\* The generated stub sends the request under the name of its method.
Invoke(c, op, k, flags, block) ==
  /\ cmd[c].pc = "idle"
  /\ cmd' = [cmd EXCEPT ![c] = [Idle EXCEPT !.pc = "sent", !.op = op, !.key = k,
                                            !.flags = flags, !.block = block]]
  /\ UNCHANGED <<daemonVars, db, proved, chainVars, excused, faults>>

\* Mutant: a call waits for the daemon to come back.
Unavailable_WaitForReady(c) ==
  /\ cmd[c].pc = "sent"
  /\ ~up /\ cmd[c].answer # "none"
  /\ Reply(c, "unavailable")
  /\ UNCHANGED <<daemonVars, db, proved, chainVars, excused, faults>>

\* NewFinalityProviderServiceGRpcClient does not wait for the connection; the
\* call finds out that there is none.
Unavailable(c) ==
  /\ cmd[c].pc = "sent"
  /\ ~up
  /\ Reply(c, "unavailable")
  /\ UNCHANGED <<daemonVars, db, proved, chainVars, excused, faults>>

runCommandGetDaemonInfo(c) == Invoke(c, "getInfo", NoKey, {}, "canonical")

\* Every field is given a value, the rate by default 0.05.
runCommandCreateFP(c) == \E k \in Keys : Invoke(c, "create", k, Fields, "canonical")

\* The only one that leaves the key for the daemon to parse.
runCommandUnjailFP(c) == \E k \in Keys \union {NoKey} : Invoke(c, "unjail", k, {}, "canonical")

runCommandLsFP(c) == Invoke(c, "list", NoKey, {}, "canonical")

runCommandInfoFP(c) == \E k \in Keys : Invoke(c, "info", k, {}, "canonical")

runCommandRegisterFP(c) == \E k \in Keys : Invoke(c, "register", k, {}, "canonical")

runCommandAddFinalitySig(c) ==
  \E k \in Keys, b \in Blocks : Invoke(c, "addSig", k, {}, b)

\* A flag that is not given is the empty string.
runCommandEditFinalityDescription(c) ==
  \E k \in Keys, flags \in SUBSET Fields : Invoke(c, "edit", k, flags, "canonical")

\* No command calls it, the client offers it.
SignMessageFromChainKey(c) == \E k \in Keys : Invoke(c, "sign", k, {}, "canonical")

-----------------------------------------------------------------------------
(* The handlers.  Handling: the generated handler has decoded the request  *)
(* and calls the method of the server.                                     *)

Handling(c, op) == up /\ cmd[c].pc = "sent" /\ cmd[c].op = op

Refuse(c) == Reply(c, "error") /\ UNCHANGED <<daemonVars, db, proved, chainVars, excused>>

GetInfo(c) ==
  /\ Handling(c, "getInfo")
  /\ Reply(c, "ok")
  /\ UNCHANGED <<daemonVars, db, proved, chainVars, excused, faults>>

\* createFinalityProviderInternal refuses a key that has a record.
CreateFinalityProvider(c) ==
  LET k == cmd[c].key IN
  /\ Handling(c, "create")
  /\ IF db[k].status # "none" THEN Refuse(c)
     ELSE /\ db' = [db EXCEPT ![k] = [status |-> "CREATED", details |-> [f \in Fields |-> c]]]
          /\ keyring' = keyring \union {k}
          /\ Reply(c, "ok")
          /\ UNCHANGED <<up, signer, running, proved, chainVars, excused>>
  /\ UNCHANGED faults

\* The chain takes the details from the store.  When an instance exists
\* already, Start refuses and so does the call.
RegisterFinalityProvider(c) ==
  LET k == cmd[c].key
      land == chain' = [chain EXCEPT ![k].addr = signer, ![k].details = db[k].details]
  IN
  /\ Handling(c, "register")
  /\ IF db[k].status # "CREATED" \/ Registered(k) THEN Refuse(c) /\ UNCHANGED faults
     ELSE \/ /\ land
             /\ db' = [db EXCEPT ![k].status = "REGISTERED"]
             /\ running' = IF running = NoKey THEN k ELSE running
             /\ Reply(c, IF running = NoKey THEN "ok" ELSE "error")
             /\ UNCHANGED <<up, signer, keyring, proved, late, lastEdit, excused, faults>>
          \/ /\ Fault
             /\ Reply(c, "error")
             /\ land \/ UNCHANGED chain
             /\ UNCHANGED <<daemonVars, db, proved, late, lastEdit, excused>>

\* The instance is started again after the transaction.
UnjailFinalityProvider(c) ==
  LET k == cmd[c].key IN
  /\ Handling(c, "unjail")
  /\ IF k = NoKey THEN Refuse(c)
     ELSE IF ~Registered(k) \/ chain[k].standing # "jailed" THEN Refuse(c)
     ELSE /\ chain' = [chain EXCEPT ![k].standing = "good"]
          /\ running' = IF running = NoKey /\ db[k].status # "none" THEN k ELSE running
          /\ Reply(c, IF running = NoKey /\ db[k].status # "none" THEN "ok" ELSE "error")
          /\ UNCHANGED <<up, signer, keyring, db, proved, late, lastEdit, excused>>
  /\ UNCHANGED faults

QueryFinalityProviderList(c) ==
  /\ Handling(c, "list")
  /\ Reply(c, "ok")
  /\ UNCHANGED <<daemonVars, db, proved, chainVars, excused, faults>>

QueryFinalityProvider(c) ==
  /\ Handling(c, "info")
  /\ Reply(c, IF db[cmd[c].key].status = "none" THEN "error" ELSE "ok")
  /\ UNCHANGED <<daemonVars, db, proved, chainVars, excused, faults>>

-----------------------------------------------------------------------------
(* The edit of the details.                                                *)

\* Mutant: a field that is not flagged keeps its value from the store.
merged_FromStore(k, c, flags) == [f \in Fields |-> IF f \in flags THEN c ELSE db[k].details[f]]

\* getValueOrDefault for each field: what the chain has, unless flagged.
merged(k, c, flags) == [f \in Fields |-> IF f \in flags THEN c ELSE chain[k].details[f]]

UnderWay(k) == {c \in Cmds : cmd[c].key = k /\ cmd[c].pc \in {"edit", "store"}}

\* The rate has to be a number, then the chain is asked for the details.
EditFinalityProvider(c) ==
  LET k == cmd[c].key
      flags == cmd[c].flags
  IN
  /\ Handling(c, "edit")
  /\ \/ /\ "rate" \notin flags \/ ~Registered(k) \/ chain[k].addr # signer
        /\ Refuse(c)
        /\ UNCHANGED faults
     \/ /\ "rate" \in flags
        /\ Fault
        /\ Refuse(c)
     \/ /\ "rate" \in flags /\ Registered(k) /\ chain[k].addr = signer
        /\ cmd' = [cmd EXCEPT ![c].pc = "edit",
                              ![c].msg = Edit(k, merged(k, c, flags), flags, chain[k].edits)]
        /\ excused' = IF UnderWay(k) = {} THEN excused ELSE excused \union {k}
        /\ UNCHANGED <<daemonVars, db, proved, chainVars, faults>>

\* The chain executes an edit.
Land(m) ==
  /\ chain' = [chain EXCEPT ![m.key].details = m.details, ![m.key].edits = @ + 1]
  /\ lastEdit' = [lastEdit EXCEPT ![m.key] = m]

\* Mutant: an error of the submission is only logged.
SendEdit_IgnoreError(c) ==
  LET m == cmd[c].msg IN
  /\ cmd[c].pc = "edit"
  /\ \/ Land(m) /\ UNCHANGED <<late, excused, faults>>
     \/ Fault /\ excused' = excused \union {m.key} /\ UNCHANGED chainVars
  /\ Goto(c, "store")
  /\ UNCHANGED <<daemonVars, db, proved>>

\* The message is executed, or its answer is lost, or it is executed after
\* the last attempt has been given up, or never.
SendEdit(c) ==
  LET m == cmd[c].msg IN
  /\ cmd[c].pc = "edit"
  /\ \/ /\ Land(m)
        /\ Goto(c, "store")
        /\ UNCHANGED <<late, excused, faults>>
     \/ /\ Fault
        /\ Reply(c, "error")
        /\ excused' = excused \union {m.key}
        /\ \/ Land(m) /\ UNCHANGED late
           \/ late' = late \union {m} /\ UNCHANGED <<chain, lastEdit>>
           \/ UNCHANGED chainVars
  /\ UNCHANGED <<daemonVars, db, proved>>

LandsLate(m) ==
  /\ m \in late
  /\ late' = late \ {m}
  /\ Land(m)
  /\ UNCHANGED <<cmd, daemonVars, db, proved, excused, faults>>

\* Mutant: the rate is left as it was.
SetFpDescription_NoRate(c) ==
  LET m == cmd[c].msg IN
  /\ cmd[c].pc = "store"
  /\ db' = [db EXCEPT ![m.key].details = [m.details EXCEPT !["rate"] = db[m.key].details["rate"]]]
  /\ Reply(c, "ok")
  /\ UNCHANGED <<daemonVars, proved, chainVars, excused, faults>>

\* A provider without a record is an error, after the chain has changed.
SetFpDescription(c) ==
  LET m == cmd[c].msg IN
  /\ cmd[c].pc = "store"
  /\ IF db[m.key].status = "none" THEN Refuse(c)
     ELSE /\ db' = [db EXCEPT ![m.key].details = m.details]
          /\ Reply(c, "ok")
          /\ UNCHANGED <<daemonVars, proved, chainVars, excused>>
  /\ UNCHANGED faults

-----------------------------------------------------------------------------
(* The finality signature made by hand, for presentation and tests.        *)

\* The randomness and its proof are looked up and the block is signed.
AddFinalitySignature(c) ==
  /\ Handling(c, "addSig")
  /\ \/ /\ running # cmd[c].key \/ ~proved
        /\ Refuse(c)
        /\ UNCHANGED faults
     \/ /\ running = cmd[c].key
        /\ Fault
        /\ Refuse(c)
     \/ /\ running = cmd[c].key /\ proved
        /\ Goto(c, "vote")
        /\ UNCHANGED <<daemonVars, db, proved, chainVars, excused, faults>>

\* The chain accepts a vote.  Two votes for one height give the key away.
Vote(k, b) ==
  LET votes == chain[k].votes \union {b} IN
  chain' = [chain EXCEPT ![k].votes = votes,
                         ![k].standing = IF votes = Blocks THEN "slashed" ELSE @]

\* Mutant: the events of the answer are not looked at.
TestSubmitFinalitySignature_NoEvents(c) ==
  LET k == cmd[c].key
      forks == chain[k].votes \union {cmd[c].block} = Blocks
  IN
  /\ cmd[c].pc = "vote"
  /\ IF chain[k].standing # "good" THEN Refuse(c) /\ UNCHANGED faults
     ELSE /\ Vote(k, cmd[c].block)
          /\ cmd' = [cmd EXCEPT ![c].pc = "done", ![c].answer = "ok", ![c].forked = forks]
          /\ UNCHANGED <<daemonVars, db, proved, late, lastEdit, excused, faults>>

\* The answer's events say whether the provider has been slashed.
TestSubmitFinalitySignature(c) ==
  LET k == cmd[c].key
      forks == chain[k].votes \union {cmd[c].block} = Blocks
  IN
  /\ cmd[c].pc = "vote"
  /\ IF chain[k].standing # "good" THEN Refuse(c) /\ UNCHANGED faults
     ELSE \/ /\ Vote(k, cmd[c].block)
             /\ cmd' = [cmd EXCEPT ![c].pc = IF forks THEN "extract" ELSE "done",
                                   ![c].answer = IF forks THEN "none" ELSE "ok",
                                   ![c].forked = forks]
             /\ UNCHANGED <<daemonVars, db, proved, late, lastEdit, excused, faults>>
          \/ /\ Fault
             /\ cmd' = [cmd EXCEPT ![c].pc = "done", ![c].answer = "error", ![c].forked = forks]
             /\ Vote(k, cmd[c].block)
             /\ UNCHANGED <<daemonVars, db, proved, late, lastEdit, excused>>

\* The key in the evidence is compared with the EOTS manager's.
getFpPrivKey(c) ==
  /\ cmd[c].pc = "extract"
  /\ \/ Reply(c, "extracted") /\ UNCHANGED faults
     \/ Reply(c, "error") /\ Fault
  /\ UNCHANGED <<daemonVars, db, proved, chainVars, excused>>

\* The instance's own vote.
InstanceVotes ==
  /\ up /\ running # NoKey /\ proved
  /\ Registered(running) /\ chain[running].standing = "good"
  /\ "canonical" \notin chain[running].votes
  /\ Vote(running, "canonical")
  /\ UNCHANGED <<cmd, daemonVars, db, proved, late, lastEdit, excused, faults>>

-----------------------------------------------------------------------------
(* The signature with the chain key.                                       *)

\* Any error of GetChainPrivKey is taken for a missing key.
loadChainKeyring(c) ==
  /\ Handling(c, "sign")
  /\ IF cmd[c].key \in keyring THEN Reply(c, "ok") ELSE Goto(c, "newKey")
  /\ UNCHANGED <<daemonVars, db, proved, chainVars, excused, faults>>

\* The keyring refuses a name that has a key by now.
CreateChainKey(c) ==
  /\ cmd[c].pc = "newKey"
  /\ Reply(c, IF cmd[c].key \in keyring THEN "error" ELSE "ok")
  /\ keyring' = keyring \union {cmd[c].key}
  /\ UNCHANGED <<up, signer, running, db, proved, chainVars, excused, faults>>

-----------------------------------------------------------------------------
(* The daemon and the chain.                                               *)

\* Calls that the daemon was serving fail.
Crash ==
  /\ up
  /\ Fault
  /\ up' = FALSE
  /\ running' = NoKey
  /\ cmd' = [c \in Cmds |-> IF cmd[c].pc \in {"idle", "done"} THEN cmd[c]
                            ELSE [cmd[c] EXCEPT !.pc = "done", !.answer = "unavailable"]]
  /\ excused' = excused \union {k \in Keys : UnderWay(k) # {}}
  /\ UNCHANGED <<signer, keyring, db, proved, chainVars>>

\* The operator may have configured another key.
Restart ==
  /\ ~up
  /\ up' = TRUE
  /\ signer' \in Addrs
  /\ running' \in {NoKey} \union {k \in Keys : Registered(k) /\ db[k].status # "none"}
  /\ UNCHANGED <<cmd, keyring, db, proved, chainVars, excused, faults>>

Jail ==
  /\ \E k \in Keys : /\ Registered(k) /\ chain[k].standing = "good"
                     /\ chain' = [chain EXCEPT ![k].standing = "jailed"]
  /\ Fault
  /\ UNCHANGED <<cmd, daemonVars, db, proved, late, lastEdit, excused>>

Init ==
  /\ cmd = [c \in Cmds |-> Idle]
  /\ up = TRUE
  /\ signer \in Addrs
  /\ running = NoKey
  /\ db \in [Keys -> {[status |-> s, details |-> NoDetails] : s \in {"none", "REGISTERED"}}]
  /\ keyring = {k \in Keys : db[k].status # "none"}
  /\ proved \in BOOLEAN
  /\ chain = [k \in Keys |-> [addr |-> IF db[k].status = "none" THEN "none" ELSE signer,
                              details |-> NoDetails, standing |-> "good",
                              votes |-> {}, edits |-> 0]]
  /\ late = {}
  /\ lastEdit = [k \in Keys |-> NoEdit]
  /\ excused = {}
  /\ faults = 0

Runs(c) ==
  \/ Usage(c)
  \/ runCommandGetDaemonInfo(c)
  \/ runCommandCreateFP(c)
  \/ runCommandUnjailFP(c)
  \/ runCommandLsFP(c)
  \/ runCommandInfoFP(c)
  \/ runCommandRegisterFP(c)
  \/ runCommandAddFinalitySig(c)
  \/ runCommandEditFinalityDescription(c)
  \/ SignMessageFromChainKey(c)

Serves(c) ==
  \/ Unavailable(c)
  \/ GetInfo(c)
  \/ CreateFinalityProvider(c)
  \/ RegisterFinalityProvider(c)
  \/ UnjailFinalityProvider(c)
  \/ QueryFinalityProviderList(c)
  \/ QueryFinalityProvider(c)
  \/ EditFinalityProvider(c)
  \/ SendEdit(c)
  \/ SetFpDescription(c)
  \/ AddFinalitySignature(c)
  \/ TestSubmitFinalitySignature(c)
  \/ getFpPrivKey(c)
  \/ loadChainKeyring(c)
  \/ CreateChainKey(c)

Next ==
  \/ \E c \in Cmds : Runs(c) \/ Serves(c)
  \/ \E m \in late : LandsLate(m)
  \/ InstanceVotes
  \/ Crash
  \/ Restart
  \/ Jail

Spec == Init /\ [][Next]_vars

\* The daemon serves what it has received, and calls to the chain return.
FairSpec == Spec /\ \A c \in Cmds : WF_vars(Serves(c))

-----------------------------------------------------------------------------

\* The details in the store of a provider are the ones the chain has, unless
\* an edit is between the chain and the store (EditFinalityProvider writes
\* one after the other), or edits overlapped or were cut short: nothing ever
\* brings the two together again.
StoreFollowsChain ==
  \A k \in Keys :
    (Registered(k) /\ db[k].status # "none" /\ db[k].details # chain[k].details)
      => k \in excused \/ UnderWay(k) # {}

\* A signature by hand that got the provider slashed is never answered like
\* any other: the answer has the extracted key or is an error.  And a key is
\* reported as extracted only when this call made the fork.
ForkIsReported ==
  \A c \in Cmds :
    /\ cmd[c].forked /\ cmd[c].pc = "done" => cmd[c].answer # "ok"
    /\ cmd[c].answer = "extracted" => cmd[c].forked /\ chain[cmd[c].key].standing = "slashed"

\* An edit changes the fields it was asked to change and no other, unless
\* another edit was executed after it had read the details: also when an
\* earlier edit never reached the store.
EditKeepsOthers ==
  [][\A k \in Keys :
       LET m == lastEdit'[k] IN
       chain'[k].edits # chain[k].edits /\ m.base = chain[k].edits
         => \A f \in Fields : chain'[k].details[f] =
                                IF f \in m.flags THEN m.details[f] ELSE chain[k].details[f]]_vars

\* An edit that is answered with success is in the store and on the chain at
\* that moment, unless another edit has been executed since it read the details.
EditTakesEffect ==
  [][\A c \in Cmds :
       LET k == cmd[c].key
           m == cmd[c].msg
       IN
       cmd[c].op = "edit" /\ cmd[c].pc # "done" /\ cmd'[c].answer = "ok"
         => /\ db'[k].details = m.details
            /\ chain'[k].edits <= m.base + 1 => chain'[k].details = m.details]_vars

\* Every command returns, also when the daemon is down or dies meanwhile.
CommandReturns == \A c \in Cmds : cmd[c].pc # "idle" ~> cmd[c].pc = "done"
=============================================================================
