------------------------------- MODULE FpApp -------------------------------
(***************************************************************************)
(* The application (finality-provider/service/app.go): RPC callers that    *)
(* create, register and start finality providers, the event loop, the      *)
(* registration loop, the status synchronisation loop, and Stop.           *)
(*                                                                         *)
(* The request channels are unbuffered: a send and its receive are one     *)
(* step.  The response channels have room for their one answer.  A caller  *)
(* is the goroutine of one RPC.  A provider is identified by its EOTS key, *)
(* whose name is also the name of its chain key.  Of the manager, this     *)
(* module has StartFinalityProvider and Stop; of the instance, whether it  *)
(* is marked as started and whether its loops run.                         *)
(***************************************************************************)
EXTENDS Integers, FpStore, EotsManager

CONSTANTS
  Callers,     \* goroutines that serve an RPC
  None,        \* no key, no caller
  MaxFaults    \* bound: crashes, failed queries, lost answers, failed starts

ASSUME AppAssumption ==
  /\ Keys \subseteq Nat
  /\ None \notin Keys \union Callers
  /\ MaxFaults \in Nat

VARIABLES
  chainKeys,   \* the chain keyring: names that have a key
  fps,         \* the store: key -> record
  onChain,     \* chain: registered providers
  call,        \* per caller: [pc, op, key, reply]
  evPc, evReq,     \* eventLoop: where it is, whose request it handles
  regPc, regReq,   \* registrationLoop: the same
  syncPc,      \* syncChainFpStatusLoop and SyncFinalityProviderStatus
  sync,        \* its locals: [fps, todo, hasPower, running]
  fpIns,       \* the manager's instance: its key, or None
  isStarted,   \* the instance's isStarted
  looping,     \* the instance's loops run
  quit, stopPc,    \* app.quit is closed; where Stop is
  faults       \* used up so far of MaxFaults

storeVars == <<chainKeys, fps>>
evVars == <<evPc, evReq>>
regVars == <<regPc, regReq>>
syncVars == <<syncPc, sync>>
insVars == <<fpIns, isStarted, looping>>
stopVars == <<quit, stopPc>>
persistent == <<eotsVars, storeVars, onChain>>
vars == <<persistent, call, evVars, regVars, syncVars,
          insVars, stopVars, faults>>

Requests == {"create", "import", "register", "start"}
NoCall == [pc |-> "idle", op |-> "create", key |-> None, reply |-> "none"]
NoSync == [fps |-> << >>, todo |-> {}, hasPower |-> FALSE, running |-> FALSE]

TypeOK ==
  /\ EotsTypeOK
  /\ chainKeys \subseteq Keys
  /\ DOMAIN fps \subseteq Keys
  /\ \A k \in DOMAIN fps : fps[k] \in StoredFinalityProvider
  /\ onChain \subseteq Keys
  /\ call \in [Callers -> [pc : {"idle", "send", "wait", "start", "bootstrap", "gone"},
                           op : Requests, key : Keys \union {None},
                           reply : {"none", "ok", "err"}]]
  /\ evPc \in {"select", "chainKey", "eotsKey", "eotsWait", "save", "registered", "exited"}
  /\ regPc \in {"select", "call", "send", "exited"}
  /\ {evReq, regReq} \subseteq Callers \union {None}
  /\ syncPc \in {"select", "query", "update", "start", "bootstrap", "exited"}
  /\ sync.todo \subseteq DOMAIN sync.fps
  /\ fpIns \in Keys \union {None}
  /\ {isStarted, looping, quit} \subseteq BOOLEAN
  /\ looping => isStarted /\ fpIns # None
  /\ stopPc \in {"no", "waiting", "done", "panic"}
  /\ faults \in 0..MaxFaults

Fault == faults < MaxFaults /\ faults' = faults + 1

-----------------------------------------------------------------------------
(* The process: NewFinalityProviderApp and Start.                          *)

Init ==
  /\ EotsInit
  /\ chainKeys = {} /\ fps = << >>
  /\ onChain = {}
  /\ call = [c \in Callers |-> NoCall]
  /\ evPc = "select" /\ evReq = None
  /\ regPc = "select" /\ regReq = None
  /\ syncPc = "select" /\ sync = NoSync
  /\ fpIns = None /\ isStarted = FALSE /\ looping = FALSE
  /\ quit = FALSE /\ stopPc = "no"
  /\ faults = 0

\* The process dies, or ends after Stop, and is started again: the keyrings,
\* the database and the chain remain.
Crash ==
  /\ Fault
  /\ call' = [c \in Callers |-> NoCall]
  /\ evPc' = "select" /\ evReq' = None
  /\ regPc' = "select" /\ regReq' = None
  /\ syncPc' = "select" /\ sync' = NoSync
  /\ fpIns' = None /\ isStarted' = FALSE /\ looping' = FALSE
  /\ quit' = FALSE /\ stopPc' = "no"
  /\ UNCHANGED persistent

-----------------------------------------------------------------------------
(* Callers.                                                                *)

Answer(c, reply) == [call EXCEPT ![c].reply = reply]

NewCall(c, pc, op, k) ==
  /\ call[c].pc = "idle"
  /\ call' = [call EXCEPT ![c] = [pc |-> pc, op |-> op, key |-> k, reply |-> "none"]]
  /\ UNCHANGED <<persistent, evVars, regVars, syncVars, insVars, stopVars, faults>>

\* CreateFinalityProvider, with a new EOTS key or with one that exists.
CallCreate(c) == \E op \in {"create", "import"}, k \in Keys : NewCall(c, "send", op, k)

\* RegisterFinalityProvider, unless the record is missing or past CREATED.
CallRegister(c) ==
  \E k \in DOMAIN fps : fps[k].status = "CREATED" /\ NewCall(c, "send", "register", k)

\* StartHandlingFinalityProvider, as the command that starts the daemon calls it.
CallStart(c) == \E k \in DOMAIN fps : NewCall(c, "start", "start", k)

\* The answer arrives.  After a registration the RPC starts the instance.
Answered(c) ==
  /\ call[c].pc = "wait" /\ call[c].reply # "none"
  /\ call' = [call EXCEPT ![c] =
                IF @.op = "register" /\ @.reply = "ok"
                THEN [@ EXCEPT !.pc = "start", !.reply = "none"] ELSE NoCall]
  /\ UNCHANGED <<persistent, evVars, regVars, syncVars, insVars, stopVars, faults>>

\* The caller sees app.quit first; its request may still be handled.
CallerQuits(c) ==
  /\ call[c].pc = "wait" /\ quit
  /\ call' = [call EXCEPT ![c].pc = "gone"]
  /\ UNCHANGED <<persistent, evVars, regVars, syncVars, insVars, stopVars, faults>>

-----------------------------------------------------------------------------
(* The manager's StartFinalityProvider and the instance's Start.           *)

\* Without an instance, one is created from the record in the database, if
\* its status allows.  With one, whoever's it is, that one is started, which
\* fails if it is marked as started.
StartRefused(k) ==
  IF fpIns = None THEN ~(k \in DOMAIN fps /\ ShouldStart(fps[k])) ELSE isStarted

MarkStarted(k) ==
  /\ fpIns' = IF fpIns = None THEN k ELSE fpIns
  /\ isStarted' = TRUE
  /\ UNCHANGED looping

StartInstance(c) ==
  /\ call[c].pc = "start"
  /\ IF StartRefused(call[c].key)
     THEN call' = [call EXCEPT ![c] = NoCall] /\ UNCHANGED insVars
     ELSE MarkStarted(call[c].key) /\ call' = [call EXCEPT ![c].pc = "bootstrap"]
  /\ UNCHANGED <<persistent, evVars, regVars, syncVars, stopVars, faults>>

\* bootstrap, the poller and the loops; an error leaves the instance in place,
\* marked as started.
Bootstrap ==
  \/ looping' = TRUE /\ UNCHANGED <<fpIns, isStarted, faults>>
  \/ Fault /\ UNCHANGED insVars

BootstrapInstance(c) ==
  /\ call[c].pc = "bootstrap"
  /\ Bootstrap
  /\ call' = [call EXCEPT ![c] = NoCall]
  /\ UNCHANGED <<persistent, evVars, regVars, syncVars, stopVars>>

-----------------------------------------------------------------------------
(* eventLoop.                                                              *)

EventKey == call[evReq].key

\* The loop answers its request and returns to its select.
EventAnswers(reply) ==
  /\ call' = Answer(evReq, reply)
  /\ evPc' = "select" /\ evReq' = None

TakeCreate(c) ==
  /\ evPc = "select"
  /\ call[c].pc = "send" /\ call[c].op \in {"create", "import"}
  /\ evPc' = "chainKey" /\ evReq' = c
  /\ call' = [call EXCEPT ![c].pc = "wait"]
  /\ UNCHANGED <<persistent, regVars, syncVars, insVars, stopVars, faults>>

\* The chain key is created unless it exists.  A request that brings its EOTS
\* key skips CreateKey.
CreateChainKey ==
  /\ evPc = "chainKey"
  /\ \/ /\ chainKeys' = chainKeys \union {EventKey}
        /\ evPc' = IF call[evReq].op = "import" THEN "save" ELSE "eotsKey"
        /\ UNCHANGED <<call, evReq, faults>>
     \/ Fault /\ EventAnswers("err") /\ UNCHANGED chainKeys
  /\ UNCHANGED <<eotsVars, fps, onChain, regVars, syncVars, insVars, stopVars>>

\* Mutant: no continue after the error has been sent.
CreateKeyFails_FallsThrough ==
  call' = Answer(evReq, "err") /\ evPc' = "save" /\ UNCHANGED evReq

\* The key exists already.
CreateKeyFails == EventAnswers("err")

CreateKey ==
  /\ evPc = "eotsKey"
  /\ \/ KeyExists(EventKey) /\ CreateKeyFails /\ UNCHANGED eotsVars
     \/ NewAccount(EventKey) /\ evPc' = "eotsWait" /\ UNCHANGED <<call, evReq>>
  /\ UNCHANGED <<storeVars, onChain, regVars, syncVars, insVars, stopVars, faults>>

\* The EOTS manager's own steps go on whatever happens to this process.
EotsStores ==
  /\ \E k \in creating : AddEOTSKeyName(k)
  /\ UNCHANGED <<storeVars, onChain, call, evVars, regVars, syncVars, insVars,
                 stopVars, faults>>

EotsFails ==
  /\ Fault /\ EotsCrash
  /\ UNCHANGED <<storeVars, onChain, call, evVars, regVars, syncVars, insVars,
                 stopVars>>

\* CreateKey returns; its answer may be lost.
CreateKeyReturns ==
  /\ evPc = "eotsWait" /\ EventKey \notin creating
  /\ \/ EventKey \in eotsNames /\ evPc' = "save" /\ UNCHANGED <<call, evReq, faults>>
     \/ EventKey \notin eotsNames /\ EventAnswers("err") /\ UNCHANGED faults
     \/ EventKey \in eotsNames /\ Fault /\ EventAnswers("err")
  /\ UNCHANGED <<persistent, regVars, syncVars, insVars, stopVars>>

\* Mutant: the EOTS key is not looked up.
MaySave_Unchecked(k) == k \notin DOMAIN fps

\* KeyRecord finds the EOTS key, and the store has no record of it yet.
MaySave(k) == KeyRecordExists(k) /\ k \notin DOMAIN fps

AddFinalityProvider(k) ==
  [j \in DOMAIN fps \union {k} |-> IF j \in DOMAIN fps THEN fps[j] ELSE CreateFinalityProvider]

SaveFinalityProvider ==
  /\ evPc = "save"
  /\ \/ /\ MaySave(EventKey)
        /\ fps' = AddFinalityProvider(EventKey)
        /\ EventAnswers("ok")
     \/ ~MaySave(EventKey) /\ EventAnswers("err") /\ UNCHANGED fps
  /\ UNCHANGED <<eotsVars, chainKeys, onChain, regVars, syncVars, insVars, stopVars,
                 faults>>

\* The registration loop's event is received ...
TakeRegistered ==
  /\ evPc = "select" /\ regPc = "send"
  /\ evPc' = "registered" /\ evReq' = regReq
  /\ regPc' = "select" /\ regReq' = None
  /\ UNCHANGED <<persistent, call, syncVars, insVars, stopVars, faults>>

\* ... and recorded, whatever the status has become meanwhile.
MarkRegistered ==
  /\ evPc = "registered"
  /\ fps' = [fps EXCEPT ![EventKey] = SetFpStatus(@, "REGISTERED")]
  /\ EventAnswers("ok")
  /\ UNCHANGED <<eotsVars, chainKeys, onChain, regVars, syncVars, insVars, stopVars,
                 faults>>

EventQuit ==
  /\ evPc = "select" /\ quit
  /\ evPc' = "exited"
  /\ UNCHANGED <<persistent, call, evReq, regVars, syncVars, insVars, stopVars,
                 faults>>

-----------------------------------------------------------------------------
(* registrationLoop.                                                       *)

TakeRegister(c) ==
  /\ regPc = "select"
  /\ call[c].pc = "send" /\ call[c].op = "register"
  /\ regPc' = "call" /\ regReq' = c
  /\ call' = [call EXCEPT ![c].pc = "wait"]
  /\ UNCHANGED <<persistent, evVars, syncVars, insVars, stopVars, faults>>

\* Mutant: the error is logged but not sent to the caller.
RegistrationFails_Silent == regPc' = "select" /\ regReq' = None /\ UNCHANGED call

RegistrationFails ==
  call' = Answer(regReq, "err") /\ regPc' = "select" /\ regReq' = None

\* cc.RegisterFinalityProvider: the chain refuses a provider it has; a failed
\* call may or may not have registered it.
RegisterOnChain ==
  /\ regPc = "call"
  /\ LET k == call[regReq].key IN
       \/ /\ k \notin onChain
          /\ onChain' = onChain \union {k}
          /\ regPc' = "send" /\ UNCHANGED <<call, regReq, faults>>
       \/ k \in onChain /\ RegistrationFails /\ UNCHANGED <<onChain, faults>>
       \/ /\ k \notin onChain /\ Fault /\ RegistrationFails
          /\ onChain' \in {onChain, onChain \union {k}}
  /\ UNCHANGED <<eotsVars, storeVars, evVars, syncVars, insVars, stopVars>>

RegistrationQuit ==
  /\ regPc = "select" /\ quit
  /\ regPc' = "exited"
  /\ UNCHANGED <<persistent, call, evVars, regReq, syncVars, insVars, stopVars,
                 faults>>

-----------------------------------------------------------------------------
(* syncChainFpStatusLoop and SyncFinalityProviderStatus.                   *)

syncKey == CHOOSE k \in sync.todo : \A j \in sync.todo : k <= j

\* The loop over the providers moves on.
SyncNext(running) ==
  /\ syncPc' = "query"
  /\ sync' = [sync EXCEPT !.todo = @ \ {syncKey}, !.hasPower = FALSE,
                           !.running = @ \/ running]

\* The records are read; they are not read again.
SyncTick ==
  /\ syncPc = "select"
  /\ syncPc' = "query"
  /\ sync' = [fps |-> fps, todo |-> DOMAIN fps, hasPower |-> FALSE, running |-> FALSE]
  /\ UNCHANGED <<persistent, call, evVars, regVars, insVars, stopVars, faults>>

\* Mutant: every error counts as no voting power.
PowerKnown_Always(k) == TRUE

\* The query of the voting power succeeds, or fails with the error that counts
\* as no power, for registered providers only.  Delegations come and go, so any
\* answer is possible.
PowerKnown(k) == k \in onChain

QueryVotingPower ==
  /\ syncPc = "query" /\ sync.todo # {}
  /\ \/ /\ PowerKnown(syncKey)
        /\ syncPc' = "update"
        /\ \E hasPower \in BOOLEAN : sync' = [sync EXCEPT !.hasPower = hasPower]
        /\ UNCHANGED faults
     \/ ~PowerKnown(syncKey) /\ SyncNext(FALSE) /\ UNCHANGED faults
     \/ PowerKnown(syncKey) /\ Fault /\ SyncNext(FALSE)
  /\ UNCHANGED <<persistent, call, evVars, regVars, insVars, stopVars>>

IsRunning(k) == fpIns = k /\ isStarted

\* The status is computed from the record that was read, and stored if it is
\* a new one or ACTIVE.
UpdateStatus ==
  /\ syncPc = "update"
  /\ LET old == sync.fps[syncKey].status
         new == UpdateFpStatusFromVotingPower(sync.hasPower, old)
     IN IF IsRunning(syncKey)
        THEN SyncNext(TRUE) /\ UNCHANGED fps
        ELSE /\ fps' = IF new # old \/ new = "ACTIVE"
                       THEN [fps EXCEPT ![syncKey] = SetFpStatus(@, new)] ELSE fps
             /\ IF ShouldStart(SetFpStatus(sync.fps[syncKey], new))
                THEN syncPc' = "start" /\ UNCHANGED sync
                ELSE SyncNext(FALSE)
  /\ UNCHANGED <<eotsVars, chainKeys, onChain, call, evVars, regVars, insVars,
                 stopVars, faults>>

SyncStart ==
  /\ syncPc = "start"
  /\ IF StartRefused(syncKey)
     THEN syncPc' = "select" /\ sync' = NoSync /\ UNCHANGED insVars
     ELSE MarkStarted(syncKey) /\ syncPc' = "bootstrap" /\ UNCHANGED sync
  /\ UNCHANGED <<persistent, call, evVars, regVars, stopVars, faults>>

SyncBootstrap ==
  /\ syncPc = "bootstrap"
  /\ Bootstrap
  /\ IF looping' THEN SyncNext(TRUE) ELSE syncPc' = "select" /\ sync' = NoSync
  /\ UNCHANGED <<persistent, call, evVars, regVars, stopVars>>

\* The loop ends once an instance is found running or has been started.
SyncReturns ==
  /\ syncPc = "query" /\ sync.todo = {}
  /\ syncPc' = IF sync.running THEN "exited" ELSE "select"
  /\ sync' = NoSync
  /\ UNCHANGED <<persistent, call, evVars, regVars, insVars, stopVars, faults>>

\* Mutant: the loop listens to its ticker only.
SyncQuit_Deaf == FALSE /\ UNCHANGED vars

SyncQuit ==
  /\ syncPc = "select" /\ quit
  /\ syncPc' = "exited"
  /\ UNCHANGED <<persistent, call, evVars, regVars, sync, insVars, stopVars, faults>>

-----------------------------------------------------------------------------
(* Stop.                                                                   *)

StopCalled ==
  /\ stopPc = "no"
  /\ quit' = TRUE /\ stopPc' = "waiting"
  /\ UNCHANGED <<persistent, call, evVars, regVars, syncVars, insVars, faults>>

\* The manager stops the instance, if it is marked as started.  One that never
\* got its poller cannot be stopped.
ManagerStop ==
  /\ stopPc' = IF isStarted /\ ~looping THEN "panic" ELSE "done"
  /\ isStarted' = FALSE /\ looping' = FALSE /\ UNCHANGED fpIns

\* All loops have returned.
StopReturns ==
  /\ stopPc = "waiting" /\ {evPc, regPc, syncPc} = {"exited"}
  /\ ManagerStop
  /\ UNCHANGED <<persistent, call, evVars, regVars, syncVars, quit, faults>>

-----------------------------------------------------------------------------
Caller(c) ==
  \/ CallCreate(c) \/ CallRegister(c) \/ CallStart(c)
  \/ Answered(c) \/ CallerQuits(c) \/ StartInstance(c) \/ BootstrapInstance(c)

EventHandles ==
  CreateChainKey \/ CreateKey \/ CreateKeyReturns \/ SaveFinalityProvider \/ MarkRegistered

EventLoop == EventHandles \/ TakeRegistered \/ EventQuit \/ \E c \in Callers : TakeCreate(c)

RegistrationLoop ==
  RegisterOnChain \/ RegistrationQuit \/ \E c \in Callers : TakeRegister(c)

SyncHandles == QueryVotingPower \/ UpdateStatus \/ SyncStart \/ SyncBootstrap \/ SyncReturns

Process ==
  \/ \E c \in Callers : Caller(c)
  \/ EventLoop \/ RegistrationLoop
  \/ SyncHandles \/ SyncTick \/ SyncQuit
  \/ StopCalled \/ StopReturns

\* Nothing of the process moves after a panic.
Alive(A) == stopPc # "panic" /\ A

Next == Alive(Process) \/ Crash \/ EotsStores \/ EotsFails

Spec == Init /\ [][Next]_vars

\* A goroutine that can run does.  A select that is reached again and again
\* takes each case that is ready each time; senders on a channel are served in
\* turn.  Calls to the chain and to the EOTS manager return.  Nothing is
\* assumed of who calls, of the chain, or of Stop being called.
Fairness ==
  /\ \A c \in Callers :
       /\ WF_vars(Alive(Answered(c) \/ StartInstance(c) \/ BootstrapInstance(c)))
       /\ SF_vars(Alive(TakeCreate(c) \/ TakeRegister(c)))
  /\ WF_vars(Alive(EventHandles)) /\ WF_vars(Alive(RegisterOnChain))
  /\ WF_vars(Alive(SyncHandles)) /\ WF_vars(EotsStores) /\ WF_vars(Alive(StopReturns))
  /\ SF_vars(Alive(TakeRegistered)) /\ SF_vars(Alive(EventQuit))
  /\ SF_vars(Alive(RegistrationQuit))
  /\ SF_vars(Alive(SyncTick)) /\ SF_vars(Alive(SyncQuit))

FairSpec == Spec /\ Fairness

-----------------------------------------------------------------------------
(* Properties.                                                             *)

\* Every stored provider has its chain key, its EOTS key and the name under
\* which the EOTS manager finds that key, whatever died while it was being
\* created: handleCreateFinalityProviderRequest saves the record last.
ProvidersCanSign == \A k \in DOMAIN fps : k \in chainKeys /\ KeyRecordExists(k)

\* A record is past CREATED only if the provider is registered on the chain,
\* although both the event loop and the synchronisation write the status, each
\* from what it read earlier.
RegisteredIsOnChain ==
  \A k \in DOMAIN fps : fps[k].status # "CREATED" => k \in onChain

\* A request is answered once, and not before it has been handled: the response
\* channels have room for one answer, so a second one would block the loop.
AnsweredOnce ==
  /\ evReq # None => call[evReq].pc \in {"wait", "gone"} /\ call[evReq].reply = "none"
  /\ regReq # None => call[regReq].pc \in {"wait", "gone"} /\ call[regReq].reply = "none"
  /\ evReq = regReq => evReq = None

\* Loops run only for a provider that the chain knows
\* (startFinalityProviderInstance starts whatever instance the manager has).
RunningIsRegistered == looping => fpIns \in onChain

\* Whoever asks the event loop or the registration loop for something is
\* answered, unless the application is being stopped.
RequestAnswered ==
  \A c \in Callers :
    call[c].pc \in {"send", "wait"} ~> call[c].pc \notin {"send", "wait"} \/ quit

\* Stop waits for the loops and returns, unless the registration loop holds an
\* event that the event loop, which has returned first, will not receive.
StopTerminates ==
  stopPc = "waiting" ~>
    stopPc # "waiting" \/ (regPc = "send" /\ evPc = "exited")

Status(k) == IF k \in DOMAIN fps THEN fps[k].status ELSE "NONE"

\* A registration that reached the chain is recorded even if its answer was lost
\* or the process died before the event: the synchronisation does it, as long
\* as no instance has been started.
RegistrationRecorded ==
  \A k \in Keys :
    (k \in onChain /\ Status(k) = "CREATED") ~>
      (Status(k) # "CREATED" \/ quit \/ isStarted)
=============================================================================
