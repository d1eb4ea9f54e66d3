---------------------------- MODULE FpAppProofs ----------------------------
(***************************************************************************)
(* Proofs about the application, for any providers, callers and faults:    *)
(* stored providers can sign, no record is ahead of the chain, requests    *)
(* are answered once and none is dropped, every update finds its record,   *)
(* and loops run for registered providers only and are started once.       *)
(***************************************************************************)
EXTENDS FpApp, WellFoundedInduction, TLAPS

CallType ==
  [pc : {"idle", "send", "wait", "start", "bootstrap", "gone"}, op : Requests,
   key : Keys \union {None}, reply : {"none", "ok", "err"}]

\* Who is served by which loop.  AnsweredOnce needs that a request that has been
\* sent but not received has no answer, and that a loop has a request exactly
\* while it is handling one.
Served ==
  /\ call \in [Callers -> CallType]
  /\ evReq \in Callers \union {None}
  /\ regReq \in Callers \union {None}
  /\ evReq = None <=> evPc \in {"select", "exited"}
  /\ regReq = None <=> regPc \in {"select", "exited"}
  /\ \A c \in Callers : call[c].pc \in {"idle", "send"} => call[c].reply = "none"
  /\ \A c \in Callers : call[c].pc # "idle" => call[c].key \in Keys
  /\ AnsweredOnce

\* What has happened to a provider by the time each loop is where it is.
Progress ==
  /\ DOMAIN fps \subseteq Keys
  /\ evPc \in {"eotsKey", "eotsWait", "save"} => EventKey \in chainKeys
  /\ evPc = "registered" => EventKey \in onChain
  /\ regPc = "send" => call[regReq].key \in onChain
  /\ "todo" \in DOMAIN sync
  /\ syncPc = "update" => syncKey \in onChain
  /\ ProvidersCanSign
  /\ RegisteredIsOnChain

\* An instance is only ever created for a provider that is on the chain.
InstanceKnown ==
  /\ fpIns # None => fpIns \in onChain
  /\ looping => fpIns # None
  /\ syncPc = "bootstrap" => fpIns # None
  /\ \A c \in Callers : call[c].pc = "bootstrap" => fpIns # None

AppInv == Served /\ Progress /\ InstanceKnown

LEMMA NoneIsNoCaller == None \notin Callers /\ None \notin Keys
BY AppAssumption

\* The call of a loop that answers its request.
LEMMA AnswerType ==
  ASSUME call \in [Callers -> CallType], NEW c \in Callers, NEW r \in {"ok", "err"}
  PROVE  /\ Answer(c, r) \in [Callers -> CallType]
         /\ \A d \in Callers : d # c => Answer(c, r)[d] = call[d]
         /\ Answer(c, r)[c].pc = call[c].pc
         /\ Answer(c, r)[c].key = call[c].key
         /\ Answer(c, r)[c].op = call[c].op
BY DEF Answer, CallType

LEMMA InitApp == Init => AppInv
BY NoneIsNoCaller DEF Init, AppInv, Served, Progress, InstanceKnown, NoCall, NoSync, CallType,
   Requests, AnsweredOnce, ProvidersCanSign, RegisteredIsOnChain

LEMMA ServedStep == Served /\ Progress /\ [Next]_vars => Served'
<1> SUFFICES ASSUME Served, Progress, [Next]_vars PROVE Served' OBVIOUS
<1>keys. DOMAIN fps \subseteq Keys BY DEF Progress
<1> USE NoneIsNoCaller DEF Served, CallType, AnsweredOnce, evVars, regVars
<1>1. CASE UNCHANGED <<call, evVars, regVars>>
  BY <1>1
<1>2. CASE Crash
  BY <1>2 DEF Crash, NoCall, Requests
<1>3. ASSUME NEW c \in Callers, Caller(c) PROVE Served'
  <2>1. ASSUME NEW pc \in {"send", "start"}, NEW op \in Requests, NEW k \in Keys, NewCall(c, pc, op, k)
        PROVE  Served'
    BY <2>1 DEF NewCall
  <2>2. CASE CallCreate(c)
    BY <2>2, <2>1 DEF CallCreate, Requests
  <2>3. CASE CallRegister(c)
    BY <1>keys, <2>3, <2>1 DEF CallRegister, Requests
  <2>4. CASE CallStart(c)
    BY <1>keys, <2>4, <2>1 DEF CallStart, Requests
  <2>5. CASE Answered(c)
    <3>1. c # evReq /\ c # regReq
      BY <2>5 DEF Answered
    <3>2. call' \in [Callers -> CallType] /\ \A d \in Callers : d # c => call'[d] = call[d]
      <4>1. NoCall \in CallType /\ [call[c] EXCEPT !.pc = "start", !.reply = "none"] \in CallType
        BY Zenon DEF NoCall, Requests
      <4>2. PICK v \in CallType : call' = [call EXCEPT ![c] = v]
        BY <2>5, <4>1, Zenon DEF Answered
      <4> QED BY <4>2
    <3>3. call'[c].pc \in {"idle", "start"} /\ call'[c].reply = "none"
          /\ (call'[c].pc = "start" => call'[c].key = call[c].key)
      BY <2>5 DEF Answered, NoCall
    <3> QED BY <2>5, <3>1, <3>2, <3>3 DEF Answered
  <2>6. CASE CallerQuits(c)
    BY <2>6 DEF CallerQuits
  <2>7. CASE StartInstance(c)
    BY <2>7 DEF StartInstance, NoCall, Requests
  <2>8. CASE BootstrapInstance(c)
    BY <2>8 DEF BootstrapInstance, NoCall, Requests
  <2> QED BY <1>3, <2>2, <2>3, <2>4, <2>5, <2>6, <2>7, <2>8 DEF Caller
<1>4. ASSUME evReq # None, NEW r \in {"ok", "err"}, EventAnswers(r), UNCHANGED regVars PROVE Served'
  <2>1. /\ call' \in [Callers -> CallType]
        /\ \A d \in Callers : d # evReq => call'[d] = call[d]
        /\ call'[evReq].pc = call[evReq].pc /\ call'[evReq].key = call[evReq].key
    BY <1>4, AnswerType DEF EventAnswers
  <2> QED BY <1>4, <2>1 DEF EventAnswers
<1>5. CASE EventHandles
  <2>1. evReq # None
    BY <1>5 DEF EventHandles, CreateChainKey, CreateKey, CreateKeyReturns, SaveFinalityProvider, MarkRegistered
  <2>2. UNCHANGED regVars
    BY <1>5 DEF EventHandles, CreateChainKey, CreateKey, CreateKeyReturns, SaveFinalityProvider, MarkRegistered
  <2>3. \/ \E r \in {"ok", "err"} : EventAnswers(r)
        \/ UNCHANGED <<call, evReq>> /\ evPc' \in {"save", "eotsKey", "eotsWait"}
    BY <1>5 DEF EventHandles, CreateChainKey, CreateKey, CreateKeyReturns, SaveFinalityProvider,
       MarkRegistered, CreateKeyFails
  <2> QED BY <2>1, <2>2, <2>3, <1>4
<1>6. CASE TakeRegistered
  BY <1>6 DEF TakeRegistered
<1>7. CASE EventQuit
  BY <1>7 DEF EventQuit
<1>8. ASSUME NEW c \in Callers, TakeCreate(c) PROVE Served'
  BY <1>8 DEF TakeCreate
<1>9. ASSUME NEW c \in Callers, TakeRegister(c) PROVE Served'
  BY <1>9 DEF TakeRegister
<1>10. CASE RegisterOnChain
  <2>1. regReq \in Callers
    BY <1>10 DEF RegisterOnChain
  <2>2. CASE RegistrationFails
    <3>1. /\ call' \in [Callers -> CallType]
          /\ \A d \in Callers : d # regReq => call'[d] = call[d]
          /\ call'[regReq].pc = call[regReq].pc /\ call'[regReq].key = call[regReq].key
      BY <2>1, <2>2, AnswerType DEF RegistrationFails
    <3> QED BY <1>10, <2>1, <2>2, <3>1 DEF RegistrationFails, RegisterOnChain
  <2>3. CASE regPc' = "send" /\ UNCHANGED <<call, regReq>>
    BY <1>10, <2>3 DEF RegisterOnChain
  <2> QED BY <1>10, <2>2, <2>3 DEF RegisterOnChain
<1>11. CASE RegistrationQuit
  BY <1>11 DEF RegistrationQuit
<1>12. CASE SyncHandles \/ SyncTick \/ SyncQuit \/ StopCalled \/ StopReturns \/ EotsStores \/ EotsFails
  BY <1>12, <1>1, Zenon DEF SyncHandles, QueryVotingPower, UpdateStatus, SyncStart, SyncBootstrap, SyncReturns,
     SyncTick, SyncQuit, StopCalled, StopReturns, EotsStores, EotsFails
<1>13. CASE UNCHANGED vars
  BY <1>13, <1>1 DEF vars
<1> QED
  BY <1>2, <1>3, <1>5, <1>6, <1>7, <1>8, <1>9, <1>10, <1>11, <1>12, <1>13, Zenon
  DEF Next, Alive, Process, EventLoop, RegistrationLoop

\* A loop finds in the request it handles what was asked and for which key.
LEMMA RequestKept ==
  ASSUME Served, NEW c \in Callers, c \in {evReq, regReq},
         Process \/ EotsStores \/ EotsFails \/ UNCHANGED vars
  PROVE  call'[c].key = call[c].key /\ call'[c].op = call[c].op
<1> USE NoneIsNoCaller DEF Served, CallType, AnsweredOnce
<1>1. CASE UNCHANGED call
  BY <1>1
<1>2. ASSUME NEW d \in Callers, Caller(d) PROVE call'[c].key = call[c].key /\ call'[c].op = call[c].op
  BY <1>2 DEF Caller, CallCreate, CallRegister, CallStart, NewCall, Answered, CallerQuits, StartInstance,
     BootstrapInstance
<1>3. ASSUME NEW d \in Callers, TakeCreate(d) \/ TakeRegister(d) PROVE call'[c].key = call[c].key /\ call'[c].op = call[c].op
  BY <1>3 DEF TakeCreate, TakeRegister
<1>4. ASSUME NEW d \in {evReq, regReq}, NEW r \in {"ok", "err"}, call' = Answer(d, r)
      PROVE  call'[c].key = call[c].key /\ call'[c].op = call[c].op
  BY <1>4 DEF Answer
<1>5. CASE EventHandles \/ TakeRegistered \/ EventQuit
  <2>1. UNCHANGED call \/ \E r \in {"ok", "err"} : call' = Answer(evReq, r)
    BY <1>5 DEF EventHandles, CreateChainKey, CreateKey, CreateKeyReturns, SaveFinalityProvider,
       MarkRegistered, CreateKeyFails, EventAnswers, TakeRegistered, EventQuit
  <2> QED BY <2>1, <1>1, <1>4
<1>6. CASE RegisterOnChain \/ RegistrationQuit
  <2>1. UNCHANGED call \/ call' = Answer(regReq, "err")
    BY <1>6 DEF RegisterOnChain, RegistrationFails, RegistrationQuit
  <2> QED BY <2>1, <1>1, <1>4
<1>7. CASE SyncHandles \/ SyncTick \/ SyncQuit \/ StopCalled \/ StopReturns \/ EotsStores \/ EotsFails
           \/ UNCHANGED vars
  BY <1>7, Zenon DEF SyncHandles, QueryVotingPower, UpdateStatus, SyncStart, SyncBootstrap, SyncReturns,
     SyncTick, SyncQuit, StopCalled, StopReturns, EotsStores, EotsFails, vars
<1> QED BY <1>2, <1>3, <1>5, <1>6, <1>7 DEF Process, EventLoop, RegistrationLoop

\* Keyrings, key names and registrations are never taken back.
LEMMA KeysGrow ==
  ASSUME [Next]_vars
  PROVE  /\ chainKeys \subseteq chainKeys' /\ onChain \subseteq onChain'
         /\ eotsKeys \subseteq eotsKeys' /\ eotsNames \subseteq eotsNames'
<1> USE DEF persistent, eotsVars, storeVars
<1>1. CASE EventHandles
  BY <1>1 DEF EventHandles, CreateChainKey, CreateKey, CreateKeyReturns, SaveFinalityProvider,
     MarkRegistered, NewAccount
<1>2. CASE RegisterOnChain
  BY <1>2 DEF RegisterOnChain
<1>3. CASE EotsStores \/ EotsFails \/ Crash \/ UNCHANGED vars
  BY <1>3 DEF EotsStores, EotsFails, AddEOTSKeyName, EotsCrash, Crash, vars
<1>4. CASE UNCHANGED persistent
  BY <1>4
<1>5. ASSUME NEW c \in Callers, Caller(c) \/ TakeCreate(c) \/ TakeRegister(c) PROVE UNCHANGED persistent
  BY <1>5 DEF Caller, CallCreate, CallRegister, CallStart, NewCall, Answered, CallerQuits, StartInstance,
     BootstrapInstance, TakeCreate, TakeRegister
<1>6. CASE TakeRegistered \/ EventQuit \/ RegistrationQuit \/ SyncTick \/ SyncQuit \/ StopCalled \/ StopReturns
  BY <1>6 DEF TakeRegistered, EventQuit, RegistrationQuit, SyncTick, SyncQuit, StopCalled, StopReturns
<1>7. CASE SyncHandles
  BY <1>7, Zenon DEF SyncHandles, QueryVotingPower, UpdateStatus, SyncStart, SyncBootstrap, SyncReturns
<1> QED
  BY <1>1, <1>2, <1>3, <1>4, <1>5, <1>6, <1>7 DEF Next, Alive, Process, EventLoop, RegistrationLoop

\* Who may write the records: the event loop, which saves or marks one, and the
\* synchronisation.
LEMMA RecordWriters ==
  ASSUME [Next]_vars
  PROVE  fps' = fps \/ SaveFinalityProvider \/ MarkRegistered \/ UpdateStatus
<1> USE DEF persistent, storeVars
<1>1. CASE EventHandles
  BY <1>1 DEF EventHandles, CreateChainKey, CreateKey, CreateKeyReturns
<1>2. CASE RegisterOnChain
  BY <1>2 DEF RegisterOnChain
<1>3. CASE EotsStores \/ EotsFails \/ Crash \/ UNCHANGED vars
  BY <1>3 DEF EotsStores, EotsFails, Crash, vars
<1>5. ASSUME NEW c \in Callers, Caller(c) \/ TakeCreate(c) \/ TakeRegister(c) PROVE UNCHANGED persistent
  BY <1>5 DEF Caller, CallCreate, CallRegister, CallStart, NewCall, Answered, CallerQuits, StartInstance,
     BootstrapInstance, TakeCreate, TakeRegister
<1>6. CASE TakeRegistered \/ EventQuit \/ RegistrationQuit \/ SyncTick \/ SyncQuit \/ StopCalled \/ StopReturns
  BY <1>6 DEF TakeRegistered, EventQuit, RegistrationQuit, SyncTick, SyncQuit, StopCalled, StopReturns
<1>7. CASE SyncHandles
  BY <1>7, Zenon DEF SyncHandles, QueryVotingPower, UpdateStatus, SyncStart, SyncBootstrap, SyncReturns
<1> QED
  BY <1>1, <1>2, <1>3, <1>5, <1>6, <1>7 DEF Next, Alive, Process, EventLoop, RegistrationLoop

\* A record is saved last, and its status is raised only after the chain has
\* been seen to know the provider.
LEMMA RecordsStep ==
  ASSUME Served, Progress, [Next]_vars
  PROVE  DOMAIN fps' \subseteq Keys /\ ProvidersCanSign' /\ RegisteredIsOnChain'
<1> USE KeysGrow DEF Progress, ProvidersCanSign, RegisteredIsOnChain, KeyRecordExists, KeyExists, GetEOTSKeyName
<1>1. CASE fps' = fps
  BY <1>1
<1>2. CASE SaveFinalityProvider
  <2>1. EventKey \in Keys /\ EventKey \in chainKeys
    BY <1>2, NoneIsNoCaller DEF SaveFinalityProvider, Served, AnsweredOnce, EventKey
  <2>2. CASE MaySave(EventKey) /\ fps' = AddFinalityProvider(EventKey)
    <3>1. DOMAIN fps' = DOMAIN fps \union {EventKey}
      BY <2>2 DEF AddFinalityProvider
    <3>2. \A k \in DOMAIN fps : fps'[k] = fps[k]
      BY <2>2 DEF AddFinalityProvider
    <3>3. fps'[EventKey].status = "CREATED"
      BY <2>2 DEF MaySave, CreateFinalityProvider, AddFinalityProvider
    <3> QED BY <2>1, <2>2, <3>1, <3>2, <3>3 DEF MaySave
  <2> QED BY <1>1, <1>2, <2>2 DEF SaveFinalityProvider
<1>3. CASE MarkRegistered
  <2>1. EventKey \in onChain
    BY <1>3 DEF MarkRegistered
  <2> QED BY <1>3, <2>1 DEF MarkRegistered
<1>4. CASE UpdateStatus
  <2>1. syncKey \in onChain
    BY <1>4 DEF UpdateStatus
  <2>2. fps' = fps \/ \E new : fps' = [fps EXCEPT ![syncKey] = SetFpStatus(fps[syncKey], new)]
    BY <1>4, Zenon DEF UpdateStatus
  <2> QED BY <1>1, <2>1, <2>2
<1> QED BY <1>1, <1>2, <1>3, <1>4, RecordWriters

LEMMA ProgressStep ==
  ASSUME Served, Progress, [Next]_vars
  PROVE  Progress'
<1>1. CASE Crash
  BY <1>1, RecordsStep, Zenon DEF Crash, Progress, NoSync
<1> SUFFICES ASSUME Process \/ EotsStores \/ EotsFails \/ UNCHANGED vars PROVE Progress'
  BY <1>1 DEF Next, Alive
<1>2. evReq # None => evReq \in Callers /\ call'[evReq].key = call[evReq].key
  BY RequestKept DEF Served
<1>3. regReq # None => regReq \in Callers /\ call'[regReq].key = call[regReq].key
  BY RequestKept DEF Served
<1> USE KeysGrow DEF Served, Progress, EventKey
<1> DEFINE Created == evPc \in {"eotsKey", "eotsWait", "save"} => EventKey \in chainKeys
           Accepted == evPc = "registered" => EventKey \in onChain
           Sent == regPc = "send" => call[regReq].key \in onChain
           Known == "todo" \in DOMAIN sync /\ (syncPc = "update" => syncKey \in onChain)
<1>4. Created' /\ Accepted'
  <2>1. CASE UNCHANGED evVars
    BY <1>2, <2>1, NoneIsNoCaller DEF evVars
  <2>2. CASE EventHandles
    BY <1>2, <2>2, NoneIsNoCaller DEF EventHandles, CreateChainKey, CreateKey, CreateKeyReturns,
       SaveFinalityProvider, MarkRegistered, CreateKeyFails, EventAnswers
  <2>3. CASE TakeRegistered
    BY <1>3, <2>3, NoneIsNoCaller DEF TakeRegistered
  <2>4. CASE EventQuit \/ \E c \in Callers : TakeCreate(c)
    BY <2>4 DEF EventQuit, TakeCreate
  <2>5. CASE RegistrationLoop
    BY <2>1, <2>5 DEF RegistrationLoop, RegisterOnChain, RegistrationQuit, TakeRegister
  <2>6. CASE \E c \in Callers : Caller(c)
    BY <2>1, <2>6 DEF Caller, CallCreate, CallRegister, CallStart, NewCall, Answered, CallerQuits,
       StartInstance, BootstrapInstance
  <2>7. CASE SyncHandles \/ SyncTick \/ SyncQuit \/ StopCalled \/ StopReturns \/ EotsStores \/ EotsFails
             \/ UNCHANGED vars
    BY <2>1, <2>7, Zenon DEF SyncHandles, QueryVotingPower, UpdateStatus, SyncStart, SyncBootstrap, SyncReturns,
       SyncTick, SyncQuit, StopCalled, StopReturns, EotsStores, EotsFails, vars
  <2> QED BY <2>2, <2>3, <2>4, <2>5, <2>6, <2>7 DEF Process, EventLoop
<1>5. Sent'
  <2>1. CASE UNCHANGED regVars
    BY <1>3, <2>1, NoneIsNoCaller DEF regVars
  <2>2. CASE RegisterOnChain
    BY <1>3, <2>2, NoneIsNoCaller DEF RegisterOnChain, RegistrationFails
  <2>3. CASE RegistrationQuit \/ TakeRegistered \/ \E c \in Callers : TakeRegister(c)
    BY <2>3 DEF RegistrationQuit, TakeRegistered, TakeRegister
  <2>4. CASE EventHandles \/ EventQuit \/ \E c \in Callers : TakeCreate(c)
    BY <2>1, <2>4 DEF EventHandles, CreateChainKey, CreateKey, CreateKeyReturns, SaveFinalityProvider,
       MarkRegistered, EventQuit, TakeCreate
  <2>6. CASE \E c \in Callers : Caller(c)
    BY <2>1, <2>6 DEF Caller, CallCreate, CallRegister, CallStart, NewCall, Answered, CallerQuits,
       StartInstance, BootstrapInstance
  <2>7. CASE SyncHandles \/ SyncTick \/ SyncQuit \/ StopCalled \/ StopReturns \/ EotsStores \/ EotsFails
             \/ UNCHANGED vars
    BY <2>1, <2>7, Zenon DEF SyncHandles, QueryVotingPower, UpdateStatus, SyncStart, SyncBootstrap, SyncReturns,
       SyncTick, SyncQuit, StopCalled, StopReturns, EotsStores, EotsFails, vars
  <2> QED BY <2>2, <2>3, <2>4, <2>6, <2>7 DEF Process, EventLoop, RegistrationLoop
<1>6. Known'
  <2>1. CASE UNCHANGED syncVars
    BY <2>1 DEF syncVars, syncKey
  <2>2. CASE QueryVotingPower
    <3>1. CASE SyncNext(FALSE)
      BY <3>1 DEF SyncNext
    <3>2. CASE PowerKnown(syncKey) /\ \E hasPower \in BOOLEAN : sync' = [sync EXCEPT !.hasPower = hasPower]
      <4>1. sync'.todo = sync.todo /\ "todo" \in DOMAIN sync'
        BY <3>2
      <4>2. syncKey' = syncKey
        BY <4>1 DEF syncKey
      <4> QED BY <3>2, <4>1, <4>2 DEF PowerKnown
    <3> QED BY <2>2, <3>1, <3>2, Zenon DEF QueryVotingPower
  <2>3. CASE UpdateStatus \/ SyncStart \/ SyncBootstrap \/ SyncReturns \/ SyncTick \/ SyncQuit
    BY <2>3, Zenon DEF UpdateStatus, SyncStart, SyncBootstrap, SyncReturns, SyncTick, SyncQuit, SyncNext,
       NoSync
  <2>4. CASE EventLoop \/ RegistrationLoop
    BY <2>1, <2>4 DEF EventLoop, EventHandles, CreateChainKey, CreateKey, CreateKeyReturns,
       SaveFinalityProvider, MarkRegistered, TakeRegistered, EventQuit, TakeCreate, RegistrationLoop,
       RegisterOnChain, RegistrationQuit, TakeRegister
  <2>6. CASE \E c \in Callers : Caller(c)
    BY <2>1, <2>6 DEF Caller, CallCreate, CallRegister, CallStart, NewCall, Answered, CallerQuits,
       StartInstance, BootstrapInstance
  <2>7. CASE StopCalled \/ StopReturns \/ EotsStores \/ EotsFails \/ UNCHANGED vars
    BY <2>1, <2>7 DEF StopCalled, StopReturns, EotsStores, EotsFails, vars
  <2> QED BY <2>2, <2>3, <2>4, <2>6, <2>7 DEF Process, SyncHandles
<1> QED BY <1>4, <1>5, <1>6, RecordsStep

\* A start that is not refused leaves an instance of a provider on the chain: the
\* status in its record is past CREATED.
LEMMA StartedIsKnown ==
  ASSUME Progress, InstanceKnown, NEW k, ~StartRefused(k), MarkStarted(k)
  PROVE  fpIns' # None /\ fpIns' \in onChain
BY NoneIsNoCaller DEF Progress, InstanceKnown, StartRefused, MarkStarted, ShouldStart, RegisteredIsOnChain

\* Only StartInstance brings a caller to the start of the loops.
LEMMA StartersKept ==
  ASSUME Served,
         \/ \E c \in Callers : Caller(c) /\ ~StartInstance(c)
         \/ EventLoop \/ RegistrationLoop
  PROVE  \A d \in Callers : call'[d].pc = "bootstrap" => call[d].pc = "bootstrap"
<1> USE DEF Served, CallType
<1>1. ASSUME NEW c \in Callers, NEW v, v.pc # "bootstrap", call' = [call EXCEPT ![c] = v]
      PROVE  \A d \in Callers : call'[d].pc = "bootstrap" => call[d].pc = "bootstrap"
  BY <1>1
<1>2. ASSUME NEW c \in Callers, Caller(c), ~StartInstance(c)
      PROVE  \A d \in Callers : call'[d].pc = "bootstrap" => call[d].pc = "bootstrap"
  <2>0. NoCall.pc = "idle"
    BY DEF NoCall
  <2>1. CASE CallCreate(c) \/ CallRegister(c) \/ CallStart(c)
    <3>1. PICK pc \in {"send", "start"}, op \in Requests, k \in Keys \union DOMAIN fps : NewCall(c, pc, op, k)
      BY <2>1 DEF CallCreate, CallRegister, CallStart, Requests
    <3> QED BY <3>1 DEF NewCall
  <2>2. CASE Answered(c)
    <3>1. PICK v \in {NoCall, [call[c] EXCEPT !.pc = "start", !.reply = "none"]} :
             call' = [call EXCEPT ![c] = v]
      BY <2>2, Zenon DEF Answered
    <3>2. [call[c] EXCEPT !.pc = "start", !.reply = "none"].pc = "start"
      OBVIOUS
    <3>3. v.pc # "bootstrap"
      BY <3>1, <2>0, <3>2, Zenon
    <3> QED BY <1>1, <3>1, <3>3
  <2>3. CASE CallerQuits(c)
    BY <2>3 DEF CallerQuits
  <2>4. CASE BootstrapInstance(c)
    BY <1>1, <2>0, <2>4 DEF BootstrapInstance
  <2> QED BY <1>2, <2>1, <2>2, <2>3, <2>4 DEF Caller
<1>3. CASE EventLoop \/ RegistrationLoop
  <2>1. \/ UNCHANGED call
        \/ \E c \in Callers, r \in {"ok", "err"} : call' = Answer(c, r)
        \/ \E c \in Callers : call' = [call EXCEPT ![c].pc = "wait"]
    BY <1>3, NoneIsNoCaller, Zenon DEF EventLoop, EventHandles, CreateChainKey, CreateKey, CreateKeyReturns,
       CreateKeyFails, EventAnswers, SaveFinalityProvider, MarkRegistered, TakeRegistered, EventQuit,
       TakeCreate, RegistrationLoop, RegisterOnChain, RegistrationFails, RegistrationQuit, TakeRegister
  <2>2. ASSUME NEW c \in Callers, NEW r \in {"ok", "err"}, call' = Answer(c, r), NEW d \in Callers
        PROVE  call'[d].pc = call[d].pc
    BY <2>2 DEF Answer
  <2>3. ASSUME NEW c \in Callers, call' = [call EXCEPT ![c].pc = "wait"], NEW d \in Callers
        PROVE  call'[d].pc \in {"wait", call[d].pc}
    BY <2>3
  <2> QED BY <2>1, <2>2, <2>3
<1> QED BY <1>2, <1>3

LEMMA InstanceStep ==
  ASSUME Served, Progress, InstanceKnown, [Next]_vars
  PROVE  InstanceKnown'
<1> USE KeysGrow, NoneIsNoCaller DEF InstanceKnown
<1>1. CASE Crash
  BY <1>1 DEF Crash, NoCall
<1>2. ASSUME UNCHANGED <<insVars, syncVars>>,
             \A c \in Callers : call'[c].pc = "bootstrap" => call[c].pc = "bootstrap"
      PROVE  InstanceKnown'
  BY <1>2 DEF insVars, syncVars
<1>3. ASSUME NEW c \in Callers, Caller(c) PROVE InstanceKnown'
  <2>1. CASE StartInstance(c)
    <3>1. CASE StartRefused(call[c].key)
      BY <2>1, <3>1 DEF StartInstance, NoCall, insVars, syncVars, Served, CallType
    <3>2. CASE ~StartRefused(call[c].key)
      <4>1. fpIns' # None /\ fpIns' \in onChain
        BY <2>1, <3>2, StartedIsKnown DEF StartInstance
      <4> QED BY <4>1
    <3> QED BY <3>1, <3>2
  <2>2. CASE BootstrapInstance(c)
    BY <2>2 DEF BootstrapInstance, Bootstrap, NoCall, insVars, syncVars, Served, CallType
  <2>3. CASE ~StartInstance(c) /\ ~BootstrapInstance(c)
    <3>1. UNCHANGED <<insVars, syncVars>>
      BY <1>3, <2>3 DEF Caller, CallCreate, CallRegister, CallStart, NewCall, Answered, CallerQuits
    <3> QED BY <1>2, <1>3, <2>3, <3>1, StartersKept
  <2> QED BY <2>1, <2>2, <2>3
<1>4. CASE EventLoop \/ RegistrationLoop
  <2>1. UNCHANGED <<insVars, syncVars>>
    BY <1>4 DEF EventLoop, EventHandles, CreateChainKey, CreateKey, CreateKeyReturns,
       SaveFinalityProvider, MarkRegistered, TakeRegistered, EventQuit, TakeCreate, RegistrationLoop,
       RegisterOnChain, RegistrationQuit, TakeRegister
  <2> QED BY <1>2, <1>4, <2>1, StartersKept
<1>5. CASE SyncStart
  <2>1. CASE StartRefused(syncKey)
    BY <1>5, <2>1 DEF SyncStart, insVars
  <2>2. CASE ~StartRefused(syncKey)
    <3>1. fpIns' # None /\ fpIns' \in onChain
      BY <1>5, <2>2, StartedIsKnown DEF SyncStart
    <3> QED BY <3>1
  <2> QED BY <2>1, <2>2
<1>6. CASE SyncBootstrap
  BY <1>6 DEF SyncBootstrap, Bootstrap, SyncNext, insVars
<1>7. CASE QueryVotingPower \/ UpdateStatus \/ SyncReturns \/ SyncTick \/ SyncQuit
  BY <1>7 DEF QueryVotingPower, UpdateStatus, SyncReturns, SyncTick, SyncQuit, SyncNext, insVars
<1>8. CASE StopCalled \/ StopReturns
  BY <1>8 DEF StopCalled, StopReturns, ManagerStop, insVars, syncVars
<1>9. CASE EotsStores \/ EotsFails \/ UNCHANGED vars
  BY <1>9, <1>2 DEF EotsStores, EotsFails, vars
<1> QED
  BY <1>1, <1>3, <1>4, <1>5, <1>6, <1>7, <1>8, <1>9 DEF Next, Alive, Process, SyncHandles

LEMMA AppInvariant == Spec => []AppInv
<1>1. AppInv /\ [Next]_vars => AppInv'
  BY ServedStep, ProgressStep, InstanceStep DEF AppInv
<1> QED BY <1>1, InitApp, PTL DEF Spec

(***************************************************************************)
(* Every stored provider has its chain key, its EOTS key and its name,     *)
(* whatever died while handleCreateFinalityProviderRequest created them    *)
(* (app.go), for any number of providers and callers.                      *)
(***************************************************************************)
THEOREM StoredProvidersCanSign == Spec => []ProvidersCanSign
BY AppInvariant, PTL DEF AppInv, Progress

(***************************************************************************)
(* Neither the event loop nor the synchronisation records a status past    *)
(* CREATED before the chain has the provider (app.go).                     *)
(***************************************************************************)
THEOREM StatusFollowsChain == Spec => []RegisteredIsOnChain
BY AppInvariant, PTL DEF AppInv, Progress

(***************************************************************************)
(* The event loop and the registration loop answer a request once, so the  *)
(* send of an answer never blocks them (app.go).                           *)
(***************************************************************************)
THEOREM RequestsAnsweredOnce == Spec => []AnsweredOnce
BY AppInvariant, PTL DEF AppInv, Served

(***************************************************************************)
(* The loops of an instance run only for a provider that is registered     *)
(* (fp_manager.go, startFinalityProviderInstance).                         *)
(***************************************************************************)
THEOREM LoopsRunRegistered == Spec => []RunningIsRegistered
<1>1. AppInv => RunningIsRegistered
  BY DEF AppInv, InstanceKnown, RunningIsRegistered
<1> QED BY <1>1, AppInvariant, PTL

-----------------------------------------------------------------------------
(* The records that the loops update, and the requests they hold.          *)

\* The event loop, the synchronisation and the running instance each find the
\* record they are about to update.
RecordsFound ==
  /\ evPc = "registered" => EventKey \in DOMAIN fps
  /\ syncPc \in {"update", "start", "bootstrap"} => syncKey \in DOMAIN fps
  /\ fpIns # None => fpIns \in DOMAIN fps

\* A request that has been taken but not answered is in the hands of a loop.
NoRequestDropped ==
  \A c \in Callers : call[c].pc = "wait" /\ call[c].reply = "none" => c \in {evReq, regReq}

\* Registrations and starts are asked for stored providers, each loop holds a
\* request of its kind, and the synchronisation goes through records it has read.
Requested ==
  /\ \A c \in Callers : call[c].pc # "idle" /\ call[c].op \in {"register", "start"}
                          => call[c].key \in DOMAIN fps
  /\ regReq # None => call[regReq].op = "register"
  /\ evPc = "registered" => call[evReq].op = "register"
  /\ {"fps", "todo"} \subseteq DOMAIN sync
  /\ sync.todo \subseteq DOMAIN sync.fps /\ DOMAIN sync.fps \subseteq DOMAIN fps
  /\ syncPc \in {"update", "start", "bootstrap"} => sync.todo # {}
  /\ fpIns # None => fpIns \in DOMAIN fps

LEMMA LeastChosen ==
  ASSUME NEW T \in SUBSET Nat, T # {}
  PROVE  (CHOOSE k \in T : \A j \in T : k <= j) \in T
<1>1. PICK k \in T : \A j \in T : ~(<<j, k>> \in OpToRel(<, Nat))
  BY NatLessThanWellFounded, WFMin, Zenon
<1>2. \A j \in T : ~(j < k)
  BY <1>1, Zenon DEF OpToRel
<1>3. \A j \in T : k <= j
  BY <1>2
<1> QED BY <1>3, Zenon

\* The provider the synchronisation is at is one it has still to do.
LEMMA SyncKeyTodo ==
  ASSUME Progress, Requested, sync.todo # {}
  PROVE  syncKey \in sync.todo /\ syncKey \in DOMAIN fps
<1>1. sync.todo \in SUBSET Nat
  BY AppAssumption, Zenon DEF Progress, Requested
<1> QED BY <1>1, LeastChosen DEF Requested, syncKey

\* Records are never removed.
LEMMA RecordsKept ==
  ASSUME [Next]_vars
  PROVE  DOMAIN fps \subseteq DOMAIN fps'
<1>1. CASE SaveFinalityProvider
  <2>1. fps' = fps \/ fps' = AddFinalityProvider(EventKey)
    BY <1>1 DEF SaveFinalityProvider
  <2> QED BY <2>1 DEF AddFinalityProvider
<1>2. CASE MarkRegistered
  BY <1>2 DEF MarkRegistered
<1>3. CASE UpdateStatus
  <2>1. fps' = fps \/ \E new : fps' = [fps EXCEPT ![syncKey] = SetFpStatus(fps[syncKey], new)]
    BY <1>3, Zenon DEF UpdateStatus
  <2> QED BY <2>1
<1> QED BY <1>1, <1>2, <1>3, RecordWriters

\* How a step of the process changes what a caller asks for: not at all, or the
\* call ends, or a new one is made, for a stored provider unless it is to create
\* one.
LEMMA CallsChange ==
  ASSUME Served, Process \/ EotsStores \/ EotsFails \/ UNCHANGED vars, NEW d \in Callers
  PROVE  \/ call[d].pc # "idle" /\ call'[d].op = call[d].op /\ call'[d].key = call[d].key
         \/ call'[d].pc = "idle"
         \/ call'[d].op \notin {"register", "start"}
         \/ call'[d].key \in DOMAIN fps
<1> USE DEF Served, CallType
<1>1. CASE UNCHANGED call
  BY <1>1
<1>2. ASSUME NEW c \in Callers, NEW p, call' = [call EXCEPT ![c].pc = p], call[c].pc # "idle"
      PROVE  \/ call'[d] = call[d]
             \/ call[d].pc # "idle" /\ call'[d].op = call[d].op /\ call'[d].key = call[d].key
  BY <1>2
<1>3. ASSUME NEW c \in Callers, call' = [call EXCEPT ![c] = NoCall]
      PROVE  call'[d] = call[d] \/ call'[d].pc = "idle"
  BY <1>3 DEF NoCall
<1>4. ASSUME NEW c \in Callers, Caller(c)
      PROVE  \/ call'[d] = call[d]
             \/ call[d].pc # "idle" /\ call'[d].op = call[d].op /\ call'[d].key = call[d].key
             \/ call'[d].pc = "idle"
             \/ call'[d].op \notin {"register", "start"}
             \/ call'[d].key \in DOMAIN fps
  <2>1. CASE CallCreate(c)
    BY <2>1 DEF CallCreate, NewCall
  <2>2. CASE CallRegister(c) \/ CallStart(c)
    <3>1. PICK pc \in {"send", "start"}, op \in Requests, k \in DOMAIN fps : NewCall(c, pc, op, k)
      BY <2>2, Zenon DEF CallRegister, CallStart, Requests
    <3>2. d # c => call'[d] = call[d]
      BY <3>1 DEF NewCall
    <3>3. call'[c].key = k
      BY <3>1 DEF NewCall
    <3> QED BY <3>1, <3>2, <3>3
  <2>3. CASE Answered(c)
    <3>1. \/ call' = [call EXCEPT ![c] = NoCall]
          \/ call' = [call EXCEPT ![c] = [call[c] EXCEPT !.pc = "start", !.reply = "none"]]
      BY <2>3, Zenon DEF Answered
    <3>2. CASE call' = [call EXCEPT ![c] = [call[c] EXCEPT !.pc = "start", !.reply = "none"]]
      <4>1. \A v : v = [call[c] EXCEPT !.pc = "start", !.reply = "none"]
                  => v.op = call[c].op /\ v.key = call[c].key
        OBVIOUS
      <4>2. call[c].pc # "idle"
        BY <2>3 DEF Answered
      <4>3. d # c => call'[d] = call[d]
        BY <3>2
      <4> QED BY <3>2, <4>1, <4>2, <4>3
    <3> QED BY <3>1, <3>2, <1>3
  <2>4. CASE CallerQuits(c)
    BY <2>4, <1>2 DEF CallerQuits
  <2>5. CASE StartInstance(c)
    <3>1. \/ call' = [call EXCEPT ![c] = NoCall]
          \/ call[c].pc # "idle" /\ call' = [call EXCEPT ![c].pc = "bootstrap"]
      BY <2>5 DEF StartInstance
    <3> QED BY <3>1, <1>2, <1>3
  <2>6. CASE BootstrapInstance(c)
    BY <2>6, <1>3, Zenon DEF BootstrapInstance
  <2> QED BY <1>4, <2>1, <2>2, <2>3, <2>4, <2>5, <2>6, Zenon DEF Caller
<1>5. ASSUME NEW c \in Callers, NEW r \in {"ok", "err"}, call' = Answer(c, r)
      PROVE  call'[d].pc = call[d].pc /\ call'[d].op = call[d].op /\ call'[d].key = call[d].key
  BY <1>5 DEF Answer
<1>6. CASE EventLoop \/ RegistrationLoop
  <2>1. \/ UNCHANGED call
        \/ \E c \in Callers, r \in {"ok", "err"} : call' = Answer(c, r)
        \/ \E c \in Callers : call[c].pc # "idle" /\ call' = [call EXCEPT ![c].pc = "wait"]
    BY <1>6, NoneIsNoCaller DEF EventLoop, EventHandles, CreateChainKey, CreateKey, CreateKeyReturns,
       CreateKeyFails, EventAnswers, SaveFinalityProvider, MarkRegistered, TakeRegistered, EventQuit,
       TakeCreate, RegistrationLoop, RegisterOnChain, RegistrationFails, RegistrationQuit, TakeRegister
  <2> QED BY <2>1, <1>2, <1>5
<1>7. CASE SyncHandles \/ SyncTick \/ SyncQuit \/ StopCalled \/ StopReturns \/ EotsStores \/ EotsFails
           \/ UNCHANGED vars
  BY <1>7, <1>1, Zenon DEF SyncHandles, QueryVotingPower, UpdateStatus, SyncStart, SyncBootstrap, SyncReturns,
     SyncTick, SyncQuit, StopCalled, StopReturns, EotsStores, EotsFails, vars
<1>8. CASE \E c \in Callers : Caller(c)
  <2>1. PICK c \in Callers : Caller(c)
    BY <1>8
  <2> QED BY <2>1, <1>4
<1> QED BY <1>6, <1>7, <1>8 DEF Process

LEMMA RequestedStep ==
  ASSUME Served, Progress, Requested, [Next]_vars
  PROVE  Requested'
<1>1. CASE Crash
  <2>1. \A c \in Callers : call'[c].pc = "idle"
    BY <1>1 DEF Crash, NoCall
  <2>2. sync'.fps = << >> /\ sync'.todo = {} /\ {"fps", "todo"} \subseteq DOMAIN sync'
    BY <1>1 DEF Crash, NoSync
  <2>3. regReq' = None /\ evPc' = "select" /\ syncPc' = "select" /\ fpIns' = None
    BY <1>1 DEF Crash
  <2>4. DOMAIN sync'.fps = {}
    BY <2>2
  <2> QED BY <2>1, <2>2, <2>3, <2>4 DEF Requested
<1> SUFFICES ASSUME Process \/ EotsStores \/ EotsFails \/ UNCHANGED vars PROVE Requested'
  BY <1>1 DEF Next, Alive
<1> DEFINE Stored == \A c \in Callers : call[c].pc # "idle" /\ call[c].op \in {"register", "start"}
                                          => call[c].key \in DOMAIN fps
           Registers == regReq # None => call[regReq].op = "register"
           Recorded == evPc = "registered" => call[evReq].op = "register"
           Read == /\ {"fps", "todo"} \subseteq DOMAIN sync
                   /\ sync.todo \subseteq DOMAIN sync.fps /\ DOMAIN sync.fps \subseteq DOMAIN fps
                   /\ syncPc \in {"update", "start", "bootstrap"} => sync.todo # {}
           Created == fpIns # None => fpIns \in DOMAIN fps
<1>2. Stored /\ Registers /\ Recorded /\ Read /\ Created
  BY DEF Requested
<1>3. DOMAIN fps \subseteq DOMAIN fps'
  BY RecordsKept
<1>4. Stored'
  BY <1>2, <1>3, CallsChange
<1>5. evReq # None => evReq \in Callers /\ call'[evReq].op = call[evReq].op
  BY RequestKept DEF Served
<1>6. regReq # None => regReq \in Callers /\ call'[regReq].op = call[regReq].op
  BY RequestKept DEF Served
<1>7. Registers'
  <2>1. CASE UNCHANGED regVars
    BY <1>2, <1>6, <2>1 DEF regVars
  <2>2. CASE RegisterOnChain \/ RegistrationQuit \/ TakeRegistered
    BY <1>2, <1>6, <2>2 DEF RegisterOnChain, RegistrationFails, RegistrationQuit, TakeRegistered
  <2>3. CASE \E c \in Callers : TakeRegister(c)
    BY <2>3 DEF TakeRegister, Served, CallType
  <2>4. CASE EventHandles \/ EventQuit \/ \E c \in Callers : TakeCreate(c)
    BY <2>1, <2>4 DEF EventHandles, CreateChainKey, CreateKey, CreateKeyReturns, SaveFinalityProvider,
       MarkRegistered, EventQuit, TakeCreate
  <2>5. CASE \E c \in Callers : Caller(c)
    BY <2>1, <2>5 DEF Caller, CallCreate, CallRegister, CallStart, NewCall, Answered, CallerQuits,
       StartInstance, BootstrapInstance
  <2>6. CASE SyncHandles \/ SyncTick \/ SyncQuit \/ StopCalled \/ StopReturns \/ EotsStores \/ EotsFails
             \/ UNCHANGED vars
    BY <2>1, <2>6, Zenon DEF SyncHandles, QueryVotingPower, UpdateStatus, SyncStart, SyncBootstrap, SyncReturns,
       SyncTick, SyncQuit, StopCalled, StopReturns, EotsStores, EotsFails, vars
  <2> QED BY <2>2, <2>3, <2>4, <2>5, <2>6 DEF Process, EventLoop, RegistrationLoop
<1>8. Recorded'
  <2>1. CASE UNCHANGED evVars
    BY <1>2, <1>5, <2>1 DEF evVars, Served
  <2>2. CASE EventHandles \/ EventQuit \/ \E c \in Callers : TakeCreate(c)
    BY <2>2 DEF EventHandles, CreateChainKey, CreateKey, CreateKeyReturns, SaveFinalityProvider,
       MarkRegistered, CreateKeyFails, EventAnswers, EventQuit, TakeCreate
  <2>3. CASE TakeRegistered
    BY <1>2, <1>6, <2>3 DEF TakeRegistered, Served
  <2>4. CASE RegistrationLoop
    BY <2>1, <2>4 DEF RegistrationLoop, RegisterOnChain, RegistrationQuit, TakeRegister
  <2>5. CASE \E c \in Callers : Caller(c)
    BY <2>1, <2>5 DEF Caller, CallCreate, CallRegister, CallStart, NewCall, Answered, CallerQuits,
       StartInstance, BootstrapInstance
  <2>6. CASE SyncHandles \/ SyncTick \/ SyncQuit \/ StopCalled \/ StopReturns \/ EotsStores \/ EotsFails
             \/ UNCHANGED vars
    BY <2>1, <2>6, Zenon DEF SyncHandles, QueryVotingPower, UpdateStatus, SyncStart, SyncBootstrap, SyncReturns,
       SyncTick, SyncQuit, StopCalled, StopReturns, EotsStores, EotsFails, vars
  <2> QED BY <2>2, <2>3, <2>4, <2>5, <2>6 DEF Process, EventLoop
<1>9. Read'
  <2>1. CASE UNCHANGED syncVars
    BY <1>2, <1>3, <2>1 DEF syncVars
  <2>2. ASSUME NEW running, SyncNext(running) PROVE Read'
    BY <1>2, <1>3, <2>2 DEF SyncNext
  <2>3. CASE SyncTick
    BY <1>3, <2>3 DEF SyncTick
  <2>4. ASSUME sync' = NoSync, syncPc' \in {"select", "exited"} PROVE Read'
    BY <2>4 DEF NoSync
  <2>5. CASE QueryVotingPower
    <3>1. CASE syncPc' = "update" /\ \E hasPower \in BOOLEAN : sync' = [sync EXCEPT !.hasPower = hasPower]
      BY <1>2, <1>3, <2>5, <3>1 DEF QueryVotingPower
    <3> QED BY <2>2, <2>5, <3>1, Zenon DEF QueryVotingPower
  <2>6. CASE UpdateStatus
    <3>1. CASE syncPc' = "start" /\ UNCHANGED sync
      BY <1>2, <1>3, <2>6, <3>1 DEF UpdateStatus
    <3> QED BY <2>2, <2>6, <3>1, Zenon DEF UpdateStatus
  <2>7. CASE SyncStart
    <3>1. CASE syncPc' = "bootstrap" /\ UNCHANGED sync
      BY <1>2, <1>3, <2>7, <3>1 DEF SyncStart
    <3> QED BY <2>4, <2>7, <3>1, Zenon DEF SyncStart
  <2>8. CASE SyncBootstrap
    BY <2>2, <2>4, <2>8, Zenon DEF SyncBootstrap
  <2>9. CASE SyncReturns
    BY <2>4, <2>9 DEF SyncReturns
  <2>10. CASE SyncQuit
    BY <1>2, <1>3, <2>10 DEF SyncQuit
  <2>11. CASE EventLoop \/ RegistrationLoop
    BY <2>1, <2>11 DEF EventLoop, EventHandles, CreateChainKey, CreateKey, CreateKeyReturns,
       SaveFinalityProvider, MarkRegistered, TakeRegistered, EventQuit, TakeCreate, RegistrationLoop,
       RegisterOnChain, RegistrationQuit, TakeRegister
  <2>12. CASE \E c \in Callers : Caller(c)
    BY <2>1, <2>12 DEF Caller, CallCreate, CallRegister, CallStart, NewCall, Answered, CallerQuits,
       StartInstance, BootstrapInstance
  <2>13. CASE StopCalled \/ StopReturns \/ EotsStores \/ EotsFails \/ UNCHANGED vars
    BY <2>1, <2>13 DEF StopCalled, StopReturns, EotsStores, EotsFails, vars
  <2> QED
    BY <2>3, <2>5, <2>6, <2>7, <2>8, <2>9, <2>10, <2>11, <2>12, <2>13, Zenon DEF Process, SyncHandles
<1>10. Created'
  <2>1. CASE UNCHANGED fpIns
    BY <1>2, <1>3, <2>1
  <2>2. ASSUME NEW k, ~StartRefused(k), MarkStarted(k) PROVE Created'
    BY <1>2, <1>3, <2>2 DEF StartRefused, MarkStarted
  <2>3. CASE SyncStart
    BY <2>1, <2>2, <2>3 DEF SyncStart, insVars
  <2>4. CASE \E c \in Callers : StartInstance(c)
    BY <2>1, <2>2, <2>4 DEF StartInstance, insVars
  <2>5. CASE \E c \in Callers : Caller(c)
    BY <2>1, <2>4, <2>5 DEF Caller, CallCreate, CallRegister, CallStart, NewCall, Answered, CallerQuits,
       BootstrapInstance, Bootstrap, insVars
  <2>6. CASE EventLoop \/ RegistrationLoop
    BY <2>1, <2>6 DEF EventLoop, EventHandles, CreateChainKey, CreateKey, CreateKeyReturns,
       SaveFinalityProvider, MarkRegistered, TakeRegistered, EventQuit, TakeCreate, RegistrationLoop,
       RegisterOnChain, RegistrationQuit, TakeRegister, insVars
  <2>7. CASE QueryVotingPower \/ UpdateStatus \/ SyncBootstrap \/ SyncReturns \/ SyncTick \/ SyncQuit
    BY <2>1, <2>7, Zenon DEF QueryVotingPower, UpdateStatus, SyncBootstrap, Bootstrap, SyncReturns, SyncTick,
       SyncQuit, insVars
  <2>8. CASE StopCalled \/ StopReturns \/ EotsStores \/ EotsFails \/ UNCHANGED vars
    BY <2>1, <2>8 DEF StopCalled, StopReturns, ManagerStop, EotsStores, EotsFails, vars, insVars
  <2> QED BY <2>3, <2>5, <2>6, <2>7, <2>8 DEF Process, SyncHandles
<1> QED BY <1>4, <1>7, <1>8, <1>9, <1>10 DEF Requested

LEMMA NoRequestDroppedStep ==
  ASSUME Served, NoRequestDropped, [Next]_vars
  PROVE  NoRequestDropped'
<1> USE NoneIsNoCaller DEF Served, CallType, NoRequestDropped, evVars, regVars
<1>1. CASE Crash
  BY <1>1 DEF Crash, NoCall
<1>2. ASSUME UNCHANGED <<evVars, regVars>>,
             \A d \in Callers : call'[d].pc = "wait" => call'[d] = call[d]
      PROVE  NoRequestDropped'
  BY <1>2
<1>3. ASSUME NEW c \in Callers, NEW v, v.pc # "wait", call' = [call EXCEPT ![c] = v]
      PROVE  \A d \in Callers : call'[d].pc = "wait" => call'[d] = call[d]
  BY <1>3
<1>4. ASSUME NEW c \in Callers, NEW p, p # "wait", call' = [call EXCEPT ![c].pc = p]
      PROVE  \A d \in Callers : call'[d].pc = "wait" => call'[d] = call[d]
  BY <1>4
<1>5. NoCall.pc # "wait"
  BY DEF NoCall
<1>6. ASSUME NEW c \in Callers, Caller(c) PROVE NoRequestDropped'
  <2>1. UNCHANGED <<evVars, regVars>>
    BY <1>6 DEF Caller, CallCreate, CallRegister, CallStart, NewCall, Answered, CallerQuits, StartInstance,
       BootstrapInstance
  <2>2. \/ \E v : v.pc # "wait" /\ call' = [call EXCEPT ![c] = v]
        \/ \E p : p # "wait" /\ call' = [call EXCEPT ![c].pc = p]
    <3>1. CASE CallCreate(c) \/ CallRegister(c) \/ CallStart(c)
      <4>1. PICK pc \in {"send", "start"}, op \in Requests, k \in Keys \union DOMAIN fps :
               NewCall(c, pc, op, k)
        BY <3>1 DEF CallCreate, CallRegister, CallStart, Requests
      <4> QED BY <4>1, Zenon DEF NewCall
    <3>2. CASE Answered(c)
      <4>1. [call[c] EXCEPT !.pc = "start", !.reply = "none"].pc = "start"
        OBVIOUS
      <4>2. PICK v \in {NoCall, [call[c] EXCEPT !.pc = "start", !.reply = "none"]} :
               call' = [call EXCEPT ![c] = v]
        BY <3>2, Zenon DEF Answered
      <4>3. v.pc # "wait"
        BY <4>1, <4>2, <1>5, Zenon
      <4> QED BY <4>2, <4>3, Zenon
    <3>3. CASE CallerQuits(c)
      BY <3>3, Zenon DEF CallerQuits
    <3>4. CASE StartInstance(c)
      BY <3>4, <1>5 DEF StartInstance
    <3>5. CASE BootstrapInstance(c)
      BY <3>5, <1>5, Zenon DEF BootstrapInstance
    <3> QED BY <1>6, <3>1, <3>2, <3>3, <3>4, <3>5 DEF Caller
  <2> QED BY <1>2, <1>3, <1>4, <2>1, <2>2
<1>7. ASSUME NEW c \in Callers, NEW r \in {"ok", "err"}, call' = Answer(c, r),
             {evReq, regReq} \subseteq {c, evReq', regReq'}
      PROVE  NoRequestDropped'
  <2>1. \A d \in Callers : d # c => call'[d] = call[d]
    BY <1>7 DEF Answer
  <2>2. call'[c].reply = r
    BY <1>7 DEF Answer
  <2> QED BY <1>7, <2>1, <2>2
<1>8. CASE EventHandles
  <2>1. UNCHANGED regVars /\ evReq \in Callers
    BY <1>8 DEF EventHandles, CreateChainKey, CreateKey, CreateKeyReturns, SaveFinalityProvider,
       MarkRegistered
  <2>2. \/ UNCHANGED <<call, evReq>>
        \/ \E r \in {"ok", "err"} : call' = Answer(evReq, r)
    BY <1>8 DEF EventHandles, CreateChainKey, CreateKey, CreateKeyReturns, SaveFinalityProvider,
       MarkRegistered, CreateKeyFails, EventAnswers
  <2> QED BY <1>7, <2>1, <2>2
<1>9. CASE RegisterOnChain
  <2>1. UNCHANGED evVars /\ regReq \in Callers
    BY <1>9 DEF RegisterOnChain
  <2>2. UNCHANGED <<call, regReq>> \/ call' = Answer(regReq, "err")
    BY <1>9 DEF RegisterOnChain, RegistrationFails
  <2> QED BY <1>7, <2>1, <2>2
<1>10. CASE TakeRegistered
  BY <1>10 DEF TakeRegistered
<1>11. CASE EventQuit \/ RegistrationQuit
  BY <1>11 DEF EventQuit, RegistrationQuit
<1>12. ASSUME NEW c \in Callers, TakeCreate(c) PROVE NoRequestDropped'
  <2>1. \A d \in Callers : d # c => call'[d] = call[d]
    BY <1>12 DEF TakeCreate
  <2> QED BY <1>12, <2>1 DEF TakeCreate
<1>13. ASSUME NEW c \in Callers, TakeRegister(c) PROVE NoRequestDropped'
  <2>1. \A d \in Callers : d # c => call'[d] = call[d]
    BY <1>13 DEF TakeRegister
  <2> QED BY <1>13, <2>1 DEF TakeRegister
<1>14. CASE SyncHandles \/ SyncTick \/ SyncQuit \/ StopCalled \/ StopReturns \/ EotsStores \/ EotsFails
            \/ UNCHANGED vars
  BY <1>14, <1>2, Zenon DEF SyncHandles, QueryVotingPower, UpdateStatus, SyncStart, SyncBootstrap, SyncReturns,
     SyncTick, SyncQuit, StopCalled, StopReturns, EotsStores, EotsFails, vars
<1> QED
  BY <1>1, <1>6, <1>8, <1>9, <1>10, <1>11, <1>12, <1>13, <1>14
  DEF Next, Alive, Process, EventLoop, RegistrationLoop

LEMMA RequestsInvariant == Spec => [](AppInv /\ Requested /\ NoRequestDropped)
<1>1. Init => Requested /\ NoRequestDropped
  <2> SUFFICES ASSUME Init PROVE Requested /\ NoRequestDropped OBVIOUS
  <2>1. \A c \in Callers : call[c].pc = "idle"
    BY DEF Init, NoCall
  <2>2. sync.fps = << >> /\ sync.todo = {} /\ {"fps", "todo"} \subseteq DOMAIN sync
    BY DEF Init, NoSync
  <2>3. regReq = None /\ evPc = "select" /\ syncPc = "select" /\ fpIns = None
    BY DEF Init
  <2>4. DOMAIN sync.fps = {}
    BY <2>2
  <2> QED BY <2>1, <2>2, <2>3, <2>4 DEF Requested, NoRequestDropped
<1>2. AppInv /\ Requested /\ NoRequestDropped /\ [Next]_vars => Requested' /\ NoRequestDropped'
  BY RequestedStep, NoRequestDroppedStep DEF AppInv
<1> QED BY <1>1, <1>2, AppInvariant, PTL DEF Spec

(***************************************************************************)
(* Whoever updates or opens a record finds it: the event loop that marks a *)
(* provider as registered, which would end the process otherwise (the      *)
(* logger.Fatal of eventLoop, app.go), the synchronisation, although it    *)
(* works on records it read earlier, and the instance.  Nobody deletes a   *)
(* record, and requests to register or start name a stored one.            *)
(***************************************************************************)
THEOREM UpdatesFindTheirRecord == Spec => []RecordsFound
<1>1. Served /\ Progress /\ Requested => RecordsFound
  <2> SUFFICES ASSUME Served, Progress, Requested PROVE RecordsFound OBVIOUS
  <2>1. evPc = "registered" => EventKey \in DOMAIN fps
    BY NoneIsNoCaller DEF Served, AnsweredOnce, Requested, EventKey
  <2>2. syncPc \in {"update", "start", "bootstrap"} => syncKey \in DOMAIN fps
    BY SyncKeyTodo DEF Requested
  <2> QED BY <2>1, <2>2 DEF Requested, RecordsFound
<1> QED BY <1>1, RequestsInvariant, PTL DEF AppInv

(***************************************************************************)
(* A caller that waits without an answer is held by the event loop or the  *)
(* registration loop: on every path, errors included, a loop that lets go  *)
(* of a request has answered it, and the registration loop's event hands   *)
(* its request to the event loop (app.go).                                 *)
(***************************************************************************)
THEOREM WaitingRequestsAreHeld == Spec => []NoRequestDropped
BY RequestsInvariant, PTL

-----------------------------------------------------------------------------
(* The start of the instance.                                              *)

\* Callers and the synchronisation start the instance's loops one at a time, and
\* not while they run.
StartedOnce ==
  /\ \A c, d \in Callers : call[c].pc = "bootstrap" /\ call[d].pc = "bootstrap" => c = d
  /\ syncPc = "bootstrap" => \A c \in Callers : call[c].pc # "bootstrap"
  /\ syncPc = "bootstrap" \/ (\E c \in Callers : call[c].pc = "bootstrap") => ~looping

\* Whoever starts the loops has marked the instance as started, unless Stop has
\* failed on it meanwhile; loops run only in an instance marked as started.
Marked ==
  /\ syncPc = "bootstrap" \/ (\E c \in Callers : call[c].pc = "bootstrap")
       => isStarted \/ stopPc = "panic"
  /\ looping => isStarted
  /\ fpIns = None => ~isStarted
  /\ isStarted \in BOOLEAN /\ looping \in BOOLEAN

StartInv == StartedOnce /\ Marked

LEMMA StartInvStep ==
  ASSUME Served, Progress, InstanceKnown, StartInv, [Next]_vars
  PROVE  StartInv'
<1> USE DEF StartInv, StartedOnce, Marked
<1>1. CASE Crash
  BY <1>1, Zenon DEF Crash, NoCall
<1>2. ASSUME UNCHANGED <<insVars, syncVars, stopPc>>,
             \A c \in Callers : call'[c].pc = "bootstrap" => call[c].pc = "bootstrap"
      PROVE  StartInv'
  BY <1>2 DEF insVars, syncVars
<1>3. ASSUME stopPc # "panic", NEW k, ~StartRefused(k), MarkStarted(k)
      PROVE  /\ syncPc # "bootstrap" /\ \A c \in Callers : call[c].pc # "bootstrap"
             /\ isStarted' = TRUE /\ looping = FALSE /\ looping' = FALSE
             /\ fpIns = None \/ fpIns' # None
  BY <1>3 DEF StartRefused, MarkStarted
<1>4. ASSUME NEW c \in Callers, Caller(c), stopPc # "panic" PROVE StartInv'
  <2>1. CASE StartInstance(c)
    <3>0. UNCHANGED <<syncVars, stopPc>>
      BY <2>1 DEF StartInstance, stopVars
    <3>1. CASE StartRefused(call[c].key)
      BY <2>1, <3>0, <3>1, <1>2 DEF StartInstance, NoCall, Served, CallType
    <3>2. CASE ~StartRefused(call[c].key)
      <4>1. /\ syncPc # "bootstrap" /\ \A d \in Callers : call[d].pc # "bootstrap"
            /\ isStarted' = TRUE /\ looping' = FALSE
        BY <1>3, <1>4, <2>1, <3>2, Zenon DEF StartInstance
      <4>2. \A d \in Callers : d # c => call'[d] = call[d]
        BY <2>1, <3>2 DEF StartInstance, Served
      <4>3. fpIns' # None
        BY <2>1, <3>2, NoneIsNoCaller DEF StartInstance, MarkStarted, Served
      <4> QED BY <3>0, <4>1, <4>2, <4>3, Zenon DEF syncVars
    <3> QED BY <3>1, <3>2
  <2>2. CASE BootstrapInstance(c)
    <3>1. call'[c].pc = "idle" /\ \A d \in Callers : d # c => call'[d] = call[d]
      BY <2>2 DEF BootstrapInstance, NoCall, Served
    <3>2. syncPc # "bootstrap" /\ isStarted /\ fpIns # None
          /\ \A d \in Callers : d # c => call[d].pc # "bootstrap"
      BY <2>2, <1>4 DEF BootstrapInstance, InstanceKnown
    <3>3. UNCHANGED <<syncVars, stopPc, isStarted, fpIns>> /\ looping' \in {looping, TRUE}
      BY <2>2, Zenon DEF BootstrapInstance, Bootstrap, stopVars, insVars
    <3> QED BY <3>1, <3>2, <3>3, Zenon DEF syncVars
  <2>3. CASE ~StartInstance(c) /\ ~BootstrapInstance(c)
    <3>1. UNCHANGED <<insVars, syncVars, stopPc>>
      BY <1>4, <2>3 DEF Caller, CallCreate, CallRegister, CallStart, NewCall, Answered, CallerQuits, stopVars
    <3> QED BY <1>2, <1>4, <2>3, <3>1, StartersKept
  <2> QED BY <2>1, <2>2, <2>3
<1>5. CASE EventLoop \/ RegistrationLoop
  <2>1. UNCHANGED <<insVars, syncVars, stopPc>>
    BY <1>5 DEF EventLoop, EventHandles, CreateChainKey, CreateKey, CreateKeyReturns,
       SaveFinalityProvider, MarkRegistered, TakeRegistered, EventQuit, TakeCreate, RegistrationLoop,
       RegisterOnChain, RegistrationQuit, TakeRegister, stopVars
  <2> QED BY <1>2, <1>5, <2>1, StartersKept
<1>6. CASE SyncStart /\ stopPc # "panic"
  <2>0. UNCHANGED <<call, stopPc>>
    BY <1>6 DEF SyncStart, stopVars
  <2>1. CASE StartRefused(syncKey)
    BY <1>6, <2>0, <2>1, Zenon DEF SyncStart, insVars
  <2>2. CASE ~StartRefused(syncKey)
    <3>1. /\ \A d \in Callers : call[d].pc # "bootstrap"
          /\ isStarted' = TRUE /\ looping' = FALSE
      BY <1>3, <1>6, <2>2, Zenon DEF SyncStart
    <3>2. fpIns' # None
      BY <1>6, <2>2, NoneIsNoCaller DEF SyncStart, MarkStarted, StartRefused, Progress
    <3> QED BY <2>0, <3>1, <3>2, Zenon
  <2> QED BY <2>1, <2>2
<1>7. CASE SyncBootstrap /\ stopPc # "panic"
  <2>1. isStarted /\ fpIns # None /\ \A d \in Callers : call[d].pc # "bootstrap"
    BY <1>7 DEF SyncBootstrap, InstanceKnown
  <2>2. UNCHANGED <<call, stopPc, isStarted, fpIns>> /\ looping' \in {looping, TRUE}
    BY <1>7, Zenon DEF SyncBootstrap, Bootstrap, stopVars, insVars
  <2>3. syncPc' \in {"query", "select"}
    BY <1>7 DEF SyncBootstrap, SyncNext
  <2> QED BY <2>1, <2>2, <2>3, Zenon
<1>8. CASE QueryVotingPower \/ UpdateStatus \/ SyncReturns \/ SyncTick \/ SyncQuit
  <2>1. UNCHANGED <<call, stopPc, insVars>> /\ syncPc' # "bootstrap"
    BY <1>8 DEF QueryVotingPower, UpdateStatus, SyncReturns, SyncTick, SyncQuit, SyncNext, stopVars
  <2> QED BY <2>1 DEF insVars
<1>9. CASE StopCalled /\ stopPc # "panic"
  BY <1>9 DEF StopCalled, insVars, syncVars
<1>10. CASE StopReturns /\ stopPc # "panic"
  BY <1>10, Zenon DEF StopReturns, ManagerStop, syncVars
<1>11. CASE EotsStores \/ EotsFails \/ UNCHANGED vars
  BY <1>11, <1>2 DEF EotsStores, EotsFails, vars, stopVars
<1> QED
  BY <1>1, <1>4, <1>5, <1>6, <1>7, <1>8, <1>9, <1>10, <1>11, Zenon DEF Next, Alive, Process, SyncHandles

LEMMA StartInvariant == Spec => []StartInv
<1>1. Init => StartInv
  <2> SUFFICES ASSUME Init PROVE StartInv OBVIOUS
  <2>1. \A c \in Callers : call[c].pc = "idle"
    BY DEF Init, NoCall
  <2>2. syncPc = "select" /\ isStarted = FALSE /\ looping = FALSE
    BY DEF Init
  <2> QED BY <2>1, <2>2, Zenon DEF StartInv, StartedOnce, Marked
<1>2. AppInv /\ StartInv /\ [Next]_vars => StartInv'
  BY StartInvStep DEF AppInv
<1> QED BY <1>1, <1>2, AppInvariant, PTL DEF Spec

(***************************************************************************)
(* However many RPCs start a provider while the synchronisation does so    *)
(* too, one of them at a time gets past isStarted (fp_instance.go Start),  *)
(* and none while the loops run: an instance never has two sets of loops.  *)
(***************************************************************************)
THEOREM LoopsStartedOnce == Spec => []StartedOnce
BY StartInvariant, PTL DEF StartInv

-----------------------------------------------------------------------------
(* Types.                                                                  *)

\* What TypeOK says beyond the invariants above; the records that the
\* synchronisation has read are well formed as well.
Shape ==
  /\ EotsTypeOK
  /\ chainKeys \subseteq Keys /\ onChain \subseteq Keys
  /\ \A k \in DOMAIN fps : fps[k] \in StoredFinalityProvider
  /\ \A k \in DOMAIN sync.fps : sync.fps[k] \in StoredFinalityProvider
  /\ evPc \in {"select", "chainKey", "eotsKey", "eotsWait", "save", "registered", "exited"}
  /\ regPc \in {"select", "call", "send", "exited"}
  /\ syncPc \in {"select", "query", "update", "start", "bootstrap", "exited"}
  /\ quit \in BOOLEAN
  /\ stopPc \in {"no", "waiting", "done", "panic"}
  /\ faults \in 0..MaxFaults

LEMMA EotsTypeStep ==
  ASSUME Served, EotsTypeOK, [Next]_vars
  PROVE  EotsTypeOK'
<1> USE DEF EotsTypeOK
<1>1. CASE UNCHANGED eotsVars
  BY <1>1 DEF eotsVars
<1>2. CASE CreateKey
  <2>1. EventKey \in Keys
    BY <1>2, NoneIsNoCaller, Zenon DEF CreateKey, Served, AnsweredOnce, EventKey
  <2> QED BY <1>1, <1>2, <2>1 DEF CreateKey, NewAccount
<1>3. CASE EotsStores \/ EotsFails
  BY <1>3 DEF EotsStores, EotsFails, AddEOTSKeyName, EotsCrash
<1>4. CASE EventLoop /\ ~CreateKey
  BY <1>1, <1>4 DEF EventLoop, EventHandles, CreateChainKey, CreateKeyReturns, SaveFinalityProvider,
     MarkRegistered, TakeRegistered, EventQuit, TakeCreate, persistent
<1>5. CASE RegistrationLoop \/ SyncHandles \/ SyncTick \/ SyncQuit \/ StopCalled \/ StopReturns
           \/ Crash \/ UNCHANGED vars
  BY <1>1, <1>5, Zenon DEF RegistrationLoop, RegisterOnChain, RegistrationQuit, TakeRegister, SyncHandles,
     QueryVotingPower, UpdateStatus, SyncStart, SyncBootstrap, SyncReturns, SyncTick, SyncQuit,
     StopCalled, StopReturns, Crash, vars, persistent
<1>6. CASE \E c \in Callers : Caller(c)
  BY <1>1, <1>6 DEF Caller, CallCreate, CallRegister, CallStart, NewCall, Answered, CallerQuits,
     StartInstance, BootstrapInstance, persistent
<1> QED BY <1>2, <1>3, <1>4, <1>5, <1>6 DEF Next, Alive, Process

\* A transition of the status leaves a well-formed record.
LEMMA SetFpStatusType ==
  ASSUME NEW fp \in StoredFinalityProvider, NEW s \in Statuses
  PROVE  SetFpStatus(fp, s) \in StoredFinalityProvider
BY DEF SetFpStatus, StoredFinalityProvider

LEMMA UpdateFpStatusType ==
  ASSUME NEW s \in Statuses, NEW p
  PROVE  UpdateFpStatusFromVotingPower(p, s) \in Statuses
BY DEF UpdateFpStatusFromVotingPower, Statuses

LEMMA RecordTypes ==
  ASSUME Served, Progress, Requested, Shape, [Next]_vars
  PROVE  \A k \in DOMAIN fps' : fps'[k] \in StoredFinalityProvider
<1>1. CASE fps' = fps
  BY <1>1 DEF Shape
<1>2. CASE SaveFinalityProvider
  <2>1. CreateFinalityProvider \in StoredFinalityProvider
    BY DEF CreateFinalityProvider, StoredFinalityProvider, Statuses
  <2>2. CASE fps' = AddFinalityProvider(EventKey)
    BY <2>1, <2>2 DEF AddFinalityProvider, Shape
  <2> QED BY <1>1, <1>2, <2>2 DEF SaveFinalityProvider
<1>3. ASSUME NEW j \in DOMAIN fps, NEW s \in Statuses,
             fps' = [fps EXCEPT ![j] = SetFpStatus(fps[j], s)]
      PROVE  \A k \in DOMAIN fps' : fps'[k] \in StoredFinalityProvider
  <2>1. SetFpStatus(fps[j], s) \in StoredFinalityProvider
    BY SetFpStatusType DEF Shape
  <2> QED BY <1>3, <2>1 DEF Shape
<1>4. CASE MarkRegistered
  <2>1. EventKey \in DOMAIN fps
    BY <1>4, NoneIsNoCaller DEF MarkRegistered, Served, AnsweredOnce, Requested, EventKey
  <2>2. fps' = [fps EXCEPT ![EventKey] = SetFpStatus(fps[EventKey], "REGISTERED")]
    BY <1>4 DEF MarkRegistered
  <2> QED BY <1>3, <2>1, <2>2, Zenon DEF Statuses
<1>5. CASE UpdateStatus
  <2>1. syncKey \in sync.todo /\ syncKey \in DOMAIN fps
    BY <1>5, SyncKeyTodo, Zenon DEF UpdateStatus, Requested
  <2>2. sync.fps[syncKey].status \in Statuses
    BY <2>1 DEF Requested, Shape, StoredFinalityProvider
  <2> DEFINE new == UpdateFpStatusFromVotingPower(sync.hasPower, sync.fps[syncKey].status)
  <2>3. new \in Statuses
    BY <2>2, UpdateFpStatusType
  <2>4. fps' = fps \/ fps' = [fps EXCEPT ![syncKey] = SetFpStatus(fps[syncKey], new)]
    BY <1>5, Zenon DEF UpdateStatus
  <2> HIDE DEF new
  <2> QED BY <1>1, <1>3, <2>1, <2>3, <2>4
<1> QED BY <1>1, <1>2, <1>4, <1>5, RecordWriters

LEMMA ShapeStep ==
  ASSUME Served, Progress, Requested, Shape, [Next]_vars
  PROVE  Shape'
<1>1. EotsTypeOK' /\ \A k \in DOMAIN fps' : fps'[k] \in StoredFinalityProvider
  BY EotsTypeStep, RecordTypes DEF Shape
<1>2. chainKeys' \subseteq Keys /\ onChain' \subseteq Keys
  <2> USE DEF Shape
  <2>1. CASE UNCHANGED <<chainKeys, onChain>>
    BY <2>1
  <2>2. CASE CreateChainKey
    <3>1. EventKey \in Keys
      BY <2>2, NoneIsNoCaller DEF CreateChainKey, Served, AnsweredOnce, EventKey
    <3> QED BY <2>2, <3>1 DEF CreateChainKey
  <2>3. CASE RegisterOnChain
    <3>1. call[regReq].key \in Keys
      BY <2>3, NoneIsNoCaller DEF RegisterOnChain, Served, AnsweredOnce
    <3> QED BY <2>3, <3>1 DEF RegisterOnChain, storeVars
  <2>4. CASE EventLoop /\ ~CreateChainKey
    BY <2>1, <2>4 DEF EventLoop, EventHandles, CreateKey, CreateKeyReturns, SaveFinalityProvider,
       MarkRegistered, TakeRegistered, EventQuit, TakeCreate, persistent, storeVars
  <2>5. CASE (RegistrationLoop /\ ~RegisterOnChain) \/ SyncHandles \/ SyncTick \/ SyncQuit \/ StopCalled
             \/ StopReturns \/ Crash \/ EotsStores \/ EotsFails \/ UNCHANGED vars
    BY <2>1, <2>5, Zenon DEF RegistrationLoop, RegistrationQuit, TakeRegister, SyncHandles,
       QueryVotingPower, UpdateStatus, SyncStart, SyncBootstrap, SyncReturns, SyncTick, SyncQuit,
       StopCalled, StopReturns, Crash, EotsStores, EotsFails, vars, persistent, storeVars
  <2>6. CASE \E c \in Callers : Caller(c)
    BY <2>1, <2>6 DEF Caller, CallCreate, CallRegister, CallStart, NewCall, Answered, CallerQuits,
       StartInstance, BootstrapInstance, persistent, storeVars
  <2> QED BY <2>2, <2>3, <2>4, <2>5, <2>6 DEF Next, Alive, Process
<1>3. \A k \in DOMAIN sync'.fps : sync'.fps[k] \in StoredFinalityProvider
  <2> USE DEF Shape
  <2>1. CASE sync'.fps = sync.fps
    BY <2>1
  <2>2. ASSUME NEW running, SyncNext(running) PROVE sync'.fps = sync.fps
    BY <2>2 DEF SyncNext, Requested
  <2>3. CASE sync' = NoSync
    BY <2>3 DEF NoSync
  <2>4. CASE SyncTick
    BY <2>4 DEF SyncTick
  <2>5. CASE SyncHandles
    <3>1. \/ sync' = NoSync \/ UNCHANGED sync
          \/ \E running : SyncNext(running)
          \/ \E hasPower \in BOOLEAN : sync' = [sync EXCEPT !.hasPower = hasPower]
      BY <2>5, Zenon DEF SyncHandles, QueryVotingPower, UpdateStatus, SyncStart, SyncBootstrap, SyncReturns
    <3>2. ASSUME NEW hasPower, sync' = [sync EXCEPT !.hasPower = hasPower] PROVE sync'.fps = sync.fps
      BY <3>2 DEF Requested
    <3> QED BY <2>1, <2>2, <2>3, <3>1, <3>2
  <2>6. CASE EventLoop \/ RegistrationLoop
    BY <2>1, <2>6 DEF EventLoop, EventHandles, CreateChainKey, CreateKey, CreateKeyReturns,
       SaveFinalityProvider, MarkRegistered, TakeRegistered, EventQuit, TakeCreate, RegistrationLoop,
       RegisterOnChain, RegistrationQuit, TakeRegister, syncVars
  <2>7. CASE \E c \in Callers : Caller(c)
    BY <2>1, <2>7 DEF Caller, CallCreate, CallRegister, CallStart, NewCall, Answered, CallerQuits,
       StartInstance, BootstrapInstance, syncVars
  <2>8. CASE SyncQuit \/ StopCalled \/ StopReturns \/ EotsStores \/ EotsFails \/ UNCHANGED vars
    BY <2>1, <2>8 DEF SyncQuit, StopCalled, StopReturns, EotsStores, EotsFails, vars, syncVars
  <2>9. CASE Crash
    BY <2>3, <2>9, Zenon DEF Crash
  <2> QED BY <2>4, <2>5, <2>6, <2>7, <2>8, <2>9 DEF Next, Alive, Process
<1>4. /\ evPc' \in {"select", "chainKey", "eotsKey", "eotsWait", "save", "registered", "exited"}
      /\ regPc' \in {"select", "call", "send", "exited"}
      /\ syncPc' \in {"select", "query", "update", "start", "bootstrap", "exited"}
      /\ quit' \in BOOLEAN
      /\ stopPc' \in {"no", "waiting", "done", "panic"}
      /\ faults' \in 0..MaxFaults
  <2> USE AppAssumption DEF Shape, evVars, regVars, syncVars, stopVars, Fault
  <2>1. CASE EventLoop
    BY <2>1 DEF EventLoop, EventHandles, CreateChainKey, CreateKey, CreateKeyReturns, CreateKeyFails,
       EventAnswers, SaveFinalityProvider, MarkRegistered, TakeRegistered, EventQuit, TakeCreate
  <2>2. CASE RegistrationLoop
    BY <2>2 DEF RegistrationLoop, RegisterOnChain, RegistrationFails, RegistrationQuit, TakeRegister
  <2>3. CASE SyncHandles \/ SyncTick \/ SyncQuit
    BY <2>3 DEF SyncHandles, QueryVotingPower, UpdateStatus, SyncStart, SyncBootstrap, Bootstrap,
       SyncReturns, SyncTick, SyncQuit, SyncNext
  <2>4. CASE StopCalled \/ StopReturns
    BY <2>4, Zenon DEF StopCalled, StopReturns, ManagerStop
  <2>5. CASE \E c \in Callers : Caller(c)
    <3>1. /\ UNCHANGED <<evVars, regVars, syncVars, stopVars>>
          /\ UNCHANGED faults \/ Fault
      BY <2>5 DEF Caller, CallCreate, CallRegister, CallStart, NewCall, Answered, CallerQuits,
         StartInstance, BootstrapInstance, Bootstrap
    <3> QED BY <3>1
  <2>6. CASE EotsStores \/ EotsFails \/ UNCHANGED vars
    <3>1. /\ UNCHANGED <<evVars, regVars, syncVars, stopVars>>
          /\ UNCHANGED faults \/ Fault
      BY <2>6, Zenon DEF EotsStores, EotsFails, vars
    <3> QED BY <3>1
  <2>7. CASE Crash
    <3>1. quit' \in BOOLEAN
      BY <2>7, Zenon DEF Crash
    <3>2. evPc' = "select" /\ regPc' = "select" /\ syncPc' = "select" /\ stopPc' = "no" /\ Fault
      BY <2>7 DEF Crash
    <3> QED BY <3>1, <3>2
  <2> QED BY <2>1, <2>2, <2>3, <2>4, <2>5, <2>6, <2>7 DEF Next, Alive, Process
<1> QED BY <1>1, <1>2, <1>3, <1>4 DEF Shape

(***************************************************************************)
(* Type correctness of the application, for any providers, callers and     *)
(* faults; that a record stays well formed under SetFpStatus needs that    *)
(* the writers of app.go only touch records that exist.                    *)
(***************************************************************************)
THEOREM AppTypeCorrect == Spec => []TypeOK
<1>1. Init => Shape
  <2> SUFFICES ASSUME Init PROVE Shape OBVIOUS
  <2>1. sync.fps = << >> /\ fps = << >>
    BY DEF Init, NoSync
  <2>2. DOMAIN fps = {} /\ DOMAIN sync.fps = {}
    BY <2>1
  <2>3. EotsTypeOK
    BY DEF Init, EotsInit, EotsTypeOK
  <2>4. quit \in BOOLEAN
    BY Zenon DEF Init
  <2>5. faults \in 0..MaxFaults
    BY AppAssumption DEF Init
  <2> QED BY <2>2, <2>3, <2>4, <2>5 DEF Init, Shape
<1>2. AppInv /\ Requested /\ Shape /\ [Next]_vars => Shape'
  BY ShapeStep DEF AppInv
<1>3. AppInv /\ Requested /\ StartInv /\ Shape => TypeOK
  <2> SUFFICES ASSUME AppInv, Requested, StartInv, Shape PROVE TypeOK OBVIOUS
  <2>1. fpIns \in Keys \union {None}
    BY DEF AppInv, Progress, Requested
  <2>2. /\ {isStarted, looping, quit} \subseteq BOOLEAN
        /\ looping => isStarted /\ fpIns # None
    BY DEF AppInv, InstanceKnown, StartInv, Marked, Shape
  <2> QED BY <2>1, <2>2 DEF TypeOK, AppInv, Served, CallType, Progress, Requested, Shape
<1> QED BY <1>1, <1>2, <1>3, RequestsInvariant, StartInvariant, PTL DEF Spec
=============================================================================
