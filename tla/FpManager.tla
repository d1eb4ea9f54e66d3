----------------------------- MODULE FpManager -----------------------------
(***************************************************************************)
(* The finality-provider manager                                           *)
(* (finality-provider/service/fp_manager.go): it owns the instance, which  *)
(* the status synchronisation and the RPCs start, and which its monitors   *)
(* of critical errors and of the status remove.  None of these threads     *)
(* takes a lock, so the pointer fpIns is read and written in separate      *)
(* steps.                                                                  *)
(*                                                                         *)
(* There is one provider, registered on the chain.  An instance is what    *)
(* Start and Stop see of it; its goroutines are one loop that reports      *)
(* critical errors (FpInstance has what it does otherwise).  A retried     *)
(* query is one step, and so are the two writes of setStatus.              *)
(***************************************************************************)
EXTENDS FpStore

CONSTANTS
  StatusUpdates, \* config: StatusUpdateInterval is not 0
  MaxInstances,  \* bound: instances that are created by one daemon
  MaxRuns,       \* bound: successful calls of Start on one instance
  Punishments    \* what the chain may do to the provider

ASSUME ManagerAssumption ==
  /\ StatusUpdates \in BOOLEAN
  /\ MaxInstances \in Nat
  /\ MaxRuns \in Nat
  /\ Punishments \subseteq {"jailed", "slashed"}

VARIABLES
  standing,       \* chain: "good", "jailed" or "slashed"
  hasPower,       \* chain: whether the provider has power in the best block
  status,         \* the stored status of the provider
  fpIns,          \* FinalityProviderManager.fpIns, 0 for nil
  ins,            \* the instances that were created
  start,          \* what each thread that starts the instance is doing
  mon,            \* what each thread that stops the instance is doing
  look,           \* the locals of monitorStatusUpdate
  down,           \* why the program has ended, "no" while it runs
  overlap         \* history: two starts or removals were under way at once

chainVars == <<standing, hasPower>>
managerVars == <<fpIns, ins>>
vars == <<chainVars, status, managerVars, start, mon, look, down, overlap>>

Instances == 1..MaxInstances
Runs == 1..MaxRuns
Starters == {"sync", "rpc"}
Monitors == {"crit", "status"}

StartPcs == {"idle", "decide", "unjailed", "check", "create", "start", "boot", "done"}
RemovePcs == {"remove", "swap", "poller", "wait", "clear"}
MonPcs == {"off", "idle", "power", "query", "set", "exited"} \cup RemovePcs
Instance == [status : Statuses, started : BOOLEAN, poller : BOOLEAN,
             quit : {"none", "open", "closed"},
             loops : [Runs -> {"none", "run", "slashed", "other", "exited"}]]

\* Not created yet, or nothing of it left.
NoInstance == [status |-> "CREATED", started |-> FALSE, poller |-> FALSE, quit |-> "none",
               loops |-> [r \in Runs |-> "none"]]

TypeOK ==
  /\ standing \in {"good", "jailed", "slashed"}
  /\ hasPower \in BOOLEAN
  /\ status \in Statuses
  /\ fpIns \in 0..MaxInstances
  /\ ins \in [Instances -> Instance]
  /\ start \in [Starters -> [pc : StartPcs, ins : 0..MaxInstances, status : Statuses,
                             power : BOOLEAN]]
  /\ mon \in [Monitors -> [pc : MonPcs, ins : 0..MaxInstances]]
  /\ look \in [ins : 0..MaxInstances, power : BOOLEAN, old : Statuses, new : Statuses]
  /\ down \in {"no", "panic", "fatal", "killed"}
  /\ overlap \in BOOLEAN

\* The loop does something that Stop has to wait for.
Alive(loop) == loop \in {"run", "slashed", "other"}

Running(i) == \E r \in Runs : Alive(ins[i].loops[r])

IdleStart == [pc |-> "idle", ins |-> 0, status |-> "CREATED", power |-> FALSE]
NoLook == [ins |-> 0, power |-> FALSE, old |-> "CREATED", new |-> "CREATED"]

Started(t, pc) == start' = [start EXCEPT ![t] = [IdleStart EXCEPT !.pc = pc]]
Monitoring(t, pc) == mon' = [mon EXCEPT ![t] = [pc |-> pc, ins |-> 0]]

\* A panic or a Fatal log entry ends the program.  Its memory is gone.
Ends(why) ==
  /\ down' = why
  /\ fpIns' = 0
  /\ ins' = [i \in Instances |-> NoInstance]
  /\ start' = [t \in Starters |-> IdleStart]
  /\ mon' = [t \in Monitors |-> [pc |-> "off", ins |-> 0]]
  /\ look' = NoLook
  /\ UNCHANGED status

-----------------------------------------------------------------------------
(* The chain.                                                              *)

PowerChanges ==
  /\ standing = "good"
  /\ hasPower' = ~hasPower
  /\ UNCHANGED <<standing, status, managerVars, start, mon, look, down>>

Punish ==
  /\ standing = "good"
  /\ standing' \in Punishments
  /\ hasPower' = FALSE
  /\ UNCHANGED <<status, managerVars, start, mon, look, down>>

-----------------------------------------------------------------------------
(* The status synchronisation of the application, while no instance runs.  *)

\* SyncFinalityProviderStatus reads the record and queries the power.
SyncReads ==
  /\ start["sync"].pc = "idle"
  /\ start' = [start EXCEPT !["sync"] =
                 [pc |-> "decide", ins |-> 0, status |-> status, power |-> hasPower]]
  /\ UNCHANGED <<chainVars, status, managerVars, mon, look, down>>

IsFinalityProviderRunning == fpIns # 0 /\ ins[fpIns].started

\* The rest of a round: the new status follows from what was read.
SyncDecides ==
  LET new == UpdateFpStatusFromVotingPower(start["sync"].power, start["sync"].status)
  IN  /\ start["sync"].pc = "decide"
      /\ IF IsFinalityProviderRunning
         THEN Started("sync", "done") /\ UNCHANGED status
         ELSE /\ status' = IF new = "ACTIVE" \/ new # start["sync"].status THEN new ELSE status
              /\ Started("sync", IF ShouldStart([status |-> new]) THEN "check" ELSE "idle")
      /\ UNCHANGED <<chainVars, managerVars, mon, look, down>>

-----------------------------------------------------------------------------
(* The RPC UnjailFinalityProvider.                                         *)

\* The transaction is included, or refused, or its answer is lost.
SendUnjail ==
  /\ start["rpc"].pc = "idle"
  /\ standing = "jailed"
  /\ standing' = "good"
  /\ \/ Started("rpc", "unjailed")
     \/ UNCHANGED start
  /\ UNCHANGED <<hasPower, status, managerVars, mon, look, down>>

\* The store is told, not the instance.
UnjailFinalityProvider ==
  /\ start["rpc"].pc = "unjailed"
  /\ status' = "INACTIVE"
  /\ Started("rpc", "check")
  /\ UNCHANGED <<chainVars, managerVars, mon, look, down>>

-----------------------------------------------------------------------------
(* StartFinalityProvider, from the synchronisation and from the RPCs.      *)

\* startOnce starts the monitors; the monitor of the status may be disabled.
StartMonitors ==
  mon' = [t \in Monitors |->
            IF mon[t].pc # "off" THEN mon[t]
            ELSE [mon[t] EXCEPT !.pc = IF t = "status" /\ ~StatusUpdates THEN "exited"
                                       ELSE "idle"]]

\* The nil check of startFinalityProviderInstance.
StartFinalityProvider(t) ==
  /\ start[t].pc = "check"
  /\ StartMonitors
  /\ Started(t, IF fpIns = 0 THEN "create" ELSE "start")
  /\ UNCHANGED <<chainVars, status, managerVars, look, down>>

\* Mutant: the new instance is not assigned to fpIns.
NewInstance_NotAssigned(t) ==
  /\ start[t].pc = "create"
  /\ Started(t, IF ShouldStart([status |-> status]) THEN "start" ELSE "idle")
  /\ UNCHANGED <<chainVars, status, managerVars, mon, look, down>>

\* NewFinalityProviderInstance, from the stored record, and its assignment.
NewInstance(t) ==
  /\ start[t].pc = "create"
  /\ IF ShouldStart([status |-> status])
     THEN \E i \in Instances :
            /\ ins[i] = NoInstance /\ \A j \in 1..(i - 1) : ins[j] # NoInstance
            /\ ins' = [ins EXCEPT ![i].status = status]
            /\ fpIns' = i
            /\ Started(t, "start")
     ELSE Started(t, "idle") /\ UNCHANGED managerVars
  /\ UNCHANGED <<chainVars, status, mon, look, down>>

\* fpm.fpIns.Start() reads the pointer again.  The mark is set first and
\* stays set when Start fails.
StartInstance(t) ==
  /\ start[t].pc = "start"
  /\ \/ fpIns = 0 /\ Ends("panic")
     \/ /\ fpIns # 0
        /\ ins' = [ins EXCEPT ![fpIns].started = TRUE]
        /\ IF ins[fpIns].started \/ ins[fpIns].status = "JAILED"
           THEN Started(t, "idle")
           ELSE start' = [start EXCEPT ![t] = [IdleStart EXCEPT !.pc = "boot", !.ins = fpIns]]
        /\ UNCHANGED <<status, fpIns, mon, look, down>>
  /\ UNCHANGED chainVars

\* The rest of Start: the poller and the loops exist only when bootstrap has
\* succeeded.
Bootstrap(t) ==
  LET i == start[t].ins
  IN  /\ start[t].pc = "boot"
      /\ \E r \in Runs :
           /\ ins[i].loops[r] = "none" /\ \A q \in 1..(r - 1) : ins[i].loops[q] # "none"
           /\ ins' = [ins EXCEPT ![i].poller = TRUE, ![i].quit = "open", ![i].loops[r] = "run"]
      /\ Started(t, IF t = "sync" THEN "done" ELSE "idle")
      /\ UNCHANGED <<chainVars, status, fpIns, mon, look, down>>

\* Bootstrap fails.  A fast sync finds out that the provider is jailed.
BootstrapFails(t) ==
  LET i == start[t].ins
  IN  /\ start[t].pc = "boot"
      /\ \/ /\ standing = "jailed"
            /\ ins' = [ins EXCEPT ![i].status = "JAILED"]
            /\ status' = "JAILED"
         \/ UNCHANGED <<ins, status>>
      /\ Started(t, "idle")
      /\ UNCHANGED <<chainVars, fpIns, mon, look, down>>

-----------------------------------------------------------------------------
(* The loop of an instance.                                                *)

SetLoop(i, r, loop) == ins' = [ins EXCEPT ![i].loops[r] = loop]

\* reportCriticalErr waits on the unbuffered channel; it does not listen to
\* the instance's quit.
LoopReports(i, r) ==
  /\ ins[i].loops[r] = "run"
  /\ \/ standing = "slashed" /\ SetLoop(i, r, "slashed")
     \/ SetLoop(i, r, "other")
  /\ UNCHANGED <<chainVars, status, fpIns, start, mon, look, down>>

LoopQuits(i, r) ==
  /\ ins[i].loops[r] = "run"
  /\ ins[i].quit = "closed"
  /\ SetLoop(i, r, "exited")
  /\ UNCHANGED <<chainVars, status, fpIns, start, mon, look, down>>

-----------------------------------------------------------------------------
(* monitorCriticalErr.                                                     *)

\* The monitor receives the error and goes on to remove a slashed provider.
\* (It has the same branch for a jailed one, but no loop reports that.)  It
\* drops the error when there is no instance; any other error is Fatal.
MonitorCriticalErr(i, r) ==
  /\ mon["crit"].pc = "idle"
  /\ ins[i].loops[r] \in {"slashed", "other"}
  /\ \/ /\ fpIns = 0
        /\ SetLoop(i, r, "run")
        /\ UNCHANGED <<status, fpIns, start, mon, look, down>>
     \/ /\ fpIns # 0 /\ ins[i].loops[r] = "slashed"
        /\ ins' = [ins EXCEPT ![i].loops[r] = "run", ![fpIns].status = "SLASHED"]
        /\ status' = "SLASHED"
        /\ Monitoring("crit", "remove")
        /\ UNCHANGED <<fpIns, start, look, down>>
     \/ /\ fpIns # 0 /\ ins[i].loops[r] = "other"
        /\ Ends("fatal")
  /\ UNCHANGED chainVars

-----------------------------------------------------------------------------
(* monitorStatusUpdate.  A round in which a query fails changes nothing    *)
(* and is left out.                                                        *)

Looks(pc, l) == Monitoring("status", pc) /\ look' = l

\* A tick: the instance and the latest block, whose power is queried later.
StatusTick ==
  /\ mon["status"].pc = "idle"
  /\ fpIns # 0
  /\ Looks("power", [NoLook EXCEPT !.ins = fpIns, !.power = hasPower])
  /\ UNCHANGED <<chainVars, status, managerVars, start, down>>

\* Mutant: an inactive provider does not become active again.
VotingPower_OnlyRegistered ==
  LET old == ins[look.ins].status
  IN  /\ mon["status"].pc = "power"
      /\ \/ look.power /\ old = "REGISTERED" /\ Looks("set", [look EXCEPT !.new = "ACTIVE"])
         \/ look.power /\ old # "REGISTERED" /\ Looks("idle", NoLook)
         \/ ~look.power /\ Looks("query", [look EXCEPT !.old = old])
      /\ UNCHANGED <<chainVars, status, managerVars, start, down>>

\* The status in memory, then the power.
VotingPower ==
  LET old == ins[look.ins].status
  IN  /\ mon["status"].pc = "power"
      /\ \/ look.power /\ old # "ACTIVE" /\ Looks("set", [look EXCEPT !.new = "ACTIVE"])
         \/ look.power /\ old = "ACTIVE" /\ Looks("idle", NoLook)
         \/ ~look.power /\ Looks("query", [look EXCEPT !.old = old])
      /\ UNCHANGED <<chainVars, status, managerVars, start, down>>

\* Mutant: a slashed provider is not told from one that has lost its power.
StatusWithoutPower_Slashed(old) ==
  CASE standing = "jailed"                      -> "JAILED"
    [] standing # "jailed" /\ old = "ACTIVE"    -> "INACTIVE"
    [] OTHER                                    -> old

\* Mutant: a jailed provider is taken for a slashed one.
StatusWithoutPower_Jailed(old) ==
  CASE standing # "good"                        -> "SLASHED"
    [] standing = "good" /\ old = "ACTIVE"      -> "INACTIVE"
    [] OTHER                                    -> old

\* What a provider without power becomes: by its standing, else by the
\* status that was read before.
StatusWithoutPower(old) ==
  CASE standing = "slashed"                     -> "SLASHED"
    [] standing = "jailed"                      -> "JAILED"
    [] standing = "good" /\ old = "ACTIVE"      -> "INACTIVE"
    [] OTHER                                    -> old

\* QueryFinalityProviderSlashedOrJailed and the branches that follow.
SlashedOrJailed ==
  LET new == StatusWithoutPower(look.old)
  IN  /\ mon["status"].pc = "query"
      /\ IF standing # "good" \/ new # look.old
         THEN Looks("set", [look EXCEPT !.new = new])
         ELSE Looks("idle", NoLook)
      /\ UNCHANGED <<chainVars, status, managerVars, start, down>>

\* MustSetStatus on the instance of this round, whatever has happened to it.
SetStatus ==
  /\ mon["status"].pc = "set"
  /\ ins' = [ins EXCEPT ![look.ins].status = look.new]
  /\ status' = look.new
  /\ Looks(IF look.new \in {"SLASHED", "JAILED"} THEN "remove" ELSE "idle", NoLook)
  /\ UNCHANGED <<chainVars, fpIns, start, down>>

-----------------------------------------------------------------------------
(* removeFinalityProviderInstance and, inside it, the instance's Stop.     *)

StopStep(t, pc) == mon' = [mon EXCEPT ![t].pc = pc]

\* Mutant: the instance is dropped without being stopped.
RemoveInstance_NoStop(t) ==
  /\ mon[t].pc = "remove"
  /\ \/ fpIns = 0 /\ Ends("panic")
     \/ /\ fpIns # 0
        /\ mon' = [mon EXCEPT ![t] = [pc |-> "clear", ins |-> fpIns]]
        /\ UNCHANGED <<status, managerVars, start, look, down>>
  /\ UNCHANGED chainVars

\* A missing instance is an error, on which the monitors panic.
RemoveInstance(t) ==
  /\ mon[t].pc = "remove"
  /\ \/ fpIns = 0 /\ Ends("panic")
     \/ /\ fpIns # 0
        /\ mon' = [mon EXCEPT ![t] = [pc |-> IF ins[fpIns].started THEN "swap" ELSE "clear",
                                      ins |-> fpIns]]
        /\ UNCHANGED <<status, managerVars, start, look, down>>
  /\ UNCHANGED chainVars

\* isStarted.Swap(false).  A second Stop is an error, on which the monitors
\* panic.
StopSwap(t) ==
  /\ mon[t].pc = "swap"
  /\ \/ /\ ~ins[mon[t].ins].started
        /\ Ends("panic")
     \/ /\ ins[mon[t].ins].started
        /\ ins' = [ins EXCEPT ![mon[t].ins].started = FALSE]
        /\ StopStep(t, "poller")
        /\ UNCHANGED <<status, fpIns, start, look, down>>
  /\ UNCHANGED chainVars

\* poller.Stop() and close(quit).  An instance whose Start failed has no
\* poller, and closing a closed channel panics.
StopPoller(t) ==
  LET i == mon[t].ins
  IN  /\ mon[t].pc = "poller"
      /\ IF ins[i].poller /\ ins[i].quit = "open"
         THEN /\ ins' = [ins EXCEPT ![i].quit = "closed"]
              /\ StopStep(t, "wait")
              /\ UNCHANGED <<status, fpIns, start, look, down>>
         ELSE Ends("panic")
      /\ UNCHANGED chainVars

\* wg.Wait().
WaitLoops(t) ==
  /\ mon[t].pc = "wait"
  /\ ~Running(mon[t].ins)
  /\ StopStep(t, "clear")
  /\ UNCHANGED <<chainVars, status, managerVars, start, look, down>>

\* When the pointer is cleared by t, nobody holds the instance any more and its goroutines have returned.
Garbage(t, i) ==
  /\ ~Running(i)
  /\ i # look.ins
  /\ \A u \in Starters : start[u].ins # i
  /\ \A u \in Monitors \ {t} : mon[u].ins # i

\* Whatever instance the pointer holds by now is dropped.
ClearInstance(t) ==
  /\ mon[t].pc = "clear"
  /\ fpIns' = 0
  /\ ins' = [i \in Instances |-> IF Garbage(t, i) THEN NoInstance ELSE ins[i]]
  /\ Monitoring(t, "idle")
  /\ UNCHANGED <<chainVars, status, start, look, down>>

-----------------------------------------------------------------------------

\* A daemon that has just started, or one that has just registered the
\* provider: then the RPC starts it as well.
Init ==
  /\ standing = "good" /\ hasPower = FALSE
  /\ status = "REGISTERED"
  /\ fpIns = 0
  /\ ins = [i \in Instances |-> NoInstance]
  /\ start \in [Starters -> {IdleStart, [IdleStart EXCEPT !.pc = "check"]}]
  /\ start["sync"] = IdleStart
  /\ mon = [t \in Monitors |-> [pc |-> "off", ins |-> 0]]
  /\ look = NoLook
  /\ down = "no" /\ overlap = FALSE

\* The daemon is killed.
Crash ==
  /\ Ends("killed")
  /\ UNCHANGED chainVars

\* It is started again and finds what is stored.
Restart ==
  /\ down # "no"
  /\ down' = "no"
  /\ UNCHANGED <<chainVars, status, managerVars, start, mon, look, overlap>>

StartStep(t) ==
  StartFinalityProvider(t) \/ NewInstance(t) \/ StartInstance(t) \/ Bootstrap(t) \/ BootstrapFails(t)

RemoveStep(t) ==
  \/ RemoveInstance(t) \/ StopSwap(t) \/ StopPoller(t) \/ WaitLoops(t)
  \/ ClearInstance(t)

StatusStep == StatusTick \/ VotingPower \/ SlashedOrJailed \/ SetStatus

Step ==
  \/ PowerChanges \/ Punish \/ Crash
  \/ SyncReads \/ SyncDecides \/ SendUnjail \/ UnjailFinalityProvider
  \/ \E t \in Starters : StartStep(t)
  \/ \E i \in Instances, r \in Runs : LoopReports(i, r) \/ LoopQuits(i, r) \/ MonitorCriticalErr(i, r)
  \/ StatusStep
  \/ \E t \in Monitors : RemoveStep(t)

\* Two starts, or a removal and a start, another removal or a round of the
\* status monitor, are under way.
Overlapping ==
  LET starting == {t \in Starters : start[t].pc \in {"create", "start", "boot"}}
      removing == {t \in Monitors : mon[t].pc \in RemovePcs}
      looking == {t \in Monitors : mon[t].pc \in {"power", "query", "set"}}
  IN  \/ \E t, u \in starting : t # u
      \/ \E t \in removing, u \in starting \cup removing \cup looking : t # u

\* A step of the running program.
Up(A) ==
  /\ down = "no"
  /\ A
  /\ overlap' = (down' = "no" /\ (overlap \/ Overlapping'))

Next == Up(Step) \/ Restart

Spec == Init /\ [][Next]_vars

(***************************************************************************)
(* Fairness.  Threads that can run do run, the tickers of the              *)
(* synchronisation and of the status monitor tick, and a select takes a    *)
(* case that is ready again and again.  Nothing is assumed of the chain,   *)
(* of the RPCs' callers, of the errors of the loops, or of anyone stopping *)
(* or restarting the daemon.                                               *)
(***************************************************************************)
Fairness ==
  /\ WF_vars(Up(SyncReads \/ SyncDecides))
  /\ WF_vars(Up(UnjailFinalityProvider))
  /\ \A t \in Starters : WF_vars(Up(StartStep(t)))
  /\ \A i \in Instances, r \in Runs :
       SF_vars(Up(LoopQuits(i, r))) /\ SF_vars(Up(MonitorCriticalErr(i, r)))
  /\ SF_vars(Up(StatusTick))
  /\ WF_vars(Up(VotingPower \/ SlashedOrJailed \/ SetStatus))
  /\ \A t \in Monitors : WF_vars(Up(RemoveStep(t)))

FairSpec == Spec /\ Fairness

-----------------------------------------------------------------------------
(* Properties.                                                             *)

\* The manager has no lock.  As long as no start and no removal overlap, at
\* most one instance has goroutines, and it is the one the manager holds, so
\* that it can be stopped: a provider never votes from two instances.
OneInstance ==
  ~overlap => \A i \in Instances : Running(i) => i = fpIns

\* The program panics only when starts and removals overlap, or when it
\* stops an instance whose Start failed.
PanicHasCause ==
  [][down # "panic" /\ down' = "panic" =>
       overlap \/ \E t \in Monitors : mon[t].pc = "poller" /\ ~ins[mon[t].ins].poller]_vars

\* A provider is recorded as slashed only when it is slashed on the chain.
\* The record is final: nothing in the program starts the provider again.
SlashedIsReal ==
  status = "SLASHED" \/ (\E i \in Instances : ins[i].status = "SLASHED") => standing = "slashed"

\* With status updates, an instance of a punished provider is removed,
\* whichever monitor comes first and even when monitorCriticalErr waits for
\* ever in Stop.
PunishedIsRemoved ==
  StatusUpdates => (standing # "good" ~> standing = "good" \/ fpIns = 0 \/ down # "no")

\* With status updates, the instance learns that it has power.
PowerIsNoticed ==
  StatusUpdates =>
    (<>[](fpIns # 0 /\ hasPower /\ down = "no")
       => []<>(fpIns # 0 /\ ins[fpIns].status = "ACTIVE"))
=============================================================================
