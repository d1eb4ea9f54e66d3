-------------------------- MODULE FpManagerProofs --------------------------
(***************************************************************************)
(* Proofs about the finality-provider manager, for any number of instances *)
(* and of starts of one instance.                                          *)
(***************************************************************************)
EXTENDS FpManager, TLAPS

(***************************************************************************)
(* Type correctness.                                                       *)
(***************************************************************************)
StartRecord == [pc : StartPcs, ins : 0..MaxInstances, status : Statuses, power : BOOLEAN]
MonRecord == [pc : MonPcs, ins : 0..MaxInstances]
LookRecord == [ins : 0..MaxInstances, power : BOOLEAN, old : Statuses, new : Statuses]

(***************************************************************************)
(* A slashed provider stays slashed on the chain, and every local that     *)
(* says so was set after it was slashed.                                   *)
(***************************************************************************)
SaysSlashed ==
  \/ status = "SLASHED"
  \/ \E i \in Instances : ins[i].status = "SLASHED" \/ \E r \in Runs : ins[i].loops[r] = "slashed"
  \/ \E t \in Starters : start[t].status = "SLASHED"
  \/ "SLASHED" \in {look.old, look.new}

SlashInv == SaysSlashed => standing = "slashed"

(***************************************************************************)
(* What holds while no starts and removals overlap.                        *)
(***************************************************************************)
Starting(t) == start[t].pc \in {"create", "start", "boot"}
Removing(t) == mon[t].pc \in RemovePcs
Looking(t) == mon[t].pc \in {"power", "query", "set"}
Stopping(t) == mon[t].pc \in RemovePcs \ {"remove"}

\* What ~Overlapping says of two threads.
Exclusive ==
  /\ \A t, u \in Starters : Starting(t) /\ Starting(u) => t = u
  /\ \A m \in Monitors : Removing(m) =>
       /\ \A t \in Starters : ~Starting(t)
       /\ \A n \in Monitors : Removing(n) \/ Looking(n) => n = m

\* Which locals point to an instance.
LocalsInv ==
  /\ \A t \in Starters : start[t].ins # 0 <=> start[t].pc = "boot"
  /\ \A t \in Monitors : mon[t].ins # 0 <=> Stopping(t)
  /\ look.ins # 0 <=> Looking("status")
  /\ ~Looking("crit")

\* Stop of instance i is past the swap, or past closing quit.
Swapped(i) == \E t \in Monitors : mon[t].pc \in {"poller", "wait"} /\ mon[t].ins = i
Closed(i) == \E t \in Monitors : mon[t].pc \in {"wait", "clear"} /\ mon[t].ins = i

InstancesInv ==
  \A i \in Instances :
    /\ Running(i) => i = fpIns /\ (ins[i].started \/ Swapped(i))
    /\ ins[i].poller => ins[i].quit # "none"
    /\ ins[i].quit = "closed" => Closed(i)

StartersInv ==
  \A t \in Starters :
    /\ start[t].pc = "create" => fpIns = 0
    /\ start[t].pc = "start" => fpIns # 0
    /\ start[t].pc = "boot" => start[t].ins = fpIns /\ ins[fpIns].started

MonitorsInv ==
  \A t \in Monitors :
    /\ Looking(t) \/ mon[t].pc = "remove" => fpIns # 0
    /\ Stopping(t) => mon[t].ins = fpIns
    /\ mon[t].pc = "swap" => ins[fpIns].started
    /\ mon[t].pc = "clear" => ~Running(fpIns)

Orderly == Exclusive /\ InstancesInv /\ StartersInv /\ MonitorsInv

ManagerInv == TypeOK /\ LocalsInv /\ SlashInv /\ (~overlap => Orderly)

LEMMA ConstantTypes ==
  /\ NoInstance \in Instance
  /\ \A pc \in StartPcs : [IdleStart EXCEPT !.pc = pc] \in StartRecord
  /\ IdleStart \in StartRecord
  /\ NoLook \in LookRecord
  /\ \A pc \in MonPcs, i \in 0..MaxInstances : [pc |-> pc, ins |-> i] \in MonRecord
  /\ 0 \in 0..MaxInstances
<1>1. 0 \in 0..MaxInstances
  BY ManagerAssumption
<1>2. NoInstance \in Instance
  BY DEF NoInstance, Instance, Statuses
<1>3. IdleStart \in StartRecord /\ \A pc \in StartPcs : [IdleStart EXCEPT !.pc = pc] \in StartRecord
  BY <1>1 DEF IdleStart, StartRecord, StartPcs, Statuses
<1>4. NoLook \in LookRecord
  BY <1>1 DEF NoLook, LookRecord, Statuses
<1>5. \A pc \in MonPcs, i \in 0..MaxInstances : [pc |-> pc, ins |-> i] \in MonRecord
  BY DEF MonRecord
<1> QED BY <1>1, <1>2, <1>3, <1>4, <1>5

\* TypeOK without the history variable.
MemTypeOK ==
  /\ standing \in {"good", "jailed", "slashed"}
  /\ hasPower \in BOOLEAN
  /\ status \in Statuses
  /\ fpIns \in 0..MaxInstances
  /\ ins \in [Instances -> Instance]
  /\ start \in [Starters -> StartRecord]
  /\ mon \in [Monitors -> MonRecord]
  /\ look \in LookRecord
  /\ down \in {"no", "panic", "fatal", "killed"}

LEMMA TypeParts == TypeOK <=> MemTypeOK /\ overlap \in BOOLEAN
BY DEF TypeOK, MemTypeOK, StartRecord, MonRecord, LookRecord

LEMMA EndsType ==
  ASSUME MemTypeOK, NEW why \in {"panic", "fatal", "killed"}, Ends(why), UNCHANGED chainVars
  PROVE  MemTypeOK'
<1>1. ins' \in [Instances -> Instance] /\ fpIns' \in 0..MaxInstances
  BY ConstantTypes DEF Ends
<1>2. start' \in [Starters -> StartRecord]
  BY ConstantTypes DEF Ends
<1>3. mon' \in [Monitors -> MonRecord]
  <2>1. [pc |-> "off", ins |-> 0] \in MonRecord
    BY ConstantTypes DEF MonPcs
  <2> QED BY <2>1 DEF Ends
<1> QED BY <1>1, <1>2, <1>3, ConstantTypes DEF Ends, MemTypeOK, chainVars

LEMMA StartedType ==
  ASSUME MemTypeOK, NEW t \in Starters, NEW pc \in StartPcs, Started(t, pc)
  PROVE  start' \in [Starters -> StartRecord]
BY ConstantTypes DEF Started, MemTypeOK

LEMMA MonitoringType ==
  ASSUME MemTypeOK, NEW t \in Monitors, NEW pc \in MonPcs, Monitoring(t, pc)
  PROVE  mon' \in [Monitors -> MonRecord]
<1>1. [pc |-> pc, ins |-> 0] \in MonRecord
  BY ConstantTypes
<1> QED BY <1>1 DEF Monitoring, MemTypeOK

LEMMA LoopType ==
  ASSUME MemTypeOK, NEW i \in Instances, NEW r \in Runs,
         NEW loop \in {"none", "run", "slashed", "other", "exited"}, SetLoop(i, r, loop)
  PROVE  ins' \in [Instances -> Instance]
<1>1. ins[i] \in Instance
  BY DEF MemTypeOK
<1>2. [ins[i].loops EXCEPT ![r] = loop] \in [Runs -> {"none", "run", "slashed", "other", "exited"}]
  BY <1>1 DEF Instance
<1>3. [ins[i] EXCEPT !.loops = [ins[i].loops EXCEPT ![r] = loop]] \in Instance
  BY <1>1, <1>2 DEF Instance
<1>4. ins' = [ins EXCEPT ![i] = [ins[i] EXCEPT !.loops = [ins[i].loops EXCEPT ![r] = loop]]]
  BY DEF SetLoop
<1> QED BY <1>1, <1>3, <1>4 DEF MemTypeOK

LEMMA StatusType ==
  ASSUME MemTypeOK, NEW i, NEW s \in Statuses
  PROVE  [ins EXCEPT ![i].status = s] \in [Instances -> Instance]
<1>1. \A j \in Instances : [ins[j] EXCEPT !.status = s] \in Instance
  BY DEF MemTypeOK, Instance
<1> QED BY <1>1 DEF MemTypeOK

LEMMA FieldTypes ==
  ASSUME MemTypeOK, NEW i \in Instances
  PROVE  /\ \A b \in BOOLEAN : [ins EXCEPT ![i].started = b] \in [Instances -> Instance]
         /\ [ins EXCEPT ![i].quit = "closed"] \in [Instances -> Instance]
<1>1. \A b \in BOOLEAN : [ins[i] EXCEPT !.started = b] \in Instance
  BY DEF MemTypeOK, Instance
<1>2. [ins[i] EXCEPT !.quit = "closed"] \in Instance
  BY DEF MemTypeOK, Instance
<1> QED BY <1>1, <1>2 DEF MemTypeOK

LEMMA BootType ==
  ASSUME MemTypeOK, NEW i \in Instances, NEW r \in Runs
  PROVE  [ins EXCEPT ![i].poller = TRUE, ![i].quit = "open", ![i].loops[r] = "run"]
           \in [Instances -> Instance]
<1> DEFINE loops == [ins[i].loops EXCEPT ![r] = "run"]
           x == [ins[i] EXCEPT !.poller = TRUE, !.quit = "open", !.loops = loops]
<1>1. ins[i] \in Instance
  BY DEF MemTypeOK
<1>2. loops \in [Runs -> {"none", "run", "slashed", "other", "exited"}]
  BY <1>1 DEF Instance
<1>3. x \in Instance
  BY <1>1, <1>2 DEF Instance
<1>4. [ins EXCEPT ![i].poller = TRUE, ![i].quit = "open", ![i].loops[r] = "run"]
        = [ins EXCEPT ![i] = x]
  BY <1>1 DEF MemTypeOK, Instance
<1> HIDE DEF x
<1> QED BY <1>3, <1>4 DEF MemTypeOK

LEMMA StartersType ==
  ASSUME MemTypeOK, LocalsInv, NEW t \in Starters, StartStep(t)
  PROVE  MemTypeOK'
<1>1. start[t] \in StartRecord
  BY DEF MemTypeOK
<1>2. CASE StartFinalityProvider(t)
  <2>1. mon' \in [Monitors -> MonRecord]
    <3>1. \A u \in Monitors, pc \in {"exited", "idle"} : [mon[u] EXCEPT !.pc = pc] \in MonRecord
      BY DEF MemTypeOK, MonRecord, MonPcs
    <3> QED BY <1>2, <3>1 DEF StartFinalityProvider, StartMonitors, MemTypeOK
  <2>2. start' \in [Starters -> StartRecord]
    BY <1>2, StartedType DEF StartFinalityProvider, StartPcs
  <2> QED BY <1>2, <2>1, <2>2 DEF StartFinalityProvider, MemTypeOK, chainVars, managerVars
<1>3. CASE NewInstance(t)
  <2>1. start' \in [Starters -> StartRecord]
    BY <1>3, StartedType DEF NewInstance, StartPcs
  <2>2. ins' \in [Instances -> Instance] /\ fpIns' \in 0..MaxInstances
    <3>1. CASE ShouldStart([status |-> status])
      BY <1>3, <3>1, StatusType DEF NewInstance, MemTypeOK, Instances
    <3>2. CASE ~ShouldStart([status |-> status])
      BY <1>3, <3>2 DEF NewInstance, MemTypeOK, managerVars
    <3> QED BY <3>1, <3>2
  <2> QED BY <1>3, <2>1, <2>2 DEF NewInstance, MemTypeOK, chainVars
<1>4. CASE StartInstance(t)
  <2>1. CASE fpIns = 0
    BY <1>4, <2>1, EndsType DEF StartInstance
  <2>2. CASE fpIns # 0
    <3>1. fpIns \in Instances
      BY <2>2 DEF MemTypeOK, Instances
    <3>2. ins' \in [Instances -> Instance]
      BY <1>4, <2>2, <3>1, FieldTypes DEF StartInstance
    <3>3. start' \in [Starters -> StartRecord]
      <4>1. [IdleStart EXCEPT !.pc = "boot", !.ins = fpIns] \in StartRecord
        BY DEF IdleStart, StartRecord, StartPcs, Statuses, MemTypeOK
      <4>2. CASE ins[fpIns].started \/ ins[fpIns].status = "JAILED"
        BY <1>4, <2>2, <4>2, StartedType DEF StartInstance, StartPcs
      <4>3. CASE ~(ins[fpIns].started \/ ins[fpIns].status = "JAILED")
        BY <1>4, <2>2, <4>1, <4>3 DEF StartInstance, MemTypeOK
      <4> QED BY <4>2, <4>3
    <3> QED BY <1>4, <2>2, <3>2, <3>3 DEF StartInstance, MemTypeOK, chainVars
  <2> QED BY <2>1, <2>2
<1>5. start[t].pc = "boot" => start[t].ins \in Instances
  BY <1>1 DEF LocalsInv, StartRecord, Instances
<1>6. CASE Bootstrap(t)
  <2>1. start[t].ins \in Instances
    BY <1>5, <1>6 DEF Bootstrap
  <2>2. ins' \in [Instances -> Instance]
    <3>1. PICK r \in Runs :
            ins' = [ins EXCEPT ![start[t].ins].poller = TRUE, ![start[t].ins].quit = "open",
                               ![start[t].ins].loops[r] = "run"]
      BY <1>6 DEF Bootstrap
    <3> QED BY <2>1, <3>1, BootType, Zenon
  <2>3. start' \in [Starters -> StartRecord]
    BY <1>6, StartedType DEF Bootstrap, StartPcs
  <2> QED BY <1>6, <2>2, <2>3 DEF Bootstrap, MemTypeOK, chainVars
<1>7. CASE BootstrapFails(t)
  <2>1. ASSUME ins' = [ins EXCEPT ![start[t].ins].status = "JAILED"]
        PROVE  ins' \in [Instances -> Instance]
    BY <2>1, StatusType, Zenon DEF Statuses
  <2>2. ins' \in [Instances -> Instance] /\ status' \in Statuses
    BY <1>7, <2>1 DEF BootstrapFails, MemTypeOK, Statuses
  <2>3. start' \in [Starters -> StartRecord]
    BY <1>7, StartedType DEF BootstrapFails, StartPcs
  <2> QED BY <1>7, <2>2, <2>3 DEF BootstrapFails, MemTypeOK, chainVars
<1> QED BY <1>2, <1>3, <1>4, <1>6, <1>7 DEF StartStep

LEMMA SyncType ==
  ASSUME MemTypeOK, SyncReads \/ SyncDecides \/ SendUnjail \/ UnjailFinalityProvider
  PROVE  MemTypeOK'
<1>1. "sync" \in Starters /\ "rpc" \in Starters
  BY DEF Starters
<1>2. CASE SyncReads
  <2>1. [pc |-> "decide", ins |-> 0, status |-> status, power |-> hasPower] \in StartRecord
    BY ConstantTypes DEF MemTypeOK, StartRecord, StartPcs
  <2> QED BY <1>2, <2>1 DEF SyncReads, MemTypeOK, chainVars, managerVars
<1>3. CASE SyncDecides
  <2>1. start' \in [Starters -> StartRecord]
    BY <1>1, <1>3, StartedType DEF SyncDecides, StartPcs
  <2>2. UpdateFpStatusFromVotingPower(start["sync"].power, start["sync"].status) \in Statuses
    BY <1>1 DEF UpdateFpStatusFromVotingPower, MemTypeOK, StartRecord, Statuses
  <2>3. status' \in Statuses
    BY <1>3, <2>2 DEF SyncDecides, MemTypeOK
  <2> QED BY <1>3, <2>1, <2>3 DEF SyncDecides, MemTypeOK, chainVars, managerVars
<1>4. CASE SendUnjail
  <2>1. start' \in [Starters -> StartRecord]
    BY <1>1, <1>4, StartedType DEF SendUnjail, StartPcs, MemTypeOK
  <2> QED BY <1>4, <2>1 DEF SendUnjail, MemTypeOK, chainVars, managerVars
<1>5. CASE UnjailFinalityProvider
  <2>1. start' \in [Starters -> StartRecord]
    BY <1>1, <1>5, StartedType DEF UnjailFinalityProvider, StartPcs
  <2> QED BY <1>5, <2>1 DEF UnjailFinalityProvider, MemTypeOK, chainVars, managerVars, Statuses
<1> QED BY <1>2, <1>3, <1>4, <1>5

LEMMA LoopsType ==
  ASSUME MemTypeOK, NEW i \in Instances, NEW r \in Runs,
         LoopReports(i, r) \/ LoopQuits(i, r) \/ MonitorCriticalErr(i, r)
  PROVE  MemTypeOK'
<1>1. CASE LoopReports(i, r)
  BY <1>1, LoopType DEF LoopReports, MemTypeOK, chainVars
<1>2. CASE LoopQuits(i, r)
  BY <1>2, LoopType DEF LoopQuits, MemTypeOK, chainVars
<1>3. CASE MonitorCriticalErr(i, r)
  <2>1. CASE fpIns = 0
    BY <1>3, <2>1, LoopType DEF MonitorCriticalErr, MemTypeOK, chainVars
  <2>2. CASE fpIns # 0 /\ ins[i].loops[r] = "slashed"
    <3> DEFINE loops == [ins[i].loops EXCEPT ![r] = "run"]
               x == [ins[i] EXCEPT !.loops = loops]
               mid == [ins EXCEPT ![i] = x]
    <3>0. ins' = [mid EXCEPT ![fpIns].status = "SLASHED"]
      BY <1>3, <2>2 DEF MonitorCriticalErr
    <3>1. mid \in [Instances -> Instance] /\ fpIns \in Instances
      <4>1. loops \in [Runs -> {"none", "run", "slashed", "other", "exited"}]
        BY DEF MemTypeOK, Instance
      <4>2. x \in Instance
        BY <4>1 DEF MemTypeOK, Instance
      <4> HIDE DEF x
      <4> QED BY <2>2, <4>2 DEF MemTypeOK, Instances
    <3> HIDE DEF mid
    <3>2. ins' = [mid EXCEPT ![fpIns] = [mid[fpIns] EXCEPT !.status = "SLASHED"]]
      BY <3>0
    <3>3. [mid[fpIns] EXCEPT !.status = "SLASHED"] \in Instance
      BY <3>1 DEF Instance, Statuses
    <3>4. ins' \in [Instances -> Instance]
      BY <3>1, <3>2, <3>3
    <3>5. mon' \in [Monitors -> MonRecord]
      BY <1>3, <2>2, MonitoringType DEF MonitorCriticalErr, MonPcs, RemovePcs, Monitors
    <3> QED BY <1>3, <2>2, <3>4, <3>5 DEF MonitorCriticalErr, MemTypeOK, chainVars, Statuses
  <2>3. CASE fpIns # 0 /\ ins[i].loops[r] = "other"
    BY <1>3, <2>3, EndsType DEF MonitorCriticalErr
  <2> QED BY <1>3, <2>1, <2>2, <2>3 DEF MonitorCriticalErr
<1> QED BY <1>1, <1>2, <1>3

LEMMA LooksType ==
  ASSUME MemTypeOK, NEW pc \in MonPcs, NEW l \in LookRecord, Looks(pc, l)
  PROVE  mon' \in [Monitors -> MonRecord] /\ look' \in LookRecord
BY MonitoringType DEF Looks, Monitors

LEMMA StatusStepType ==
  ASSUME MemTypeOK, LocalsInv, StatusStep
  PROVE  MemTypeOK'
<1> USE DEF chainVars, managerVars
<1>1. \A pc \in {"idle", "power", "query", "set", "remove"} : pc \in MonPcs
  BY DEF MonPcs, RemovePcs
<1>2. \A s \in Statuses : [look EXCEPT !.new = s] \in LookRecord /\ [look EXCEPT !.old = s] \in LookRecord
  BY DEF MemTypeOK, LookRecord
<1>3. CASE StatusTick
  <2>1. [NoLook EXCEPT !.ins = fpIns, !.power = hasPower] \in LookRecord
    BY DEF NoLook, LookRecord, MemTypeOK, Statuses
  <2> QED BY <1>1, <1>3, <2>1, LooksType DEF StatusTick, MemTypeOK
<1>4. CASE VotingPower
  <2>1. look.ins \in Instances /\ ins[look.ins].status \in Statuses
    BY <1>4 DEF VotingPower, LocalsInv, Looking, MemTypeOK, LookRecord, Instances, Instance
  <2>2. mon' \in [Monitors -> MonRecord] /\ look' \in LookRecord
    <3>1. CASE Looks("set", [look EXCEPT !.new = "ACTIVE"])
      BY <1>1, <1>2, <3>1, LooksType DEF Statuses
    <3>2. CASE Looks("idle", NoLook)
      BY <1>1, <3>2, LooksType, ConstantTypes
    <3>3. CASE Looks("query", [look EXCEPT !.old = ins[look.ins].status])
      BY <1>1, <1>2, <2>1, <3>3, LooksType
    <3> QED BY <1>4, <3>1, <3>2, <3>3 DEF VotingPower
  <2> QED BY <1>4, <2>2 DEF VotingPower, MemTypeOK
<1>5. CASE SlashedOrJailed
  <2>1. StatusWithoutPower(look.old) \in Statuses
    BY DEF StatusWithoutPower, MemTypeOK, LookRecord, Statuses
  <2>2. mon' \in [Monitors -> MonRecord] /\ look' \in LookRecord
    BY <1>1, <1>2, <1>5, <2>1, LooksType, ConstantTypes DEF SlashedOrJailed
  <2> QED BY <1>5, <2>2 DEF SlashedOrJailed, MemTypeOK
<1>6. CASE SetStatus
  <2>1. look.new \in Statuses
    BY DEF MemTypeOK, LookRecord
  <2>2. ins' \in [Instances -> Instance]
    BY <1>6, <2>1, StatusType DEF SetStatus
  <2>3. mon' \in [Monitors -> MonRecord] /\ look' \in LookRecord
    BY <1>1, <1>6, LooksType, ConstantTypes DEF SetStatus
  <2> QED BY <1>6, <2>1, <2>2, <2>3 DEF SetStatus, MemTypeOK
<1> QED BY <1>3, <1>4, <1>5, <1>6 DEF StatusStep

LEMMA RemoveType ==
  ASSUME MemTypeOK, LocalsInv, NEW t \in Monitors, RemoveStep(t)
  PROVE  MemTypeOK'
<1> USE DEF chainVars, managerVars
<1>1. mon[t] \in MonRecord /\ (Stopping(t) => mon[t].ins \in Instances)
  BY DEF MemTypeOK, LocalsInv, MonRecord, Instances
<1>2. ASSUME NEW pc \in MonPcs, StopStep(t, pc) PROVE mon' \in [Monitors -> MonRecord]
  <2>1. [mon[t] EXCEPT !.pc = pc] \in MonRecord
    BY <1>1 DEF MonRecord
  <2> QED BY <1>2, <2>1 DEF StopStep, MemTypeOK
<1>3. \A pc \in RemovePcs : pc \in MonPcs
  BY DEF MonPcs
<1>4. CASE RemoveInstance(t)
  <2>1. CASE fpIns = 0
    BY <1>4, <2>1, EndsType DEF RemoveInstance
  <2>2. CASE fpIns # 0
    <3>1. mon' \in [Monitors -> MonRecord]
      BY <1>4, <2>2, ConstantTypes DEF RemoveInstance, MonPcs, RemovePcs, MemTypeOK
    <3> QED BY <1>4, <2>2, <3>1 DEF RemoveInstance, MemTypeOK
  <2> QED BY <2>1, <2>2
<1>5. CASE StopSwap(t)
  <2>0. mon[t].ins \in Instances
    BY <1>1, <1>5 DEF StopSwap, Stopping, RemovePcs
  <2>1. CASE ~ins[mon[t].ins].started
    BY <1>5, <2>1, EndsType DEF StopSwap
  <2>2. CASE ins[mon[t].ins].started
    <3>1. mon' \in [Monitors -> MonRecord]
      BY <1>2, <1>3, <1>5, <2>2 DEF StopSwap, RemovePcs
    <3>2. ins' \in [Instances -> Instance]
      BY <1>5, <2>0, <2>2, FieldTypes DEF StopSwap
    <3> QED BY <1>5, <2>2, <3>1, <3>2 DEF StopSwap, MemTypeOK
  <2> QED BY <2>1, <2>2
<1>6. CASE StopPoller(t)
  <2>0. mon[t].ins \in Instances
    BY <1>1, <1>6 DEF StopPoller, Stopping, RemovePcs
  <2> DEFINE stops == ins[mon[t].ins].poller /\ ins[mon[t].ins].quit = "open"
  <2>1. CASE ~stops
    BY <1>6, <2>1, EndsType DEF StopPoller
  <2>2. CASE stops
    <3>1. mon' \in [Monitors -> MonRecord]
      BY <1>2, <1>3, <1>6, <2>2 DEF StopPoller, RemovePcs
    <3>2. ins' \in [Instances -> Instance]
      BY <1>6, <2>0, <2>2, FieldTypes DEF StopPoller
    <3> QED BY <1>6, <2>2, <3>1, <3>2 DEF StopPoller, MemTypeOK
  <2> QED BY <2>1, <2>2
<1>7. CASE WaitLoops(t)
  <2>1. mon' \in [Monitors -> MonRecord]
    BY <1>2, <1>3, <1>7 DEF WaitLoops, RemovePcs
  <2> QED BY <1>7, <2>1 DEF WaitLoops, MemTypeOK
<1>8. CASE ClearInstance(t)
  <2>1. mon' \in [Monitors -> MonRecord]
    BY <1>8, MonitoringType DEF ClearInstance, MonPcs
  <2>2. ins' \in [Instances -> Instance] /\ fpIns' \in 0..MaxInstances
    BY <1>8, ConstantTypes DEF ClearInstance, MemTypeOK
  <2> QED BY <1>8, <2>1, <2>2 DEF ClearInstance, MemTypeOK
<1> QED BY <1>4, <1>5, <1>6, <1>7, <1>8 DEF RemoveStep

LEMMA StepType ==
  ASSUME MemTypeOK, LocalsInv, Step
  PROVE  MemTypeOK'
<1>1. CASE PowerChanges
  BY <1>1 DEF PowerChanges, MemTypeOK, managerVars
<1>2. CASE Punish
  BY <1>2, ManagerAssumption DEF Punish, MemTypeOK, managerVars
<1>3. CASE Crash
  BY <1>3, EndsType DEF Crash
<1> QED BY <1>1, <1>2, <1>3, SyncType, StartersType, LoopsType, StatusStepType, RemoveType DEF Step

(***************************************************************************)
(* The locals.                                                             *)
(***************************************************************************)
LEMMA StartedLocals ==
  ASSUME MemTypeOK, LocalsInv, NEW t \in Starters, NEW pc \in StartPcs \ {"boot"}, Started(t, pc)
  PROVE  \A u \in Starters : start'[u].ins # 0 <=> start'[u].pc = "boot"
<1>1. [IdleStart EXCEPT !.pc = pc].pc = pc /\ [IdleStart EXCEPT !.pc = pc].ins = 0
  BY DEF IdleStart
<1> QED BY <1>1 DEF Started, MemTypeOK, LocalsInv

LEMMA EndsLocals ==
  ASSUME NEW why, Ends(why)
  PROVE  LocalsInv'
BY DEF Ends, LocalsInv, IdleStart, NoLook, Looking, Stopping, RemovePcs, Monitors

\* A step that leaves the monitors alone.
LEMMA StarterLocals ==
  ASSUME MemTypeOK, LocalsInv, UNCHANGED <<mon, look>>,
         \/ UNCHANGED start
         \/ \E t \in Starters, pc \in StartPcs \ {"boot"} : Started(t, pc)
  PROVE  LocalsInv'
<1>1. \A u \in Starters : start'[u].ins # 0 <=> start'[u].pc = "boot"
  BY StartedLocals DEF LocalsInv
<1> QED BY <1>1 DEF LocalsInv, Looking, Stopping

\* A step of a monitor to pc, with the instance i it stops.
LEMMA MonitorLocals ==
  ASSUME MemTypeOK, LocalsInv, UNCHANGED start, NEW t \in Monitors,
         NEW pc \in MonPcs, NEW i \in 0..MaxInstances,
         mon' = [mon EXCEPT ![t] = [pc |-> pc, ins |-> i]],
         i # 0 <=> pc \in RemovePcs \ {"remove"},
         t = "crit" => pc \notin {"power", "query", "set"} /\ UNCHANGED look,
         t = "status" => (look'.ins # 0 <=> pc \in {"power", "query", "set"})
  PROVE  LocalsInv'
<1>1. mon'[t].pc = pc /\ mon'[t].ins = i /\ \A u \in Monitors \ {t} : mon'[u] = mon[u]
  BY DEF MemTypeOK
<1>2. \A u \in Starters : start'[u].ins # 0 <=> start'[u].pc = "boot"
  BY DEF LocalsInv
<1>3. \A u \in Monitors : mon'[u].ins # 0 <=> mon'[u].pc \in RemovePcs \ {"remove"}
  BY <1>1 DEF LocalsInv, Stopping
<1>4. look'.ins # 0 <=> mon'["status"].pc \in {"power", "query", "set"}
  BY <1>1 DEF LocalsInv, Looking, Monitors
<1>5. mon'["crit"].pc \notin {"power", "query", "set"}
  BY <1>1 DEF LocalsInv, Looking, Monitors
<1> QED BY <1>2, <1>3, <1>4, <1>5 DEF LocalsInv, Looking, Stopping

LEMMA StepLocals ==
  ASSUME MemTypeOK, LocalsInv, Step
  PROVE  LocalsInv'
<1>0. \A t \in Starters : start[t] \in StartRecord
  BY DEF MemTypeOK
<1>1. CASE PowerChanges \/ Punish
  BY <1>1, StarterLocals DEF PowerChanges, Punish
<1>2. ASSUME NEW why, Ends(why) PROVE LocalsInv'
  BY <1>2, EndsLocals
<1>3. CASE SyncReads
  <2>1. \A u \in Starters : start'[u].ins # 0 <=> start'[u].pc = "boot"
    BY <1>3 DEF SyncReads, MemTypeOK, LocalsInv, Starters
  <2> QED BY <1>3, <2>1 DEF SyncReads, LocalsInv, Looking, Stopping
<1>4. CASE SyncDecides
  BY <1>4, StarterLocals DEF SyncDecides, Starters, StartPcs
<1>5. CASE SendUnjail
  BY <1>5, StarterLocals DEF SendUnjail, Starters, StartPcs
<1>6. CASE UnjailFinalityProvider
  BY <1>6, StarterLocals DEF UnjailFinalityProvider, Starters, StartPcs
<1>7. ASSUME NEW t \in Starters, StartStep(t) PROVE LocalsInv'
  <2>1. CASE StartFinalityProvider(t)
    <3>1. \A u \in Starters : start'[u].ins # 0 <=> start'[u].pc = "boot"
      BY <2>1, StartedLocals DEF StartFinalityProvider, StartPcs
    <3>2. \A u \in Monitors : /\ mon'[u].ins = mon[u].ins
                              /\ \/ mon'[u].pc = mon[u].pc
                                 \/ mon[u].pc = "off" /\ mon'[u].pc \in {"idle", "exited"}
      <4> SUFFICES ASSUME NEW u \in Monitors
                   PROVE  /\ mon'[u].ins = mon[u].ins
                          /\ \/ mon'[u].pc = mon[u].pc
                             \/ mon[u].pc = "off" /\ mon'[u].pc \in {"idle", "exited"}
        OBVIOUS
      <4>1. mon[u] \in MonRecord
        BY DEF MemTypeOK
      <4>2. CASE mon[u].pc # "off"
        BY <2>1, <4>2 DEF StartFinalityProvider, StartMonitors
      <4>3. CASE mon[u].pc = "off"
        BY <2>1, <4>1, <4>3 DEF StartFinalityProvider, StartMonitors, MonRecord
      <4> QED BY <4>2, <4>3
    <3>3. UNCHANGED look
      BY <2>1 DEF StartFinalityProvider
    <3> QED BY <3>1, <3>2, <3>3 DEF LocalsInv, Looking, Stopping, RemovePcs, Monitors
  <2>2. CASE NewInstance(t)
    BY <2>2, StarterLocals DEF NewInstance, StartPcs
  <2>3. CASE StartInstance(t)
    <3>1. CASE fpIns = 0
      BY <1>2, <2>3, <3>1 DEF StartInstance
    <3>2. CASE fpIns # 0 /\ Started(t, "idle")
      BY <2>3, <3>2, StarterLocals DEF StartInstance, StartPcs
    <3>3. CASE fpIns # 0 /\ ~Started(t, "idle")
      <4>1. start' = [start EXCEPT ![t] = [IdleStart EXCEPT !.pc = "boot", !.ins = fpIns]]
            /\ UNCHANGED <<mon, look>>
        BY <2>3, <3>3 DEF StartInstance
      <4>2. start'[t].pc = "boot" /\ start'[t].ins = fpIns
            /\ \A u \in Starters \ {t} : start'[u] = start[u]
        BY <4>1 DEF IdleStart, MemTypeOK
      <4> QED BY <3>3, <4>1, <4>2 DEF LocalsInv, Looking, Stopping
    <3> QED BY <3>1, <3>2, <3>3
  <2>4. CASE Bootstrap(t)
    BY <2>4, StarterLocals DEF Bootstrap, StartPcs
  <2>5. CASE BootstrapFails(t)
    BY <2>5, StarterLocals DEF BootstrapFails, StartPcs
  <2> QED BY <1>7, <2>1, <2>2, <2>3, <2>4, <2>5 DEF StartStep
<1>8. ASSUME NEW i \in Instances, NEW r \in Runs,
             LoopReports(i, r) \/ LoopQuits(i, r) \/ MonitorCriticalErr(i, r)
      PROVE  LocalsInv'
  <2>1. CASE UNCHANGED <<start, mon, look>>
    BY <2>1, StarterLocals
  <2>2. CASE Monitoring("crit", "remove") /\ UNCHANGED <<start, look>>
    BY <2>2, MonitorLocals, ConstantTypes DEF Monitoring, Monitors, MonPcs, RemovePcs
  <2> QED BY <1>2, <1>8, <2>1, <2>2 DEF LoopReports, LoopQuits, MonitorCriticalErr
<1>9. CASE StatusStep
  <2>1. ASSUME NEW pc \in {"idle", "power", "query", "set", "remove"}, NEW l, Looks(pc, l),
               UNCHANGED start, l.ins # 0 <=> pc \in {"power", "query", "set"}
        PROVE  LocalsInv'
    BY <2>1, MonitorLocals, ConstantTypes DEF Looks, Monitoring, Monitors, MonPcs, RemovePcs
  <2>2. NoLook.ins = 0
    BY DEF NoLook
  <2>3. \A x : [look EXCEPT !.new = x].ins = look.ins /\ [look EXCEPT !.old = x].ins = look.ins
    BY DEF MemTypeOK, LookRecord
  <2>4. mon["status"].pc \in {"power", "query", "set"} => look.ins # 0
    BY DEF LocalsInv, Looking
  <2>5. CASE StatusTick
    <3>1. [NoLook EXCEPT !.ins = fpIns, !.power = hasPower].ins = fpIns
      BY DEF NoLook
    <3> QED BY <2>1, <2>5, <3>1 DEF StatusTick
  <2>6. CASE VotingPower
    BY <2>1, <2>2, <2>3, <2>4, <2>6 DEF VotingPower
  <2>7. CASE SlashedOrJailed
    BY <2>1, <2>2, <2>3, <2>4, <2>7 DEF SlashedOrJailed
  <2>8. CASE SetStatus
    BY <2>1, <2>2, <2>8 DEF SetStatus
  <2> QED BY <1>9, <2>5, <2>6, <2>7, <2>8 DEF StatusStep
<1>10. ASSUME NEW t \in Monitors, RemoveStep(t) PROVE LocalsInv'
  <2>0. mon[t] \in MonRecord
    BY DEF MemTypeOK
  <2>1. CASE RemoveInstance(t)
    <3>1. CASE fpIns = 0
      BY <1>2, <2>1, <3>1 DEF RemoveInstance
    <3>2. CASE fpIns # 0
      <4>1. PICK pc \in {"swap", "clear"} : mon' = [mon EXCEPT ![t] = [pc |-> pc, ins |-> fpIns]]
        BY <2>1, <3>2 DEF RemoveInstance
      <4>2. t = "status" => look.ins = 0
        BY <2>1 DEF RemoveInstance, LocalsInv, Looking
      <4> QED BY <2>1, <3>2, <4>1, <4>2, MonitorLocals DEF RemoveInstance, RemovePcs, MonPcs, MemTypeOK
    <3> QED BY <3>1, <3>2
  <2>2. ASSUME NEW pc \in {"poller", "wait", "clear"}, StopStep(t, pc), UNCHANGED <<start, look>>,
               mon[t].pc \in {"swap", "poller", "wait"}
        PROVE  LocalsInv'
    <3>1. mon' = [mon EXCEPT ![t] = [pc |-> pc, ins |-> mon[t].ins]]
      <4>1. [mon[t] EXCEPT !.pc = pc] = [pc |-> pc, ins |-> mon[t].ins]
        BY <2>0 DEF MonRecord
      <4>2. mon' = [mon EXCEPT ![t] = [mon[t] EXCEPT !.pc = pc]]
        BY <2>2 DEF StopStep
      <4> QED BY <4>1, <4>2
    <3>2. mon[t].ins # 0 /\ mon[t].ins \in 0..MaxInstances
      BY <2>0, <2>2 DEF LocalsInv, Stopping, RemovePcs, MonRecord
    <3>3. t = "status" => look.ins = 0
      BY <2>2 DEF LocalsInv, Looking
    <3> QED BY <2>2, <3>1, <3>2, <3>3, MonitorLocals DEF RemovePcs, MonPcs
  <2>3. CASE StopSwap(t)
    BY <1>2, <2>2, <2>3 DEF StopSwap
  <2>4. CASE StopPoller(t)
    BY <1>2, <2>2, <2>4 DEF StopPoller
  <2>5. CASE WaitLoops(t)
    BY <2>2, <2>5 DEF WaitLoops
  <2>6. CASE ClearInstance(t)
    <3>1. t = "status" => look.ins = 0
      BY <2>6 DEF ClearInstance, LocalsInv, Looking
    <3> QED BY <2>6, <3>1, MonitorLocals, ConstantTypes DEF ClearInstance, Monitoring, RemovePcs, MonPcs
  <2> QED BY <1>10, <2>1, <2>3, <2>4, <2>5, <2>6 DEF RemoveStep
<1> QED BY <1>1, <1>2, <1>3, <1>4, <1>5, <1>6, <1>7, <1>8, <1>9, <1>10 DEF Step, Crash

(***************************************************************************)
(* Slashing.                                                               *)
(***************************************************************************)
LEMMA SlashedForGood ==
  ASSUME Step, standing = "slashed"
  PROVE  standing' = "slashed"
<1>1. ASSUME UNCHANGED chainVars PROVE standing' = "slashed"
  BY <1>1 DEF chainVars
<1>2. ASSUME NEW t \in Starters, StartStep(t) PROVE UNCHANGED chainVars
  BY <1>2 DEF StartStep, StartFinalityProvider, NewInstance, StartInstance, Bootstrap, BootstrapFails
<1>3. ASSUME NEW i \in Instances, NEW r \in Runs,
             LoopReports(i, r) \/ LoopQuits(i, r) \/ MonitorCriticalErr(i, r)
      PROVE  UNCHANGED chainVars
  BY <1>3 DEF LoopReports, LoopQuits, MonitorCriticalErr
<1>4. ASSUME StatusStep PROVE UNCHANGED chainVars
  BY <1>4 DEF StatusStep, StatusTick, VotingPower, SlashedOrJailed, SetStatus
<1>5. ASSUME NEW t \in Monitors, RemoveStep(t) PROVE UNCHANGED chainVars
  BY <1>5 DEF RemoveStep, RemoveInstance, StopSwap, StopPoller, WaitLoops, ClearInstance
<1>6. ASSUME PowerChanges \/ Punish \/ SendUnjail PROVE FALSE
  BY <1>6 DEF PowerChanges, Punish, SendUnjail
<1>7. ASSUME Crash \/ SyncReads \/ SyncDecides \/ UnjailFinalityProvider PROVE UNCHANGED chainVars
  BY <1>7 DEF Crash, SyncReads, SyncDecides, UnjailFinalityProvider
<1> QED BY <1>1, <1>2, <1>3, <1>4, <1>5, <1>6, <1>7 DEF Step

LEMMA EndsSlash ==
  ASSUME NEW why, Ends(why), SaysSlashed'
  PROVE  SaysSlashed
BY DEF Ends, SaysSlashed, NoInstance, IdleStart, NoLook

\* No field of the instances says that the provider is slashed that did not before.
NoNewSlash ==
  \A i \in Instances :
    /\ ins'[i].status = "SLASHED" => SaysSlashed
    /\ \A r \in Runs : ins'[i].loops[r] = "slashed" => SaysSlashed

LEMMA StatusSlash ==
  ASSUME MemTypeOK, NEW i, NEW s, ins' = [ins EXCEPT ![i].status = s], s = "SLASHED" => SaysSlashed
  PROVE  NoNewSlash
<1> SUFFICES ASSUME NEW j \in Instances
             PROVE  /\ ins'[j].status = "SLASHED" => SaysSlashed
                    /\ \A r \in Runs : ins'[j].loops[r] = "slashed" => SaysSlashed
  BY DEF NoNewSlash
<1>1. ins'[j].loops = ins[j].loops /\ ins'[j].status \in {s, ins[j].status}
  BY DEF MemTypeOK, Instance
<1> QED BY <1>1 DEF SaysSlashed

LEMMA LoopSlash ==
  ASSUME MemTypeOK, NEW i \in Instances, NEW q \in Runs, NEW loop, SetLoop(i, q, loop),
         loop = "slashed" => SaysSlashed
  PROVE  NoNewSlash
<1> SUFFICES ASSUME NEW j \in Instances
             PROVE  /\ ins'[j].status = "SLASHED" => SaysSlashed
                    /\ \A r \in Runs : ins'[j].loops[r] = "slashed" => SaysSlashed
  BY DEF NoNewSlash
<1>1. ins'[j].status = ins[j].status
  BY DEF SetLoop, MemTypeOK, Instance
<1>2. \A r \in Runs : ins'[j].loops[r] \in {loop, ins[j].loops[r]}
  BY DEF SetLoop, MemTypeOK, Instance
<1> QED BY <1>1, <1>2 DEF SaysSlashed

\* The fields of an instance that a step changes without slashing anything.
LEMMA FieldSlash ==
  ASSUME MemTypeOK, NEW i,
         \/ \E b : ins' = [ins EXCEPT ![i].started = b]
         \/ ins' = [ins EXCEPT ![i].quit = "closed"]
  PROVE  NoNewSlash
<1>1. \A j \in Instances : ins'[j].status = ins[j].status /\ ins'[j].loops = ins[j].loops
  BY DEF MemTypeOK, Instance
<1> QED BY <1>1 DEF NoNewSlash, SaysSlashed

LEMMA BootSlash ==
  ASSUME MemTypeOK, NEW i \in Instances, NEW q \in Runs,
         ins' = [ins EXCEPT ![i].poller = TRUE, ![i].quit = "open", ![i].loops[q] = "run"]
  PROVE  NoNewSlash
<1> SUFFICES ASSUME NEW j \in Instances
             PROVE  /\ ins'[j].status = "SLASHED" => SaysSlashed
                    /\ \A r \in Runs : ins'[j].loops[r] = "slashed" => SaysSlashed
  BY DEF NoNewSlash
<1>1. ins'[j].status = ins[j].status
  BY DEF MemTypeOK, Instance
<1>2. \A r \in Runs : ins'[j].loops[r] \in {"run", ins[j].loops[r]}
  BY DEF MemTypeOK, Instance
<1> QED BY <1>1, <1>2 DEF SaysSlashed

LEMMA StartedSlash ==
  ASSUME MemTypeOK, NEW t \in Starters, NEW pc, Started(t, pc)
  PROVE  \A u \in Starters : start'[u].status = "SLASHED" => SaysSlashed
<1>1. [IdleStart EXCEPT !.pc = pc].status = "CREATED"
  BY DEF IdleStart
<1>2. \A u \in Starters : start'[u].status \in {"CREATED", start[u].status}
  BY <1>1 DEF Started, MemTypeOK
<1> QED BY <1>2 DEF SaysSlashed

\* As long as the provider is not slashed, no step says that it is.
LEMMA NothingSaysSlashed ==
  ASSUME MemTypeOK, LocalsInv, Step, ~SaysSlashed, standing # "slashed"
  PROVE  ~SaysSlashed'
<1>0. ASSUME NoNewSlash, status' = "SLASHED" => SaysSlashed,
             \A u \in Starters : start'[u].status = "SLASHED" => SaysSlashed,
             "SLASHED" \notin {look'.old, look'.new}
      PROVE  ~SaysSlashed'
  BY <1>0 DEF SaysSlashed, NoNewSlash
<1>1. ASSUME UNCHANGED ins PROVE NoNewSlash
  BY <1>1 DEF NoNewSlash, SaysSlashed
<1>2. ASSUME UNCHANGED start PROVE \A u \in Starters : start'[u].status = "SLASHED" => SaysSlashed
  BY <1>2 DEF SaysSlashed
<1>3. UNCHANGED look => "SLASHED" \notin {look'.old, look'.new}
  BY DEF SaysSlashed
<1>4. UNCHANGED status => (status' = "SLASHED" => SaysSlashed)
  BY DEF SaysSlashed
<1>5. ASSUME NEW why, Ends(why) PROVE ~SaysSlashed'
  BY <1>5, EndsSlash
<1>6. CASE PowerChanges \/ Punish
  BY <1>0, <1>1, <1>2, <1>3, <1>4, <1>6 DEF PowerChanges, Punish, managerVars
<1>7. CASE SyncReads
  <2>1. \A u \in Starters : start'[u].status \in {status, start[u].status}
    BY <1>7 DEF SyncReads, MemTypeOK
  <2>2. \A u \in Starters : start'[u].status = "SLASHED" => SaysSlashed
    BY <2>1 DEF SaysSlashed
  <2> QED BY <1>0, <1>1, <1>3, <1>4, <1>7, <2>2 DEF SyncReads, managerVars
<1>8. CASE SyncDecides
  <2>1. start["sync"].status # "SLASHED"
    BY DEF SaysSlashed, Starters
  <2>2. UpdateFpStatusFromVotingPower(start["sync"].power, start["sync"].status) # "SLASHED"
    BY <2>1 DEF UpdateFpStatusFromVotingPower, MemTypeOK, StartRecord, Starters
  <2>3. status' = "SLASHED" => SaysSlashed
    BY <1>4, <1>8, <2>2 DEF SyncDecides
  <2>4. \A u \in Starters : start'[u].status = "SLASHED" => SaysSlashed
    BY <1>8, StartedSlash DEF SyncDecides, Starters
  <2> QED BY <1>0, <1>1, <1>3, <1>8, <2>3, <2>4 DEF SyncDecides, managerVars
<1>9. CASE SendUnjail \/ UnjailFinalityProvider
  <2>4. \A u \in Starters : start'[u].status = "SLASHED" => SaysSlashed
    BY <1>2, <1>9, StartedSlash DEF SendUnjail, UnjailFinalityProvider, Starters
  <2> QED BY <1>0, <1>1, <1>3, <1>4, <1>9, <2>4 DEF SendUnjail, UnjailFinalityProvider, managerVars
<1>10. ASSUME NEW t \in Starters, StartStep(t) PROVE ~SaysSlashed'
  <2>0. start[t] \in StartRecord /\ (start[t].pc = "boot" => start[t].ins \in Instances)
    BY DEF MemTypeOK, LocalsInv, StartRecord, Instances
  <2>1. CASE StartFinalityProvider(t)
    <3>1. \A u \in Starters : start'[u].status = "SLASHED" => SaysSlashed
      BY <2>1, StartedSlash DEF StartFinalityProvider
    <3> QED BY <1>0, <1>1, <1>3, <1>4, <2>1, <3>1 DEF StartFinalityProvider, managerVars
  <2>2. CASE NewInstance(t)
    <3>1. \A u \in Starters : start'[u].status = "SLASHED" => SaysSlashed
      BY <2>2, StartedSlash DEF NewInstance
    <3>2. NoNewSlash
      <4>1. CASE UNCHANGED managerVars
        BY <1>1, <4>1 DEF managerVars
      <4>2. CASE \E i \in Instances : ins' = [ins EXCEPT ![i].status = status]
        <5>1. PICK i \in Instances : ins' = [ins EXCEPT ![i].status = status]
          BY <4>2
        <5> QED BY <5>1, StatusSlash DEF SaysSlashed
      <4> QED BY <2>2, <4>1, <4>2 DEF NewInstance
    <3> QED BY <1>0, <1>3, <1>4, <2>2, <3>1, <3>2 DEF NewInstance
  <2>3. CASE StartInstance(t)
    <3>1. CASE fpIns = 0
      BY <1>5, <2>3, <3>1 DEF StartInstance
    <3>2. CASE fpIns # 0
      <4>1. \A u \in Starters : start'[u].status = "SLASHED" => SaysSlashed
        <5>1. CASE Started(t, "idle")
          BY <5>1, StartedSlash
        <5>2. CASE ~Started(t, "idle")
          <6>1. start' = [start EXCEPT ![t] = [IdleStart EXCEPT !.pc = "boot", !.ins = fpIns]]
            BY <2>3, <3>2, <5>2 DEF StartInstance
          <6>2. \A u \in Starters : start'[u].status \in {"CREATED", start[u].status}
            BY <6>1 DEF IdleStart, MemTypeOK
          <6> QED BY <6>2 DEF SaysSlashed
        <5> QED BY <5>1, <5>2
      <4>2. ins' = [ins EXCEPT ![fpIns].started = TRUE]
        BY <2>3, <3>2 DEF StartInstance
      <4>3. NoNewSlash
        BY <4>2, FieldSlash
      <4> QED BY <1>0, <1>3, <1>4, <2>3, <3>2, <4>1, <4>3 DEF StartInstance
    <3> QED BY <3>1, <3>2
  <2>4. CASE Bootstrap(t)
    <3>1. \A u \in Starters : start'[u].status = "SLASHED" => SaysSlashed
      BY <2>4, StartedSlash DEF Bootstrap
    <3>2. PICK r \in Runs :
            ins' = [ins EXCEPT ![start[t].ins].poller = TRUE, ![start[t].ins].quit = "open",
                               ![start[t].ins].loops[r] = "run"]
      BY <2>4 DEF Bootstrap
    <3>3. start[t].ins \in Instances
      BY <2>0, <2>4 DEF Bootstrap
    <3>4. NoNewSlash
      BY <3>2, <3>3, BootSlash, Zenon
    <3> QED BY <1>0, <1>3, <1>4, <2>4, <3>1, <3>4 DEF Bootstrap
  <2>5. CASE BootstrapFails(t)
    <3>1. \A u \in Starters : start'[u].status = "SLASHED" => SaysSlashed
      BY <2>5, StartedSlash DEF BootstrapFails
    <3>2. ASSUME ins' = [ins EXCEPT ![start[t].ins].status = "JAILED"] PROVE NoNewSlash
      <4>1. "JAILED" # "SLASHED"
        OBVIOUS
      <4> QED BY <3>2, <4>1, StatusSlash, Zenon
    <3>3. NoNewSlash
      BY <1>1, <2>5, <3>2 DEF BootstrapFails
    <3>4. status' = "SLASHED" => SaysSlashed
      BY <1>4, <2>5 DEF BootstrapFails
    <3> QED BY <1>0, <1>3, <2>5, <3>1, <3>3, <3>4 DEF BootstrapFails
  <2> QED BY <1>10, <2>1, <2>2, <2>3, <2>4, <2>5 DEF StartStep
<1>11. ASSUME NEW i \in Instances, NEW r \in Runs,
              LoopReports(i, r) \/ LoopQuits(i, r) \/ MonitorCriticalErr(i, r)
       PROVE  ~SaysSlashed'
  <2>1. ins[i].loops[r] # "slashed"
    BY DEF SaysSlashed
  <2>2. CASE \E loop \in {"other", "exited", "run"} :
               SetLoop(i, r, loop) /\ UNCHANGED <<status, start, look>>
    <3>1. NoNewSlash
      BY <2>2, LoopSlash
    <3> QED BY <1>0, <1>2, <1>3, <1>4, <2>2, <3>1
  <2> QED BY <1>5, <1>11, <2>1, <2>2 DEF LoopReports, LoopQuits, MonitorCriticalErr
<1>12. CASE StatusStep
  <2>0. look \in LookRecord /\ "SLASHED" \notin {look.old, look.new}
    BY DEF MemTypeOK, SaysSlashed
  <2>1. UNCHANGED start
    BY <1>12 DEF StatusStep, StatusTick, VotingPower, SlashedOrJailed, SetStatus
  <2>2. ASSUME UNCHANGED <<status, ins>>, "SLASHED" \notin {look'.old, look'.new} PROVE ~SaysSlashed'
    BY <1>0, <1>1, <1>2, <1>4, <2>1, <2>2
  <2>3. NoLook.old = "CREATED" /\ NoLook.new = "CREATED"
    BY DEF NoLook
  <2>4. \A x : /\ [look EXCEPT !.new = x].new = x /\ [look EXCEPT !.new = x].old = look.old
               /\ [look EXCEPT !.old = x].old = x /\ [look EXCEPT !.old = x].new = look.new
    BY <2>0 DEF LookRecord
  <2>5. CASE StatusTick
    <3>1. [NoLook EXCEPT !.ins = fpIns, !.power = hasPower].old = "CREATED"
          /\ [NoLook EXCEPT !.ins = fpIns, !.power = hasPower].new = "CREATED"
      BY DEF NoLook
    <3> QED BY <2>2, <2>5, <3>1 DEF StatusTick, Looks, managerVars
  <2>6. CASE VotingPower
    <3>1. look.ins \in Instances
      BY <2>0, <2>6 DEF VotingPower, LocalsInv, Looking, LookRecord, Instances
    <3>2. ins[look.ins].status # "SLASHED"
      BY <3>1 DEF SaysSlashed
    <3>3. "SLASHED" \notin {look'.old, look'.new}
      <4>1. CASE look' = [look EXCEPT !.new = "ACTIVE"]
        BY <2>0, <2>4, <4>1
      <4>2. CASE look' = NoLook
        BY <2>3, <4>2
      <4>3. CASE look' = [look EXCEPT !.old = ins[look.ins].status]
        BY <2>0, <2>4, <3>2, <4>3
      <4> QED BY <2>6, <4>1, <4>2, <4>3 DEF VotingPower, Looks
    <3> QED BY <2>2, <2>6, <3>3 DEF VotingPower, managerVars
  <2>7. CASE SlashedOrJailed
    <3>1. StatusWithoutPower(look.old) # "SLASHED"
      BY <2>0 DEF StatusWithoutPower, MemTypeOK
    <3>2. "SLASHED" \notin {look'.old, look'.new}
      <4>1. CASE look' = [look EXCEPT !.new = StatusWithoutPower(look.old)]
        BY <2>0, <2>4, <3>1, <4>1
      <4>2. CASE look' = NoLook
        BY <2>3, <4>2
      <4> QED BY <2>7, <4>1, <4>2 DEF SlashedOrJailed, Looks
    <3> QED BY <2>2, <2>7, <3>2 DEF SlashedOrJailed, managerVars
  <2>8. CASE SetStatus
    <3>1. ins' = [ins EXCEPT ![look.ins].status = look.new]
      BY <2>8 DEF SetStatus
    <3>2. NoNewSlash
      BY <2>0, <3>1, StatusSlash, Zenon
    <3>3. status' = look.new /\ look' = NoLook
      BY <2>8 DEF SetStatus, Looks
    <3> QED BY <1>0, <1>2, <2>0, <2>1, <2>3, <3>2, <3>3
  <2> QED BY <1>12, <2>5, <2>6, <2>7, <2>8 DEF StatusStep
<1>13. ASSUME NEW t \in Monitors, RemoveStep(t) PROVE ~SaysSlashed'
  <2>1. ASSUME NoNewSlash, UNCHANGED <<status, start, look>> PROVE ~SaysSlashed'
    BY <1>0, <1>2, <1>3, <1>4, <2>1
  <2>2. CASE RemoveInstance(t) \/ WaitLoops(t)
    BY <1>1, <1>5, <2>1, <2>2 DEF RemoveInstance, WaitLoops, managerVars
  <2>3. CASE StopSwap(t)
    <3>1. ASSUME ins' = [ins EXCEPT ![mon[t].ins].started = FALSE] PROVE NoNewSlash
      BY <3>1, FieldSlash
    <3> QED BY <1>5, <2>1, <2>3, <3>1 DEF StopSwap
  <2>4. CASE StopPoller(t)
    <3>1. ASSUME ins' = [ins EXCEPT ![mon[t].ins].quit = "closed"] PROVE NoNewSlash
      BY <3>1, FieldSlash
    <3> QED BY <1>5, <2>1, <2>4, <3>1 DEF StopPoller
  <2>5. CASE ClearInstance(t)
    <3>1. NoNewSlash
      BY <2>5 DEF ClearInstance, NoNewSlash, SaysSlashed, NoInstance
    <3> QED BY <2>1, <2>5, <3>1 DEF ClearInstance
  <2> QED BY <1>13, <2>2, <2>3, <2>4, <2>5 DEF RemoveStep
<1> QED BY <1>5, <1>6, <1>7, <1>8, <1>9, <1>10, <1>11, <1>12, <1>13 DEF Step, Crash

LEMMA StepSlash ==
  ASSUME MemTypeOK, LocalsInv, SlashInv, Step
  PROVE  SlashInv'
BY NothingSaysSlashed, SlashedForGood DEF SlashInv

(***************************************************************************)
(* Starts and removals that do not overlap.                                *)
(***************************************************************************)
LEMMA ExclusiveUnlessOverlapping == ~Overlapping => Exclusive
<1> SUFFICES ASSUME ~Overlapping PROVE Exclusive
  OBVIOUS
<1>1. \A t, u \in Starters : Starting(t) /\ Starting(u) => t = u
  BY DEF Overlapping, Starting
<1>2. ASSUME NEW m \in Monitors, Removing(m), NEW t \in Starters PROVE ~Starting(t)
  BY <1>2 DEF Overlapping, Starting, Removing, Starters, Monitors
<1>3. ASSUME NEW m \in Monitors, Removing(m), NEW n \in Monitors, Removing(n) \/ Looking(n)
      PROVE  n = m
  BY <1>3 DEF Overlapping, Removing, Looking
<1> QED BY <1>1, <1>2, <1>3 DEF Exclusive

LEMMA InstanceNumbers ==
  /\ \A i \in Instances : i # 0
  /\ \A i \in 0..MaxInstances : i # 0 => i \in Instances
BY ManagerAssumption DEF Instances

\* The instances keep their invariant when their loops go on or end and no stop is undone.
LEMMA InstancesFrame ==
  ASSUME InstancesInv, UNCHANGED fpIns,
         \A j \in Instances : Running(j)' => Running(j),
         \A j \in Instances : ins[j].started => ins'[j].started,
         \A j \in Instances : ins'[j].poller = ins[j].poller /\ ins'[j].quit = ins[j].quit,
         \A u \in Monitors : mon'[u] = mon[u] \/ mon[u].pc \notin {"poller", "wait", "clear"}
  PROVE  InstancesInv'
<1>1. \A j \in Instances : Swapped(j) => Swapped(j)'
  BY DEF Swapped
<1>2. \A j \in Instances : Closed(j) => Closed(j)'
  BY DEF Closed
<1> QED BY <1>1, <1>2 DEF InstancesInv

LEMMA SameRunning ==
  ASSUME NEW j, ins'[j].loops = ins[j].loops
  PROVE  Running(j)' <=> Running(j)
BY DEF Running

LEMMA EndsOrderly ==
  ASSUME NEW why, Ends(why)
  PROVE  Orderly'
<1>1. \A t \in Starters : start'[t].pc = "idle"
  BY DEF Ends, IdleStart
<1>2. \A t \in Monitors : mon'[t].pc = "off"
  BY DEF Ends
<1>3. \A i \in Instances : ins'[i] = NoInstance
  BY DEF Ends
<1>4. Exclusive'
  BY <1>1, <1>2 DEF Exclusive, Starting, Removing, Looking, RemovePcs
<1>5. InstancesInv'
  BY <1>3 DEF InstancesInv, NoInstance, Running, Alive
<1>6. StartersInv'
  BY <1>1 DEF StartersInv
<1>7. MonitorsInv'
  BY <1>2 DEF MonitorsInv, Looking, Stopping, RemovePcs
<1> QED BY <1>4, <1>5, <1>6, <1>7 DEF Orderly

\* What a step leaves to show, when the threads exclude each other after it.
RestInv == InstancesInv /\ StartersInv /\ MonitorsInv

\* Only starters move, and none begins a start.
LEMMA QuietStarters ==
  ASSUME Orderly, UNCHANGED <<fpIns, ins, mon>>,
         \A u \in Starters : start'[u] = start[u] \/ start'[u].pc \notin {"create", "start", "boot"}
  PROVE  RestInv'
<1>1. InstancesInv'
  BY InstancesFrame, SameRunning DEF Orderly
<1>2. StartersInv'
  BY DEF Orderly, StartersInv
<1>3. MonitorsInv'
  BY DEF Orderly, MonitorsInv, Running, Looking, Stopping
<1> QED BY <1>1, <1>2, <1>3 DEF RestInv

\* After Started(t, pc).
LEMMA StartedPcs ==
  ASSUME MemTypeOK, NEW t \in Starters, NEW pc, Started(t, pc)
  PROVE  start'[t].pc = pc /\ \A u \in Starters \ {t} : start'[u] = start[u]
BY DEF Started, MemTypeOK, IdleStart

\* Only fields that the invariant does not look at change in the instances.
SameInstances ==
  \A i \in Instances : /\ ins'[i].loops = ins[i].loops
                       /\ ins'[i].poller = ins[i].poller
                       /\ ins'[i].quit = ins[i].quit

LEMMA OrderlySync ==
  ASSUME MemTypeOK, Orderly,
         \/ PowerChanges \/ Punish \/ SyncReads \/ SyncDecides \/ SendUnjail \/ UnjailFinalityProvider
  PROVE  RestInv'
<1>1. UNCHANGED <<fpIns, ins, mon>>
  BY DEF PowerChanges, Punish, SyncReads, SyncDecides, SendUnjail, UnjailFinalityProvider, managerVars
<1>2. \A u \in Starters : start'[u] = start[u] \/ start'[u].pc \notin {"create", "start", "boot"}
  <2>1. CASE UNCHANGED start
    BY <2>1
  <2>2. CASE SyncReads
    BY <2>2 DEF SyncReads, MemTypeOK
  <2>3. ASSUME NEW t \in Starters, NEW pc \in {"done", "check", "idle", "unjailed"}, Started(t, pc)
        PROVE  \A u \in Starters :
                 start'[u] = start[u] \/ start'[u].pc \notin {"create", "start", "boot"}
    BY <2>3, StartedPcs
  <2> QED BY <2>1, <2>2, <2>3
          DEF PowerChanges, Punish, SyncDecides, SendUnjail, UnjailFinalityProvider, Starters
<1> QED BY <1>1, <1>2, QuietStarters

LEMMA OrderlyCheck ==
  ASSUME MemTypeOK, Orderly, NEW t \in Starters, StartFinalityProvider(t)
  PROVE  RestInv'
<1>1. \A u \in Monitors :
        mon'[u] = mon[u] \/ (mon[u].pc = "off" /\ mon'[u].pc \in {"idle", "exited"})
  <2> SUFFICES ASSUME NEW u \in Monitors, mon[u].pc = "off"
               PROVE  mon'[u].pc \in {"idle", "exited"}
    BY DEF StartFinalityProvider, StartMonitors
  <2>1. mon[u] \in MonRecord
    BY DEF MemTypeOK
  <2> QED BY <2>1 DEF StartFinalityProvider, StartMonitors, MonRecord
<1>2. UNCHANGED <<fpIns, ins>>
  BY DEF StartFinalityProvider, managerVars
<1>3. /\ start'[t].pc = IF fpIns = 0 THEN "create" ELSE "start"
      /\ \A u \in Starters \ {t} : start'[u] = start[u]
  BY StartedPcs DEF StartFinalityProvider
<1>4. InstancesInv'
  BY <1>1, <1>2, InstancesFrame, SameRunning DEF Orderly
<1>5. StartersInv'
  BY <1>2, <1>3 DEF Orderly, StartersInv
<1>6. MonitorsInv'
  BY <1>1, <1>2 DEF Orderly, MonitorsInv, Running, Looking, Stopping, RemovePcs
<1> QED BY <1>4, <1>5, <1>6 DEF RestInv

LEMMA OrderlyCreate ==
  ASSUME MemTypeOK, LocalsInv, Orderly, NEW t \in Starters, NewInstance(t)
  PROVE  RestInv'
<1>1. CASE ~ShouldStart([status |-> status])
  <2>1. UNCHANGED <<fpIns, ins, mon>> /\ Started(t, "idle")
    BY <1>1 DEF NewInstance, managerVars
  <2> QED BY <2>1, StartedPcs, QuietStarters
<1>2. CASE ShouldStart([status |-> status])
  <2>1. PICK i \in Instances : ins' = [ins EXCEPT ![i].status = status] /\ fpIns' = i
    BY <1>2 DEF NewInstance
  <2>2. SameInstances
    BY <2>1 DEF SameInstances, MemTypeOK, Instance
  <2>3. start'[t].pc = "start" /\ \A u \in Starters \ {t} : start'[u] = start[u]
    BY <1>2, StartedPcs DEF NewInstance
  <2>4. fpIns = 0 /\ Starting(t) /\ UNCHANGED mon
    BY DEF NewInstance, Orderly, StartersInv, Starting
  <2>5. fpIns' # 0 /\ \A j \in Instances : j # 0
    BY <2>1, InstanceNumbers
  <2>6. \A j \in Instances : ~Running(j)
    BY <2>4, <2>5 DEF Orderly, InstancesInv
  <2>7. InstancesInv'
    <3>1. \A j \in Instances : ~Running(j)' /\ (Closed(j)' <=> Closed(j))
      BY <2>2, <2>4, <2>6, SameRunning DEF SameInstances, Closed
    <3> QED BY <2>2, <3>1 DEF Orderly, InstancesInv, SameInstances
  <2>8. StartersInv'
    BY <2>3, <2>4, <2>5 DEF Orderly, Exclusive, StartersInv, Starting
  <2>9. MonitorsInv'
    BY <2>4 DEF Orderly, MonitorsInv, LocalsInv, Looking, Stopping, RemovePcs
  <2> QED BY <2>7, <2>8, <2>9 DEF RestInv
<1> QED BY <1>1, <1>2

LEMMA OrderlyStart ==
  ASSUME MemTypeOK, Orderly, NEW t \in Starters, StartInstance(t)
  PROVE  RestInv'
<1>1. Starting(t) /\ fpIns # 0
  BY DEF StartInstance, Orderly, StartersInv, Starting
<1>2. ins' = [ins EXCEPT ![fpIns].started = TRUE] /\ UNCHANGED <<fpIns, mon>>
  BY <1>1 DEF StartInstance
<1>3. fpIns \in Instances
  BY <1>1 DEF MemTypeOK, Instances
<1>4. SameInstances /\ ins'[fpIns].started
      /\ \A j \in Instances : ins[j].started => ins'[j].started
  BY <1>2, <1>3 DEF SameInstances, MemTypeOK, Instance
<1>5. /\ start'[t].pc = "idle" \/ (start'[t].pc = "boot" /\ start'[t].ins = fpIns)
      /\ \A u \in Starters \ {t} : start'[u] = start[u]
  <2>1. CASE Started(t, "idle")
    BY <2>1, StartedPcs
  <2>2. CASE ~Started(t, "idle")
    BY <1>1, <2>2 DEF StartInstance, IdleStart, MemTypeOK
  <2> QED BY <2>1, <2>2
<1>6. InstancesInv'
  BY <1>2, <1>4, InstancesFrame, SameRunning DEF Orderly, SameInstances
<1>7. StartersInv'
  BY <1>1, <1>2, <1>4, <1>5 DEF Orderly, Exclusive, StartersInv, Starting
<1>8. MonitorsInv'
  BY <1>1, <1>2 DEF Orderly, Exclusive, MonitorsInv, Looking, Stopping, Removing, RemovePcs
<1> QED BY <1>6, <1>7, <1>8 DEF RestInv

LEMMA OrderlyBoot ==
  ASSUME MemTypeOK, Orderly, NEW t \in Starters, Bootstrap(t) \/ BootstrapFails(t), LocalsInv
  PROVE  RestInv'
<1>1. Starting(t) /\ start[t].ins = fpIns /\ fpIns # 0 /\ ins[fpIns].started
  BY DEF Bootstrap, BootstrapFails, Orderly, StartersInv, Starting, LocalsInv
<1>2. fpIns \in Instances /\ UNCHANGED <<fpIns, mon>>
  BY <1>1 DEF MemTypeOK, Instances, Bootstrap, BootstrapFails
<1>3. start'[t].pc \in {"idle", "done"} /\ \A u \in Starters \ {t} : start'[u] = start[u]
  BY StartedPcs DEF Bootstrap, BootstrapFails
<1>4. StartersInv'
  BY <1>1, <1>3 DEF Orderly, Exclusive, StartersInv, Starting
<1>5. MonitorsInv'
  BY <1>1, <1>2 DEF Orderly, Exclusive, MonitorsInv, Looking, Stopping, Removing, RemovePcs
<1>6. InstancesInv'
  <2>1. CASE Bootstrap(t)
    <3>1. PICK r \in Runs :
            ins' = [ins EXCEPT ![fpIns].poller = TRUE, ![fpIns].quit = "open",
                               ![fpIns].loops[r] = "run"]
      BY <1>1, <2>1 DEF Bootstrap
    <3>2. \A j \in Instances \ {fpIns} : ins'[j] = ins[j]
      BY <3>1 DEF MemTypeOK
    <3>3. ins'[fpIns].quit = "open" /\ ins'[fpIns].started = ins[fpIns].started
      BY <1>2, <3>1 DEF MemTypeOK, Instance
    <3>4. \A j \in Instances \ {fpIns} : Running(j)' <=> Running(j)
      BY <3>2 DEF Running
    <3>5. InstancesInv
      BY DEF Orderly
    <3> SUFFICES ASSUME NEW j \in Instances
                 PROVE  /\ Running(j)' => j = fpIns /\ (ins'[j].started \/ Swapped(j)')
                        /\ ins'[j].poller => ins'[j].quit # "none"
                        /\ ins'[j].quit = "closed" => Closed(j)'
      BY <1>2 DEF InstancesInv
    <3>6. CASE j = fpIns
      BY <1>1, <3>3, <3>6
    <3>7. CASE j # fpIns
      <4>1. (Swapped(j)' <=> Swapped(j)) /\ (Closed(j)' <=> Closed(j))
        BY <1>2 DEF Swapped, Closed
      <4> QED BY <3>2, <3>4, <3>5, <3>7, <4>1 DEF InstancesInv
    <3> QED BY <3>6, <3>7
  <2>2. CASE BootstrapFails(t)
    <3>1. SameInstances /\ \A j \in Instances : ins'[j].started = ins[j].started
      <4>1. CASE UNCHANGED ins
        BY <4>1 DEF SameInstances
      <4>2. CASE ins' = [ins EXCEPT ![start[t].ins].status = "JAILED"]
        BY <4>2 DEF SameInstances, MemTypeOK, Instance
      <4> QED BY <2>2, <4>1, <4>2 DEF BootstrapFails
    <3> QED BY <1>2, <3>1, InstancesFrame, SameRunning DEF Orderly, SameInstances
  <2> QED BY <2>1, <2>2
<1> QED BY <1>4, <1>5, <1>6 DEF RestInv

\* A loop of an instance goes on or ends; nothing else changes in the instances.
LEMMA LoopMoves ==
  ASSUME MemTypeOK, NEW i \in Instances, NEW r \in Runs, NEW loop, SetLoop(i, r, loop),
         Alive(ins[i].loops[r])
  PROVE  /\ \A j \in Instances : Running(j)' => Running(j)
         /\ \A j \in Instances : /\ ins'[j].started = ins[j].started
                                 /\ ins'[j].poller = ins[j].poller
                                 /\ ins'[j].quit = ins[j].quit
<1>1. \A j \in Instances : /\ ins'[j].started = ins[j].started
                           /\ ins'[j].poller = ins[j].poller
                           /\ ins'[j].quit = ins[j].quit
  BY DEF SetLoop, MemTypeOK, Instance
<1>2. \A j \in Instances \ {i} : ins'[j] = ins[j]
  BY DEF SetLoop, MemTypeOK
<1>3. Running(i)
  BY DEF Running
<1>4. \A j \in Instances : Running(j)' => Running(j)
  BY <1>2, <1>3 DEF Running
<1> QED BY <1>1, <1>4

LEMMA HeldInstance ==
  ASSUME MemTypeOK, LocalsInv, Orderly
  PROVE  /\ \A t \in Starters : start[t].pc = "boot" => fpIns \in Instances
         /\ \A t \in Monitors : Stopping(t) => fpIns \in Instances
<1>1. \A t \in Starters : start[t].pc = "boot" => fpIns # 0
  BY DEF Orderly, StartersInv, LocalsInv
<1>2. \A t \in Monitors : Stopping(t) => fpIns # 0
  BY DEF Orderly, MonitorsInv, LocalsInv
<1> QED BY <1>1, <1>2, InstanceNumbers DEF MemTypeOK

\* The instances change at most in their status, and loops go on or end; monitors
\* that stop nothing move.
LEMMA OrderlyFrame ==
  ASSUME MemTypeOK, LocalsInv, Orderly, UNCHANGED <<fpIns, start>>,
         \A j \in Instances : Running(j)' => Running(j),
         \A j \in Instances : /\ ins'[j].started = ins[j].started
                              /\ ins'[j].poller = ins[j].poller
                              /\ ins'[j].quit = ins[j].quit,
         \A u \in Monitors :
           \/ mon'[u] = mon[u]
           \/ /\ ~Stopping(u) /\ mon'[u].pc \notin RemovePcs \ {"remove"}
              /\ mon'[u].pc \in {"remove", "power", "query", "set"} => fpIns # 0
  PROVE  RestInv'
<1>1. InstancesInv'
  <2>1. \A u \in Monitors : mon'[u] = mon[u] \/ mon[u].pc \notin {"poller", "wait", "clear"}
    BY DEF Stopping, RemovePcs
  <2> QED BY <2>1, InstancesFrame DEF Orderly
<1>2. StartersInv'
  <2>1. \A t \in Starters : start[t].pc = "boot" => fpIns \in Instances
    BY HeldInstance
  <2> QED BY <2>1 DEF Orderly, StartersInv
<1>3. MonitorsInv'
  <2>1. \A t \in Monitors : Stopping(t) => fpIns \in Instances
    BY HeldInstance
  <2> QED BY <2>1 DEF Orderly, MonitorsInv, Looking, Stopping, RemovePcs
<1> QED BY <1>1, <1>2, <1>3 DEF RestInv

LEMMA OrderlyLoops ==
  ASSUME MemTypeOK, LocalsInv, Orderly, NEW i \in Instances, NEW r \in Runs,
         LoopReports(i, r) \/ LoopQuits(i, r) \/ MonitorCriticalErr(i, r)
  PROVE  RestInv'
<1>1. Alive(ins[i].loops[r])
  BY DEF LoopReports, LoopQuits, MonitorCriticalErr, Alive
<1>2. CASE \E loop : SetLoop(i, r, loop) /\ UNCHANGED <<fpIns, start, mon>>
  BY <1>1, <1>2, LoopMoves, OrderlyFrame
<1>3. CASE /\ ins' = [ins EXCEPT ![i].loops[r] = "run", ![fpIns].status = "SLASHED"]
           /\ fpIns # 0 /\ mon["crit"].pc = "idle" /\ Monitoring("crit", "remove")
           /\ UNCHANGED <<fpIns, start>>
  <2>1. \A j \in Instances : /\ ins'[j].started = ins[j].started
                             /\ ins'[j].poller = ins[j].poller
                             /\ ins'[j].quit = ins[j].quit
    BY <1>3 DEF MemTypeOK, Instance
  <2>2. \A j \in Instances \ {i} : ins'[j].loops = ins[j].loops
    BY <1>3 DEF MemTypeOK, Instance
  <2>3. \A j \in Instances : Running(j)' => Running(j)
    BY <1>1, <2>2 DEF Running
  <2>4. mon'["crit"].pc = "remove" /\ mon'["status"] = mon["status"]
    BY <1>3 DEF Monitoring, MemTypeOK, Monitors
  <2> QED BY <1>3, <2>1, <2>3, <2>4, OrderlyFrame DEF Stopping, RemovePcs, Monitors
<1>4. ASSUME NEW why, Ends(why) PROVE RestInv'
  BY <1>4, EndsOrderly DEF Orderly, RestInv
<1> QED BY <1>2, <1>3, <1>4 DEF LoopReports, LoopQuits, MonitorCriticalErr

LEMMA OrderlyStatus ==
  ASSUME MemTypeOK, LocalsInv, Orderly, StatusStep
  PROVE  RestInv'
<1>1. UNCHANGED <<fpIns, start>> /\ fpIns # 0 /\ ~Stopping("status")
  BY DEF StatusStep, StatusTick, VotingPower, SlashedOrJailed, SetStatus, managerVars, Orderly,
         MonitorsInv, Looking, Stopping, RemovePcs, Monitors
<1>2. SameInstances /\ \A j \in Instances : ins'[j].started = ins[j].started
  <2>1. CASE UNCHANGED ins
    BY <2>1 DEF SameInstances
  <2>2. CASE ins' = [ins EXCEPT ![look.ins].status = look.new]
    BY <2>2 DEF SameInstances, MemTypeOK, Instance
  <2> QED BY <2>1, <2>2
          DEF StatusStep, StatusTick, VotingPower, SlashedOrJailed, SetStatus, managerVars
<1>3. \A j \in Instances : Running(j)' => Running(j)
  BY <1>2 DEF Running, SameInstances
<1>4. mon'["status"].pc \in {"idle", "power", "query", "set", "remove"} /\ mon'["crit"] = mon["crit"]
  <2>1. ASSUME NEW pc, NEW l, Looks(pc, l) PROVE mon'["status"].pc = pc /\ mon'["crit"] = mon["crit"]
    BY <2>1 DEF Looks, Monitoring, MemTypeOK, Monitors
  <2>2. CASE StatusTick
    BY <2>1, <2>2 DEF StatusTick
  <2>3. CASE VotingPower
    BY <2>1, <2>3 DEF VotingPower
  <2>4. CASE SlashedOrJailed
    BY <2>1, <2>4 DEF SlashedOrJailed
  <2>5. CASE SetStatus
    BY <2>1, <2>5 DEF SetStatus
  <2> QED BY <2>2, <2>3, <2>4, <2>5 DEF StatusStep
<1> QED BY <1>1, <1>2, <1>3, <1>4, OrderlyFrame DEF SameInstances, RemovePcs, Monitors

\* The monitor that removes the instance is alone.
LEMMA OrderlyRemove ==
  ASSUME MemTypeOK, LocalsInv, Orderly, NEW t \in Monitors, RemoveStep(t)
  PROVE  RestInv'
<1>1. /\ Removing(t) /\ \A u \in Starters : ~Starting(u)
      /\ \A n \in Monitors \ {t} : ~Removing(n) /\ ~Looking(n)
  BY DEF RemoveStep, RemoveInstance, StopSwap, StopPoller, WaitLoops, ClearInstance, Removing,
         RemovePcs, Orderly, Exclusive
<1>2. fpIns \in Instances /\ (Stopping(t) => mon[t].ins = fpIns) /\ InstancesInv
      /\ (mon[t].pc = "clear" => ~Running(fpIns)) /\ ~Looking(t) /\ fpIns # 0
  <2>1. fpIns # 0
    BY <1>1 DEF Orderly, MonitorsInv, LocalsInv, Removing, Stopping, RemovePcs
  <2>2. fpIns \in Instances
    BY <2>1, InstanceNumbers DEF MemTypeOK
  <2>3. ~Looking(t)
    BY <1>1 DEF Removing, Looking, RemovePcs
  <2> QED BY <2>1, <2>2, <2>3 DEF Orderly, MonitorsInv
<1>3. ASSUME NEW why, Ends(why) PROVE RestInv'
  BY <1>3, EndsOrderly DEF Orderly, RestInv
<1>4. ASSUME UNCHANGED start PROVE StartersInv'
  BY <1>1, <1>4 DEF StartersInv, Starting
<1>5. ASSUME UNCHANGED fpIns, \A n \in Monitors \ {t} : mon'[n] = mon[n],
             mon'[t].pc \in RemovePcs \ {"remove"}, mon'[t].ins = fpIns,
             mon'[t].pc = "swap" => ins'[fpIns].started,
             mon'[t].pc = "clear" => ~Running(fpIns)'
      PROVE  MonitorsInv'
  <2>1. \A n \in Monitors : n # t => mon'[n].pc \notin RemovePcs \union {"power", "query", "set"}
    BY <1>1, <1>5 DEF Removing, Looking
  <2> QED BY <1>2, <1>5, <2>1 DEF MonitorsInv, Looking, Stopping, RemovePcs
<1>6. ASSUME NEW pc, StopStep(t, pc)
      PROVE  /\ mon'[t].pc = pc /\ mon'[t].ins = mon[t].ins
             /\ \A n \in Monitors \ {t} : mon'[n] = mon[n]
  BY <1>6 DEF StopStep, MemTypeOK, MonRecord
<1>7. \A n \in Monitors : mon[n].pc \in RemovePcs => n = t
  BY <1>1 DEF Removing
<1>71. \A j \in Instances : (Swapped(j) => mon[t].pc \in {"poller", "wait"} /\ j = fpIns)
                           /\ (Closed(j) => mon[t].pc \in {"wait", "clear"} /\ j = fpIns)
  BY <1>2, <1>7 DEF Swapped, Closed, Stopping, RemovePcs
<1>8. CASE RemoveInstance(t)
  <2>0. mon[t].pc = "remove" /\ fpIns # 0
    BY <1>2, <1>8 DEF RemoveInstance, Instances
  <2>1. /\ mon'[t] = [pc |-> IF ins[fpIns].started THEN "swap" ELSE "clear", ins |-> fpIns]
        /\ \A n \in Monitors \ {t} : mon'[n] = mon[n]
        /\ UNCHANGED <<fpIns, ins, start>>
    BY <1>8, <2>0 DEF RemoveInstance, MemTypeOK, managerVars
  <2>2. ~ins[fpIns].started => ~Running(fpIns)
    BY <1>2, <1>71, <2>0 DEF InstancesInv
  <2>3. InstancesInv'
    <3>1. \A u \in Monitors : mon'[u] = mon[u] \/ mon[u].pc \notin {"poller", "wait", "clear"}
      BY <2>0, <2>1
    <3> QED BY <1>2, <2>1, <3>1, InstancesFrame, SameRunning
  <2>4. MonitorsInv'
    <3>1. Running(fpIns)' <=> Running(fpIns)
      BY <2>1, SameRunning
    <3>2. mon'[t].pc \in {"swap", "clear"} /\ mon'[t].ins = fpIns
          /\ (mon'[t].pc = "swap" <=> ins[fpIns].started)
      BY <2>1
    <3> QED BY <1>5, <2>1, <2>2, <3>1, <3>2 DEF RemovePcs
  <2> QED BY <1>4, <2>1, <2>3, <2>4 DEF RestInv
<1>9. CASE StopSwap(t)
  <2>0. mon[t].pc = "swap" /\ Stopping(t) /\ mon[t].ins = fpIns /\ ins[fpIns].started
    BY <1>2, <1>9 DEF StopSwap, Stopping, RemovePcs, Orderly, MonitorsInv
  <2>1. ins' = [ins EXCEPT ![fpIns].started = FALSE] /\ UNCHANGED <<fpIns, start>>
    BY <1>9, <2>0 DEF StopSwap
  <2>2. mon'[t].pc = "poller" /\ mon'[t].ins = fpIns /\ \A n \in Monitors \ {t} : mon'[n] = mon[n]
    BY <1>6, <1>9, <2>0 DEF StopSwap
  <2>3. SameInstances
    BY <2>1 DEF SameInstances, MemTypeOK, Instance
  <2>4. InstancesInv'
    <3>1. Swapped(fpIns)'
      BY <2>1, <2>2 DEF Swapped
    <3>2. \A j \in Instances : (Running(j)' <=> Running(j)) /\ ~Closed(j)
      BY <1>71, <2>0, <2>3, SameRunning DEF SameInstances
    <3> QED BY <1>2, <2>1, <2>3, <3>1, <3>2 DEF InstancesInv, SameInstances
  <2>5. MonitorsInv'
    BY <1>5, <2>1, <2>2 DEF RemovePcs
  <2> QED BY <1>4, <2>1, <2>4, <2>5 DEF RestInv
<1>10. CASE StopPoller(t)
  <2>0. mon[t].pc = "poller" /\ mon[t].ins = fpIns
    BY <1>2, <1>10 DEF StopPoller, Stopping, RemovePcs
  <2>1. CASE ~(ins[fpIns].poller /\ ins[fpIns].quit = "open")
    BY <1>3, <1>10, <2>0, <2>1 DEF StopPoller
  <2>2. CASE ins[fpIns].poller /\ ins[fpIns].quit = "open"
    <3>1. ins' = [ins EXCEPT ![fpIns].quit = "closed"] /\ UNCHANGED <<fpIns, start>>
      BY <1>10, <2>0, <2>2 DEF StopPoller
    <3>2. mon'[t].pc = "wait" /\ mon'[t].ins = fpIns /\ \A n \in Monitors \ {t} : mon'[n] = mon[n]
      BY <1>6, <1>10, <2>0, <2>2 DEF StopPoller
    <3>3. /\ \A j \in Instances : ins'[j].loops = ins[j].loops /\ ins'[j].poller = ins[j].poller
                                  /\ ins'[j].started = ins[j].started
          /\ \A j \in Instances \ {fpIns} : ins'[j].quit = ins[j].quit
          /\ ins'[fpIns].quit = "closed"
      BY <1>2, <3>1 DEF MemTypeOK, Instance
    <3>4. InstancesInv'
      <4>1. Swapped(fpIns)' /\ Closed(fpIns)'
        BY <3>1, <3>2 DEF Swapped, Closed
      <4>2. \A j \in Instances : (Running(j)' <=> Running(j)) /\ ~Closed(j)
        BY <1>71, <2>0, <3>3, SameRunning
      <4> QED BY <1>2, <2>2, <3>1, <3>3, <4>1, <4>2 DEF InstancesInv
    <3>5. MonitorsInv'
      BY <1>5, <3>1, <3>2 DEF RemovePcs
    <3> QED BY <1>4, <3>1, <3>4, <3>5 DEF RestInv
  <2> QED BY <2>1, <2>2
<1>11. CASE WaitLoops(t)
  <2>0. mon[t].pc = "wait" /\ mon[t].ins = fpIns /\ ~Running(fpIns) /\ UNCHANGED <<fpIns, ins, start>>
    BY <1>2, <1>11 DEF WaitLoops, Stopping, RemovePcs, managerVars
  <2>1. mon'[t].pc = "clear" /\ mon'[t].ins = fpIns /\ \A n \in Monitors \ {t} : mon'[n] = mon[n]
    BY <1>6, <1>11, <2>0 DEF WaitLoops
  <2>2. InstancesInv'
    <3>1. Closed(fpIns)'
      BY <2>0, <2>1 DEF Closed
    <3>2. \A j \in Instances : ~Running(j)'
      BY <1>2, <2>0, SameRunning DEF InstancesInv
    <3> QED BY <1>2, <1>71, <2>0, <3>1, <3>2 DEF InstancesInv
  <2>3. MonitorsInv'
    <3>1. ~Running(fpIns)'
      BY <2>0, SameRunning
    <3> QED BY <1>5, <2>0, <2>1, <3>1 DEF RemovePcs
  <2> QED BY <1>4, <2>0, <2>2, <2>3 DEF RestInv
<1>12. CASE ClearInstance(t)
  <2>0. mon[t].pc = "clear" /\ mon[t].ins = fpIns /\ ~Running(fpIns) /\ UNCHANGED start /\ fpIns' = 0
    BY <1>2, <1>12 DEF ClearInstance, Stopping, RemovePcs
  <2>1. mon'[t].pc = "idle" /\ \A n \in Monitors \ {t} : mon'[n] = mon[n]
    BY <1>12 DEF ClearInstance, Monitoring, MemTypeOK
  <2>2. Garbage(t, fpIns)
    <3>1. fpIns # 0
      BY <1>2
    <3>2. look.ins = 0
      BY <1>1, <1>2 DEF LocalsInv, Monitors
    <3>3. \A u \in Starters : start[u].ins = 0
      BY <1>1 DEF LocalsInv, Starting
    <3>4. \A u \in Monitors \ {t} : mon[u].ins = 0
      BY <1>1 DEF LocalsInv, Removing, Stopping
    <3> QED BY <2>0, <3>1, <3>2, <3>3, <3>4 DEF Garbage
  <2>3. ins'[fpIns] = NoInstance /\ \A j \in Instances : ins'[j] = NoInstance \/ ins'[j] = ins[j]
    BY <1>2, <1>12, <2>2 DEF ClearInstance
  <2>4. InstancesInv'
    <3> SUFFICES ASSUME NEW j \in Instances
                 PROVE  /\ ~Running(j)' /\ ins'[j].quit # "closed"
                        /\ ins'[j].poller => ins'[j].quit # "none"
      BY DEF InstancesInv
    <3>1. CASE ins'[j] = NoInstance
      <4>1. /\ ~NoInstance.poller /\ NoInstance.quit = "none"
            /\ \A r \in Runs : ~Alive(NoInstance.loops[r])
        BY DEF NoInstance, Alive
      <4> QED BY <3>1, <4>1 DEF Running
    <3>2. CASE ins'[j] = ins[j] /\ j # fpIns
      <4>1. ~Running(j)'
        BY <1>2, <3>2, SameRunning DEF InstancesInv
      <4> QED BY <1>2, <1>71, <3>2, <4>1 DEF InstancesInv
    <3> QED BY <2>3, <3>1, <3>2
  <2>5. MonitorsInv'
    <3>1. \A n \in Monitors : mon'[n].pc \notin RemovePcs \union {"power", "query", "set"}
      BY <1>1, <2>1 DEF Removing, Looking, RemovePcs
    <3> QED BY <3>1 DEF MonitorsInv, Looking, Stopping, RemovePcs
  <2> QED BY <1>4, <2>0, <2>4, <2>5 DEF RestInv
<1> QED BY <1>8, <1>9, <1>10, <1>11, <1>12 DEF RemoveStep

LEMMA OrderlyStep ==
  ASSUME MemTypeOK, LocalsInv, Orderly, Step
  PROVE  RestInv'
<1>1. CASE Crash
  BY <1>1, EndsOrderly DEF Crash, Orderly, RestInv
<1>2. ASSUME NEW t \in Starters, StartStep(t) PROVE RestInv'
  BY <1>2, OrderlyCheck, OrderlyCreate, OrderlyStart, OrderlyBoot DEF StartStep
<1> QED BY <1>1, <1>2, OrderlySync, OrderlyLoops, OrderlyStatus, OrderlyRemove DEF Step

\* The program ends in one of the ways of Ends.
LEMMA StepsThatEnd ==
  ASSUME Step, down' # down
  PROVE  \E why : Ends(why)
<1>1. ASSUME PowerChanges \/ Punish \/ SyncReads \/ SyncDecides \/ SendUnjail \/ UnjailFinalityProvider
      PROVE  FALSE
  BY <1>1 DEF PowerChanges, Punish, SyncReads, SyncDecides, SendUnjail, UnjailFinalityProvider
<1>2. ASSUME NEW t \in Starters, StartStep(t) PROVE \E why : Ends(why)
  BY <1>2 DEF StartStep, StartFinalityProvider, NewInstance, StartInstance, Bootstrap, BootstrapFails
<1>3. ASSUME NEW i \in Instances, NEW r \in Runs,
             LoopReports(i, r) \/ LoopQuits(i, r) \/ MonitorCriticalErr(i, r)
      PROVE  \E why : Ends(why)
  BY <1>3 DEF LoopReports, LoopQuits, MonitorCriticalErr
<1>4. ASSUME StatusStep PROVE FALSE
  BY <1>4 DEF StatusStep, StatusTick, VotingPower, SlashedOrJailed, SetStatus
<1>5. ASSUME NEW t \in Monitors, RemoveStep(t) PROVE \E why : Ends(why)
  BY <1>5 DEF RemoveStep, RemoveInstance, StopSwap, StopPoller, WaitLoops, ClearInstance
<1> QED BY <1>1, <1>2, <1>3, <1>4, <1>5 DEF Step, Crash

LEMMA InitManager == Init => ManagerInv
<1> SUFFICES ASSUME Init PROVE ManagerInv
  OBVIOUS
<1>1. \A t \in Starters : start[t] \in StartRecord /\ start[t].pc \in {"idle", "check"}
                          /\ start[t].ins = 0 /\ start[t].status = "CREATED"
  <2>1. \A t \in Starters : start[t] = IdleStart \/ start[t] = [IdleStart EXCEPT !.pc = "check"]
    BY DEF Init
  <2>2. ASSUME NEW x, x = IdleStart \/ x = [IdleStart EXCEPT !.pc = "check"]
        PROVE  x.pc \in {"idle", "check"} /\ x.ins = 0 /\ x.status = "CREATED"
    BY <2>2 DEF IdleStart
  <2>3. IdleStart \in StartRecord /\ [IdleStart EXCEPT !.pc = "check"] \in StartRecord
    BY ConstantTypes DEF StartPcs
  <2> QED BY <2>1, <2>2, <2>3
<1>2. start \in [Starters -> StartRecord]
  BY <1>1 DEF Init
<1>3. [pc |-> "off", ins |-> 0] \in MonRecord
  BY ConstantTypes DEF MonPcs
<1>4. MemTypeOK
  BY <1>2, <1>3, ConstantTypes DEF Init, MemTypeOK, Statuses
<1>5. TypeOK
  BY <1>4, TypeParts DEF Init
<1>6. LocalsInv
  BY <1>1 DEF Init, LocalsInv, NoLook, Looking, Stopping, RemovePcs, Monitors
<1>7. ~SaysSlashed
  BY <1>1 DEF Init, SaysSlashed, NoInstance, NoLook
<1>8. Exclusive
  BY <1>1 DEF Init, Exclusive, Starting, Removing, RemovePcs
<1>9. InstancesInv
  BY DEF Init, InstancesInv, NoInstance, Running, Alive
<1>10. StartersInv
  BY <1>1 DEF StartersInv
<1>11. MonitorsInv
  BY DEF Init, MonitorsInv, Looking, Stopping, RemovePcs
<1> QED BY <1>5, <1>6, <1>7, <1>8, <1>9, <1>10, <1>11 DEF ManagerInv, SlashInv, Orderly

LEMMA ExclusiveNext == ~Overlapping' => Exclusive'
BY ExclusiveUnlessOverlapping, PTL

LEMMA InvNext == ManagerInv /\ [Next]_vars => ManagerInv'
<1> SUFFICES ASSUME ManagerInv, [Next]_vars PROVE ManagerInv'
  OBVIOUS
<1>0. MemTypeOK /\ overlap \in BOOLEAN /\ LocalsInv /\ SlashInv /\ (~overlap => Orderly)
  BY TypeParts DEF ManagerInv
<1>1. ASSUME MemTypeOK', overlap' \in BOOLEAN PROVE TypeOK'
  BY <1>1 DEF TypeOK, MemTypeOK, StartRecord, MonRecord, LookRecord
<1>2. CASE Up(Step)
  <2>1. Step /\ down = "no" /\ overlap' = (down' = "no" /\ (overlap \/ Overlapping'))
    BY <1>2 DEF Up
  <2>2. MemTypeOK' /\ LocalsInv' /\ SlashInv'
    BY <1>0, <2>1, StepType, StepLocals, StepSlash
  <2>3. overlap' \in BOOLEAN
    BY <2>1
  <2>4. ASSUME ~overlap' PROVE Orderly'
    <3>1. CASE down' = "no"
      <4>1. ~overlap /\ ~Overlapping'
        BY <2>1, <2>4, <3>1
      <4> QED BY <1>0, <2>1, <4>1, OrderlyStep, ExclusiveNext DEF RestInv, Orderly
    <3>2. CASE down' # "no"
      BY <2>1, <3>2, StepsThatEnd, EndsOrderly
    <3> QED BY <3>1, <3>2
  <2> QED BY <1>1, <2>2, <2>3, <2>4 DEF ManagerInv
<1>3. CASE Restart \/ UNCHANGED vars
  <2>1. UNCHANGED <<standing, hasPower, status, fpIns, ins, start, mon, look, overlap>>
        /\ down' \in {"no", "panic", "fatal", "killed"}
    BY <1>0, <1>3 DEF Restart, vars, chainVars, managerVars, MemTypeOK
  <2>2. MemTypeOK' /\ overlap' \in BOOLEAN
    BY <1>0, <2>1 DEF MemTypeOK
  <2>3. LocalsInv'
    BY <1>0, <2>1 DEF LocalsInv, Looking, Stopping
  <2>4. SlashInv'
    BY <1>0, <2>1 DEF SlashInv, SaysSlashed
  <2>5. Orderly => Orderly'
    <3>1. ASSUME Orderly PROVE RestInv'
      BY <2>1, <3>1, QuietStarters
    <3>2. Exclusive => Exclusive'
      BY <2>1 DEF Exclusive, Starting, Removing, Looking
    <3> QED BY <3>1, <3>2 DEF Orderly, RestInv
  <2> QED BY <1>0, <1>1, <2>1, <2>2, <2>3, <2>4, <2>5 DEF ManagerInv
<1> QED BY <1>2, <1>3 DEF Next

LEMMA ManagerInvariant == Spec => []ManagerInv
<1> QED BY InitManager, InvNext, PTL DEF Spec

(***************************************************************************)
(* Type correctness of the manager's model.                                *)
(***************************************************************************)
THEOREM ManagerTypeCorrect == Spec => []TypeOK
<1>1. ManagerInv => TypeOK
  BY DEF ManagerInv
<1> QED BY <1>1, ManagerInvariant, PTL

(***************************************************************************)
(* However many instances are created and started, and however the         *)
(* threads of the manager interleave: the record and the instances say     *)
(* SLASHED only after the chain has slashed the provider                   *)
(* (monitorCriticalErr, monitorStatusUpdate, SyncFinalityProviderStatus).  *)
(***************************************************************************)
THEOREM SlashedOnlyByTheChain == Spec => []SlashedIsReal
<1>1. ManagerInv => SlashedIsReal
  BY DEF ManagerInv, SlashInv, SaysSlashed, SlashedIsReal
<1> QED BY <1>1, ManagerInvariant, PTL

(***************************************************************************)
(* As long as no start and no removal overlap, only the instance that the  *)
(* manager holds has goroutines (startFinalityProviderInstance,            *)
(* removeFinalityProviderInstance).                                        *)
(***************************************************************************)
THEOREM OnlyTheHeldInstanceRuns == Spec => []OneInstance
<1>1. ManagerInv => OneInstance
  BY DEF ManagerInv, Orderly, InstancesInv, OneInstance
<1> QED BY <1>1, ManagerInvariant, PTL

(***************************************************************************)
(* A panic of the manager, of Start on a nil instance, of removing a nil   *)
(* instance or of Stop, comes only from overlapping starts and removals or *)
(* from stopping an instance whose Start had failed (fp_manager.go,        *)
(* fp_instance.go Stop).                                                   *)
(***************************************************************************)
THEOREM PanicsHaveCauses == Spec => PanicHasCause
<1> DEFINE Cause == overlap \/ \E t \in Monitors : mon[t].pc = "poller" /\ ~ins[mon[t].ins].poller
           A == down # "panic" /\ down' = "panic" => Cause
<1>1. ManagerInv /\ [Next]_vars => [A]_vars
  <2> SUFFICES ASSUME ManagerInv, Next, down # "panic", down' = "panic", ~overlap PROVE Cause
    BY DEF PanicHasCause
  <2>1. Step /\ down = "no"
    BY DEF Next, Up, Restart
  <2>2. Orderly /\ MemTypeOK /\ LocalsInv
    BY TypeParts DEF ManagerInv
  <2>3. ASSUME NEW why \in {"fatal", "killed"}, Ends(why) PROVE FALSE
    BY <2>3 DEF Ends
  <2>4. ASSUME PowerChanges \/ Punish \/ SyncReads \/ SyncDecides \/ SendUnjail
                 \/ UnjailFinalityProvider \/ StatusStep
        PROVE  FALSE
    BY <2>1, <2>4 DEF PowerChanges, Punish, SyncReads, SyncDecides, SendUnjail,
                      UnjailFinalityProvider, StatusStep, StatusTick, VotingPower, SlashedOrJailed,
                      SetStatus
  <2>5. ASSUME NEW t \in Starters, StartStep(t) PROVE FALSE
    <3>1. start[t].pc = "start" => fpIns # 0
      BY <2>2 DEF Orderly, StartersInv
    <3> QED BY <2>1, <2>5, <3>1 DEF StartStep, StartFinalityProvider, NewInstance, StartInstance,
                                    Bootstrap, BootstrapFails
  <2>6. ASSUME NEW i \in Instances, NEW r \in Runs,
               LoopReports(i, r) \/ LoopQuits(i, r) \/ MonitorCriticalErr(i, r)
        PROVE  FALSE
    BY <2>1, <2>3, <2>6 DEF LoopReports, LoopQuits, MonitorCriticalErr
  <2>7. ASSUME NEW t \in Monitors, RemoveStep(t) PROVE Cause
    <3>0. mon[t].pc = "remove" => fpIns # 0
      BY <2>2 DEF Orderly, MonitorsInv
    <3>1. mon[t].pc \in {"swap", "poller"} => mon[t].ins = fpIns /\ fpIns \in Instances
      BY <2>2 DEF Orderly, MonitorsInv, LocalsInv, Stopping, RemovePcs, MemTypeOK, Instances
    <3>2. mon[t].pc = "swap" => ins[mon[t].ins].started
      BY <2>2, <3>1 DEF Orderly, MonitorsInv
    <3>3. CASE StopPoller(t)
      <4>1. mon[t].pc = "poller" /\ ~(ins[mon[t].ins].poller /\ ins[mon[t].ins].quit = "open")
        BY <2>1, <3>3 DEF StopPoller
      <4>2. ins[mon[t].ins].quit \in {"none", "open", "closed"}
        BY <2>2, <3>1, <4>1 DEF MemTypeOK, Instance
      <4>3. ins[mon[t].ins].quit # "closed"
        <5>1. \A n \in Monitors : mon[n].pc \in RemovePcs => n = t
          BY <2>2, <4>1 DEF Orderly, Exclusive, Removing, RemovePcs
        <5>2. ~Closed(mon[t].ins)
          BY <4>1, <5>1 DEF Closed, RemovePcs
        <5> QED BY <2>2, <3>1, <4>1, <5>2 DEF Orderly, InstancesInv
      <4>4. ins[mon[t].ins].poller => ins[mon[t].ins].quit # "none"
        BY <2>2, <3>1, <4>1 DEF Orderly, InstancesInv
      <4> QED BY <4>1, <4>2, <4>3, <4>4
    <3> QED BY <2>1, <2>7, <3>0, <3>2, <3>3
            DEF RemoveStep, RemoveInstance, StopSwap, WaitLoops, ClearInstance
  <2> QED BY <2>1, <2>3, <2>4, <2>5, <2>6, <2>7 DEF Step, Crash
<1> QED BY <1>1, ManagerInvariant, PTL DEF Spec, PanicHasCause
=============================================================================
