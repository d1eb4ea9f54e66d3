--------------------------- MODULE DaemonsProofs ---------------------------
(***************************************************************************)
(* Proofs about the processes of an operator's machine, for any number of  *)
(* processes and keys: who holds databases and ports, and what is left of  *)
(* a key whose creation was cut short.                                     *)
(***************************************************************************)
EXTENDS Daemons, TLAPS

\* Where a process has the database of its program open.
HoldsDbPcs ==
  {"client", "startApp", "handle", "metrics", "listen", "active", "command", "stopGrpc", "closeDb"}

\* What a process holds and does by where it is.
ProcFacts(p) ==
  /\ proc[p].pc \in HoldsDbPcs => db[HomeOf(p)] = p
  /\ proc[p].pc \in {"client", "startApp", "handle"} => proc[p].prog = "fpd"
  /\ proc[p].loops => proc[p].prog = "fpd" /\ proc[p].pc \in HoldsDbPcs \union {"stopMetrics"}
  /\ proc[p].key # NoKey => /\ proc[p].prog \in {"keys", "eotsd"}
                            /\ proc[p].prog = "keys" => proc[p].pc = "command"
                            /\ proc[p].key \in eotsKeys

\* Who listens has its home there and has not begun to close.
PortFacts(d) ==
  rpcPort[d] # Nobody =>
    /\ rpcPort[d] \in Procs
    /\ HomeOf(rpcPort[d]) = d
    /\ proc[rpcPort[d]].pc \in {"active", "stopGrpc"}

DaemonsInv ==
  /\ proc \in [Procs -> Process]
  /\ db \in [Daemon -> Procs \union {Nobody}]
  /\ rpcPort \in [Daemon -> Procs \union {Nobody}]
  /\ \A p \in Procs : ProcFacts(p)
  /\ \A d \in Daemon : PortFacts(d)
  /\ ReportedKeysUsable

LEMMA InitDaemons == Init => DaemonsInv
BY DaemonsAssumption
   DEF Init, DaemonsInv, ProcFacts, PortFacts, HoldsDbPcs, Process, Off, NoKey, Programs,
       ReportedKeysUsable

\* The end of a process.
LEMMA ExitStep ==
  ASSUME DaemonsInv, NEW p \in Procs, Exit(p)
  PROVE  DaemonsInv'
<1> USE DaemonsAssumption
<1>1. proc' \in [Procs -> Process]
  BY DEF Exit, DaemonsInv, Off, Process, NoKey
<1>2. db' \in [Daemon -> Procs \union {Nobody}] /\ rpcPort' \in [Daemon -> Procs \union {Nobody}]
  BY DEF Exit, DaemonsInv, Release
<1>3. ASSUME NEW q \in Procs PROVE ProcFacts(q)'
  <2>1. CASE q = p
    BY <2>1 DEF Exit, DaemonsInv, Off, ProcFacts, HoldsDbPcs, NoKey
  <2>2. CASE q # p
    BY <2>2 DEF Exit, DaemonsInv, ProcFacts, HomeOf, Home, Release, Daemon
  <2> QED BY <2>1, <2>2
<1>4. ASSUME NEW d \in Daemon PROVE PortFacts(d)'
  BY DEF Exit, DaemonsInv, PortFacts, HomeOf, Release
<1>5. ReportedKeysUsable'
  BY DEF Exit, DaemonsInv, ReportedKeysUsable, KeyRecordExists, GetEOTSKeyName, KeyExists
<1> QED BY <1>1, <1>2, <1>3, <1>4, <1>5 DEF DaemonsInv

\* What is left to show for a step of one process that does not end it: the other
\* processes keep what they hold.
LEMMA ProcessStep ==
  ASSUME DaemonsInv, NEW p \in Procs, NEW r \in Process,
         proc' = [proc EXCEPT ![p] = r],
         r.prog = proc[p].prog \/ proc[p].pc = "off",
         db' \in [Daemon -> Procs \union {Nobody}],
         \A d \in Daemon : db[d] \notin {p, Nobody} => db'[d] = db[d],
         rpcPort' \in [Daemon -> Procs \union {Nobody}],
         \A d \in Daemon : rpcPort'[d] \in {rpcPort[d], Nobody, p},
         \A d \in Daemon : rpcPort'[d] = p => Home(r.prog) = d /\ r.pc \in {"active", "stopGrpc"},
         eotsKeys \subseteq eotsKeys',
         ProcFacts(p)', ReportedKeysUsable'
  PROVE  DaemonsInv'
<1> USE DaemonsAssumption
<1>1. proc' \in [Procs -> Process]
  BY DEF DaemonsInv
<1>2. ASSUME NEW q \in Procs PROVE ProcFacts(q)'
  <2>1. CASE q = p
    BY <2>1
  <2>2. CASE q # p
    <3>1. proc'[q] = proc[q]
      BY <2>2 DEF DaemonsInv
    <3>2. HomeOf(q) \in Daemon
      BY DEF HomeOf, Home, Daemon
    <3>3. ProcFacts(q)
      BY DEF DaemonsInv
    <3> QED BY <2>2, <3>1, <3>2, <3>3 DEF ProcFacts, HomeOf
  <2> QED BY <2>1, <2>2
<1>3. ASSUME NEW d \in Daemon PROVE PortFacts(d)'
  <2>1. CASE rpcPort'[d] = p
    <3>1. proc'[p] = r
      BY DEF DaemonsInv
    <3> QED BY <2>1, <3>1 DEF PortFacts, HomeOf
  <2>2. CASE rpcPort'[d] = Nobody
    BY <2>2 DEF PortFacts
  <2>3. CASE rpcPort'[d] \notin {p, Nobody}
    <3>1. rpcPort'[d] = rpcPort[d] /\ rpcPort[d] \in Procs
      BY <2>3 DEF DaemonsInv
    <3>2. proc'[rpcPort[d]] = proc[rpcPort[d]]
      BY <2>3, <3>1 DEF DaemonsInv
    <3> QED BY <3>1, <3>2 DEF PortFacts, HomeOf, DaemonsInv
  <2> QED BY <2>1, <2>2, <2>3
<1> QED BY <1>1, <1>2, <1>3 DEF DaemonsInv

\* Facts about the state before a step that every step needs.
LEMMA Before ==
  ASSUME DaemonsInv, NEW p \in Procs
  PROVE  /\ proc[p] \in Process
         /\ ProcFacts(p)
         /\ HomeOf(p) \in Daemon
         /\ \A d \in Daemon : rpcPort[d] = p => HomeOf(p) = d /\ proc[p].pc \in {"active", "stopGrpc"}
BY DaemonsAssumption DEF DaemonsInv, PortFacts, HomeOf, Home, Daemon

LEMMA LaunchStep ==
  ASSUME DaemonsInv, NEW p \in Procs, NEW prog \in Programs, Launch(p, prog)
  PROVE  DaemonsInv'
<1> DEFINE r == [Off EXCEPT !.prog = prog, !.pc = "config"]
<1>1. r \in Process /\ r.pc = "config" /\ r.prog = prog /\ ~r.loops /\ r.key = NoKey
  BY DEF Off, Process
<1>2. proc'[p] = r
  BY DEF Launch, DaemonsInv
<1>3. ProcFacts(p)'
  BY <1>1, <1>2 DEF ProcFacts, HoldsDbPcs, NoKey
<1>4. ReportedKeysUsable'
  BY DEF Launch, DaemonsInv, ReportedKeysUsable, KeyRecordExists, GetEOTSKeyName, KeyExists,
         eotsVars
<1>5. UNCHANGED <<db, rpcPort, eotsKeys>> /\ proc' = [proc EXCEPT ![p] = r] /\ proc[p].pc = "off"
  BY DEF Launch, eotsVars
<1>6. \A d \in Daemon : rpcPort[d] # p
  BY <1>5, Before
<1> HIDE DEF r
<1> QED BY <1>1, <1>3, <1>4, <1>5, <1>6, ProcessStep DEF DaemonsInv

\* A step that only moves a process from one place to another, and may start its
\* loops or its metrics server.
LEMMA MoveStep ==
  ASSUME DaemonsInv, NEW p \in Procs, NEW r \in Process,
         proc' = [proc EXCEPT ![p] = r], UNCHANGED <<db, rpcPort, reported, eotsVars>>,
         r.prog = proc[p].prog, r.key = proc[p].key,
         r.pc \in HoldsDbPcs => proc[p].pc \in HoldsDbPcs,
         r.pc \in {"client", "startApp", "handle"} => r.prog = "fpd",
         r.loops => r.prog = "fpd" /\ r.pc \in HoldsDbPcs \union {"stopMetrics"},
         proc[p].pc = "command" => r.key = NoKey,
         proc[p].pc \in {"active", "stopGrpc"} => r.pc \in {"active", "stopGrpc"}
  PROVE  DaemonsInv'
<1>1. proc'[p] = r
  BY DEF DaemonsInv
<1>2. ProcFacts(p)'
  BY <1>1, Before DEF ProcFacts, HomeOf, eotsVars
<1>3. ReportedKeysUsable'
  BY DEF DaemonsInv, ReportedKeysUsable, KeyRecordExists, GetEOTSKeyName, KeyExists, eotsVars
<1>4. \A d \in Daemon : rpcPort'[d] = p => Home(r.prog) = d /\ r.pc \in {"active", "stopGrpc"}
  BY Before DEF HomeOf
<1> QED BY <1>2, <1>3, <1>4, ProcessStep DEF DaemonsInv, eotsVars

LEMMA GotoStep ==
  ASSUME DaemonsInv, NEW p \in Procs, NEW pc, Goto(p, pc),
         UNCHANGED <<db, rpcPort, reported, eotsVars>>,
         \/ proc[p].pc = "config" /\ pc = "db"
         \/ proc[p].pc = "client" /\ pc = "startApp"
         \/ proc[p].pc = "handle" /\ pc = "metrics"
         \/ proc[p].pc = "active" /\ pc = "stopGrpc"
         \/ proc[p].pc = "command" /\ proc[p].key = NoKey /\ pc = "closeDb"
         \/ proc[p].pc = "listen" /\ pc = "closeDb"
  PROVE  DaemonsInv'
<1> DEFINE r == [proc[p] EXCEPT !.pc = pc]
<1>1. proc[p] \in Process /\ ProcFacts(p)
  BY Before
<1>2. r \in Process /\ r.prog = proc[p].prog /\ r.key = proc[p].key /\ r.pc = pc
      /\ r.loops = proc[p].loops
  BY <1>1 DEF Process
<1>3. proc' = [proc EXCEPT ![p] = r]
  BY DEF Goto
<1> HIDE DEF r
<1>4. r.loops => r.prog = "fpd" /\ r.pc \in HoldsDbPcs \union {"stopMetrics"}
  BY <1>1, <1>2 DEF ProcFacts, HoldsDbPcs
<1> QED BY <1>1, <1>2, <1>3, <1>4, MoveStep DEF ProcFacts, HoldsDbPcs

\* The database is opened, or the lock on it times out.
LEMMA GetDbBackendStep ==
  ASSUME DaemonsInv, NEW p \in Procs, GetDbBackend(p)
  PROVE  DaemonsInv'
<1>1. CASE Exit(p)
  BY <1>1, ExitStep
<1>2. CASE ~Exit(p)
  <2> DEFINE pc == IF proc[p].prog = "fpd" THEN "client"
                   ELSE IF proc[p].prog = "eotsd" THEN "metrics" ELSE "command"
             r == [proc[p] EXCEPT !.pc = pc]
  <2>1. /\ proc[p].pc = "db" /\ db[HomeOf(p)] = Nobody
        /\ db' = [db EXCEPT ![HomeOf(p)] = p]
        /\ proc' = [proc EXCEPT ![p] = r]
        /\ UNCHANGED <<rpcPort, reported, eotsVars>>
    BY <1>2 DEF GetDbBackend, NewLocalEOTSManager, Goto
  <2>2. proc[p] \in Process /\ ProcFacts(p) /\ HomeOf(p) \in Daemon /\ \A d \in Daemon : rpcPort[d] # p
    BY <2>1, Before
  <2>3. r \in Process /\ r.prog = proc[p].prog /\ r.key = proc[p].key /\ r.pc = pc
        /\ r.loops = proc[p].loops
    BY <2>2 DEF Process
  <2> HIDE DEF r
  <2>4. db' \in [Daemon -> Procs \union {Nobody}] /\ db'[HomeOf(p)] = p
        /\ \A d \in Daemon : db[d] # Nobody => db'[d] = db[d]
    BY <2>1, <2>2 DEF DaemonsInv
  <2>5. proc'[p] = r
    BY <2>1 DEF DaemonsInv
  <2>6. ProcFacts(p)'
    <3>1. HomeOf(p)' = HomeOf(p)
      BY <2>3, <2>5 DEF HomeOf
    <3>2. ~r.loops
      BY <2>1, <2>2, <2>3 DEF ProcFacts, HoldsDbPcs
    <3>3. r.key # NoKey => r.prog = "eotsd" /\ r.key \in eotsKeys'
      BY <2>1, <2>2, <2>3 DEF ProcFacts, eotsVars
    <3> QED BY <2>3, <2>4, <2>5, <3>1, <3>2, <3>3 DEF ProcFacts
  <2>7. ReportedKeysUsable'
    BY <2>1 DEF DaemonsInv, ReportedKeysUsable, KeyRecordExists, GetEOTSKeyName, KeyExists, eotsVars
  <2> QED BY <2>1, <2>2, <2>3, <2>4, <2>6, <2>7, ProcessStep DEF DaemonsInv, eotsVars
<1> QED BY <1>1, <1>2

LEMMA StartAppStep ==
  ASSUME DaemonsInv, NEW p \in Procs, startApp(p)
  PROVE  DaemonsInv'
<1> DEFINE r == [proc[p] EXCEPT !.loops = TRUE, !.pc = "handle"]
<1>1. proc[p] \in Process /\ ProcFacts(p) /\ proc[p].pc = "startApp"
  BY Before DEF startApp
<1>2. r \in Process /\ r.prog = proc[p].prog /\ r.key = proc[p].key /\ r.pc = "handle" /\ r.loops
  BY <1>1 DEF Process
<1>3. proc' = [proc EXCEPT ![p] = r]
  BY DEF startApp
<1>4. UNCHANGED <<db, rpcPort, reported, eotsVars>>
  BY DEF startApp
<1> HIDE DEF r
<1> QED BY <1>1, <1>2, <1>3, <1>4, MoveStep DEF ProcFacts, HoldsDbPcs

LEMMA MetricsStartStep ==
  ASSUME DaemonsInv, NEW p \in Procs, metricsStart(p)
  PROVE  DaemonsInv'
<1> DEFINE r == [proc[p] EXCEPT !.metrics = "starting", !.pc = "listen"]
<1>1. proc[p] \in Process /\ ProcFacts(p) /\ proc[p].pc = "metrics"
  BY Before DEF metricsStart
<1>2. r \in Process /\ r.prog = proc[p].prog /\ r.key = proc[p].key /\ r.pc = "listen"
      /\ r.loops = proc[p].loops
  BY <1>1 DEF Process
<1>3. proc' = [proc EXCEPT ![p] = r]
  BY DEF metricsStart
<1>4. UNCHANGED <<db, rpcPort, reported, eotsVars>>
  BY DEF metricsStart
<1> HIDE DEF r
<1> QED BY <1>1, <1>2, <1>3, <1>4, MoveStep DEF ProcFacts, HoldsDbPcs

LEMMA MetricsListenStep ==
  ASSUME DaemonsInv, NEW p \in Procs, metricsListen(p)
  PROVE  DaemonsInv'
<1>1. CASE Exit(p)
  BY <1>1, ExitStep
<1>2. CASE ~Exit(p)
  <2> DEFINE r == [proc[p] EXCEPT !.metrics = "serving"]
  <2>1. proc[p] \in Process /\ ProcFacts(p)
    BY Before
  <2>2. r \in Process /\ r.prog = proc[p].prog /\ r.key = proc[p].key /\ r.pc = proc[p].pc
        /\ r.loops = proc[p].loops
    BY <2>1 DEF Process
  <2>3. proc' = [proc EXCEPT ![p] = r] /\ UNCHANGED <<db, rpcPort, reported, eotsVars>>
    BY <1>2 DEF metricsListen
  <2> HIDE DEF r
  <2>4. proc'[p] = r
    BY <2>3 DEF DaemonsInv
  <2>5. ProcFacts(p)'
    BY <2>1, <2>2, <2>3, <2>4 DEF ProcFacts, HomeOf, eotsVars
  <2>6. ReportedKeysUsable'
    BY <2>3 DEF DaemonsInv, ReportedKeysUsable, KeyRecordExists, GetEOTSKeyName, KeyExists, eotsVars
  <2>7. \A d \in Daemon : rpcPort'[d] = p => Home(r.prog) = d /\ r.pc \in {"active", "stopGrpc"}
    BY <2>2, <2>3, Before DEF HomeOf
  <2> QED BY <2>2, <2>3, <2>5, <2>6, <2>7, ProcessStep DEF DaemonsInv, eotsVars
<1> QED BY <1>1, <1>2

\* The daemon listens, or finds the port taken.
LEMMA ListenStep ==
  ASSUME DaemonsInv, NEW p \in Procs, startGrpcListen(p)
  PROVE  DaemonsInv'
<1>1. CASE rpcPort[HomeOf(p)] # Nobody
  BY <1>1, GotoStep DEF startGrpcListen
<1>2. CASE rpcPort[HomeOf(p)] = Nobody
  <2> DEFINE r == [proc[p] EXCEPT !.pc = "active"]
  <2>1. proc[p] \in Process /\ ProcFacts(p) /\ HomeOf(p) \in Daemon /\ proc[p].pc = "listen"
        /\ \A d \in Daemon : rpcPort[d] # p
    BY Before DEF startGrpcListen
  <2>2. r \in Process /\ r.prog = proc[p].prog /\ r.key = proc[p].key /\ r.pc = "active"
        /\ r.loops = proc[p].loops
    BY <2>1 DEF Process
  <2>3. /\ proc' = [proc EXCEPT ![p] = r] /\ UNCHANGED <<db, reported, eotsVars>>
        /\ rpcPort' = [rpcPort EXCEPT ![HomeOf(p)] = p]
    BY <1>2 DEF startGrpcListen, Goto
  <2> HIDE DEF r
  <2>4. proc'[p] = r
    BY <2>3 DEF DaemonsInv
  <2>5. ProcFacts(p)'
    BY <2>1, <2>2, <2>3, <2>4 DEF ProcFacts, HomeOf, eotsVars, HoldsDbPcs
  <2>6. ReportedKeysUsable'
    BY <2>3 DEF DaemonsInv, ReportedKeysUsable, KeyRecordExists, GetEOTSKeyName, KeyExists, eotsVars
  <2>7. /\ rpcPort' \in [Daemon -> Procs \union {Nobody}]
        /\ \A d \in Daemon : rpcPort'[d] \in {rpcPort[d], Nobody, p}
        /\ \A d \in Daemon : rpcPort'[d] = p => HomeOf(p) = d
    BY <2>1, <2>3 DEF DaemonsInv
  <2>8. \A d \in Daemon : rpcPort'[d] = p => Home(r.prog) = d /\ r.pc \in {"active", "stopGrpc"}
    BY <2>2, <2>7 DEF HomeOf
  <2> QED BY <2>2, <2>3, <2>5, <2>6, <2>7, <2>8, ProcessStep DEF DaemonsInv, eotsVars
<1> QED BY <1>1, <1>2

\* The server is stopped, then the database closed.
LEMMA StopGrpcStep ==
  ASSUME DaemonsInv, NEW p \in Procs, stopGrpc(p)
  PROVE  DaemonsInv'
<1> DEFINE r == [proc[p] EXCEPT !.pc = "closeDb"]
<1>1. proc[p] \in Process /\ ProcFacts(p) /\ proc[p].pc = "stopGrpc"
  BY Before DEF stopGrpc
<1>2. r \in Process /\ r.prog = proc[p].prog /\ r.key = proc[p].key /\ r.pc = "closeDb"
      /\ r.loops = proc[p].loops
  BY <1>1 DEF Process
<1>3. /\ proc' = [proc EXCEPT ![p] = r] /\ UNCHANGED <<db, reported, eotsVars>>
      /\ rpcPort' = Release(rpcPort, p)
  BY DEF stopGrpc, Goto
<1> HIDE DEF r
<1>4. proc'[p] = r
  BY <1>3 DEF DaemonsInv
<1>5. ProcFacts(p)'
  BY <1>1, <1>2, <1>3, <1>4 DEF ProcFacts, HomeOf, eotsVars, HoldsDbPcs
<1>6. ReportedKeysUsable'
  BY <1>3 DEF DaemonsInv, ReportedKeysUsable, KeyRecordExists, GetEOTSKeyName, KeyExists, eotsVars
<1>7. /\ rpcPort' \in [Daemon -> Procs \union {Nobody}]
      /\ \A d \in Daemon : rpcPort'[d] \in {rpcPort[d], Nobody} /\ rpcPort'[d] # p
  BY <1>3, DaemonsAssumption DEF DaemonsInv, Release
<1> QED BY <1>2, <1>3, <1>5, <1>6, <1>7, ProcessStep DEF DaemonsInv, eotsVars

LEMMA CloseDbStep ==
  ASSUME DaemonsInv, NEW p \in Procs, closeDb(p)
  PROVE  DaemonsInv'
<1> DEFINE r == [proc[p] EXCEPT !.pc = "stopMetrics"]
<1>1. proc[p] \in Process /\ ProcFacts(p) /\ proc[p].pc = "closeDb" /\ \A d \in Daemon : rpcPort[d] # p
  BY Before DEF closeDb
<1>2. r \in Process /\ r.prog = proc[p].prog /\ r.key = proc[p].key /\ r.pc = "stopMetrics"
      /\ r.loops = proc[p].loops
  BY <1>1 DEF Process
<1>3. /\ proc' = [proc EXCEPT ![p] = r] /\ UNCHANGED <<rpcPort, reported, eotsVars>>
      /\ db' = Release(db, p)
  BY DEF closeDb, Goto
<1> HIDE DEF r
<1>4. proc'[p] = r
  BY <1>3 DEF DaemonsInv
<1>5. ProcFacts(p)'
  BY <1>1, <1>2, <1>3, <1>4 DEF ProcFacts, HomeOf, eotsVars, HoldsDbPcs
<1>6. ReportedKeysUsable'
  BY <1>3 DEF DaemonsInv, ReportedKeysUsable, KeyRecordExists, GetEOTSKeyName, KeyExists, eotsVars
<1>7. /\ db' \in [Daemon -> Procs \union {Nobody}]
      /\ \A d \in Daemon : db[d] # p => db'[d] = db[d]
  BY <1>3 DEF DaemonsInv, Release
<1> QED BY <1>1, <1>2, <1>3, <1>5, <1>6, <1>7, ProcessStep DEF DaemonsInv, eotsVars

\* The first half of CreateKey, by the daemon or by the command.
LEMMA AddKeyStep ==
  ASSUME DaemonsInv, NEW p \in Procs, NEW k \in Keys, AddKey(p, k),
         \/ proc[p].prog = "eotsd" /\ proc[p].pc = "active"
         \/ proc[p].prog = "keys" /\ proc[p].pc = "command"
  PROVE  DaemonsInv'
<1> DEFINE r == [proc[p] EXCEPT !.key = k]
<1>1. proc[p] \in Process /\ ProcFacts(p)
  BY Before
<1>2. r \in Process /\ r.prog = proc[p].prog /\ r.key = k /\ r.pc = proc[p].pc
      /\ r.loops = proc[p].loops
  BY <1>1 DEF Process
<1>3. /\ proc' = [proc EXCEPT ![p] = r] /\ UNCHANGED <<db, rpcPort, reported, eotsNames>>
      /\ eotsKeys' = eotsKeys \union {k}
  BY DEF AddKey, NewAccount
<1> HIDE DEF r
<1>4. proc'[p] = r
  BY <1>3 DEF DaemonsInv
<1>5. ProcFacts(p)'
  BY <1>1, <1>2, <1>3, <1>4 DEF ProcFacts, HomeOf
<1>6. ReportedKeysUsable'
  BY <1>3 DEF DaemonsInv, ReportedKeysUsable, KeyRecordExists, GetEOTSKeyName, KeyExists
<1>7. \A d \in Daemon : rpcPort'[d] = p => Home(r.prog) = d /\ r.pc \in {"active", "stopGrpc"}
  BY <1>2, <1>3, Before DEF HomeOf
<1> QED BY <1>2, <1>3, <1>5, <1>6, <1>7, ProcessStep DEF DaemonsInv

\* The second half, which finds the database open or closed.
LEMMA SaveKeyNameStep ==
  ASSUME DaemonsInv, NEW p \in Procs, saveKeyName(p)
  PROVE  DaemonsInv'
<1> DEFINE r == [proc[p] EXCEPT !.key = NoKey, !.pc = AfterKey(p)]
<1>1. proc[p] \in Process /\ ProcFacts(p) /\ proc[p].key # NoKey
  BY Before DEF saveKeyName
<1>2. r \in Process /\ r.prog = proc[p].prog /\ r.key = NoKey /\ r.pc = AfterKey(p)
      /\ r.loops = proc[p].loops
  BY <1>1 DEF Process, AfterKey
<1>3. proc' = [proc EXCEPT ![p] = r] /\ UNCHANGED <<db, rpcPort, eotsKeys>>
  BY DEF saveKeyName, AddEOTSKeyName
<1> HIDE DEF r
<1>4. proc'[p] = r
  BY <1>3 DEF DaemonsInv
<1>5. ProcFacts(p)'
  BY <1>1, <1>2, <1>3, <1>4 DEF ProcFacts, HomeOf, AfterKey, HoldsDbPcs
<1>6. ReportedKeysUsable'
  <2>1. CASE db["eotsd"] = p
    <3>1. reported' = reported \union {proc[p].key} /\ eotsNames' = eotsNames \union {proc[p].key}
      BY <2>1 DEF saveKeyName, AddEOTSKeyName
    <3> QED BY <1>1, <1>3, <3>1
            DEF DaemonsInv, ProcFacts, ReportedKeysUsable, KeyRecordExists, GetEOTSKeyName, KeyExists
  <2>2. CASE db["eotsd"] # p
    BY <2>2 DEF saveKeyName, DaemonsInv, ReportedKeysUsable, KeyRecordExists, GetEOTSKeyName,
                KeyExists
  <2> QED BY <2>1, <2>2
<1>7. \A d \in Daemon : rpcPort'[d] = p => Home(r.prog) = d /\ r.pc \in {"active", "stopGrpc"}
  BY <1>1, <1>2, <1>3, Before DEF HomeOf, AfterKey, ProcFacts
<1> QED BY <1>2, <1>3, <1>5, <1>6, <1>7, ProcessStep DEF DaemonsInv

LEMMA InvNext == DaemonsInv /\ [Next]_vars => DaemonsInv'
<1> SUFFICES ASSUME DaemonsInv, [Next]_vars PROVE DaemonsInv'
  OBVIOUS
<1>1. CASE UNCHANGED <<proc, db, rpcPort, reported, eotsVars>>
  BY <1>1 DEF DaemonsInv, ProcFacts, PortFacts, HomeOf, ReportedKeysUsable, KeyRecordExists,
              GetEOTSKeyName, KeyExists, eotsVars
<1>2. CASE runInitCmd \/ initHome
  BY <1>1, <1>2 DEF runInitCmd, initHome, WriteConfig
<1>3. ASSUME NEW p \in Procs, Operator(p) PROVE DaemonsInv'
  <2>1. CASE ShutdownSignal(p)
    BY <2>1, GotoStep DEF ShutdownSignal
  <2>2. CASE Kill(p)
    BY <2>2, ExitStep DEF Kill
  <2>3. CASE \E prog \in Programs : Launch(p, prog)
    BY <2>3, LaunchStep
  <2> QED BY <1>3, <2>1, <2>2, <2>3
          DEF Operator, runStartCmd, startFn, addKey, SignSchnorr, ExportPoP, Programs, Daemon
<1>4. ASSUME NEW p \in Procs, StartUp(p) PROVE DaemonsInv'
  <2>1. CASE Exit(p)
    BY <2>1, ExitStep
  <2>2. CASE ReadConfig(p)
    BY <2>1, <2>2, GotoStep DEF ReadConfig
  <2>3. CASE GetDbBackend(p)
    BY <2>3, GetDbBackendStep
  <2>4. CASE NewFinalityProviderAppFromConfig(p)
    BY <2>1, <2>4, GotoStep DEF NewFinalityProviderAppFromConfig
  <2>5. CASE startApp(p)
    BY <2>5, StartAppStep
  <2>6. CASE StartHandlingFinalityProvider(p)
    BY <2>1, <2>6, GotoStep DEF StartHandlingFinalityProvider
  <2> QED BY <1>4, <2>2, <2>3, <2>4, <2>5, <2>6 DEF StartUp, LoadConfig, LoadEotsConfig
<1>5. ASSUME NEW p \in Procs, Run(p) PROVE DaemonsInv'
  BY <1>5, MetricsStartStep, ListenStep, StopGrpcStep, CloseDbStep, ExitStep DEF Run, metricsStop
<1>6. ASSUME NEW p \in Procs, Command(p) \/ CreateKey(p) PROVE DaemonsInv'
  <2>1. CASE createKey(p) \/ CreateKey(p)
    BY <2>1, AddKeyStep DEF createKey, CreateKey
  <2>2. CASE saveKeyName(p)
    BY <2>2, SaveKeyNameStep
  <2>3. CASE createKeyFails(p)
    BY <2>3, GotoStep DEF createKeyFails
  <2>4. CASE singMsg(p)
    <3>1. proc[p].key = NoKey
      BY <2>4, Before DEF singMsg, ProcFacts
    <3> QED BY <2>4, <3>1, GotoStep DEF singMsg
  <2> QED BY <1>6, <2>1, <2>2, <2>3, <2>4 DEF Command
<1>7. ASSUME NEW p \in Procs, metricsListen(p) \/ LoopWrites(p) PROVE DaemonsInv'
  BY <1>7, MetricsListenStep, ExitStep DEF LoopWrites
<1>8. CASE UNCHANGED vars
  BY <1>1, <1>8 DEF vars, sysVars
<1> QED BY <1>2, <1>3, <1>4, <1>5, <1>6, <1>7, <1>8 DEF Next

LEMMA DaemonsInvariant == Spec => []DaemonsInv
<1> QED BY InitDaemons, InvNext, PTL DEF Spec

(***************************************************************************)
(* For any number of processes, whatever is killed when: the RPC port of a *)
(* daemon is held only by the process that has the daemon's database open. *)
(* The deferred calls of RunUntilShutdown, run last first, are what keeps  *)
(* it (server.go).                                                         *)
(***************************************************************************)
THEOREM ListenersHoldTheDatabase == Spec => []ListensWithDatabase
<1>1. DaemonsInv => ListensWithDatabase
  BY DaemonsAssumption DEF DaemonsInv, PortFacts, ProcFacts, ListensWithDatabase, HoldsDbPcs
<1> QED BY <1>1, DaemonsInvariant, PTL

(***************************************************************************)
(* For any number of processes, at most one fpd has its voting loops       *)
(* running and has not yet closed its database (server.go, fpd start).     *)
(***************************************************************************)
THEOREM LoopsOfOneDaemon == Spec => []OneDaemonUnlessStopping
<1>1. DaemonsInv => OneDaemonUnlessStopping
  <2> SUFFICES ASSUME DaemonsInv, NEW p \in Procs, NEW q \in Procs, proc[p].loops, proc[q].loops,
                      proc[p].pc # "stopMetrics", proc[q].pc # "stopMetrics"
               PROVE  p = q
    BY DEF OneDaemonUnlessStopping
  <2>1. db["fpd"] = p /\ db["fpd"] = q
    BY DEF DaemonsInv, ProcFacts, HomeOf, Home
  <2> QED BY <2>1
<1> QED BY <1>1, DaemonsInvariant, PTL

(***************************************************************************)
(* For any number of processes creating keys at once and ended at any      *)
(* point, a key whose creation was answered with success is in the keyring *)
(* and in the database (CreateKeyWithMnemonic).                            *)
(***************************************************************************)
THEOREM ReportedKeysStayUsable == Spec => []ReportedKeysUsable
<1>1. DaemonsInv => ReportedKeysUsable
  BY DEF DaemonsInv
<1> QED BY <1>1, DaemonsInvariant, PTL

(***************************************************************************)
(* The keys that are being created.                                        *)
(***************************************************************************)
\* No two processes create the same key at once, and what the database names is
\* in the keyring: a lookup by public key that finds a name finds a key.
KeysInOrder ==
  /\ \A p, q \in Procs : p # q /\ proc[p].key = proc[q].key => proc[p].key = NoKey
  /\ eotsNames \subseteq eotsKeys

\* The calls between their two writes are those of the processes.
CreatorsKnown ==
  /\ creating \subseteq Keys
  /\ \A k \in Keys : k \in creating <=> \E p \in Procs : proc[p].key = k

NoKeyWhenOff == \A p \in Procs : proc[p].pc = "off" => proc[p].key = NoKey

KeySets == eotsKeys \subseteq Keys /\ eotsNames \subseteq Keys /\ reported \subseteq Keys

KeysInv == KeysInOrder /\ CreatorsKnown /\ KeySets /\ NoKeyWhenOff

LEMMA KeysInvInit == Init => KeysInv
BY DaemonsAssumption DEF Init, EotsInit, KeysInv, KeysInOrder, CreatorsKnown, KeySets, NoKeyWhenOff, Off,
   NoKey

SameKey(p) ==
  /\ proc'[p].key = proc[p].key
  /\ proc'[p].pc = "off" => proc[p].pc = "off" \/ proc'[p].key = NoKey

\* The step of a process that neither begins nor ends the creation of a key.
LEMMA KeysUntouched ==
  ASSUME KeysInv, UNCHANGED <<reported, eotsVars>>, \A p \in Procs : SameKey(p)
  PROVE  KeysInv'
BY DEF KeysInv, KeysInOrder, CreatorsKnown, KeySets, NoKeyWhenOff, SameKey, eotsVars

LEMMA GotoKeepsKey ==
  ASSUME DaemonsInv, NEW p \in Procs, NEW pc, pc # "off", Goto(p, pc)
  PROVE  \A q \in Procs : SameKey(q)
BY DEF DaemonsInv, Goto, Process, SameKey

\* The process that created a key is done with it, or gone.
LEMMA KeyGivenUp ==
  ASSUME DaemonsInv, KeysInv, NEW p \in Procs,
         proc'[p].key = NoKey, \A q \in Procs \ {p} : SameKey(q),
         creating' = creating \ {proc[p].key}, eotsKeys' = eotsKeys,
         eotsNames' \in {eotsNames, eotsNames \union {proc[p].key}},
         reported' \in {reported, reported \union {proc[p].key}},
         proc[p].key = NoKey => UNCHANGED <<eotsNames, reported>>
  PROVE  KeysInv'
<1>1. proc[p].key # NoKey => proc[p].key \in eotsKeys /\ proc[p].key \in Keys
  BY DEF DaemonsInv, ProcFacts, KeysInv, KeySets
<1>2. KeySets'
  BY <1>1 DEF KeysInv, KeySets
<1>3. KeysInOrder' /\ NoKeyWhenOff'
  BY <1>1 DEF KeysInv, KeysInOrder, NoKeyWhenOff, SameKey
<1>4. ASSUME NEW k \in Keys
      PROVE  k \in creating' <=> \E q \in Procs : proc'[q].key = k
  <2>1. k # NoKey
    BY DaemonsAssumption DEF NoKey
  <2>2. CASE k = proc[p].key
    BY <2>1, <2>2 DEF KeysInv, KeysInOrder, SameKey
  <2>3. CASE k # proc[p].key
    BY <2>1, <2>3 DEF KeysInv, CreatorsKnown, SameKey
  <2> QED BY <2>2, <2>3
<1>5. CreatorsKnown'
  BY <1>4 DEF CreatorsKnown, KeysInv
<1> QED BY <1>2, <1>3, <1>5 DEF KeysInv

LEMMA ExitKeys ==
  ASSUME DaemonsInv, KeysInv, NEW p \in Procs, Exit(p)
  PROVE  KeysInv'
<1>1. proc'[p].key = NoKey /\ \A q \in Procs \ {p} : SameKey(q)
  BY DEF Exit, DaemonsInv, Off, SameKey
<1> QED BY <1>1, KeyGivenUp DEF Exit

LEMMA AddKeyKeys ==
  ASSUME DaemonsInv, KeysInv, NEW p \in Procs, NEW k \in Keys, AddKey(p, k), proc[p].pc # "off"
  PROVE  KeysInv'
<1>0. proc'[p].pc # "off"
  BY DEF AddKey, DaemonsInv, Process
<1>1. /\ proc[p].key = NoKey /\ proc'[p].key = k
      /\ \A q \in Procs \ {p} : SameKey(q)
  BY DEF AddKey, DaemonsInv, Process, SameKey
<1>2. /\ k \notin eotsKeys /\ eotsKeys' = eotsKeys \union {k} /\ creating' = creating \union {k}
      /\ UNCHANGED <<eotsNames, reported>>
  BY DEF AddKey, NewAccount, KeyExists
<1>3. \A q \in Procs : proc[q].key # k
  <2>1. k # NoKey
    BY DaemonsAssumption DEF NoKey
  <2> QED BY <1>2, <2>1 DEF DaemonsInv, ProcFacts
<1>4. KeysInOrder' /\ KeySets'
  BY <1>1, <1>2, <1>3 DEF KeysInv, KeysInOrder, KeySets, SameKey
<1>5. CreatorsKnown'
  <2>1. ASSUME NEW j \in Keys
        PROVE  j \in creating' <=> \E q \in Procs : proc'[q].key = j
    <3>1. j # NoKey
      BY DaemonsAssumption DEF NoKey
    <3>2. CASE j = k
      BY <1>1, <1>2, <3>2
    <3>3. CASE j # k
      BY <1>1, <1>2, <3>1, <3>3 DEF KeysInv, CreatorsKnown, SameKey
    <3> QED BY <3>2, <3>3
  <2> QED BY <1>2, <2>1 DEF KeysInv, CreatorsKnown
<1>6. NoKeyWhenOff'
  BY <1>0, <1>1 DEF KeysInv, NoKeyWhenOff, SameKey
<1> QED BY <1>4, <1>5, <1>6 DEF KeysInv

LEMMA SaveKeyNameKeys ==
  ASSUME DaemonsInv, KeysInv, NEW p \in Procs, saveKeyName(p)
  PROVE  KeysInv'
<1>1. proc'[p].key = NoKey /\ \A q \in Procs \ {p} : SameKey(q)
  BY DEF saveKeyName, DaemonsInv, Process, SameKey
<1>2. /\ proc[p].key # NoKey /\ creating' = creating \ {proc[p].key} /\ eotsKeys' = eotsKeys
      /\ eotsNames' \in {eotsNames, eotsNames \union {proc[p].key}}
      /\ reported' \in {reported, reported \union {proc[p].key}}
  BY DEF saveKeyName, AddEOTSKeyName
<1> QED BY <1>1, <1>2, KeyGivenUp

LEMMA KeysInvNext ==
  ASSUME DaemonsInv, KeysInv, [Next]_vars
  PROVE  KeysInv'
<1>1. ASSUME NEW p \in Procs, Exit(p) PROVE KeysInv'
  BY <1>1, ExitKeys
<1>2. ASSUME NEW p \in Procs, NEW pc, pc # "off", Goto(p, pc), UNCHANGED <<reported, eotsVars>>
      PROVE  KeysInv'
  BY <1>2, GotoKeepsKey, KeysUntouched
<1>3. CASE runInitCmd \/ initHome \/ UNCHANGED vars
  <2>1. UNCHANGED <<proc, reported, eotsVars>>
    BY <1>3 DEF runInitCmd, initHome, WriteConfig, vars, sysVars
  <2> QED BY <2>1, KeysUntouched DEF SameKey
<1>4. ASSUME NEW p \in Procs, Operator(p) PROVE KeysInv'
  <2>1. CASE ShutdownSignal(p)
    BY <1>2, <2>1 DEF ShutdownSignal
  <2>2. CASE Kill(p)
    BY <1>1, <2>2 DEF Kill
  <2>3. ASSUME NEW prog, Launch(p, prog) PROVE KeysInv'
    <3>1. proc[p].key = NoKey
      BY <2>3 DEF Launch, KeysInv, NoKeyWhenOff
    <3>2. \A q \in Procs : SameKey(q)
      BY <2>3, <3>1 DEF Launch, DaemonsInv, Off, SameKey
    <3> QED BY <2>3, <3>2, KeysUntouched DEF Launch
  <2> QED BY <1>4, <2>1, <2>2, <2>3 DEF Operator, runStartCmd, startFn, addKey, SignSchnorr, ExportPoP
<1>5. ASSUME NEW p \in Procs, StartUp(p) PROVE KeysInv'
  <2>1. CASE ReadConfig(p)
    BY <1>1, <1>2, <2>1 DEF ReadConfig
  <2>2. CASE GetDbBackend(p)
    BY <1>1, <1>2, <2>2 DEF GetDbBackend, NewLocalEOTSManager
  <2>3. CASE NewFinalityProviderAppFromConfig(p)
    BY <1>1, <1>2, <2>3 DEF NewFinalityProviderAppFromConfig
  <2>4. CASE startApp(p)
    <3>1. \A q \in Procs : SameKey(q)
      BY <2>4 DEF startApp, DaemonsInv, Process, SameKey
    <3> QED BY <2>4, <3>1, KeysUntouched DEF startApp
  <2>5. CASE StartHandlingFinalityProvider(p)
    BY <1>1, <1>2, <2>5 DEF StartHandlingFinalityProvider
  <2> QED BY <1>5, <2>1, <2>2, <2>3, <2>4, <2>5 DEF StartUp, LoadConfig, LoadEotsConfig
<1>6. ASSUME NEW p \in Procs, Run(p) PROVE KeysInv'
  <2>1. CASE metricsStart(p)
    <3>1. \A q \in Procs : SameKey(q)
      BY <2>1 DEF metricsStart, DaemonsInv, Process, SameKey
    <3> QED BY <2>1, <3>1, KeysUntouched DEF metricsStart
  <2>2. CASE startGrpcListen(p)
    BY <1>2, <2>2 DEF startGrpcListen
  <2>3. CASE stopGrpc(p)
    BY <1>2, <2>3 DEF stopGrpc
  <2>4. CASE closeDb(p)
    BY <1>2, <2>4 DEF closeDb
  <2>5. CASE metricsStop(p)
    BY <1>1, <2>5 DEF metricsStop
  <2> QED BY <1>6, <2>1, <2>2, <2>3, <2>4, <2>5 DEF Run
<1>7. ASSUME NEW p \in Procs, Command(p) \/ CreateKey(p) PROVE KeysInv'
  <2>1. CASE createKey(p) \/ CreateKey(p)
    BY <2>1, AddKeyKeys DEF createKey, CreateKey
  <2>2. CASE saveKeyName(p)
    BY <2>2, SaveKeyNameKeys
  <2>3. CASE createKeyFails(p)
    BY <1>2, <2>3 DEF createKeyFails
  <2>4. CASE singMsg(p)
    BY <1>2, <2>4 DEF singMsg
  <2> QED BY <1>7, <2>1, <2>2, <2>3, <2>4 DEF Command
<1>8. ASSUME NEW p \in Procs, metricsListen(p) \/ LoopWrites(p) PROVE KeysInv'
  <2>1. CASE LoopWrites(p)
    BY <1>1, <2>1 DEF LoopWrites
  <2>2. CASE metricsListen(p)
    <3>1. CASE proc' = [proc EXCEPT ![p].metrics = "serving"] /\ UNCHANGED <<reported, eotsVars>>
      <4>1. \A q \in Procs : SameKey(q)
        BY <3>1 DEF DaemonsInv, Process, SameKey
      <4> QED BY <3>1, <4>1, KeysUntouched
    <3> QED BY <1>1, <2>2, <3>1 DEF metricsListen
  <2> QED BY <1>8, <2>1, <2>2
<1> QED BY <1>3, <1>4, <1>5, <1>6, <1>7, <1>8 DEF Next

\* The configuration files and the metrics ports.
FilesAndPorts == conf \subseteq Daemon /\ promPort \in [Daemon -> Procs \union {Nobody}]

LEMMA FilesAndPortsNext ==
  ASSUME FilesAndPorts, [Next]_vars
  PROVE  FilesAndPorts'
<1>1. CASE UNCHANGED <<conf, promPort>>
  BY <1>1 DEF FilesAndPorts
<1>2. ASSUME NEW p \in Procs, Exit(p) PROVE FilesAndPorts'
  BY <1>2 DEF Exit, Release, FilesAndPorts
<1>3. CASE runInitCmd \/ initHome
  BY <1>3 DEF runInitCmd, initHome, WriteConfig, FilesAndPorts, Daemon
<1>4. ASSUME NEW p \in Procs, Operator(p) PROVE FilesAndPorts'
  BY <1>1, <1>2, <1>4 DEF Operator, runStartCmd, startFn, addKey, SignSchnorr, ExportPoP, Launch,
     ShutdownSignal, Kill
<1>5. ASSUME NEW p \in Procs, StartUp(p) PROVE FilesAndPorts'
  BY <1>1, <1>2, <1>5 DEF StartUp, LoadConfig, LoadEotsConfig, ReadConfig, GetDbBackend,
     NewFinalityProviderAppFromConfig, startApp, StartHandlingFinalityProvider
<1>6. ASSUME NEW p \in Procs, Run(p) PROVE FilesAndPorts'
  BY <1>1, <1>2, <1>6 DEF Run, metricsStart, startGrpcListen, stopGrpc, closeDb, metricsStop
<1>7. ASSUME NEW p \in Procs, Command(p) \/ CreateKey(p) PROVE FilesAndPorts'
  BY <1>1, <1>7 DEF Command, createKey, CreateKey, AddKey, saveKeyName, createKeyFails, singMsg
<1>8. ASSUME NEW p \in Procs, LoopWrites(p) PROVE FilesAndPorts'
  BY <1>2, <1>8 DEF LoopWrites
<1>9. ASSUME NEW p \in Procs, metricsListen(p) PROVE FilesAndPorts'
  <2>1. CASE conf' = conf /\ promPort' = [promPort EXCEPT ![HomeOf(p)] = p]
    BY <2>1 DEF FilesAndPorts
  <2> QED BY <1>2, <1>9, <2>1 DEF metricsListen
<1>10. CASE UNCHANGED vars
  BY <1>1, <1>10 DEF vars, sysVars
<1> QED BY <1>3, <1>4, <1>5, <1>6, <1>7, <1>8, <1>9, <1>10 DEF Next

LEMMA DaemonsTypes == Spec => [](DaemonsInv /\ KeysInv /\ FilesAndPorts)
<1>1. Init => KeysInv /\ FilesAndPorts
  BY KeysInvInit DEF Init, FilesAndPorts
<1>2. DaemonsInv /\ KeysInv /\ FilesAndPorts /\ [Next]_vars => KeysInv' /\ FilesAndPorts'
  BY KeysInvNext, FilesAndPortsNext
<1> QED BY <1>1, <1>2, DaemonsInvariant, PTL DEF Spec

(***************************************************************************)
(* For any number of processes killed at any point: a key is created by at *)
(* most one process at a time, although the RPC of eotsd and keys add know *)
(* nothing of each other, and a public key that the database can name is   *)
(* always in the keyring.  A kill between the two writes leaves a key      *)
(* without a name and never a name without a key (CreateKeyWithMnemonic in *)
(* localmanager.go writes the keyring first).                              *)
(***************************************************************************)
THEOREM NamesHaveTheirKeys == Spec => []KeysInOrder
<1>1. KeysInv => KeysInOrder
  BY DEF KeysInv
<1> QED BY <1>1, DaemonsTypes, PTL

(***************************************************************************)
(* The state of the processes keeps its types, and the keys that are half  *)
(* created by a live process are those that the processes hold.            *)
(***************************************************************************)
THEOREM DaemonsTypeCorrect == Spec => []TypeOK
<1>1. ASSUME DaemonsInv, KeysInv, FilesAndPorts
      PROVE  TypeOK
  <2>1. EotsTypeOK /\ conf \subseteq Daemon /\ reported \subseteq Keys
    BY <1>1 DEF EotsTypeOK, KeysInv, KeySets, CreatorsKnown, FilesAndPorts
  <2>2. proc \in [Procs -> Process]
    BY <1>1 DEF DaemonsInv
  <2>3. \A held \in {db, rpcPort, promPort} : held \in [Daemon -> Procs \union {Nobody}]
    BY <1>1 DEF DaemonsInv, FilesAndPorts
  <2>4. \A p \in Procs : proc[p].key \in Keys \union {NoKey}
    BY <2>2 DEF Process
  <2>5. ASSUME NEW k
        PROVE  k \in creating <=> k \in {proc[p].key : p \in Procs} \ {NoKey}
    BY <1>1, <2>4, DaemonsAssumption DEF KeysInv, CreatorsKnown, NoKey
  <2>6. creating = {proc[p].key : p \in Procs} \ {NoKey}
    BY <2>5
  <2> QED BY <2>1, <2>2, <2>3, <2>6 DEF TypeOK
<1> QED BY <1>1, DaemonsTypes, PTL
=============================================================================
