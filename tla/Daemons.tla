------------------------------ MODULE Daemons -------------------------------
(***************************************************************************)
(* The processes of an operator's machine: the daemons fpd and eotsd, from *)
(* the start command to the end of RunUntilShutdown, and the eotsd         *)
(* commands that open the EOTS manager's database themselves (keys add,    *)
(* sign-schnorr, pop-export).                                              *)
(*                                                                         *)
(* They share the database files, which bolt locks for one process, the    *)
(* ports, the keyring (EotsManager) and the configuration files.  A        *)
(* process ends by returning from its command, by a Fatal log entry or by  *)
(* being killed; all that it holds is then released.                       *)
(***************************************************************************)
EXTENDS EotsManager, FiniteSets

CONSTANTS
  Procs,      \* process slots; a slot may run one program after the other
  Nobody      \* holds what nobody holds

ASSUME DaemonsAssumption == Nobody \notin Procs \union Keys

VARIABLES
  conf,       \* the daemons whose configuration file exists and is valid
  proc,       \* what each process runs and where it is
  db,         \* who has the database of each daemon open
  rpcPort,    \* who listens on the RPC port of each daemon
  promPort,   \* who listens on its Prometheus port
  reported    \* the keys whose creation was answered with success

sysVars == <<conf, proc, db, rpcPort, promPort, reported>>
vars == <<sysVars, eotsVars>>

Daemon == {"fpd", "eotsd"}
Programs == Daemon \union {"keys", "sign"}
NoKey == Nobody
Off == [prog |-> "none", pc |-> "off", loops |-> FALSE, metrics |-> "none", key |-> NoKey]

\* Whose configuration, database and ports a program uses.
Home(prog) == IF prog = "fpd" THEN "fpd" ELSE "eotsd"
HomeOf(p) == Home(proc[p].prog)

Init ==
  /\ conf \in SUBSET Daemon
  /\ proc = [p \in Procs |-> Off]
  /\ db = [d \in Daemon |-> Nobody]
  /\ rpcPort = [d \in Daemon |-> Nobody]
  /\ promPort = [d \in Daemon |-> Nobody]
  /\ reported = {}
  /\ EotsInit

Goto(p, pc) == proc' = [proc EXCEPT ![p].pc = pc]
Release(held, p) == [d \in Daemon |-> IF held[d] = p THEN Nobody ELSE held[d]]

\* The process ends; a key it was creating stays half created.
Exit(p) ==
  /\ proc' = [proc EXCEPT ![p] = Off]
  /\ db' = Release(db, p)
  /\ rpcPort' = Release(rpcPort, p)
  /\ promPort' = Release(promPort, p)
  /\ creating' = creating \ {proc[p].key}
  /\ UNCHANGED <<conf, reported, eotsKeys, eotsNames>>

(***************************************************************************)
(* Start-up.                                                               *)
(***************************************************************************)

\* fpd init and eotsd init write the default configuration: into a new home, or
\* by force over a file that cannot be used.
WriteConfig(d) ==
  /\ d \notin conf
  /\ conf' = conf \union {d}
  /\ UNCHANGED <<proc, db, rpcPort, promPort, reported, eotsVars>>

runInitCmd == WriteConfig("fpd")
initHome == WriteConfig("eotsd")

Launch(p, prog) ==
  /\ proc[p].pc = "off"
  /\ proc' = [proc EXCEPT ![p] = [Off EXCEPT !.prog = prog, !.pc = "config"]]
  /\ UNCHANGED <<conf, db, rpcPort, promPort, reported, eotsVars>>

runStartCmd(p) == Launch(p, "fpd")
startFn(p) == Launch(p, "eotsd")
addKey(p) == Launch(p, "keys")
SignSchnorr(p) == Launch(p, "sign")
ExportPoP(p) == Launch(p, "sign")

\* The configuration is read and validated, and the log file opened.
ReadConfig(p) ==
  /\ proc[p].pc = "config"
  /\ \/ /\ HomeOf(p) \in conf
        /\ Goto(p, "db")
        /\ UNCHANGED <<conf, db, rpcPort, promPort, reported, eotsVars>>
     \/ Exit(p)

LoadConfig(p) == proc[p].prog = "fpd" /\ ReadConfig(p)
LoadEotsConfig(p) == proc[p].prog \in Programs \ {"fpd"} /\ ReadConfig(p)

\* With the database open, the buckets are created and the EOTS manager is built,
\* by a daemon or by a command.
NewLocalEOTSManager(p) == Goto(p, IF proc[p].prog = "eotsd" THEN "metrics" ELSE "command")

\* Mutant: opening the database waits without a timeout.
GetDbBackend_NoTimeout(p) ==
  /\ proc[p].pc = "db"
  /\ db[HomeOf(p)] = Nobody
  /\ db' = [db EXCEPT ![HomeOf(p)] = p]
  /\ IF proc[p].prog = "fpd" THEN Goto(p, "client") ELSE NewLocalEOTSManager(p)
  /\ UNCHANGED <<conf, rpcPort, promPort, reported, eotsVars>>

\* Bolt waits for the lock on the file until DBTimeout.
GetDbBackend(p) ==
  /\ proc[p].pc = "db"
  /\ IF db[HomeOf(p)] = Nobody
       THEN /\ db' = [db EXCEPT ![HomeOf(p)] = p]
            /\ IF proc[p].prog = "fpd" THEN Goto(p, "client") ELSE NewLocalEOTSManager(p)
            /\ UNCHANGED <<conf, rpcPort, promPort, reported, eotsVars>>
       ELSE Exit(p)

\* fpd dials the EOTS manager and pings it.
NewEOTSManagerGRpcClient == rpcPort["eotsd"] # Nobody

\* The client controller may fail too, if its key is not in the keyring.  Then the
\* stores and the application are built.
NewFinalityProviderAppFromConfig(p) ==
  /\ proc[p].pc = "client"
  /\ \/ /\ NewEOTSManagerGRpcClient
        /\ Goto(p, "startApp")
        /\ UNCHANGED <<conf, db, rpcPort, promPort, reported, eotsVars>>
     \/ Exit(p)

\* The loops of the application start; then the provider, if one is named.  An
\* error other than ErrFinalityProviderJailed ends the daemon.
startApp(p) ==
  /\ proc[p].pc = "startApp"
  /\ proc' = [proc EXCEPT ![p].loops = TRUE, ![p].pc = "handle"]
  /\ UNCHANGED <<conf, db, rpcPort, promPort, reported, eotsVars>>

StartHandlingFinalityProvider(p) ==
  /\ proc[p].pc = "handle"
  /\ \/ Goto(p, "metrics") /\ UNCHANGED <<conf, db, rpcPort, promPort, reported, eotsVars>>
     \/ Exit(p)

(***************************************************************************)
(* RunUntilShutdown, the same in both daemons.                             *)
(***************************************************************************)
\* metrics.Start: the server listens in a goroutine of its own.
metricsStart(p) ==
  /\ proc[p].pc = "metrics"
  /\ proc' = [proc EXCEPT ![p].metrics = "starting", ![p].pc = "listen"]
  /\ UNCHANGED <<conf, db, rpcPort, promPort, reported, eotsVars>>

\* ListenAndServe of that goroutine; a port that is taken is Fatal.
metricsListen(p) ==
  /\ proc[p].metrics = "starting"
  /\ IF promPort[HomeOf(p)] = Nobody
       THEN /\ promPort' = [promPort EXCEPT ![HomeOf(p)] = p]
            /\ proc' = [proc EXCEPT ![p].metrics = "serving"]
            /\ UNCHANGED <<conf, db, rpcPort, reported, eotsVars>>
       ELSE Exit(p)

\* net.Listen and startGrpcListen, or back through the deferred calls.
startGrpcListen(p) ==
  /\ proc[p].pc = "listen"
  /\ IF rpcPort[HomeOf(p)] = Nobody
       THEN rpcPort' = [rpcPort EXCEPT ![HomeOf(p)] = p] /\ Goto(p, "active")
       ELSE UNCHANGED rpcPort /\ Goto(p, "closeDb")
  /\ UNCHANGED <<conf, db, promPort, reported, eotsVars>>

ShutdownSignal(p) ==
  /\ proc[p].pc = "active"
  /\ Goto(p, "stopGrpc")
  /\ UNCHANGED <<conf, db, rpcPort, promPort, reported, eotsVars>>

\* Mutant: the calls are deferred in the opposite order.
stopGrpc_AfterDb(p) ==
  /\ proc[p].pc = "stopGrpc"
  /\ db' = Release(db, p)
  /\ Goto(p, "closeDb")
  /\ UNCHANGED <<conf, rpcPort, promPort, reported, eotsVars>>

\* Mutant: the database is closed along with the listener.
stopGrpc_AndDb(p) ==
  /\ proc[p].pc = "stopGrpc"
  /\ rpcPort' = Release(rpcPort, p)
  /\ db' = Release(db, p)
  /\ Goto(p, "closeDb")
  /\ UNCHANGED <<conf, promPort, reported, eotsVars>>

\* The deferred calls, last first: grpcServer.Stop and lis.Close.  Stop does not
\* wait for handlers that are running.
stopGrpc(p) ==
  /\ proc[p].pc = "stopGrpc"
  /\ rpcPort' = Release(rpcPort, p)
  /\ Goto(p, "closeDb")
  /\ UNCHANGED <<conf, db, promPort, reported, eotsVars>>

closeDb(p) ==
  /\ proc[p].pc = "closeDb"
  /\ db' = Release(db, p)
  /\ Goto(p, "stopMetrics")
  /\ UNCHANGED <<conf, rpcPort, promPort, reported, eotsVars>>

\* metricsServer.Stop, after which RunUntilShutdown and the process end.
metricsStop(p) ==
  /\ proc[p].pc = "stopMetrics"
  /\ Exit(p)

\* Nobody stops the loops of the application.  One that writes to the closed
\* database gets an error and logs Fatal.
LoopWrites(p) ==
  /\ proc[p].loops
  /\ db["fpd"] # p
  /\ Exit(p)

Kill(p) == proc[p].pc # "off" /\ Exit(p)

(***************************************************************************)
(* Keys.  CreateKey of the EOTS manager, called by an RPC of eotsd or by   *)
(* the command keys add, and signing by the commands.                      *)
(***************************************************************************)
\* The first half of CreateKey: the key enters the keyring.
AddKey(p, k) ==
  /\ proc[p].key = NoKey
  /\ NewAccount(k)
  /\ proc' = [proc EXCEPT ![p].key = k]
  /\ UNCHANGED <<conf, db, rpcPort, promPort, reported>>

\* By an RPC that a daemon has accepted.
CreateKey(p) ==
  /\ proc[p].prog = "eotsd" /\ proc[p].pc = "active"
  /\ \E k \in Keys : AddKey(p, k)

\* By the command keys add.
createKey(p) ==
  /\ proc[p].prog = "keys" /\ proc[p].pc = "command"
  /\ \E k \in Keys : AddKey(p, k)

\* What a command does when it is done: the deferred dbBackend.Close.
AfterKey(p) == IF proc[p].prog = "keys" THEN "closeDb" ELSE proc[p].pc

\* Mutant: the key is reported whether or not its name was stored.
saveKeyName_Unchecked(p) ==
  /\ proc[p].key # NoKey
  /\ IF db["eotsd"] = p
       THEN AddEOTSKeyName(proc[p].key)
       ELSE creating' = creating \ {proc[p].key} /\ UNCHANGED <<eotsKeys, eotsNames>>
  /\ reported' = reported \union {proc[p].key}
  /\ proc' = [proc EXCEPT ![p].key = NoKey, ![p].pc = AfterKey(p)]
  /\ UNCHANGED <<conf, db, rpcPort, promPort>>

\* The second half of CreateKey.  The handler may still be running when the
\* daemon has closed its database: then it gets an error, and the key stays
\* half created.
saveKeyName(p) ==
  /\ proc[p].key # NoKey
  /\ IF db["eotsd"] = p
       THEN AddEOTSKeyName(proc[p].key) /\ reported' = reported \union {proc[p].key}
       ELSE /\ creating' = creating \ {proc[p].key}
            /\ UNCHANGED <<eotsKeys, eotsNames, reported>>
  /\ proc' = [proc EXCEPT ![p].key = NoKey, ![p].pc = AfterKey(p)]
  /\ UNCHANGED <<conf, db, rpcPort, promPort>>

\* keys add with an invalid mnemonic or the name of an existing key.
createKeyFails(p) ==
  /\ proc[p].prog = "keys" /\ proc[p].pc = "command" /\ proc[p].key = NoKey
  /\ Goto(p, "closeDb")
  /\ UNCHANGED <<conf, db, rpcPort, promPort, reported, eotsVars>>

\* sign-schnorr and pop-export sign and close the database.
singMsg(p) ==
  /\ proc[p].prog = "sign" /\ proc[p].pc = "command"
  /\ Goto(p, "closeDb")
  /\ UNCHANGED <<conf, db, rpcPort, promPort, reported, eotsVars>>

Operator(p) ==
  \/ runStartCmd(p) \/ startFn(p) \/ addKey(p) \/ SignSchnorr(p) \/ ExportPoP(p)
  \/ ShutdownSignal(p)
  \/ Kill(p)

StartUp(p) ==
  \/ LoadConfig(p) \/ LoadEotsConfig(p) \/ GetDbBackend(p)
  \/ NewFinalityProviderAppFromConfig(p)
  \/ startApp(p) \/ StartHandlingFinalityProvider(p)

Run(p) ==
  \/ metricsStart(p) \/ startGrpcListen(p)
  \/ stopGrpc(p) \/ closeDb(p) \/ metricsStop(p)

Command(p) ==
  \/ createKey(p)
  \/ saveKeyName(p)
  \/ createKeyFails(p)
  \/ singMsg(p)

Next ==
  \/ runInitCmd \/ initHome
  \/ \E p \in Procs :
       \/ Operator(p) \/ StartUp(p) \/ Run(p) \/ Command(p)
       \/ metricsListen(p) \/ LoopWrites(p) \/ CreateKey(p)

Spec == Init /\ [][Next]_vars

\* A process goes on with what it is doing: opening a database times out,
\* connections of the metrics server end, and calls of other services return.
FairSpec == Spec /\ \A p \in Procs : WF_vars(StartUp(p) \/ Run(p) \/ Command(p))

Process ==
  [prog : Programs \union {"none"},
   pc : {"off", "config", "db", "client", "startApp", "handle", "metrics", "listen", "active",
         "command", "stopGrpc", "closeDb", "stopMetrics"},
   loops : BOOLEAN, metrics : {"none", "starting", "serving"}, key : Keys \union {NoKey}]

TypeOK ==
  /\ EotsTypeOK
  /\ conf \subseteq Daemon
  /\ proc \in [Procs -> Process]
  /\ \A held \in {db, rpcPort, promPort} : held \in [Daemon -> Procs \union {Nobody}]
  /\ reported \subseteq Keys
  /\ creating = {proc[p].key : p \in Procs} \ {NoKey}

(***************************************************************************)
(* A daemon accepts requests only while it has its database open: it       *)
(* listens last, and the deferred calls stop the server before they close  *)
(* the database (server.go:65-90).                                         *)
(***************************************************************************)
ListensWithDatabase == \A d \in Daemon : rpcPort[d] # Nobody => db[d] = rpcPort[d]

(***************************************************************************)
(* The lock on fpd.db keeps two daemons from voting at once, except that a *)
(* daemon that is shutting down has given up the lock while its loops      *)
(* still run, until the metrics server has stopped (server.go:72): nobody  *)
(* calls FinalityProviderApp.Stop.                                         *)
(***************************************************************************)
OneDaemonUnlessStopping ==
  \A p, q \in Procs :
    p # q /\ proc[p].loops /\ proc[q].loops => "stopMetrics" \in {proc[p].pc, proc[q].pc}

(***************************************************************************)
(* A key whose creation was answered with success can sign by public key   *)
(* for ever: keyring and database have it, whatever ended the process and  *)
(* whoever else created keys (localmanager.go, CreateKeyWithMnemonic).     *)
(***************************************************************************)
ReportedKeysUsable == \A k \in reported : KeyRecordExists(k)

(***************************************************************************)
(* A command ends and a start either ends or leads to an active daemon,    *)
(* also when another process holds the database or a port; a daemon that   *)
(* is told to shut down does.                                              *)
(***************************************************************************)
ProcessSettles == \A p \in Procs : proc[p].pc \notin {"off", "active"} ~> proc[p].pc \in {"off", "active"}
=============================================================================
