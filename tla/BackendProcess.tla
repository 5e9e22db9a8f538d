--------------------------- MODULE BackendProcess ---------------------------
(***************************************************************************)
(* The life of one backend process: the environment it is started with, its *)
(* validation and composition, the recovery and the polling of its durable  *)
(* workers, admission, readiness, a graceful stop or a crash, and the       *)
(* restart by its supervisor, against a database that may be unreachable.   *)
(* A command leaves its effect in every store of AdapterKeys, and one event *)
(* in the log the workers consume.  How two consumers share one checkpoint  *)
(* is PostgresEventLog; here an event is handled in one step.               *)
(* Mutated forms, named for the bug they introduce, stand before the        *)
(* definition they mutate; no other definition uses them.                   *)
(***************************************************************************)
EXTENDS Configuration, FiniteSets

CONSTANTS
  Workers,      \* the durable workers
  Commands,     \* ids of trading commands
  Deployments,  \* environments the operator rolls out
  MaxAttempts   \* policy.maxAttempts

ASSUME ProcessAssumption == MaxAttempts \in Nat \ {0}

VARIABLES
  deployed,    \* the environment of this and the next start
  phase,       \* "down", "recovering", "started", "serving", "stopping"
  status,      \* DurableWorkerStatus.state of each worker
  batch,       \* each worker's batch: "none", "running", "late", "waiting"
  attempt,     \* the attempt its batch is in
  database,    \* the database can be reached
  memory,      \* what each store of the process holds in memory
  disk,        \* what each store holds in the database
  log,         \* the event log in memory and in the database
  durable,     \* history: commands answered by a production-like process
  direct       \* history: commands run without a transaction

vars == <<deployed, phase, status, batch, attempt, database, memory, disk, log,
          durable, direct>>

workerVars == <<status, batch, attempt>>
storeVars  == <<memory, disk, log, durable, direct>>

NothingHeld == [k \in AdapterKeys |-> {}]
EmptyLog == [tail |-> 0, offset |-> 0, dead |-> {}]

LogStore == Composed(deployed)["EVENT_LOG_ADAPTER"]
Log == log[LogStore]

(* A query of the event log reaches it.                                     *)
Reachable == LogStore = "postgres" => database

Init ==
  /\ deployed \in Deployments
  /\ phase = "down"
  /\ status = [w \in Workers |-> "STOPPED"]
  /\ batch = [w \in Workers |-> "none"]
  /\ attempt = [w \in Workers |-> 0]
  /\ database = TRUE
  /\ memory = NothingHeld
  /\ disk = NothingHeld
  /\ log = [memory |-> EmptyLog, postgres |-> EmptyLog]
  /\ durable = {}
  /\ direct = {}

----------------------------------------------------------------------------
(* Start.                                                                   *)

(* An operator rolls out another environment.                               *)
Deploy(c) ==
  /\ phase = "down"
  /\ c # deployed
  /\ deployed' = c
  /\ UNCHANGED <<phase, workerVars, database, storeVars>>

(* Everything in memory is gone.                                            *)
Exit ==
  /\ phase' = "down"
  /\ status' = [w \in Workers |-> "STOPPED"]
  /\ batch' = [w \in Workers |-> "none"]
  /\ attempt' = [w \in Workers |-> 0]
  /\ memory' = NothingHeld
  /\ log' = [log EXCEPT !["memory"] = EmptyLog]
  /\ UNCHANGED <<deployed, database, disk, durable, direct>>

(* NestFactory.create: the environment is validated, the graph is built.    *)
Boot ==
  /\ phase = "down"
  /\ Validated(deployed)
  /\ phase' = "recovering"
  /\ UNCHANGED <<deployed, workerVars, database, storeVars>>

(* EventLogBacklogWorker.recover.                                           *)
Recovers == Reachable /\ Log.offset <= Log.tail

RecoverSwallowed(w) ==
  /\ phase = "recovering"
  /\ WorkersEnabled(deployed)
  /\ status[w] = "STOPPED"
  /\ status' = [status EXCEPT ![w] = IF Recovers THEN "RUNNING" ELSE "UNHEALTHY"]
  /\ UNCHANGED <<deployed, phase, batch, attempt, database, storeVars>>

(* recoverAll, one worker after the other; the first failure ends the       *)
(* bootstrap.                                                               *)
Recover(w) ==
  /\ phase = "recovering"
  /\ WorkersEnabled(deployed)
  /\ status[w] = "STOPPED"
  /\ IF Recovers
     THEN /\ status' = [status EXCEPT ![w] = "RUNNING"]
          /\ UNCHANGED <<deployed, phase, batch, attempt, database, storeVars>>
     ELSE Exit

(* start: the timers are armed.                                             *)
Start ==
  /\ phase = "recovering"
  /\ WorkersEnabled(deployed) => \A w \in Workers : status[w] = "RUNNING"
  /\ phase' = "started"
  /\ UNCHANGED <<deployed, workerVars, database, storeVars>>

(* The remaining bootstrap hooks, and app.listen.                           *)
Listen ==
  /\ phase = "started"
  /\ CompositionAsserted(deployed)
  /\ phase' = "serving"
  /\ UNCHANGED <<deployed, workerVars, database, storeVars>>

----------------------------------------------------------------------------
(* Workers.                                                                 *)

Polling == phase \in {"started", "serving"} /\ WorkersEnabled(deployed)
Busy(w) == batch[w] \in {"running", "late"}

(* A timer fires: tick and the first attempt of executeWithRetry.           *)
tick(w) ==
  /\ Polling
  /\ batch[w] = "none"
  /\ batch' = [batch EXCEPT ![w] = "running"]
  /\ attempt' = [attempt EXCEPT ![w] = 1]
  /\ UNCHANGED <<deployed, phase, status, database, storeVars>>

(* The attempt's deadline passes: its signal is aborted, nothing else stops.*)
Deadline(w) ==
  /\ batch[w] = "running"
  /\ LogStore = "postgres"
  /\ batch' = [batch EXCEPT ![w] = "late"]
  /\ UNCHANGED <<deployed, phase, status, attempt, database, storeVars>>

(* consume takes the next event.  The handler fails only when the signal is *)
(* aborted, and then in every attempt at this event: it is dead-lettered.   *)
Handle(w) ==
  /\ Busy(w)
  /\ Reachable
  /\ Log.offset < Log.tail
  /\ log' = [log EXCEPT ![LogStore].offset = @ + 1,
                        ![LogStore].dead = IF batch[w] = "late"
                                           THEN @ \cup {Log.offset + 1} ELSE @]
  /\ UNCHANGED <<deployed, phase, workerVars, database, memory, disk, durable, direct>>

Finished(w) == IF Log.dead # {} THEN "QUARANTINED" ELSE "RUNNING"

(* The backlog is empty: the attempt succeeds.                              *)
Finish(w) ==
  /\ Busy(w)
  /\ Reachable
  /\ Log.offset = Log.tail
  /\ status' = [status EXCEPT ![w] = Finished(w)]
  /\ batch' = [batch EXCEPT ![w] = "none"]
  /\ attempt' = [attempt EXCEPT ![w] = 0]
  /\ UNCHANGED <<deployed, phase, database, storeVars>>

(* A query fails.  While the process stops its pool may already be closed.  *)
Unreachable == ~Reachable \/ (phase = "stopping" /\ LogStore = "postgres")

Fail(w) ==
  /\ Busy(w)
  /\ Unreachable
  /\ attempt[w] < MaxAttempts
  /\ batch' = [batch EXCEPT ![w] = "waiting"]
  /\ UNCHANGED <<deployed, phase, status, attempt, database, storeVars>>

(* After the backoff, with a signal of its own.                             *)
Retry(w) ==
  /\ batch[w] = "waiting"
  /\ batch' = [batch EXCEPT ![w] = "running"]
  /\ attempt' = [attempt EXCEPT ![w] = @ + 1]
  /\ UNCHANGED <<deployed, phase, status, database, storeVars>>

(* The last attempt fails: UNHEALTHY, and nothing handles the rejection of  *)
(* schedule's tick, which ends the process.                                 *)
GiveUp(w) ==
  /\ Busy(w)
  /\ Unreachable
  /\ attempt[w] = MaxAttempts
  /\ Exit

----------------------------------------------------------------------------
(* Commands.                                                                *)

Reaches(k) == Composed(deployed)[k] = "postgres" => database

Written(c, keys) ==
  /\ memory' = [k \in AdapterKeys |->
       IF k \in keys /\ Composed(deployed)[k] = "memory" THEN memory[k] \cup {c} ELSE memory[k]]
  /\ disk' = [k \in AdapterKeys |->
       IF k \in keys /\ Composed(deployed)[k] = "postgres" THEN disk[k] \cup {c} ELSE disk[k]]
  /\ log' = IF "EVENT_LOG_ADAPTER" \in keys
            THEN [log EXCEPT ![LogStore].tail = @ + 1] ELSE log

Known(c, k) == c \in memory[k] \cup disk[k]

(* One transaction around the command: every store or none.                 *)
Transact(c) ==
  /\ phase = "serving"
  /\ Atomic(deployed)
  /\ \A k \in AdapterKeys : Reaches(k) /\ ~Known(c, k)
  /\ Written(c, AdapterKeys)
  /\ durable' = durable \cup {c}
  /\ UNCHANGED <<deployed, phase, workerVars, database, direct>>

(* DIRECT_ATOMIC_EXECUTION: store after store, and a failure stops between. *)
Direct(c, k) ==
  /\ phase = "serving"
  /\ ~Atomic(deployed)
  /\ Reaches(k)
  /\ ~Known(c, k)
  /\ Written(c, {k})
  /\ direct' = direct \cup {c}
  /\ UNCHANGED <<deployed, phase, workerVars, database, durable>>

----------------------------------------------------------------------------
(* Stop, crash and the database.                                            *)

(* A shutdown signal: stop clears the timers and marks the workers.         *)
Stop ==
  /\ phase \in {"started", "serving"}
  /\ phase' = "stopping"
  /\ status' = [w \in Workers |->
       IF status[w] \in {"RUNNING", "RECOVERING"} THEN "DRAINING" ELSE status[w]]
  /\ UNCHANGED <<deployed, batch, attempt, database, storeVars>>

Stopped ==
  /\ phase = "stopping"
  /\ \A w \in Workers : batch[w] = "none"
  /\ Exit

Crash ==
  /\ phase # "down"
  /\ Exit

Outage ==
  /\ database' = ~database
  /\ UNCHANGED <<deployed, phase, workerVars, storeVars>>

Work(w) == Recover(w) \/ tick(w) \/ Handle(w) \/ Finish(w) \/ Retry(w) \/ GiveUp(w)

Next ==
  \/ \E c \in Deployments : Deploy(c)
  \/ Boot \/ Start \/ Listen \/ Stop \/ Stopped \/ Crash \/ Outage
  \/ \E w \in Workers : Work(w) \/ Deadline(w) \/ Fail(w)
  \/ \E c \in Commands : Transact(c) \/ \E k \in AdapterKeys : Direct(c, k)

Spec == Init /\ [][Next]_vars

(* The supervisor restarts a process that ended (restart: unless-stopped),  *)
(* timers fire and queries return or fail; outages, crashes and roll-outs   *)
(* end.                                                                     *)
Disturbance == Crash \/ Stop \/ Outage \/ \E c \in Deployments : Deploy(c)

FairSpec ==
  /\ Spec
  /\ WF_vars(Boot \/ Start \/ Listen \/ Stopped)
  /\ \A w \in Workers : WF_vars(Work(w))
  /\ <>[]database
  /\ <>[][~Disturbance]_vars

----------------------------------------------------------------------------
(* Readiness.                                                               *)

(* DurableWorkerManager.checkReady.                                         *)
WorkersReady ==
  WorkersEnabled(deployed) =>
    \A w \in Workers : status[w] \in {"RUNNING", "DRAINING"} /\ Recovers

(* HealthService: a component process has no dependencies to check.         *)
Ready ==
  /\ phase = "serving"
  /\ Profile(deployed) # "component" => database /\ WorkersReady

----------------------------------------------------------------------------
(* Properties.                                                              *)

(* The variables have their types.                                          *)
TypeOK ==
  /\ deployed \in Deployments
  /\ phase \in {"down", "recovering", "started", "serving", "stopping"}
  /\ status \in [Workers -> {"STOPPED", "RUNNING", "DRAINING", "QUARANTINED"}]
  /\ batch \in [Workers -> {"none", "running", "late", "waiting"}]
  /\ attempt \in [Workers -> 0 .. MaxAttempts]
  /\ memory \in [AdapterKeys -> SUBSET Commands]
  /\ disk \in [AdapterKeys -> SUBSET Commands]

(* A command answered by a staging or production process survives every     *)
(* crash, restart and roll-out, whatever mixture of environments ran before *)
(* and since, and a command is found in one store and not in another only   *)
(* if a component process ran it (runtime-adapters.ts: a production-like    *)
(* profile has no volatile store on its critical path).                     *)
AcceptedSurvives ==
  \A c \in Commands, k \in AdapterKeys :
    /\ c \in durable => c \in disk[k]
    /\ c \in disk[k] \ direct => \A other \in AdapterKeys : c \in disk[other]

(* Once outages and roll-outs are over, a process whose environment is      *)
(* accepted works off its backlog and becomes ready, unless an event has    *)
(* been dead-lettered: no order of failed recoveries, retries, unhandled    *)
(* rejections and restarts leaves it down or draining for ever.             *)
BecomesReady ==
  <>[]Validated(deployed) =>
    <>[](/\ WorkersEnabled(deployed) => Log.offset = Log.tail
         /\ Ready \/ Log.dead # {})

(* No event is dead-lettered: the handler itself never fails.               *)
NothingDeadLettered == \A s \in {"memory", "postgres"} : log[s].dead = {}

(* What a reference-price execution records is kept across a restart.       *)
FillsDurable == phase = "serving" /\ FillsOffered(deployed) => FillsKept(deployed)
=============================================================================
