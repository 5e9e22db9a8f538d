-------------------------- MODULE PostgresEventLog --------------------------
(***************************************************************************)
(* The transactional outbox and its consumers (PostgresEventLogAdapter).    *)
(* Producers append events inside their own transactions; an offset is      *)
(* drawn from the BIGSERIAL when a row is inserted, committed or not.       *)
(* Consumers, the polling workers of every replica, share one consumer      *)
(* name: one checkpoint, one set of processed events, one dead-letter queue.*)
(* A consumer reads its next offset in one transaction and processes it in  *)
(* another; that one holds the row's lock and is a single step here.        *)
(* Mutated forms, named for the bug they introduce, stand before the        *)
(* definition they mutate; no other definition uses them.                   *)
(***************************************************************************)
EXTENDS Integers, FiniteSets

CONSTANTS
  Events,       \* events the producers append
  Producers,    \* concurrent producer transactions
  Consumers,    \* workers, of one or several replicas
  Poison,       \* the events whose handler always fails
  MaxAttempts,  \* policy.maxAttempts
  MaxReplays,   \* bound: replays of a replay
  MaxSerial     \* bound: offsets drawn

ASSUME EventLogAssumption ==
  /\ Poison \subseteq Events
  /\ MaxAttempts \in Nat \ {0}
  /\ MaxReplays \in Nat
  /\ MaxSerial \in Nat

VARIABLES
  serial,      \* last value of the sequence behind event_offset
  pending,     \* rows inserted by each producer's open transaction
  outbox,      \* committed rows of outbox_events
  checkpoint,  \* consumer_offsets.committed_offset, 0 when absent
  processed,   \* processed_events
  dead,        \* dead_letter_events
  worker,      \* each consumer: running, the offset it works on, failures
  handled,     \* history: committed runs of the handler, per event id
  overtaken    \* history: rows committed below an offset already taken up

eventLogVars ==
  <<serial, pending, outbox, checkpoint, processed, dead, worker, handled,
    overtaken>>

(* An event id is an event and how often it has been replayed: the replay   *)
(* of id x is stored as replay-<consumer>-x.                                *)
Ids == Events \X (0 .. MaxReplays)
ReplayOf(id) == <<id[1], id[2] + 1>>

Row == [offset : 1 .. MaxSerial, id : Ids]

Pending == UNION {pending[p] : p \in Producers}
Stored(id) == \E r \in outbox : r.id = id
Open(id) == \E r \in Pending : r.id = id

Ready == [up |-> TRUE, offset |-> 0, failures |-> 0]
Down  == [up |-> FALSE, offset |-> 0, failures |-> 0]

EventLogInit ==
  /\ serial = 0
  /\ pending = [p \in Producers |-> {}]
  /\ outbox = {}
  /\ checkpoint = 0
  /\ processed = {}
  /\ dead = {}
  /\ worker = [c \in Consumers |-> Ready]
  /\ handled = [id \in Ids |-> 0]
  /\ overtaken = {}

----------------------------------------------------------------------------
(* Producers.                                                               *)

Insert(p, id) ==
  /\ serial < MaxSerial
  /\ serial' = serial + 1
  /\ pending' = [pending EXCEPT ![p] = @ \cup {[offset |-> serial + 1, id |-> id]}]
  /\ UNCHANGED <<outbox, checkpoint, processed, dead, worker, handled, overtaken>>

(* append, and the insert of the command path.  Two open transactions do    *)
(* not append the same id: ids derive from commands and trades, and the     *)
(* commands of an instrument run one after the other.                       *)
AppendNew(p, e) ==
  /\ ~Stored(<<e, 0>>)
  /\ ~Open(<<e, 0>>)
  /\ Insert(p, <<e, 0>>)

(* append of a stored id: ON CONFLICT DO NOTHING, the offset drawn is lost. *)
AppendAgain(p, e) ==
  /\ Stored(<<e, 0>>) \/ \E r \in pending[p] : r.id = <<e, 0>>
  /\ serial < MaxSerial
  /\ serial' = serial + 1
  /\ UNCHANGED <<pending, outbox, checkpoint, processed, dead, worker, handled,
                 overtaken>>

(* replayDeadLetter: a transaction of its own.  replayed_at is set together *)
(* with the insert of the replay, so an event was replayed exactly if its   *)
(* replay is stored; an open replay holds the dead letter's row lock.       *)
Replay(p, id) ==
  /\ pending[p] = {}
  /\ id \in dead
  /\ id[2] < MaxReplays
  /\ ~Stored(ReplayOf(id))
  /\ ~Open(ReplayOf(id))
  /\ Insert(p, ReplayOf(id))

TakenUp == {checkpoint} \cup {worker[c].offset : c \in Consumers}

CommitAppend(p) ==
  /\ pending[p] # {}
  /\ outbox' = outbox \cup pending[p]
  /\ pending' = [pending EXCEPT ![p] = {}]
  /\ overtaken' = overtaken \cup
       {r \in pending[p] : \E o \in TakenUp : r.offset < o}
  /\ UNCHANGED <<serial, checkpoint, processed, dead, worker, handled>>

AbortAppend(p) ==
  /\ pending[p] # {}
  /\ pending' = [pending EXCEPT ![p] = {}]
  /\ UNCHANGED <<serial, outbox, checkpoint, processed, dead, worker, handled,
                 overtaken>>

----------------------------------------------------------------------------
(* Consumers.                                                               *)

AtRest(c) == worker[c].up /\ worker[c].offset = 0
AtWork(c) == worker[c].up /\ worker[c].offset # 0

Backlog == {r.offset : r \in {q \in outbox : q.offset > checkpoint}}

(* nextOffset.                                                              *)
Poll(c) ==
  /\ AtRest(c)
  /\ \E o \in Backlog :
       /\ \A other \in Backlog : o <= other
       /\ worker' = [worker EXCEPT ![c] = [up |-> TRUE, offset |-> o, failures |-> 0]]
  /\ UNCHANGED <<serial, pending, outbox, checkpoint, processed, dead, handled,
                 overtaken>>

AdvanceToTaken(o) == o

(* commitOffset: GREATEST of the stored and the new offset.                 *)
Advance(o) == IF o > checkpoint THEN o ELSE checkpoint

HandleAlways(id) == TRUE

(* The insert into processed_events took a row: the handler runs.           *)
Handle(id) == id \notin processed

(* process: handler, processed event and offset in one transaction.         *)
Process(c) ==
  /\ AtWork(c)
  /\ worker[c].failures < MaxAttempts
  /\ \E r \in outbox :
       /\ r.offset = worker[c].offset
       /\ Handle(r.id) => r.id[1] \notin Poison
       /\ processed' = processed \cup {r.id}
       /\ handled' = IF Handle(r.id)
                     THEN [handled EXCEPT ![r.id] = @ + 1] ELSE handled
       /\ checkpoint' = Advance(r.offset)
  /\ worker' = [worker EXCEPT ![c] = Ready]
  /\ UNCHANGED <<serial, pending, outbox, dead, overtaken>>

FailUncounted(c) ==
  /\ AtWork(c)
  /\ worker[c].failures < MaxAttempts
  /\ UNCHANGED eventLogVars

FailUnbounded(c) ==
  /\ AtWork(c)
  /\ worker[c].failures <= MaxAttempts
  /\ worker' = [worker EXCEPT ![c] =
       [up |-> TRUE, offset |-> worker[c].offset, failures |-> worker[c].failures + 1]]
  /\ UNCHANGED <<serial, pending, outbox, checkpoint, processed, dead, handled,
                 overtaken>>

(* An attempt that fails, in the handler or in the database: rolled back.   *)
Fail(c) ==
  /\ AtWork(c)
  /\ worker[c].failures < MaxAttempts
  /\ worker' = [worker EXCEPT ![c] =
       [up |-> TRUE, offset |-> worker[c].offset, failures |-> worker[c].failures + 1]]
  /\ UNCHANGED <<serial, pending, outbox, checkpoint, processed, dead, handled,
                 overtaken>>

QuarantineOffsetOnly(c) ==
  /\ AtWork(c)
  /\ worker[c].failures = MaxAttempts
  /\ checkpoint' = Advance(worker[c].offset)
  /\ worker' = [worker EXCEPT ![c] = Ready]
  /\ UNCHANGED <<serial, pending, outbox, processed, dead, handled, overtaken>>

(* quarantine: the dead letter and the offset in one transaction.           *)
Quarantine(c) ==
  /\ AtWork(c)
  /\ worker[c].failures = MaxAttempts
  /\ \E r \in outbox :
       /\ r.offset = worker[c].offset
       /\ dead' = dead \cup {r.id}
       /\ checkpoint' = Advance(r.offset)
  /\ worker' = [worker EXCEPT ![c] = Ready]
  /\ UNCHANGED <<serial, pending, outbox, processed, handled, overtaken>>

(* A statement outside an attempt fails: consume rejects, and the worker    *)
(* manager's retry calls it again.                                          *)
Interrupt(c) ==
  /\ AtWork(c)
  /\ worker' = [worker EXCEPT ![c] = Ready]
  /\ UNCHANGED <<serial, pending, outbox, checkpoint, processed, dead, handled,
                 overtaken>>

(* The process of consumer c ends.                                          *)
Stop(c) ==
  /\ worker[c].up
  /\ worker' = [worker EXCEPT ![c] = Down]
  /\ UNCHANGED <<serial, pending, outbox, checkpoint, processed, dead, handled,
                 overtaken>>

(* EventLogBacklogWorker.recover: the offset must not exceed the number of  *)
(* events.                                                                  *)
Recoverable == checkpoint <= Cardinality(outbox)

Start(c) ==
  /\ ~worker[c].up
  /\ Recoverable
  /\ worker' = [worker EXCEPT ![c] = Ready]
  /\ UNCHANGED <<serial, pending, outbox, checkpoint, processed, dead, handled,
                 overtaken>>

Work(c) == Start(c) \/ Poll(c) \/ Process(c) \/ Fail(c) \/ Quarantine(c)

EventLogNext ==
  \/ \E p \in Producers, e \in Events : AppendNew(p, e) \/ AppendAgain(p, e)
  \/ \E p \in Producers, id \in Ids : Replay(p, id)
  \/ \E p \in Producers : CommitAppend(p) \/ AbortAppend(p)
  \/ \E c \in Consumers : Work(c) \/ Interrupt(c) \/ Stop(c)

EventLogSpec == EventLogInit /\ [][EventLogNext]_eventLogVars

(* Workers are polled for ever (DurableWorkerManager.schedule) and every    *)
(* attempt ends; processes and connections do not fail for ever.            *)
EventLogFairSpec ==
  /\ EventLogSpec
  /\ \A c \in Consumers : WF_eventLogVars(Work(c))
  /\ <>[][\A c \in Consumers : ~Stop(c) /\ ~Interrupt(c)]_eventLogVars

----------------------------------------------------------------------------
(* Properties.                                                              *)

(* The tables, open transactions and workers have their types.              *)
EventLogTypeOK ==
  /\ serial \in 0 .. MaxSerial
  /\ pending \in [Producers -> SUBSET Row]
  /\ outbox \subseteq Row
  /\ checkpoint \in 0 .. MaxSerial
  /\ processed \subseteq Ids
  /\ dead \subseteq Ids
  /\ worker \in [Consumers -> [up : BOOLEAN, offset : 0 .. MaxSerial,
                               failures : 0 .. MaxAttempts]]
  /\ handled \in [Ids -> Nat]
  /\ overtaken \subseteq outbox

(* However many workers take up the same offset, stop between any two       *)
(* transactions or act on an offset that is behind by then, the handler's   *)
(* effect of one event id is committed at most once, and processed_events   *)
(* names exactly the events whose effect is.                                *)
HandledOnce ==
  \A id \in Ids : handled[id] = IF id \in processed THEN 1 ELSE 0

(* A slow worker that finishes an old offset never moves the checkpoint     *)
(* back (commitOffset, GREATEST).                                           *)
CheckpointNeverFalls == [][checkpoint' >= checkpoint]_eventLogVars

Settled(id) == id \in processed \cup dead

(* The only events a consumer can leave behind its checkpoint without       *)
(* handling or quarantining them are those that committed after a higher    *)
(* offset had been taken up: no crash, failure, poison event or second      *)
(* worker skips an event.                                                   *)
SkippedOnlyOvertaken ==
  \A r \in outbox :
    r.offset <= checkpoint => Settled(r.id) \/ r \in overtaken

(* A poison event does not block the queue: every committed event is        *)
(* handled or quarantined in the end, unless it was overtaken or recovery   *)
(* refuses the checkpoint.                                                  *)
EventuallySettled ==
  \A id \in Ids : Stored(id) ~>
    \/ Settled(id)
    \/ \E r \in overtaken : r.id = id
    \/ ~Recoverable

(* A committed event behind the checkpoint has been handled or quarantined: *)
(* the consumer's committed offset means what ADR-0006 says.                *)
NothingSkipped ==
  \A r \in outbox : r.offset <= checkpoint => Settled(r.id)

(* Whenever no append is in flight, recovery accepts the checkpoint the     *)
(* consumers have left behind (EventLogBacklogWorker.recover).              *)
RecoveryAdmits == Pending = {} => Recoverable

(* The effect of an event is committed once, its replays included.          *)
OneEffect ==
  \A e \in Events : Cardinality({id \in processed : id[1] = e}) <= 1
=============================================================================
