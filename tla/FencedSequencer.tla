-------------------------- MODULE FencedSequencer --------------------------
(***************************************************************************)
(* The durable command path of one instrument partition:                   *)
(* PostgresTradingCommandAdapter over PostgresSequencerStore, run by        *)
(* several backend replicas against one PostgreSQL database.                *)
(*                                                                         *)
(* A slot is one open database transaction (one HTTP request, or its        *)
(* retry).  Transactions run at READ COMMITTED: a SELECT ... FOR UPDATE     *)
(* sees the committed row and locks it, and locks nothing when the row is   *)
(* absent; every write waits for the row's lock and becomes visible at      *)
(* commit.  So `lease' and `part' are the committed rows, `tx[s]' holds     *)
(* what slot s has read and, once it holds both locks, what it will commit. *)
(*                                                                         *)
(* Deadlines are abstract: `live' says whether the lease deadline is ahead  *)
(* of the database clock.  When ClocksAgree is FALSE the replica clock used *)
(* by acquire may be wrong by any amount; a renewal only moves a deadline   *)
(* that is still ahead and is therefore no step.                            *)
(***************************************************************************)
EXTENDS Naturals, Sequences

CONSTANTS Procs,        \* backend replicas (INSTANCE_ID)
          Commands,     \* command identifiers
          Slots,        \* concurrently open database transactions
          NoProc,       \* no owner
          NoCmd,        \* no command
          NoSlot,       \* lock is free
          ClocksAgree   \* replica clocks equal the database clock

ASSUME ConstantsAssumption ==
  /\ NoProc \notin Procs
  /\ NoCmd \notin Commands
  /\ NoSlot \notin Slots
  /\ ClocksAgree \in BOOLEAN

VARIABLES
  lease,      \* committed row of partition_leases, NoLease when absent
  part,       \* committed row of sequencer_partitions, NoPart when absent
  leaseLock,  \* slot that holds the lease row (or its uncommitted insert)
  partLock,   \* slot that holds the partition row
  journal,    \* committed rows of command_journal, with the writer's token
  snapshots,  \* committed rows of trading_snapshots
  tx,         \* the open transaction of each slot
  cache,      \* PostgresTradingCommandAdapter.leases: epoch held, 0 = none
  engine      \* commands the replica's in-memory processor has executed

vars == <<lease, part, leaseLock, partLock, journal, snapshots, tx, cache,
          engine>>

Statuses == {"ABSENT", "READY", "RECOVERING", "DRAINING"}

NoLease == [owner |-> NoProc, epoch |-> 0, live |-> FALSE]

Part(epoch, last, high, status, open) ==
  [epoch |-> epoch, last |-> last, high |-> high, status |-> status,
   open |-> open]

NoPart  == Part(0, 0, 0, "ABSENT", FALSE)
NewPart == Part(0, 0, 0, "READY", TRUE)

(* An open transaction: where it stands, for whom it runs which command, and *)
(* the lease and partition rows as it has read or written them.             *)
Tx(pc, owner, cmd, l, p) ==
  [pc |-> pc, owner |-> owner, cmd |-> cmd, lease |-> l, part |-> p]

Idle == Tx("idle", NoProc, NoCmd, NoLease, NoPart)

(* Mutated forms, named for the bug they introduce, stand before the        *)
(* definition they mutate; no other definition uses them.                   *)
NeverJournaled(c) == FALSE

Journaled(c) == \E r \in journal : r.cmd = c

Larger(a, b) == IF a >= b THEN a ELSE b

EpochOfLeaseOnly(l, p, renew) == IF renew THEN l.epoch ELSE l.epoch + 1
EpochKeptByTakeover(l, p, renew) == Larger(l.epoch, p.epoch)

(* acquire: the fencing epoch that follows lease row l and partition row p. *)
NextEpoch(l, p, renew) ==
  LET previous == Larger(l.epoch, p.epoch)
  IN  IF renew THEN previous ELSE previous + 1

DrainedAndReset(row) == Part(0, row.last, row.high, "DRAINING", FALSE)

(* gracefulShutdown: the partition row with admission closed.               *)
Drained(row) == Part(row.epoch, row.last, row.high, "DRAINING", FALSE)

SnapshotOfNext(e) == [seq |-> part.last + 1, epoch |-> e]

(* saveSnapshot: a snapshot is bound to the last sequence and the epoch.    *)
SnapshotOf(e) == [seq |-> part.last, epoch |-> e]
---------------------------------------------------------------------------
(* The partition's tables before its first command ever.                    *)
InitTables(l, p, j) ==
  /\ lease = l
  /\ part = p
  /\ journal = j
  /\ leaseLock = NoSlot
  /\ partLock = NoSlot
  /\ snapshots = {}
  /\ tx = [s \in Slots |-> Idle]

InitFresh ==
  /\ InitTables(NoLease, NoPart, {})
  /\ cache = [p \in Procs |-> 0]
  /\ engine = [p \in Procs |-> {}]

(* The state after the first command of the partition has been committed.   *)
Init ==
  \E p \in Procs, c \in Commands :
    /\ InitTables([owner |-> p, epoch |-> 1, live |-> TRUE],
                  Part(1, 1, 1, "READY", TRUE),
                  {[seq |-> 1, cmd |-> c, writer |-> p, epoch |-> 1]})
    /\ cache = [q \in Procs |-> IF q = p THEN 1 ELSE 0]
    /\ engine = [q \in Procs |-> IF q = p THEN {c} ELSE {}]
---------------------------------------------------------------------------
(* persist: a transaction opens; a command already journaled returns its    *)
(* stored result and changes nothing.                                       *)
Begin(s, p, c) ==
  /\ tx[s].pc = "idle"
  /\ ~Journaled(c)
  /\ tx' = [tx EXCEPT ![s] = Tx("begun", p, c, NoLease, NoPart)]
  /\ UNCHANGED <<lease, part, leaseLock, partLock, journal, snapshots, cache,
                 engine>>

(* acquire, first statement: SELECT the lease row FOR UPDATE.               *)
ReadLease(s) ==
  /\ tx[s].pc = "begun"
  /\ lease # NoLease => leaseLock = NoSlot
  /\ leaseLock' = IF lease = NoLease THEN leaseLock ELSE s
  /\ tx' = [tx EXCEPT ![s] = Tx("leaseRead", @.owner, @.cmd, lease, NoPart)]
  /\ UNCHANGED <<lease, part, partLock, journal, snapshots, cache, engine>>

(* acquire, second statement: SELECT the partition row FOR UPDATE.          *)
ReadPartition(s) ==
  /\ tx[s].pc = "leaseRead"
  /\ part # NoPart => partLock = NoSlot
  /\ partLock' = IF part = NoPart THEN partLock ELSE s
  /\ tx' = [tx EXCEPT ![s] = Tx("partRead", @.owner, @.cmd, @.lease, part)]
  /\ UNCHANGED <<lease, part, leaseLock, journal, snapshots, cache, engine>>

TakeRowsBriefly(s) ==
  /\ leaseLock \in {s, NoSlot} /\ leaseLock' = NoSlot
  /\ partLock \in {s, NoSlot} /\ partLock' = NoSlot

(* A write waits until no other transaction holds the row.                  *)
TakeRows(s) ==
  /\ leaseLock \in {s, NoSlot} /\ leaseLock' = s
  /\ partLock \in {s, NoSlot} /\ partLock' = s

(* acquire, the upserts.  `judged' is the replica clock's verdict on the     *)
(* deadline of the lease row it read.  Both upserts wait for the rows'      *)
(* locks and overwrite the rows whatever they have become since the read.   *)
Acquire(s, judged) ==
  LET t        == tx[s]
      active   == t.lease # NoLease /\ judged
      canRenew == active /\ t.lease.owner = t.owner
      recovery == t.part # NoPart /\ ~canRenew
      epoch    == NextEpoch(t.lease, t.part, canRenew)
      row      == IF part = NoPart THEN NewPart ELSE part
  IN /\ t.pc = "partRead"
     /\ ~(active /\ t.lease.owner # t.owner)
     /\ ClocksAgree /\ t.lease # NoLease => judged = lease.live
     /\ TakeRows(s)
     /\ tx' = [tx EXCEPT ![s] =
          Tx(IF recovery THEN "recovering" ELSE "owned", t.owner, t.cmd,
             [owner |-> t.owner, epoch |-> epoch, live |-> TRUE],
             Part(epoch, row.last, row.high,
                  IF recovery THEN "RECOVERING" ELSE row.status,
                  row.open /\ ~recovery))]
     /\ cache' = [cache EXCEPT ![t.owner] = epoch]
     /\ UNCHANGED <<lease, part, journal, snapshots, engine>>

SnapshotSeqs == {0} \cup {n.seq : n \in snapshots}

(* prepareRecovery accepts: the journal rows after the latest snapshot are  *)
(* contiguous and end at the durable high watermark.                        *)
RecoveryPlanned(high) ==
  \E start \in SnapshotSeqs :
    /\ \A n \in SnapshotSeqs : n <= start
    /\ start <= high
    /\ {r.seq : r \in {q \in journal : q.seq > start}} = (start + 1)..high

(* nextSequence after a takeover: prepareRecovery, then completeRecovery    *)
(* opens admission at the watermark.  The plan's commands are not executed. *)
Recover(s) ==
  /\ tx[s].pc = "recovering"
  /\ RecoveryPlanned(tx[s].part.high)
  /\ tx' = [tx EXCEPT ![s] =
       Tx("owned", @.owner, @.cmd, @.lease,
          Part(@.part.epoch, @.part.high, @.part.high, "READY", TRUE))]
  /\ UNCHANGED <<lease, part, leaseLock, partLock, journal, snapshots, cache,
                 engine>>

(* reserveSequence, the journal row and the call of the processor, which    *)
(* executes the command in memory before the transaction commits.           *)
Execute(s) ==
  LET t == tx[s]
  IN /\ t.pc = "owned"
     /\ t.part.status = "READY" /\ t.part.open
     /\ ~Journaled(t.cmd)
     /\ \A r \in journal : r.seq # t.part.last + 1
     /\ tx' = [tx EXCEPT ![s] =
          Tx("executed", t.owner, t.cmd, t.lease,
             Part(t.part.epoch, t.part.last + 1, t.part.last + 1, "READY",
                  TRUE))]
     /\ engine' = [engine EXCEPT ![t.owner] = @ \cup {t.cmd}]
     /\ UNCHANGED <<lease, part, leaseLock, partLock, journal, snapshots,
                    cache>>

Release(s) ==
  /\ leaseLock' = IF leaseLock = s THEN NoSlot ELSE leaseLock
  /\ partLock' = IF partLock = s THEN NoSlot ELSE partLock

Commit(s) ==
  LET t == tx[s]
  IN /\ t.pc = "executed"
     /\ lease' = t.lease
     /\ part' = t.part
     /\ journal' = journal \cup {[seq |-> t.part.last, cmd |-> t.cmd,
                                  writer |-> t.owner,
                                  epoch |-> t.lease.epoch]}
     /\ tx' = [tx EXCEPT ![s] = Idle]
     /\ Release(s)
     /\ UNCHANGED <<snapshots, cache, engine>>

(* Any statement may fail: a refused acquire, a stale token, a plan with a  *)
(* gap, a unique violation, a deadlock, a lost connection.  The rows roll   *)
(* back, the processor's memory does not.  An error inside persist forgets  *)
(* the cached lease; `kept': the COMMIT outside of it failed, or the error   *)
(* was transient and run() retries within persist.                          *)
RollbackKeepsSequence(s, kept) ==
  /\ tx[s].pc # "idle"
  /\ tx' = [tx EXCEPT ![s] = Idle]
  /\ Release(s)
  /\ part' = IF tx[s].pc = "executed"
             THEN [part EXCEPT !.last = tx[s].part.last] ELSE part
  /\ cache' = IF kept THEN cache ELSE [cache EXCEPT ![tx[s].owner] = 0]
  /\ UNCHANGED <<lease, journal, snapshots, engine>>

Rollback(s, kept) ==
  /\ tx[s].pc # "idle"
  /\ tx' = [tx EXCEPT ![s] = Idle]
  /\ Release(s)
  /\ cache' = IF kept THEN cache ELSE [cache EXCEPT ![tx[s].owner] = 0]
  /\ UNCHANGED <<lease, part, journal, snapshots, engine>>

(* lockValidLease: the token still matches an unexpired lease row, and the  *)
(* row is not held by another transaction.                                  *)
HoldsLease(p) ==
  /\ cache[p] # 0
  /\ lease.owner = p /\ lease.epoch = cache[p] /\ lease.live
  /\ leaseLock = NoSlot

(* saveSnapshot: one short transaction; an existing snapshot of the same    *)
(* sequence is kept.  In-flight commands are never committed as such.       *)
SaveSnapshot(p) ==
  /\ HoldsLease(p)
  /\ part.epoch = cache[p] /\ partLock = NoSlot
  /\ \A n \in snapshots : n.seq # part.last
  /\ snapshots' = snapshots \cup {SnapshotOf(cache[p])}
  /\ UNCHANGED <<lease, part, leaseLock, partLock, journal, tx, cache, engine>>

(* onApplicationShutdown: admission closes and the lease row is deleted.    *)
GracefulShutdown(p) ==
  /\ HoldsLease(p)
  /\ partLock = NoSlot
  /\ part' = IF part.epoch = cache[p]
             THEN Drained(part)
             ELSE part
  /\ lease' = NoLease
  /\ cache' = [cache EXCEPT ![p] = 0]
  /\ UNCHANGED <<leaseLock, partLock, journal, snapshots, tx, engine>>

(* The lease deadline passes on the database clock.                         *)
Expire ==
  /\ lease.live
  /\ lease' = [owner |-> lease.owner, epoch |-> lease.epoch, live |-> FALSE]
  /\ UNCHANGED <<part, leaseLock, partLock, journal, snapshots, tx, cache,
                 engine>>

(* A replica dies and restarts with empty memory; its transactions abort.   *)
Crash(p) ==
  LET lost == {s \in Slots : tx[s].owner = p}
  IN /\ cache' = [cache EXCEPT ![p] = 0]
     /\ engine' = [engine EXCEPT ![p] = {}]
     /\ tx' = [s \in Slots |-> IF s \in lost THEN Idle ELSE tx[s]]
     /\ leaseLock' = IF leaseLock \in lost THEN NoSlot ELSE leaseLock
     /\ partLock' = IF partLock \in lost THEN NoSlot ELSE partLock
     /\ UNCHANGED <<lease, part, journal, snapshots>>

SlotStep(s) ==
  \/ \E p \in Procs, c \in Commands : Begin(s, p, c)
  \/ ReadLease(s)
  \/ ReadPartition(s)
  \/ \E judged \in BOOLEAN : Acquire(s, judged)
  \/ Recover(s)
  \/ Execute(s)
  \/ Commit(s)
  \/ \E kept \in BOOLEAN : Rollback(s, kept)

ProcStep(p) == SaveSnapshot(p) \/ GracefulShutdown(p) \/ Crash(p)

Next == \/ \E s \in Slots : SlotStep(s)
        \/ \E p \in Procs : ProcStep(p)
        \/ Expire

Spec      == Init /\ [][Next]_vars
FreshSpec == InitFresh /\ [][Next]_vars
---------------------------------------------------------------------------
Epochs == Nat \ {0}

LeaseRow == [owner : Procs, epoch : Epochs, live : BOOLEAN]
PartRow  == [epoch : Epochs, last : Nat, high : Nat,
             status : Statuses \ {"ABSENT"}, open : BOOLEAN]
OpenTx   == [pc : {"begun", "leaseRead", "partRead", "recovering", "owned",
                   "executed"},
             owner : Procs, cmd : Commands,
             lease : LeaseRow \cup {NoLease}, part : PartRow \cup {NoPart}]
JournalRow == [seq : Epochs, cmd : Commands, writer : Procs, epoch : Epochs]

(* Every table, lock, open transaction and replica memory has its type.     *)
TypeOK ==
  /\ lease \in LeaseRow \cup {NoLease}
  /\ part \in PartRow \cup {NoPart}
  /\ leaseLock \in Slots \cup {NoSlot}
  /\ partLock \in Slots \cup {NoSlot}
  /\ journal \subseteq JournalRow
  /\ snapshots \subseteq [seq : Nat, epoch : Epochs]
  /\ tx \in [Slots -> OpenTx \cup {Idle}]
  /\ cache \in [Procs -> Nat]
  /\ engine \in [Procs -> SUBSET Commands]

(* Rolled back, retried, fenced and crashed transactions leave no hole: the *)
(* journal's sequences are exactly 1..last_sequence, each used once, and    *)
(* the durable high watermark is the last of them.                          *)
JournalContiguous ==
  /\ {r.seq : r \in journal} = 1..part.last
  /\ \A r, q \in journal : r.seq = q.seq => r = q
  /\ part.high = part.last

(* Fencing: along the journal's order the epoch never falls, so no command  *)
(* of a deposed owner is ordered after one of its successor.                *)
EpochsFollowOrder ==
  \A r, q \in journal : r.seq < q.seq => r.epoch <= q.epoch

(* Fencing: one epoch never has two writers (a takeover raises the epoch).  *)
OneWriterPerEpoch ==
  \A r, q \in journal : r.epoch = q.epoch => r.writer = q.writer

(* A partition can never be bricked by RECOVERY_SEQUENCE_GAP: whatever      *)
(* snapshots and crashes happened, the next owner's recovery plan reaches   *)
(* the committed high watermark.                                            *)
AlwaysRecoverable == part # NoPart => RecoveryPlanned(part.high)

(* A slot that has passed acquire is alone: while it works on a pending     *)
(* sequence no other transaction is past acquire, and the committed rows    *)
(* still are those it read.                                                 *)
ExclusiveOwner ==
  \A s, r \in Slots :
    (/\ tx[s].pc \in {"recovering", "owned", "executed"}
     /\ tx[r].pc \in {"recovering", "owned", "executed"}) => s = r

(* The committed epoch only grows, and an owner is replaced only together   *)
(* with a larger epoch (ADR-0007: "Любой takeover ... получает больший      *)
(* epoch").                                                                 *)
EpochMonotone ==
  [][/\ part'.epoch >= part.epoch
     /\ (/\ lease # NoLease /\ lease' # NoLease
         /\ lease'.owner # lease.owner) => lease'.epoch > lease.epoch]_vars

(* With correct clocks a lease that is still running is never taken from    *)
(* its owner (sequencer.port.ts: an active lease of another owner is        *)
(* refused).                                                                *)
LiveLeaseNotTaken ==
  [][(/\ lease # NoLease /\ lease' # NoLease /\ lease.live)
        => lease'.owner = lease.owner]_vars

JournaledCmds == {r.cmd : r \in journal}

(* When a replica executes a command for the journal, its in-memory engine  *)
(* has executed every command already journaled: a restarted process        *)
(* recovers before it serves (ADR-0007, emergency stop).                    *)
EngineReplayed ==
  \A s \in Slots :
    tx[s].pc = "executed" => JournaledCmds \subseteq engine[tx[s].owner]

(* completeRecovery opens admission only for a replica that has applied the *)
(* whole recovery plan (sequencer.port.ts, completeRecovery).               *)
PlanAppliedBeforeAdmission ==
  [][\A s \in Slots :
       tx[s].pc = "recovering" /\ tx'[s].pc = "owned"
         => JournaledCmds \subseteq engine'[tx[s].owner]]_vars

---------------------------------------------------------------------------
(* The inductive invariant behind the safety properties.  A transaction     *)
(* past acquire holds both rows, what it has read of a locked row is still  *)
(* the committed row, what it will commit continues the committed rows, and *)
(* the newest epoch of the journal belongs to the lease's owner.            *)
Holding == {"recovering", "owned", "executed"}

RowsHeld ==
  \A s \in Slots :
    /\ tx[s].pc \in Holding => leaseLock = s /\ partLock = s
    /\ tx[s].pc = "partRead" => partLock = s
    /\ tx[s].pc \in {"leaseRead", "partRead"} /\ tx[s].lease # NoLease
         => leaseLock = s

RowsCurrent ==
  \A s \in Slots :
    /\ tx[s].pc = "partRead" => tx[s].part = part
    /\ tx[s].pc \in {"leaseRead", "partRead"} /\ tx[s].lease # NoLease
         => /\ lease # NoLease
            /\ tx[s].lease.owner = lease.owner
            /\ tx[s].lease.epoch = lease.epoch

PendingContinues ==
  \A s \in Slots :
    LET t == tx[s]
    IN  t.pc \in Holding =>
          /\ t.lease # NoLease
          /\ t.part # NoPart
          /\ t.lease.owner = t.owner
          /\ t.lease.epoch = t.part.epoch
          /\ t.part.epoch >= part.epoch
          /\ t.part.epoch = part.epoch => lease # NoLease /\ lease.owner = t.owner
          /\ t.part.last = IF t.pc = "executed" THEN part.last + 1 ELSE part.last
          /\ t.part.high = t.part.last

LeaseOwnsNewestEpoch ==
  /\ part # NoPart
  /\ lease # NoLease => lease.epoch = part.epoch
  /\ \A r \in journal :
       /\ r.epoch <= part.epoch
       /\ (r.epoch = part.epoch /\ lease # NoLease) => r.writer = lease.owner

FencingInv ==
  /\ TypeOK
  /\ RowsHeld
  /\ RowsCurrent
  /\ PendingContinues
  /\ LeaseOwnsNewestEpoch
  /\ JournalContiguous
  /\ EpochsFollowOrder
  /\ OneWriterPerEpoch

(* What recovery and the log rest on besides: no snapshot is ahead of the   *)
(* committed rows, and a command in work is not yet journaled.              *)
SnapshotsBehind == \A n \in snapshots : n.seq <= part.last

PendingFresh ==
  \A s \in Slots : tx[s].pc = "executed" => ~Journaled(tx[s].cmd)

LogInv == FencingInv /\ SnapshotsBehind /\ PendingFresh

(* The log of the abstract specification: the journal in sequence order.    *)
AcceptedLog ==
  [i \in 1..part.last |->
     LET r == CHOOSE q \in journal : q.seq = i
     IN  [cmd |-> r.cmd, writer |-> r.writer, epoch |-> r.epoch]]

(* FencedSequencer implements FencedLog: every step of the protocol either  *)
(* leaves the accepted log alone or appends one new command to it in an     *)
(* epoch its writer owns.                                                   *)
Log == INSTANCE FencedLog WITH log <- AcceptedLog

ImplementsFencedLog == Log!Spec
=============================================================================
