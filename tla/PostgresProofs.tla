--------------------------- MODULE PostgresProofs ---------------------------
(***************************************************************************)
(* Safety of the durable records of the exchange, for every number of       *)
(* replicas, workers, open transactions, commands, accounts and amounts.    *)
(* In turn: the fenced sequencer and its abstract log; settlement from the  *)
(* log of trades, which the profile without a database keeps in memory; the *)
(* outbox and its consumers; the books of the ledger; the opening of        *)
(* accounts.  Each part proves an inductive invariant with a lemma for each *)
(* action or group of actions, and the properties follow from it.           *)
(***************************************************************************)
EXTENDS FencedSequencer, SettlementLog, PostgresEventLog, PostgresLedger,
        AccountOpening, FiniteSums, SequenceTheorems

(***************************************************************************)
(* FencedSequencer.                                                        *)
(***************************************************************************)
USE ConstantsAssumption

(* Types that the steps below need about one open transaction.              *)
LEMMA OpenTxTypes ==
  ASSUME TypeOK, NEW s \in Slots, tx[s].pc # "idle"
  PROVE  /\ tx[s] \in OpenTx
         /\ tx[s].owner \in Procs
         /\ tx[s].cmd \in Commands
         /\ tx[s].lease \in LeaseRow \cup {NoLease}
         /\ tx[s].part \in PartRow \cup {NoPart}
<1>1. tx[s] \in OpenTx \cup {Idle}
  BY DEF TypeOK
<1>2. tx[s] # Idle
  BY DEF Idle, Tx
<1> QED
  BY <1>1, <1>2 DEF OpenTx

(* Epochs and sequences of present and absent rows are numbers.             *)
LEMMA RowNumbers ==
  /\ \A l \in LeaseRow \cup {NoLease} : l.epoch \in Nat
  /\ \A p \in PartRow \cup {NoPart} :
       p.epoch \in Nat /\ p.last \in Nat /\ p.high \in Nat
  BY DEF LeaseRow, PartRow, NoLease, NoPart, Part, Epochs

(* A transaction that is past acquire excludes every other transaction that *)
(* has locked the partition row.                                            *)
LEMMA HoldingAlone ==
  ASSUME TypeOK, RowsHeld, NEW s \in Slots, NEW r \in Slots,
         tx[s].pc \in Holding, tx[r].pc \in Holding \cup {"partRead"}
  PROVE  s = r
  BY DEF RowsHeld, Holding

(* Replacing one transaction leaves the others alone.                       *)
LEMMA OneTxChanges ==
  ASSUME TypeOK, NEW s \in Slots, NEW new, tx' = [tx EXCEPT ![s] = new]
  PROVE  tx'[s] = new /\ \A r \in Slots : r # s => tx'[r] = tx[r]
  BY DEF TypeOK

(* Writing a well-formed transaction into a slot keeps the slots typed.     *)
LEMMA TxTyped ==
  ASSUME TypeOK, NEW s \in Slots, NEW new \in OpenTx \cup {Idle},
         tx' = [tx EXCEPT ![s] = new]
  PROVE  tx' \in [Slots -> OpenTx \cup {Idle}]
  BY DEF TypeOK

(* Conjuncts that only speak of the committed rows and the journal.         *)
LEMMA CommittedUnchanged ==
  ASSUME FencingInv, UNCHANGED <<lease, part, journal>>
  PROVE  /\ LeaseOwnsNewestEpoch'
         /\ EpochsFollowOrder'
         /\ OneWriterPerEpoch'
         /\ JournalContiguous'
  BY DEF FencingInv, LeaseOwnsNewestEpoch, EpochsFollowOrder,
         OneWriterPerEpoch, JournalContiguous

(* The initial tables and processes meet the inductive invariant.           *)
LEMMA InitInv == Init => FencingInv
<1> SUFFICES ASSUME Init PROVE FencingInv
  OBVIOUS
<1> PICK p \in Procs, c \in Commands :
    /\ InitTables([owner |-> p, epoch |-> 1, live |-> TRUE],
                  Part(1, 1, 1, "READY", TRUE),
                  {[seq |-> 1, cmd |-> c, writer |-> p, epoch |-> 1]})
    /\ cache = [q \in Procs |-> IF q = p THEN 1 ELSE 0]
    /\ engine = [q \in Procs |-> IF q = p THEN {c} ELSE {}]
  BY DEF Init
<1> USE DEF InitTables
<1>1. TypeOK
  BY DEF TypeOK, LeaseRow, PartRow, JournalRow, Epochs, Statuses, Part
<1>2. RowsHeld /\ RowsCurrent /\ PendingContinues
  BY DEF RowsHeld, RowsCurrent, PendingContinues, Holding, Idle, Tx
<1>3. LeaseOwnsNewestEpoch /\ EpochsFollowOrder /\ OneWriterPerEpoch
  BY DEF LeaseOwnsNewestEpoch, EpochsFollowOrder, OneWriterPerEpoch, NoPart,
         Part
<1>4. JournalContiguous
  BY DEF JournalContiguous, Part
<1> QED
  BY <1>1, <1>2, <1>3, <1>4 DEF FencingInv

(* Opening a transaction keeps the inductive invariant.                     *)
LEMMA BeginInv ==
  ASSUME FencingInv, NEW s \in Slots, NEW p \in Procs, NEW c \in Commands,
         Begin(s, p, c)
  PROVE  FencingInv'
<1> DEFINE new == Tx("begun", p, c, NoLease, NoPart)
<1>1. /\ TypeOK /\ RowsHeld /\ RowsCurrent /\ PendingContinues
      /\ tx' = [tx EXCEPT ![s] = new]
      /\ UNCHANGED <<lease, part, leaseLock, partLock, journal, snapshots,
                     cache, engine>>
  BY DEF FencingInv, Begin
<1>2. new \in OpenTx /\ new.pc = "begun"
  BY DEF OpenTx, Tx
<1> HIDE DEF new
<1>3. TypeOK'
  BY <1>1, <1>2, TxTyped DEF TypeOK
<1>4. tx'[s].pc = "begun" /\ \A r \in Slots : r # s => tx'[r] = tx[r]
  BY <1>1, <1>2, OneTxChanges
<1>5. RowsHeld' /\ RowsCurrent' /\ PendingContinues'
  BY <1>1, <1>4 DEF RowsHeld, RowsCurrent, PendingContinues, Holding
<1> QED
  BY <1>1, <1>3, <1>5, CommittedUnchanged DEF FencingInv

(* The unlocked read of the lease row keeps the inductive invariant.        *)
LEMMA ReadLeaseInv ==
  ASSUME FencingInv, NEW s \in Slots, ReadLease(s)
  PROVE  FencingInv'
<1> DEFINE new == Tx("leaseRead", tx[s].owner, tx[s].cmd, lease, NoPart)
<1>1. /\ TypeOK /\ RowsHeld /\ RowsCurrent /\ PendingContinues
      /\ tx[s].pc = "begun"
      /\ lease # NoLease => leaseLock = NoSlot
      /\ leaseLock' = IF lease = NoLease THEN leaseLock ELSE s
      /\ tx' = [tx EXCEPT ![s] = new]
      /\ UNCHANGED <<lease, part, partLock, journal, snapshots, cache, engine>>
  BY DEF FencingInv, ReadLease
<1>2. new \in OpenTx /\ new.pc = "leaseRead" /\ new.lease = lease
  BY <1>1, OpenTxTypes DEF OpenTx, Tx, TypeOK
<1> HIDE DEF new
<1>3. TypeOK'
  BY <1>1, <1>2, TxTyped DEF TypeOK
<1>4. /\ tx'[s].pc = "leaseRead" /\ tx'[s].lease = lease
      /\ \A r \in Slots : r # s => tx'[r] = tx[r]
  BY <1>1, <1>2, OneTxChanges
<1>5. RowsHeld'
  BY <1>1, <1>4 DEF RowsHeld, Holding
<1>6. RowsCurrent' /\ PendingContinues'
  BY <1>1, <1>4 DEF RowsCurrent, PendingContinues, Holding
<1> QED
  BY <1>1, <1>3, <1>5, <1>6, CommittedUnchanged DEF FencingInv

(* The unlocked read of the partition row keeps the inductive invariant.    *)
LEMMA ReadPartitionInv ==
  ASSUME FencingInv, NEW s \in Slots, ReadPartition(s)
  PROVE  FencingInv'
<1> DEFINE new == Tx("partRead", tx[s].owner, tx[s].cmd, tx[s].lease, part)
<1>1. /\ TypeOK /\ RowsHeld /\ RowsCurrent /\ PendingContinues
      /\ tx[s].pc = "leaseRead"
      /\ partLock = NoSlot
      /\ partLock' = s
      /\ tx' = [tx EXCEPT ![s] = new]
      /\ UNCHANGED <<lease, part, leaseLock, journal, snapshots, cache, engine>>
  BY DEF FencingInv, ReadPartition, LeaseOwnsNewestEpoch
<1>2. /\ new \in OpenTx /\ new.pc = "partRead" /\ new.lease = tx[s].lease
      /\ new.part = part
  BY <1>1, OpenTxTypes DEF OpenTx, Tx, TypeOK
<1> HIDE DEF new
<1>3. TypeOK'
  BY <1>1, <1>2, TxTyped DEF TypeOK
<1>4. /\ tx'[s].pc = "partRead" /\ tx'[s].lease = tx[s].lease
      /\ tx'[s].part = part
      /\ \A r \in Slots : r # s => tx'[r] = tx[r]
  BY <1>1, <1>2, OneTxChanges
<1>5. RowsHeld'
  BY <1>1, <1>4 DEF RowsHeld, Holding
<1>6. RowsCurrent' /\ PendingContinues'
  BY <1>1, <1>4 DEF RowsCurrent, PendingContinues, Holding
<1> QED
  BY <1>1, <1>3, <1>5, <1>6, CommittedUnchanged DEF FencingInv

(* Taking, renewing or overtaking the lease keeps the inductive             *)
(* invariant.                                                               *)
LEMMA AcquireInv ==
  ASSUME FencingInv, NEW s \in Slots, NEW judged \in BOOLEAN,
         Acquire(s, judged)
  PROVE  FencingInv'
<1> DEFINE t     == tx[s]
           renew == (t.lease # NoLease /\ judged) /\ t.lease.owner = t.owner
           epoch == NextEpoch(t.lease, t.part, renew)
<1>1. /\ TypeOK /\ RowsHeld /\ RowsCurrent /\ PendingContinues
      /\ LeaseOwnsNewestEpoch /\ JournalContiguous
      /\ t.pc = "partRead"
      /\ partLock \in {s, NoSlot}
      /\ leaseLock' = s /\ partLock' = s
      /\ leaseLock \in {s, NoSlot}
      /\ cache' = [cache EXCEPT ![t.owner] = epoch]
      /\ UNCHANGED <<lease, part, journal, snapshots, engine>>
  BY DEF FencingInv, Acquire, TakeRows
<1>2. /\ part # NoPart /\ part \in PartRow
      /\ t.part = part
      /\ t.lease \in LeaseRow \cup {NoLease}
      /\ t.lease # NoLease => /\ lease # NoLease
                              /\ t.lease.epoch = part.epoch
                              /\ t.lease.owner = lease.owner
      /\ t.owner \in Procs /\ t.cmd \in Commands
  BY <1>1, OpenTxTypes DEF RowsCurrent, LeaseOwnsNewestEpoch, TypeOK
<1>3. /\ epoch \in Epochs
      /\ epoch >= part.epoch
      /\ epoch = part.epoch => lease # NoLease /\ lease.owner = t.owner
  <2>1. t.lease.epoch \in Nat /\ part.epoch \in Nat /\ part.epoch > 0
    BY <1>2, RowNumbers DEF PartRow, Epochs
  <2>2. t.lease.epoch = part.epoch \/ t.lease.epoch = 0
    BY <1>2 DEF NoLease
  <2>3. Larger(t.lease.epoch, part.epoch) = part.epoch
    BY <2>1, <2>2 DEF Larger
  <2>4. epoch = IF renew THEN part.epoch ELSE part.epoch + 1
    BY <1>2, <2>3 DEF NextEpoch
  <2> QED
    BY <1>2, <2>1, <2>4 DEF Epochs
<1> HIDE DEF epoch
<1>4. PICK pc \in {"recovering", "owned"},
           status \in Statuses \ {"ABSENT"}, open \in BOOLEAN :
        tx' = [tx EXCEPT ![s] =
          Tx(pc, t.owner, t.cmd, [owner |-> t.owner, epoch |-> epoch, live |-> TRUE],
             Part(epoch, part.last, part.high, status, open))]
  <2> DEFINE recovery == t.part # NoPart /\ ~renew
             pc       == IF recovery THEN "recovering" ELSE "owned"
             status   == IF recovery THEN "RECOVERING" ELSE part.status
             open     == part.open /\ ~recovery
  <2>1. tx' = [tx EXCEPT ![s] =
          Tx(pc, t.owner, t.cmd, [owner |-> t.owner, epoch |-> epoch, live |-> TRUE],
             Part(epoch, part.last, part.high, status, open))]
    BY <1>2 DEF Acquire, epoch
  <2>2. pc \in {"recovering", "owned"}
    OBVIOUS
  <2>3. status \in Statuses \ {"ABSENT"}
    BY <1>2 DEF PartRow, Statuses
  <2>4. open \in BOOLEAN
    OBVIOUS
  <2> HIDE DEF pc, status, open
  <2> QED
    BY <2>1, <2>2, <2>3, <2>4
<1> DEFINE new == Tx(pc, t.owner, t.cmd,
                     [owner |-> t.owner, epoch |-> epoch, live |-> TRUE],
                     Part(epoch, part.last, part.high, status, open))
<1>5. /\ new \in OpenTx
      /\ new.pc \in {"recovering", "owned"}
      /\ new.owner = t.owner
      /\ new.lease = [owner |-> t.owner, epoch |-> epoch, live |-> TRUE]
      /\ new.part = Part(epoch, part.last, part.high, status, open)
      /\ new.part \in PartRow
  BY <1>2, <1>3, <1>4 DEF OpenTx, Tx, LeaseRow, PartRow, Part
<1>6. tx' = [tx EXCEPT ![s] = new]
  BY <1>4
<1> HIDE DEF new
<1>7. cache' \in [Procs -> Nat]
  BY <1>1, <1>3 DEF TypeOK, Epochs
<1>8. TypeOK'
  BY <1>1, <1>5, <1>6, <1>7, TxTyped DEF TypeOK
<1>9. tx'[s] = new /\ \A r \in Slots : r # s => tx'[r] = tx[r]
  BY <1>1, <1>6, OneTxChanges
<1>10. RowsHeld'
  BY <1>1, <1>5, <1>9 DEF RowsHeld, Holding
<1>11. RowsCurrent'
  BY <1>1, <1>5, <1>9 DEF RowsCurrent
<1>12. PendingContinues'
  <2>1. /\ new.lease # NoLease /\ new.lease.owner = new.owner
        /\ new.lease.epoch = epoch
    BY <1>3, <1>5 DEF NoLease, Epochs
  <2>2. /\ new.part # NoPart /\ new.part.epoch = epoch
        /\ new.part.last = part.last /\ new.part.high = part.high
    BY <1>3, <1>5 DEF NoPart, Part, Epochs
  <2>3. part.high = part.last
    BY <1>1 DEF JournalContiguous
  <2> QED
    BY <1>1, <1>3, <1>5, <1>9, <2>1, <2>2, <2>3 DEF PendingContinues
<1> QED
  BY <1>1, <1>8, <1>10, <1>11, <1>12, CommittedUnchanged DEF FencingInv

(* Recovery by the new owner keeps the inductive invariant.                 *)
LEMMA RecoverInv ==
  ASSUME FencingInv, NEW s \in Slots, Recover(s)
  PROVE  FencingInv'
<1> DEFINE t   == tx[s]
           new == Tx("owned", t.owner, t.cmd, t.lease,
                     Part(t.part.epoch, t.part.high, t.part.high, "READY", TRUE))
<1>1. /\ TypeOK /\ RowsHeld /\ RowsCurrent /\ PendingContinues
      /\ t.pc = "recovering"
      /\ tx' = [tx EXCEPT ![s] = new]
      /\ UNCHANGED <<lease, part, leaseLock, partLock, journal, snapshots,
                     cache, engine>>
  BY DEF FencingInv, Recover
<1>2. /\ t.part \in PartRow /\ t.part.epoch >= part.epoch
      /\ t.part.high = t.part.last /\ t.part.last = part.last
      /\ t.owner \in Procs /\ t.cmd \in Commands /\ t.lease \in LeaseRow
      /\ t.lease.owner = t.owner /\ t.lease.epoch = t.part.epoch
      /\ t.lease # NoLease
      /\ t.part.epoch = part.epoch => lease # NoLease /\ lease.owner = t.owner
  BY <1>1, OpenTxTypes DEF PendingContinues, Holding
<1>3. /\ new \in OpenTx /\ new.pc = "owned" /\ new.owner = t.owner
      /\ new.lease = t.lease
      /\ new.part \in PartRow /\ new.part # NoPart
      /\ new.part.epoch = t.part.epoch
      /\ new.part.last = part.last /\ new.part.high = part.last
  BY <1>2 DEF OpenTx, Tx, PartRow, Part, NoPart, Statuses
<1> HIDE DEF new
<1>4. TypeOK'
  BY <1>1, <1>3, TxTyped DEF TypeOK
<1>5. tx'[s] = new /\ \A r \in Slots : r # s => tx'[r] = tx[r]
  BY <1>1, OneTxChanges
<1>6. RowsHeld' /\ RowsCurrent'
  BY <1>1, <1>3, <1>5 DEF RowsHeld, RowsCurrent, Holding
<1>7. PendingContinues'
  BY <1>1, <1>2, <1>3, <1>5 DEF PendingContinues
<1> QED
  BY <1>1, <1>4, <1>6, <1>7, CommittedUnchanged DEF FencingInv

(* Executing a command in the engine keeps the inductive invariant.         *)
LEMMA ExecuteInv ==
  ASSUME FencingInv, NEW s \in Slots, Execute(s)
  PROVE  FencingInv'
<1> DEFINE t   == tx[s]
           new == Tx("executed", t.owner, t.cmd, t.lease,
                     Part(t.part.epoch, t.part.last + 1, t.part.last + 1,
                          "READY", TRUE))
<1>1. /\ TypeOK /\ RowsHeld /\ RowsCurrent /\ PendingContinues
      /\ t.pc = "owned"
      /\ tx' = [tx EXCEPT ![s] = new]
      /\ engine' = [engine EXCEPT ![t.owner] = @ \cup {t.cmd}]
      /\ UNCHANGED <<lease, part, leaseLock, partLock, journal, snapshots,
                     cache>>
  BY DEF FencingInv, Execute
<1>2. /\ t.part \in PartRow /\ t.part.epoch >= part.epoch
      /\ t.part.last = part.last
      /\ t.owner \in Procs /\ t.cmd \in Commands /\ t.lease \in LeaseRow
      /\ t.lease.owner = t.owner /\ t.lease.epoch = t.part.epoch
      /\ t.lease # NoLease
      /\ t.part.epoch = part.epoch => lease # NoLease /\ lease.owner = t.owner
  BY <1>1, OpenTxTypes DEF PendingContinues, Holding
<1>3. /\ new \in OpenTx /\ new.pc = "executed" /\ new.owner = t.owner
      /\ new.lease = t.lease
      /\ new.part \in PartRow /\ new.part # NoPart
      /\ new.part.epoch = t.part.epoch
      /\ new.part.last = part.last + 1 /\ new.part.high = part.last + 1
  BY <1>2 DEF OpenTx, Tx, PartRow, Part, NoPart, Statuses
<1> HIDE DEF new
<1>4. engine' \in [Procs -> SUBSET Commands]
  BY <1>1, <1>2 DEF TypeOK
<1>5. TypeOK'
  BY <1>1, <1>3, <1>4, TxTyped DEF TypeOK
<1>6. tx'[s] = new /\ \A r \in Slots : r # s => tx'[r] = tx[r]
  BY <1>1, OneTxChanges
<1>7. RowsHeld' /\ RowsCurrent'
  BY <1>1, <1>3, <1>6 DEF RowsHeld, RowsCurrent, Holding
<1>8. PendingContinues'
  BY <1>1, <1>2, <1>3, <1>6 DEF PendingContinues
<1> QED
  BY <1>1, <1>5, <1>7, <1>8, CommittedUnchanged DEF FencingInv

(* Transactions that go idle and give back their own locks disturb nobody.  *)
LEMMA AbortedAway ==
  ASSUME FencingInv, NEW lost \in SUBSET Slots,
         tx' = [s \in Slots |-> IF s \in lost THEN Idle ELSE tx[s]],
         leaseLock' = IF leaseLock \in lost THEN NoSlot ELSE leaseLock,
         partLock' = IF partLock \in lost THEN NoSlot ELSE partLock,
         UNCHANGED <<lease, part, journal, snapshots>>,
         cache' \in [Procs -> Nat],
         engine' \in [Procs -> SUBSET Commands]
  PROVE  FencingInv'
<1>1. /\ TypeOK /\ RowsHeld /\ RowsCurrent /\ PendingContinues
  BY DEF FencingInv
<1>2. TypeOK'
  BY <1>1 DEF TypeOK
<1>3. \A s \in Slots : tx'[s].pc = "idle" \/ (s \notin lost /\ tx'[s] = tx[s])
  BY <1>1 DEF TypeOK, Idle, Tx
<1>4. RowsHeld'
  BY <1>1, <1>3 DEF RowsHeld, Holding
<1>5. RowsCurrent' /\ PendingContinues'
  BY <1>1, <1>3 DEF RowsCurrent, PendingContinues, Holding
<1> QED
  BY <1>2, <1>4, <1>5, CommittedUnchanged DEF FencingInv

(* Rolling a transaction back keeps the inductive invariant.                *)
LEMMA RollbackInv ==
  ASSUME FencingInv, NEW s \in Slots, NEW kept \in BOOLEAN, Rollback(s, kept)
  PROVE  FencingInv'
<1>1. TypeOK /\ tx[s].pc # "idle"
  BY DEF FencingInv, Rollback
<1>2. tx[s].owner \in Procs
  BY <1>1, OpenTxTypes
<1>3. cache' \in [Procs -> Nat]
  BY <1>1, <1>2 DEF Rollback, TypeOK
<1>4. tx' = [r \in Slots |-> IF r \in {s} THEN Idle ELSE tx[r]]
  BY <1>1 DEF Rollback, TypeOK
<1>5. /\ leaseLock' = IF leaseLock \in {s} THEN NoSlot ELSE leaseLock
      /\ partLock' = IF partLock \in {s} THEN NoSlot ELSE partLock
      /\ UNCHANGED <<lease, part, journal, snapshots>>
      /\ engine' \in [Procs -> SUBSET Commands]
  BY <1>1 DEF Rollback, Release, TypeOK
<1>6. {s} \in SUBSET Slots
  OBVIOUS
<1> QED
  BY <1>3, <1>4, <1>5, <1>6, AbortedAway

(* A process stop keeps the inductive invariant: its transactions are       *)
(* undone.                                                                  *)
LEMMA CrashInv ==
  ASSUME FencingInv, NEW p \in Procs, Crash(p)
  PROVE  FencingInv'
<1> DEFINE lost == {s \in Slots : tx[s].owner = p}
<1>1. TypeOK
  BY DEF FencingInv
<1>2. cache' \in [Procs -> Nat] /\ engine' \in [Procs -> SUBSET Commands]
  BY <1>1 DEF Crash, TypeOK
<1>3. /\ tx' = [s \in Slots |-> IF s \in lost THEN Idle ELSE tx[s]]
      /\ leaseLock' = IF leaseLock \in lost THEN NoSlot ELSE leaseLock
      /\ partLock' = IF partLock \in lost THEN NoSlot ELSE partLock
      /\ UNCHANGED <<lease, part, journal, snapshots>>
  BY DEF Crash
<1>4. lost \in SUBSET Slots
  OBVIOUS
<1> HIDE DEF lost
<1> QED
  BY <1>2, <1>3, <1>4, AbortedAway

(* The end of a lease's term keeps the inductive invariant.                 *)
LEMMA ExpireInv ==
  ASSUME FencingInv, Expire
  PROVE  FencingInv'
<1>1. /\ TypeOK /\ RowsHeld /\ RowsCurrent /\ PendingContinues
      /\ LeaseOwnsNewestEpoch /\ EpochsFollowOrder /\ OneWriterPerEpoch
      /\ JournalContiguous
      /\ lease # NoLease /\ lease' # NoLease
      /\ lease'.owner = lease.owner /\ lease'.epoch = lease.epoch
      /\ lease' \in LeaseRow
      /\ UNCHANGED <<part, leaseLock, partLock, journal, snapshots, tx, cache,
                     engine>>
  BY DEF FencingInv, Expire, TypeOK, NoLease, LeaseRow, Epochs
<1>2. TypeOK' /\ RowsHeld'
  BY <1>1 DEF TypeOK, RowsHeld
<1>3. RowsCurrent' /\ PendingContinues' /\ LeaseOwnsNewestEpoch'
  BY <1>1 DEF RowsCurrent, PendingContinues, LeaseOwnsNewestEpoch
<1>4. EpochsFollowOrder' /\ OneWriterPerEpoch' /\ JournalContiguous'
  BY <1>1 DEF EpochsFollowOrder, OneWriterPerEpoch, JournalContiguous
<1> QED
  BY <1>2, <1>3, <1>4 DEF FencingInv

(* Saving a snapshot keeps the inductive invariant.                         *)
LEMMA SaveSnapshotInv ==
  ASSUME FencingInv, NEW p \in Procs, SaveSnapshot(p)
  PROVE  FencingInv'
<1>1. /\ TypeOK /\ RowsHeld /\ RowsCurrent /\ PendingContinues
      /\ part # NoPart
      /\ snapshots' = snapshots \cup {SnapshotOf(cache[p])}
      /\ cache[p] # 0
      /\ UNCHANGED <<lease, part, leaseLock, partLock, journal, tx, cache,
                     engine>>
  BY DEF FencingInv, SaveSnapshot, HoldsLease, LeaseOwnsNewestEpoch
<1>2. SnapshotOf(cache[p]) \in [seq : Nat, epoch : Epochs]
  BY <1>1 DEF SnapshotOf, TypeOK, PartRow, Epochs
<1>3. TypeOK'
  BY <1>1, <1>2 DEF TypeOK
<1>4. RowsHeld' /\ RowsCurrent' /\ PendingContinues'
  BY <1>1 DEF RowsHeld, RowsCurrent, PendingContinues
<1> QED
  BY <1>1, <1>3, <1>4, CommittedUnchanged DEF FencingInv

(* Handing the lease back on shutdown keeps the inductive invariant.        *)
LEMMA GracefulShutdownInv ==
  ASSUME FencingInv, NEW p \in Procs, GracefulShutdown(p)
  PROVE  FencingInv'
<1>1. /\ TypeOK /\ RowsHeld /\ RowsCurrent /\ PendingContinues
      /\ LeaseOwnsNewestEpoch /\ EpochsFollowOrder /\ OneWriterPerEpoch
      /\ JournalContiguous
      /\ leaseLock = NoSlot /\ partLock = NoSlot
      /\ part' = part \/ part' = Drained(part)
      /\ lease' = NoLease
      /\ cache' = [cache EXCEPT ![p] = 0]
      /\ UNCHANGED <<leaseLock, partLock, journal, snapshots, tx, engine>>
  BY DEF FencingInv, GracefulShutdown, HoldsLease
<1>2. part \in PartRow
  BY <1>1 DEF TypeOK, LeaseOwnsNewestEpoch
<1>3. /\ part' \in PartRow /\ part' # NoPart
      /\ part'.epoch = part.epoch /\ part'.last = part.last
      /\ part'.high = part.high
  <2>1. CASE part' = part
    BY <1>1, <1>2, <2>1 DEF LeaseOwnsNewestEpoch
  <2>2. CASE part' = Drained(part)
    BY <1>2, <2>2 DEF Drained, Part, PartRow, Statuses, NoPart
  <2> QED
    BY <1>1, <2>1, <2>2
<1>4. TypeOK'
  <2>1. cache' \in [Procs -> Nat]
    BY <1>1 DEF TypeOK
  <2> QED
    BY <1>1, <1>3, <2>1 DEF TypeOK
<1>5. \A s \in Slots :
        /\ tx[s].pc \notin Holding \cup {"partRead"}
        /\ tx[s].pc = "leaseRead" => tx[s].lease = NoLease
  BY <1>1 DEF RowsHeld, Holding
<1>6. RowsHeld' /\ RowsCurrent' /\ PendingContinues'
  BY <1>1, <1>5 DEF RowsHeld, RowsCurrent, PendingContinues, Holding
<1>7. LeaseOwnsNewestEpoch'
  BY <1>1, <1>3 DEF LeaseOwnsNewestEpoch
<1>8. EpochsFollowOrder' /\ OneWriterPerEpoch' /\ JournalContiguous'
  BY <1>1, <1>3 DEF EpochsFollowOrder, OneWriterPerEpoch, JournalContiguous
<1> QED
  BY <1>4, <1>6, <1>7, <1>8 DEF FencingInv

(* Committing a transaction keeps the inductive invariant.                  *)
LEMMA CommitInv ==
  ASSUME FencingInv, NEW s \in Slots, Commit(s)
  PROVE  FencingInv'
<1> DEFINE t   == tx[s]
           row == [seq |-> t.part.last, cmd |-> t.cmd, writer |-> t.owner,
                   epoch |-> t.lease.epoch]
<1>1. /\ TypeOK /\ RowsHeld /\ RowsCurrent /\ PendingContinues
      /\ LeaseOwnsNewestEpoch /\ JournalContiguous
      /\ EpochsFollowOrder /\ OneWriterPerEpoch
      /\ t.pc = "executed"
      /\ lease' = t.lease
      /\ part' = t.part
      /\ journal' = journal \cup {row}
      /\ tx' = [tx EXCEPT ![s] = Idle]
      /\ UNCHANGED <<snapshots, cache, engine>>
  BY DEF FencingInv, Commit
<1>2. /\ part \in PartRow
      /\ t.part \in PartRow /\ t.part.epoch >= part.epoch
      /\ t.part.last = part.last + 1 /\ t.part.high = t.part.last
      /\ t.owner \in Procs /\ t.cmd \in Commands /\ t.lease \in LeaseRow
      /\ t.lease.owner = t.owner /\ t.lease.epoch = t.part.epoch
      /\ t.lease # NoLease /\ t.part # NoPart
      /\ t.part.epoch = part.epoch => lease # NoLease /\ lease.owner = t.owner
  BY <1>1, OpenTxTypes
  DEF PendingContinues, Holding, LeaseOwnsNewestEpoch, TypeOK
<1>3. /\ row.seq = part.last + 1 /\ row.writer = t.owner
      /\ row.epoch = t.part.epoch
      /\ row \in JournalRow
      /\ part.epoch \in Nat /\ t.part.epoch \in Nat /\ part.last \in Nat
  BY <1>2 DEF JournalRow, PartRow, Epochs
<1>4. \A r \in journal : r.seq \in 1..part.last
  BY <1>1 DEF JournalContiguous
<1>5. \A r \in journal : r.epoch \in Nat /\ r.seq \in Nat
  BY <1>1 DEF TypeOK, JournalRow, Epochs
<1> HIDE DEF row
<1>6. tx'[s].pc = "idle" /\ \A r \in Slots : r # s => tx'[r] = tx[r]
  <2>1. tx'[s] = Idle /\ \A r \in Slots : r # s => tx'[r] = tx[r]
    BY <1>1, OneTxChanges
  <2>2. Idle.pc = "idle"
    BY DEF Idle, Tx
  <2> QED
    BY <2>1, <2>2
<1>7. leaseLock' = NoSlot /\ partLock' = NoSlot
  BY <1>1 DEF Commit, Release, RowsHeld, Holding
<1>8. \A r \in Slots : r # s =>
        /\ tx[r].pc \notin Holding \cup {"partRead"}
        /\ tx[r].pc = "leaseRead" => tx[r].lease = NoLease
  BY <1>1 DEF RowsHeld, Holding
<1>9. TypeOK'
  <2>1. tx' \in [Slots -> OpenTx \cup {Idle}]
    BY <1>1, TxTyped
  <2> QED
    BY <1>1, <1>2, <1>3, <1>7, <2>1 DEF TypeOK
<1>10. RowsHeld' /\ RowsCurrent' /\ PendingContinues'
  BY <1>6, <1>8 DEF RowsHeld, RowsCurrent, PendingContinues, Holding
<1>11. \A r \in journal :
         /\ r.seq < row.seq
         /\ r.epoch <= row.epoch
         /\ r.epoch = row.epoch => r.writer = row.writer
  BY <1>1, <1>2, <1>3, <1>4, <1>5 DEF LeaseOwnsNewestEpoch
<1>12. JournalContiguous'
  <2>1. {r.seq : r \in journal'} = {r.seq : r \in journal} \cup {row.seq}
    BY <1>1
  <2>2. {r.seq : r \in journal'} = 1..part'.last
    BY <1>1, <1>2, <1>3, <2>1 DEF JournalContiguous
  <2>3. \A r, q \in journal' : r.seq = q.seq => r = q
    BY <1>1, <1>3, <1>5, <1>11 DEF JournalContiguous
  <2> QED
    BY <1>1, <1>2, <2>2, <2>3 DEF JournalContiguous
<1>13. EpochsFollowOrder' /\ OneWriterPerEpoch'
  BY <1>1, <1>3, <1>5, <1>11 DEF EpochsFollowOrder, OneWriterPerEpoch
<1>14. LeaseOwnsNewestEpoch'
  BY <1>1, <1>2, <1>3, <1>5, <1>11 DEF LeaseOwnsNewestEpoch
<1> QED
  BY <1>9, <1>10, <1>12, <1>13, <1>14 DEF FencingInv

(* A step that changes nothing keeps the inductive invariant.               *)
LEMMA StutterInv ==
  ASSUME FencingInv, UNCHANGED vars
  PROVE  FencingInv'
BY CommittedUnchanged
DEF FencingInv, vars, TypeOK, RowsHeld, RowsCurrent, PendingContinues

(* FencingInv is an inductive invariant of the provisioned partition.       *)
THEOREM FencingInvariant == Spec => []FencingInv
<1>1. FencingInv /\ [Next]_vars => FencingInv'
  <2> SUFFICES ASSUME FencingInv, [Next]_vars PROVE FencingInv'
    OBVIOUS
  <2>1. ASSUME NEW s \in Slots, SlotStep(s) PROVE FencingInv'
    BY <2>1, BeginInv, ReadLeaseInv, ReadPartitionInv, AcquireInv, RecoverInv,
       ExecuteInv, CommitInv, RollbackInv DEF SlotStep
  <2>2. ASSUME NEW p \in Procs, ProcStep(p) PROVE FencingInv'
    BY <2>2, SaveSnapshotInv, GracefulShutdownInv, CrashInv DEF ProcStep
  <2> QED
    BY <2>1, <2>2, ExpireInv, StutterInv DEF Next
<1> QED
  BY <1>1, InitInv, PTL DEF Spec

(* The tables, locks, transactions and replica memory keep their types.     *)
THEOREM TypeCorrect == Spec => []TypeOK
<1>1. FencingInv => TypeOK
  BY DEF FencingInv
<1> QED
  BY <1>1, FencingInvariant, PTL

(* No rollback, retry, fencing or crash leaves a hole in the journal.       *)
THEOREM NoJournalHole == Spec => []JournalContiguous
<1>1. FencingInv => JournalContiguous
  BY DEF FencingInv
<1> QED
  BY <1>1, FencingInvariant, PTL

(* No command of a deposed owner is ordered after one of its successor, and *)
(* one epoch has one writer.                                                *)
THEOREM Fencing == Spec => [](EpochsFollowOrder /\ OneWriterPerEpoch)
<1>1. FencingInv => EpochsFollowOrder /\ OneWriterPerEpoch
  BY DEF FencingInv
<1> QED
  BY <1>1, FencingInvariant, PTL

(* At most one transaction is past acquire.                                 *)
THEOREM OwnerExclusive == Spec => []ExclusiveOwner
<1>1. FencingInv => ExclusiveOwner
  BY HoldingAlone DEF FencingInv, ExclusiveOwner, Holding
<1> QED
  BY <1>1, FencingInvariant, PTL

(* The committed epoch never falls, and an owner is replaced only together  *)
(* with a larger epoch.                                                     *)
THEOREM EpochsOnlyGrow == Spec => EpochMonotone
<1> DEFINE Grows ==
      /\ part'.epoch >= part.epoch
      /\ (/\ lease # NoLease /\ lease' # NoLease
          /\ lease'.owner # lease.owner) => lease'.epoch > lease.epoch
<1>1. FencingInv /\ [Next]_vars => [Grows]_vars
  <2> SUFFICES ASSUME FencingInv, Next PROVE Grows
    OBVIOUS
  <2>1. part.epoch \in Nat
    BY RowNumbers DEF FencingInv, TypeOK
  <2>2. ASSUME NEW s \in Slots, Commit(s) PROVE Grows
    <3>1. /\ lease' = tx[s].lease /\ part' = tx[s].part
          /\ tx[s].lease.owner = tx[s].owner
          /\ tx[s].lease.epoch = tx[s].part.epoch
          /\ tx[s].part.epoch >= part.epoch
          /\ tx[s].part.epoch = part.epoch => lease.owner = tx[s].owner
          /\ lease # NoLease => lease.epoch = part.epoch
          /\ tx[s].part.epoch \in Nat
      BY <2>2, OpenTxTypes, RowNumbers
      DEF Commit, FencingInv, PendingContinues, Holding, LeaseOwnsNewestEpoch
    <3> QED
      BY <2>1, <3>1
  <2>3. ASSUME NEW p \in Procs, GracefulShutdown(p) PROVE Grows
    BY <2>1, <2>3 DEF GracefulShutdown, Drained, Part
  <2>4. CASE Expire
    BY <2>1, <2>4 DEF Expire
  <2>5. CASE UNCHANGED <<lease, part>>
    BY <2>1, <2>5, SMTT(30)
  <2>6. \/ \E s \in Slots : Commit(s)
        \/ \E p \in Procs : GracefulShutdown(p)
        \/ Expire
        \/ UNCHANGED <<lease, part>>
    BY ZenonT(60) DEF Next, SlotStep, ProcStep, Begin, ReadLease, ReadPartition, Acquire,
           Recover, Execute, Rollback, SaveSnapshot, Crash
  <2> QED
    BY <2>2, <2>3, <2>4, <2>5, <2>6
<1> QED
  BY <1>1, FencingInvariant, PTL DEF Spec, EpochMonotone

---------------------------------------------------------------------------
(* Of all steps only a commit changes the journal or the last sequence.     *)
LEMMA JournalSteps ==
  ASSUME FencingInv, [Next]_vars
  PROVE  \/ UNCHANGED <<journal, part.last>>
         \/ \E s \in Slots : Commit(s)
<1>1. ASSUME NEW p \in Procs, GracefulShutdown(p)
      PROVE  UNCHANGED <<journal, part.last>>
  BY <1>1 DEF GracefulShutdown, Drained, Part
<1> QED
  BY <1>1, ZenonT(60) DEF Next, SlotStep, ProcStep, Begin, ReadLease, ReadPartition,
     Acquire, Recover, Execute, Rollback, SaveSnapshot, Crash, Expire, vars

(* What a commit adds: the next sequence, in an epoch its writer may use.   *)
LEMMA CommitAppends ==
  ASSUME FencingInv, NEW s \in Slots, Commit(s)
  PROVE  /\ part'.last = part.last + 1 /\ part.last \in Nat
         /\ journal' = journal \cup {[seq |-> part.last + 1, cmd |-> tx[s].cmd,
                                      writer |-> tx[s].owner,
                                      epoch |-> tx[s].lease.epoch]}
         /\ tx[s].cmd \in Commands /\ tx[s].owner \in Procs
         /\ tx[s].lease.epoch \in Nat \ {0}
         /\ \A r \in journal :
              /\ r.epoch <= tx[s].lease.epoch
              /\ r.epoch = tx[s].lease.epoch => r.writer = tx[s].owner
<1>1. /\ TypeOK /\ PendingContinues /\ LeaseOwnsNewestEpoch
      /\ tx[s].pc = "executed"
  BY DEF FencingInv, Commit
<1>2. /\ part \in PartRow /\ tx[s].part \in PartRow
      /\ tx[s].lease \in LeaseRow
      /\ tx[s].owner \in Procs /\ tx[s].cmd \in Commands
      /\ tx[s].part.epoch >= part.epoch
      /\ tx[s].part.last = part.last + 1
      /\ tx[s].lease.epoch = tx[s].part.epoch
      /\ tx[s].part.epoch = part.epoch
           => lease # NoLease /\ lease.owner = tx[s].owner
  BY <1>1, OpenTxTypes
  DEF PendingContinues, Holding, LeaseOwnsNewestEpoch, TypeOK
<1>3. \A r \in journal : r.epoch \in Nat
  BY <1>1 DEF TypeOK, JournalRow, Epochs
<1>4. /\ part.epoch \in Nat /\ part.last \in Nat
      /\ tx[s].lease.epoch \in Nat \ {0}
  BY <1>2 DEF PartRow, LeaseRow, Epochs
<1>5. \A r \in journal :
        /\ r.epoch <= tx[s].lease.epoch
        /\ r.epoch = tx[s].lease.epoch => r.writer = tx[s].owner
  BY <1>1, <1>2, <1>3, <1>4 DEF LeaseOwnsNewestEpoch
<1> QED
  BY <1>2, <1>4, <1>5 DEF Commit

(* No step saves a snapshot ahead of the committed sequence, or moves the   *)
(* sequence back behind one.                                                *)
LEMMA SnapshotsStayBehind ==
  ASSUME LogInv, [Next]_vars
  PROVE  SnapshotsBehind'
<1>1. FencingInv /\ TypeOK /\ SnapshotsBehind
  BY DEF LogInv, FencingInv
<1>2. part.last \in Nat /\ \A n \in snapshots : n.seq \in Nat
  BY <1>1, RowNumbers DEF TypeOK
<1>3. part'.last = part.last \/ part'.last = part.last + 1
  BY <1>1, JournalSteps, CommitAppends
<1>4. ASSUME NEW p \in Procs, SaveSnapshot(p) PROVE SnapshotsBehind'
  BY <1>1, <1>2, <1>4 DEF SaveSnapshot, SnapshotOf, SnapshotsBehind
<1>5. CASE snapshots' = snapshots
  BY <1>1, <1>2, <1>3, <1>5 DEF SnapshotsBehind
<1>6. snapshots' = snapshots \/ \E p \in Procs : SaveSnapshot(p)
  BY ZenonT(60) DEF Next, SlotStep, ProcStep, Begin, ReadLease, ReadPartition, Acquire,
     Recover, Execute, Rollback, Commit, GracefulShutdown, Crash, Expire, vars
<1> QED
  BY <1>4, <1>5, <1>6

(* What an open transaction read of the partition row stays the newest      *)
(* committed state until it ends.                                           *)
LEMMA PendingStaysFresh ==
  ASSUME LogInv, [Next]_vars
  PROVE  PendingFresh'
<1>1. FencingInv /\ TypeOK /\ RowsHeld /\ PendingFresh
  BY DEF LogInv, FencingInv
<1>2. ASSUME NEW s \in Slots, Commit(s) PROVE PendingFresh'
  <2>1. tx'[s] = Idle /\ \A r \in Slots : r # s => tx'[r] = tx[r]
    BY <1>1, <1>2, OneTxChanges DEF Commit
  <2>2. \A r \in Slots : tx[r].pc = "executed" => r = s
    BY <1>1, <1>2, HoldingAlone DEF Commit, Holding
  <2> QED
    BY <2>1, <2>2 DEF PendingFresh, Idle, Tx
<1>3. ASSUME NEW s \in Slots, Execute(s) PROVE PendingFresh'
  <2>1. /\ tx'[s].cmd = tx[s].cmd
        /\ \A r \in Slots : r # s => tx'[r] = tx[r]
        /\ journal' = journal /\ ~Journaled(tx[s].cmd)
    BY <1>1, <1>3, OneTxChanges DEF Execute, Tx
  <2> QED
    BY <1>1, <2>1 DEF PendingFresh, Journaled
<1>4. ASSUME journal' = journal,
             \A r \in Slots : tx'[r].pc = "executed" => tx'[r] = tx[r]
      PROVE  PendingFresh'
  BY <1>1, <1>4 DEF PendingFresh, Journaled
<1>5. ASSUME NEW s \in Slots, tx'[s].pc # "executed", journal' = journal,
             \A r \in Slots : r # s => tx'[r] = tx[r]
      PROVE  PendingFresh'
  BY <1>4, <1>5
<1>6. ASSUME NEW s \in Slots, SlotStep(s) PROVE PendingFresh'
  <2> DEFINE Elsewhere == /\ journal' = journal
                          /\ \A r \in Slots : r # s => tx'[r] = tx[r]
  <2>1. ASSUME NEW p \in Procs, NEW c \in Commands, Begin(s, p, c)
        PROVE  PendingFresh'
    <3>1. tx'[s].pc = "begun" /\ Elsewhere
      BY <1>1, <2>1 DEF Begin, Tx, TypeOK
    <3> QED
      BY <1>5, <3>1
  <2>2. CASE ReadLease(s)
    <3>1. tx'[s].pc = "leaseRead" /\ Elsewhere
      BY <1>1, <2>2 DEF ReadLease, Tx, TypeOK
    <3> QED
      BY <1>5, <3>1
  <2>3. CASE ReadPartition(s)
    <3>1. tx'[s].pc = "partRead" /\ Elsewhere
      BY <1>1, <2>3 DEF ReadPartition, Tx, TypeOK
    <3> QED
      BY <1>5, <3>1
  <2>4. ASSUME NEW judged \in BOOLEAN, Acquire(s, judged)
        PROVE  PendingFresh'
    <3>1. tx'[s].pc \in {"recovering", "owned"} /\ Elsewhere
      BY <1>1, <2>4 DEF Acquire, Tx, TypeOK
    <3> QED
      BY <1>5, <3>1
  <2>5. CASE Recover(s)
    <3>1. tx'[s].pc = "owned" /\ Elsewhere
      BY <1>1, <2>5 DEF Recover, Tx, TypeOK
    <3> QED
      BY <1>5, <3>1
  <2>6. ASSUME NEW kept \in BOOLEAN, Rollback(s, kept)
        PROVE  PendingFresh'
    <3>1. tx'[s].pc = "idle" /\ Elsewhere
      BY <1>1, <2>6 DEF Rollback, Tx, TypeOK, Idle
    <3> QED
      BY <1>5, <3>1
  <2> QED
    BY <1>2, <1>3, <1>6, <2>1, <2>2, <2>3, <2>4, <2>5, <2>6 DEF SlotStep
<1>7. ASSUME NEW p \in Procs, ProcStep(p) PROVE PendingFresh'
  <2>1. CASE Crash(p)
    <3>1. \A r \in Slots : tx'[r].pc = "executed" => tx'[r] = tx[r]
      BY <2>1 DEF Crash, Idle, Tx
    <3> QED
      BY <1>4, <2>1, <3>1 DEF Crash
  <2> QED
    BY <1>4, <1>7, <2>1 DEF ProcStep, SaveSnapshot, GracefulShutdown
<1> QED
  BY <1>4, <1>6, <1>7 DEF Next, Expire, vars

(* FencingInv with the snapshots and the commands in work.                  *)
THEOREM LogInvariant == Spec => []LogInv
<1>1. Init => LogInv
  <2> SUFFICES ASSUME Init PROVE LogInv
    OBVIOUS
  <2>1. FencingInv
    BY InitInv
  <2>2. snapshots = {} /\ \A s \in Slots : tx[s] = Idle
    BY DEF Init, InitTables
  <2> QED
    BY <2>1, <2>2 DEF LogInv, SnapshotsBehind, PendingFresh, Idle, Tx
<1>2. LogInv /\ FencingInv' /\ [Next]_vars => LogInv'
  BY SnapshotsStayBehind, PendingStaysFresh DEF LogInv
<1> QED
  BY <1>1, <1>2, FencingInvariant, PTL DEF Spec

(* Whatever snapshots were taken, the next owner's recovery plan reaches    *)
(* the committed high watermark.                                            *)
THEOREM RecoveryReachesWatermark == Spec => []AlwaysRecoverable
<1>1. LogInv => AlwaysRecoverable
  <2> SUFFICES ASSUME LogInv PROVE RecoveryPlanned(part.high)
    BY DEF AlwaysRecoverable
  <2>1. /\ JournalContiguous /\ SnapshotsBehind /\ TypeOK
        /\ part.last \in Nat /\ part.high = part.last
    BY RowNumbers DEF LogInv, FencingInv, TypeOK, JournalContiguous
  <2>2. /\ SnapshotSeqs \subseteq Nat /\ SnapshotSeqs # {}
        /\ \A n \in SnapshotSeqs : n <= part.last
    BY <2>1 DEF SnapshotSeqs, SnapshotsBehind, TypeOK
  <2>3. PICK start \in SnapshotSeqs : \A n \in SnapshotSeqs : n <= start
    BY <2>1, <2>2, GreatestElement
  <2>4. start \in Nat /\ start <= part.high
    BY <2>1, <2>2
  <2>5. \A r \in journal : r.seq \in 1..part.high
    BY <2>1 DEF JournalContiguous
  <2>6. \A i \in (start + 1)..part.high : \E r \in journal : r.seq = i
    BY <2>1, <2>4 DEF JournalContiguous
  <2>7. {r.seq : r \in {q \in journal : q.seq > start}}
          = (start + 1)..part.high
    BY <2>1, <2>4, <2>5, <2>6
  <2> QED
    BY <2>3, <2>4, <2>7 DEF RecoveryPlanned
<1> QED
  BY <1>1, LogInvariant, PTL

---------------------------------------------------------------------------
(* The log of the abstract specification, read row by row.                  *)
EntryOf(r) == [cmd |-> r.cmd, writer |-> r.writer, epoch |-> r.epoch]

LogReadsJournal ==
  /\ AcceptedLog \in Seq(Log!Entry)
  /\ Len(AcceptedLog) = part.last
  /\ part.last \in Nat
  /\ \A i \in 1..part.last :
       \E r \in journal : r.seq = i /\ AcceptedLog[i] = EntryOf(r)

(* Read in the order of its sequences, the journal is the abstract log.     *)
LEMMA LogIsJournal == FencingInv => LogReadsJournal
<1> SUFFICES ASSUME FencingInv PROVE LogReadsJournal
  OBVIOUS
<1>1. /\ TypeOK /\ JournalContiguous /\ part.last \in Nat
  BY RowNumbers DEF FencingInv, TypeOK
<1>2. ASSUME NEW i \in 1..part.last
      PROVE  \E r \in journal : r.seq = i /\ AcceptedLog[i] = EntryOf(r)
  <2> DEFINE row == CHOOSE q \in journal : q.seq = i
  <2>1. \E q \in journal : q.seq = i
    BY <1>1 DEF JournalContiguous
  <2>2. row \in journal /\ row.seq = i
    BY <2>1
  <2>3. AcceptedLog[i] = EntryOf(row)
    BY DEF AcceptedLog, EntryOf
  <2> QED
    BY <2>2, <2>3
<1>3. \A r \in journal : EntryOf(r) \in Log!Entry
  BY <1>1 DEF EntryOf, Log!Entry, TypeOK, JournalRow, Epochs
<1>4. AcceptedLog \in [1..part.last -> Log!Entry]
  <2>1. \A i \in 1..part.last : AcceptedLog[i] \in Log!Entry
    BY <1>2, <1>3
  <2> QED
    BY <2>1 DEF AcceptedLog
<1> HIDE DEF AcceptedLog
<1>5. AcceptedLog \in Seq(Log!Entry) /\ Len(AcceptedLog) = part.last
  BY <1>1, <1>4
<1> QED
  BY <1>1, <1>2, <1>5 DEF LogReadsJournal

(* An unchanged journal is an unchanged log.                                *)
LEMMA SameJournalSameLog ==
  ASSUME UNCHANGED <<journal, part.last>>
  PROVE  AcceptedLog' = AcceptedLog
  BY DEF AcceptedLog

(* A commit is a step of the abstract log.                                  *)
LEMMA CommitAccepts ==
  ASSUME LogInv, FencingInv', NEW s \in Slots, Commit(s)
  PROVE  Log!Next
<1> DEFINE e == [cmd |-> tx[s].cmd, writer |-> tx[s].owner,
                 epoch |-> tx[s].lease.epoch]
           row == [seq |-> part.last + 1, cmd |-> tx[s].cmd,
                   writer |-> tx[s].owner, epoch |-> tx[s].lease.epoch]
           old == AcceptedLog
           new == AcceptedLog'
<1>1. FencingInv /\ PendingFresh /\ tx[s].pc = "executed"
  BY DEF LogInv, Commit
<1>2. /\ part'.last = part.last + 1 /\ part.last \in Nat
      /\ journal' = journal \cup {row}
      /\ e \in Log!Entry
      /\ \A r \in journal : /\ r.epoch <= e.epoch
                            /\ r.epoch = e.epoch => r.writer = e.writer
  BY <1>1, CommitAppends DEF Log!Entry
<1>3. /\ old \in Seq(Log!Entry) /\ Len(old) = part.last
      /\ \A i \in 1..part.last :
           \E r \in journal : r.seq = i /\ old[i] = EntryOf(r)
  BY <1>1, LogIsJournal DEF LogReadsJournal
<1>4. /\ new \in Seq(Log!Entry) /\ Len(new) = part'.last
      /\ \A i \in 1..part'.last :
           \E r \in journal' : r.seq = i /\ new[i] = EntryOf(r)
  <2>1. LogReadsJournal'
    BY LogIsJournal, PTL
  <2> QED
    BY <2>1 DEF LogReadsJournal, EntryOf
<1>5. \A r, q \in journal' : r.seq = q.seq => r = q
  BY DEF FencingInv, JournalContiguous
<1>6. EntryOf(row) = e /\ row.seq = part.last + 1
  BY DEF EntryOf
<1>7. ~Log!Accepted(e.cmd)
  <2>1. \A r \in journal : r.cmd # tx[s].cmd
    BY <1>1 DEF PendingFresh, Journaled
  <2>2. ASSUME NEW i \in 1..Len(old) PROVE old[i].cmd # e.cmd
    <3>1. PICK r \in journal : old[i] = EntryOf(r)
      BY <1>3
    <3>2. old[i].cmd = r.cmd
      BY <3>1 DEF EntryOf
    <3> QED
      BY <2>1, <3>2
  <2> QED
    BY <2>2 DEF Log!Accepted
<1>8. Log!MayWrite(e.writer, e.epoch)
  <2> SUFFICES ASSUME old # <<>>
               PROVE  \/ e.epoch > old[Len(old)].epoch
                      \/ /\ e.epoch = old[Len(old)].epoch
                         /\ e.writer = old[Len(old)].writer
    BY DEF Log!MayWrite
  <2>1. Len(old) \in 1..part.last
    BY <1>2, <1>3
  <2>2. PICK r \in journal : old[Len(old)] = EntryOf(r)
    BY <1>3, <2>1
  <2>3. r.epoch \in Nat /\ e.epoch \in Nat
    BY <1>1, <1>2 DEF FencingInv, TypeOK, JournalRow, Epochs, Log!Entry
  <2> QED
    BY <1>2, <2>2, <2>3 DEF EntryOf
<1> HIDE DEF e, row, old, new
<1>9. new = Append(old, e)
  <2>1. ASSUME NEW i \in 1..part.last PROVE new[i] = old[i]
    <3>1. PICK r \in journal : r.seq = i /\ old[i] = EntryOf(r)
      BY <1>3
    <3>2. i \in 1..part'.last /\ r \in journal'
      BY <1>2, <3>1
    <3>3. PICK q \in journal' : q.seq = i /\ new[i] = EntryOf(q)
      BY <1>4, <3>2
    <3>4. r = q
      BY <1>5, <3>1, <3>2, <3>3
    <3> QED
      BY <3>1, <3>3, <3>4
  <2>2. new[part.last + 1] = e
    <3>1. PICK q \in journal' : q.seq = part.last + 1
                                  /\ new[part.last + 1] = EntryOf(q)
      BY <1>2, <1>4
    <3>2. q = row
      BY <1>2, <1>5, <1>6, <3>1
    <3> QED
      BY <1>6, <3>1, <3>2
  <2> QED
    BY <1>2, <1>3, <1>4, <2>1, <2>2
<1>10. Len(new) > Len(old) /\ new[Len(new)] = e
  BY <1>2, <1>3, <1>4, <1>9
<1>11. Log!Accept(e)
  BY <1>2, <1>7, <1>8, <1>9 DEF Log!Accept, old, new
<1> QED
  BY <1>10, <1>11 DEF Log!Next, old, new

(* The command path implements the fenced log.                              *)
THEOREM Refinement == Spec => ImplementsFencedLog
<1>1. Init => Log!Init
  <2> SUFFICES ASSUME Init PROVE Log!Init
    OBVIOUS
  <2>1. PICK p \in Procs, c \in Commands :
          /\ part = Part(1, 1, 1, "READY", TRUE)
          /\ journal = {[seq |-> 1, cmd |-> c, writer |-> p, epoch |-> 1]}
    BY DEF Init, InitTables
  <2> DEFINE e == [cmd |-> c, writer |-> p, epoch |-> 1]
  <2>2. /\ AcceptedLog \in Seq(Log!Entry) /\ Len(AcceptedLog) = 1
        /\ \E r \in journal : r.seq = 1 /\ AcceptedLog[1] = EntryOf(r)
    <3>1. part.last = 1
      BY <2>1 DEF Part
    <3> QED
      BY <3>1, InitInv, LogIsJournal DEF LogReadsJournal
  <2>3. AcceptedLog[1] = e
    BY <2>1, <2>2 DEF EntryOf
  <2> HIDE DEF e
  <2>4. AcceptedLog = <<e>>
    BY <2>2, <2>3
  <2> QED
    BY <2>4 DEF Log!Init, e
<1>2. LogInv /\ FencingInv' /\ [Next]_vars => [Log!Next]_AcceptedLog
  <2> SUFFICES ASSUME LogInv, FencingInv', [Next]_vars
               PROVE  Log!Next \/ AcceptedLog' = AcceptedLog
    OBVIOUS
  <2>1. FencingInv
    BY DEF LogInv
  <2> QED
    BY <2>1, JournalSteps, SameJournalSameLog, CommitAccepts
<1> QED
  BY <1>1, <1>2, LogInvariant, FencingInvariant, PTL
  DEF Spec, ImplementsFencedLog, Log!Spec
---------------------------------------------------------------------------
(* Log-first settlement.                                                    *)

(* The accounts and assets of the log's trades.                             *)
Parties == Holders \cup {"fees"}
Coins == {"base", "quote"}
Purse == [available : Int, reserved : Int]
Movements == Deals \X LegNames

NetIn(ops, a, s) == SumFunctionOnSet([m \in ops |-> NetOfLeg(m, a, s)], ops)
OpeningFunds(a, s) == IF a = "fees" THEN 0 ELSE Reserves[a][s]

(* A ledger in which every leg that has moved has moved its amount once.    *)
Exact(l) ==
  /\ l = [bal |-> l.bal, operations |-> l.operations, postings |-> l.postings, ok |-> l.ok]
  /\ l.bal \in [Parties -> [Coins -> Purse]]
  /\ l.operations \subseteq Movements
  /\ l.ok \in BOOLEAN
  /\ \A a \in Parties, s \in Coins :
       l.bal[a][s].available + l.bal[a][s].reserved = OpeningFunds(a, s) + NetIn(l.operations, a, s)

(* The legs of a trade.                                                     *)
LEMMA LegTyped ==
  ASSUME NEW d \in Deals, NEW name \in LegNames
  PROVE  /\ Leg(d)[name].from \in Parties
         /\ Leg(d)[name].to \in Parties
         /\ Leg(d)[name].asset \in Coins
         /\ Leg(d)[name].amount \in Nat
         /\ Leg(d)[name].from # Leg(d)[name].to
<1>1. /\ Terms[d].buyer \in Holders /\ Terms[d].seller \in Holders
      /\ Terms[d].buyer # Terms[d].seller /\ "fees" \notin Holders
      /\ Terms[d].quantity \in Nat /\ Terms[d].value \in Nat
      /\ Terms[d].buyerFee \in Nat /\ Terms[d].sellerFee \in Nat
  BY SettlementAssumption
<1>2. CASE name = "base"
  BY <1>1, <1>2 DEF Leg, TransferOf, Parties, Coins
<1>3. CASE name = "quote"
  BY <1>1, <1>3 DEF Leg, TransferOf, Parties, Coins
<1>4. CASE name = "buyerFee"
  BY <1>1, <1>4 DEF Leg, TransferOf, Parties, Coins
<1>5. CASE name = "sellerFee"
  BY <1>1, <1>5 DEF Leg, TransferOf, Parties, Coins
<1> QED
  BY <1>2, <1>3, <1>4, <1>5 DEF LegNames

(* What a leg brings is an integer, and nothing in another asset.           *)
LEMMA NetOfLegTyped ==
  ASSUME NEW m \in Movements, NEW a, NEW s
  PROVE  NetOfLeg(m, a, s) \in Int
<1>1. m[1] \in Deals /\ m[2] \in LegNames
  BY DEF Movements
<1>2. Leg(m[1])[m[2]].amount \in Nat
  BY <1>1, LegTyped
<1> QED
  BY <1>2 DEF NetOfLeg

LEMMA MovementsFinite ==
  ASSUME NEW ops, ops \subseteq Movements
  PROVE  IsFiniteSet(ops)
<1>1. IsFiniteSet(Deals)
  BY SettlementAssumption
<1>2. IsFiniteSet(LegNames)
  <2>1. IsFiniteSet({"base"})
    BY FS_Singleton
  <2>2. IsFiniteSet({"base"} \cup {"quote"})
    BY <2>1, FS_AddElement
  <2>3. IsFiniteSet({"base"} \cup {"quote"} \cup {"buyerFee"})
    BY <2>2, FS_AddElement
  <2>4. IsFiniteSet({"base"} \cup {"quote"} \cup {"buyerFee"} \cup {"sellerFee"})
    BY <2>3, FS_AddElement
  <2>5. LegNames = {"base"} \cup {"quote"} \cup {"buyerFee"} \cup {"sellerFee"}
    BY DEF LegNames
  <2> QED
    BY <2>4, <2>5
<1>3. IsFiniteSet(Movements)
  BY <1>1, <1>2, FS_Product DEF Movements
<1> QED
  BY <1>3, FS_Subset

(* A leg that had not moved adds what it brings.                            *)
LEMMA NetGrows ==
  ASSUME NEW ops, ops \subseteq Movements, NEW m \in Movements, m \notin ops, NEW a, NEW s
  PROVE  /\ NetIn(ops, a, s) \in Int
         /\ NetIn(ops \cup {m}, a, s) = NetIn(ops, a, s) + NetOfLeg(m, a, s)
<1> DEFINE f == [x \in ops |-> NetOfLeg(x, a, s)]
           T == ops \cup {m}
           h == [x \in T |-> NetOfLeg(x, a, s)]
<1>1. /\ IsFiniteSet(ops)
      /\ \A x \in ops : f[x] \in Int /\ h[x] = f[x]
      /\ h[m] \in Int /\ h[m] = NetOfLeg(m, a, s)
  BY MovementsFinite, NetOfLegTyped
<1>2. SumFunctionOnSet(f, ops) \in Int
  <2> HIDE DEF f, h
  <2> QED
    BY <1>1, SumTyped
<1>3. SumFunctionOnSet(h, T) = SumFunctionOnSet(f, ops) + h[m]
  <2> HIDE DEF f, h
  <2> QED
    BY <1>1, SumGrows
<1>4. NetIn(ops, a, s) = SumFunctionOnSet(f, ops) /\ NetIn(T, a, s) = SumFunctionOnSet(h, T)
  BY Zenon DEF NetIn
<1> HIDE DEF f, h
<1> QED
  BY <1>1, <1>2, <1>3, <1>4

(* settleReservedTransfer between two accounts.                             *)
LEMMA TransferMoves ==
  ASSUME NEW l, Exact(l), NEW m \in Movements, m \notin l.operations, l.ok,
         NEW from \in Parties, NEW to \in Parties, from # to,
         NEW s \in Coins, NEW n \in Nat,
         NEW r, r = Ledger!SettleReserved(l, m, from, to, s, n)
  PROVE  \/ r = Ledger!Thrown(l)
         \/ /\ r = [bal |-> r.bal, operations |-> r.operations, postings |-> r.postings, ok |-> TRUE]
            /\ r.bal \in [Parties -> [Coins -> Purse]]
            /\ r.operations = l.operations \cup {m}
            /\ \A a \in Parties, c \in Coins :
                 r.bal[a][c].available + r.bal[a][c].reserved =
                   l.bal[a][c].available + l.bal[a][c].reserved
                     + IF c # s THEN 0 ELSE (IF to = a THEN n ELSE 0) - (IF from = a THEN n ELSE 0)
<1> DEFINE debit == Ledger!Taken(l.bal[from][s], n)
           credit == Ledger!Credited(l.bal[to][s], n)
<1>1. CASE n <= 0 \/ ~Ledger!Fits(debit)
  BY <1>1 DEF Ledger!SettleReserved
<1>2. CASE ~(n <= 0 \/ ~Ledger!Fits(debit))
  <2> DEFINE ops == l.operations \cup {m}
             posts == l.postings \cup {Ledger!Posting(m, from, s, n, "DEBIT"),
                                       Ledger!Posting(m, to, s, n, "CREDIT")}
             b == [[l.bal EXCEPT ![from][s] = debit] EXCEPT ![to][s] = credit]
  <2>1. r = [l EXCEPT !.bal = b, !.operations = ops, !.postings = posts]
    BY <1>2, Zenon DEF Ledger!SettleReserved
  <2>2. l = [bal |-> l.bal, operations |-> l.operations, postings |-> l.postings, ok |-> l.ok]
    BY DEF Exact
  <2>3. /\ l.bal \in [Parties -> [Coins -> Purse]]
        /\ l.bal[from][s] \in Purse /\ l.bal[to][s] \in Purse
    BY DEF Exact
  <2>4. /\ debit = [available |-> l.bal[from][s].available, reserved |-> l.bal[from][s].reserved - n]
        /\ credit = [available |-> l.bal[to][s].available + n, reserved |-> l.bal[to][s].reserved]
    BY <2>3 DEF Purse, Ledger!Taken, Ledger!Credited
  <2>5. debit \in Purse /\ credit \in Purse
    BY <2>3, <2>4 DEF Purse
  <2> HIDE DEF debit, credit
  <2>6. /\ b \in [Parties -> [Coins -> Purse]]
        /\ \A a \in Parties, c \in Coins :
             b[a][c] = IF c = s /\ a = to THEN credit ELSE IF c = s /\ a = from THEN debit ELSE l.bal[a][c]
    BY <2>3, <2>5
  <2> HIDE DEF b, ops, posts
  <2>7. r = [bal |-> b, operations |-> ops, postings |-> posts, ok |-> TRUE]
    <3>1. PICK lb, lo, lp : l = [bal |-> lb, operations |-> lo, postings |-> lp, ok |-> TRUE]
      BY <2>2
    <3>2. [l EXCEPT !.bal = b, !.operations = ops, !.postings = posts] =
            [[[l EXCEPT !.bal = b] EXCEPT !.operations = ops] EXCEPT !.postings = posts]
      OBVIOUS
    <3> QED
      BY <2>1, <3>1, <3>2
  <2>8. \A a \in Parties, c \in Coins :
          b[a][c].available + b[a][c].reserved =
            l.bal[a][c].available + l.bal[a][c].reserved
              + IF c # s THEN 0 ELSE (IF to = a THEN n ELSE 0) - (IF from = a THEN n ELSE 0)
    <3> SUFFICES ASSUME NEW a \in Parties, NEW c \in Coins
                 PROVE b[a][c].available + b[a][c].reserved =
                   l.bal[a][c].available + l.bal[a][c].reserved
                     + IF c # s THEN 0 ELSE (IF to = a THEN n ELSE 0) - (IF from = a THEN n ELSE 0)
      OBVIOUS
    <3>1. l.bal[a][c] \in Purse /\ l.bal[a][c].available \in Int /\ l.bal[a][c].reserved \in Int
      BY <2>3 DEF Purse
    <3>2. CASE c # s
      BY <2>6, <3>1, <3>2
    <3>3. CASE c = s /\ a = to
      BY <2>4, <2>6, <3>1, <3>3
    <3>4. CASE c = s /\ a = from
      BY <2>4, <2>6, <3>1, <3>4
    <3>5. CASE a # from /\ a # to
      BY <2>6, <3>1, <3>5
    <3> QED
      BY <3>2, <3>3, <3>4, <3>5
  <2>9. ops = l.operations \cup {m}
    BY DEF ops
  <2> QED
    BY <2>6, <2>7, <2>8, <2>9
<1> QED
  BY <1>1, <1>2

MovedIn(ops, d) == \A name \in Legs(d) : <<d, name>> \in ops

(* Whether it has thrown is no part of what makes a ledger exact.           *)
LEMMA SetOk ==
  ASSUME NEW l, Exact(l), NEW v \in BOOLEAN, NEW r, r = [l EXCEPT !.ok = v]
  PROVE  /\ Exact(r)
         /\ r.operations = l.operations
         /\ r.ok = v
<1>1. PICK lb, lo, lp, lk : l = [bal |-> lb, operations |-> lo, postings |-> lp, ok |-> lk]
  BY DEF Exact
<1>2. \A u : [l EXCEPT !.ok = u] = [bal |-> lb, operations |-> lo, postings |-> lp, ok |-> u]
  BY <1>1
<1>3. r = [bal |-> lb, operations |-> lo, postings |-> lp, ok |-> v]
  BY <1>2, Zenon
<1>4. r.bal = lb /\ r.operations = lo /\ r.postings = lp /\ r.ok = v
  BY <1>3
<1>5. r = [bal |-> r.bal, operations |-> r.operations, postings |-> r.postings, ok |-> r.ok]
  BY <1>3, <1>4, Zenon
<1>6. l.bal = lb /\ l.operations = lo
  BY <1>1
<1>7. /\ lb \in [Parties -> [Coins -> Purse]]
      /\ lo \subseteq Movements
      /\ \A a \in Parties, s \in Coins :
           lb[a][s].available + lb[a][s].reserved = OpeningFunds(a, s) + NetIn(lo, a, s)
  BY <1>6 DEF Exact
<1>8. /\ r.bal \in [Parties -> [Coins -> Purse]]
      /\ r.operations \subseteq Movements
      /\ r.ok \in BOOLEAN
      /\ \A a \in Parties, s \in Coins :
           r.bal[a][s].available + r.bal[a][s].reserved = OpeningFunds(a, s) + NetIn(r.operations, a, s)
  BY <1>4, <1>7, Zenon
<1> QED
  BY <1>4, <1>5, <1>6, <1>8, Zenon DEF Exact

LEMMA ThrownIsExact ==
  ASSUME NEW l, Exact(l)
  PROVE  /\ Exact(Ledger!Thrown(l))
         /\ Ledger!Thrown(l).operations = l.operations
         /\ Ledger!Thrown(l).ok = FALSE
<1>1. FALSE \in BOOLEAN /\ Ledger!Thrown(l) = [l EXCEPT !.ok = FALSE]
  BY Zenon DEF Ledger!Thrown
<1> QED
  BY <1>1, SetOk, Zenon

(* One leg: an exact ledger stays exact, and forgets no leg that has moved. *)
LEMMA MoveLegKeeps ==
  ASSUME NEW l, Exact(l), NEW d \in Deals, NEW name \in LegNames,
         NEW r, r = MoveLeg(d, l, name)
  PROVE  /\ Exact(r)
         /\ l.operations \subseteq r.operations
         /\ r.ok => l.ok /\ (name \in Legs(d) => <<d, name>> \in r.operations)
<1> DEFINE leg == Leg(d)[name]
           m == <<d, name>>
           moved == Ledger!SettleReserved(l, m, leg.from, leg.to, leg.asset, leg.amount)
<1>1. l.ok \in BOOLEAN
  BY DEF Exact
<1>2. CASE name \notin Legs(d)
  BY <1>1, <1>2 DEF MoveLeg
<1>3. CASE name \in Legs(d) /\ r = Ledger!Thrown(l)
  BY <1>3, ThrownIsExact
<1>4. CASE name \in Legs(d) /\ r = moved
  <2>1. CASE ~l.ok \/ m \in l.operations
    <3>1. r = l
      BY <1>4, <2>1 DEF Ledger!SettleReserved
    <3> QED
      BY <1>1, <2>1, <3>1
  <2>2. CASE l.ok /\ m \notin l.operations
    <3>1. /\ leg.from \in Parties /\ leg.to \in Parties /\ leg.from # leg.to
          /\ leg.asset \in Coins /\ leg.amount \in Nat
          /\ m \in Movements /\ m[1] = d /\ m[2] = name
      BY LegTyped DEF Movements
    <3> DEFINE net(a, s) == IF s # leg.asset THEN 0
                            ELSE (IF leg.to = a THEN leg.amount ELSE 0)
                                   - (IF leg.from = a THEN leg.amount ELSE 0)
    <3>2. \A a, s : NetOfLeg(m, a, s) = net(a, s)
      BY <3>1 DEF NetOfLeg
    <3>3. CASE r = Ledger!Thrown(l)
      BY <1>4, <3>3, ThrownIsExact
    <3>4. CASE r # Ledger!Thrown(l)
      <4>1. /\ r = [bal |-> r.bal, operations |-> r.operations, postings |-> r.postings, ok |-> TRUE]
            /\ r.bal \in [Parties -> [Coins -> Purse]]
            /\ r.operations = l.operations \cup {m}
            /\ \A a \in Parties, s \in Coins :
                 r.bal[a][s].available + r.bal[a][s].reserved =
                   l.bal[a][s].available + l.bal[a][s].reserved + net(a, s)
        <5> DEFINE from == leg.from
                   to == leg.to
                   coin == leg.asset
                   n == leg.amount
        <5>1. r = Ledger!SettleReserved(l, m, from, to, coin, n)
          BY <1>4
        <5> HIDE DEF leg, m, from, to, coin, n, net
        <5>2. /\ r = [bal |-> r.bal, operations |-> r.operations, postings |-> r.postings, ok |-> TRUE]
              /\ r.bal \in [Parties -> [Coins -> Purse]]
              /\ r.operations = l.operations \cup {m}
              /\ \A a \in Parties, c \in Coins :
                   r.bal[a][c].available + r.bal[a][c].reserved =
                     l.bal[a][c].available + l.bal[a][c].reserved
                       + IF c # coin THEN 0 ELSE (IF to = a THEN n ELSE 0) - (IF from = a THEN n ELSE 0)
          <6>1. from \in Parties /\ to \in Parties /\ from # to /\ coin \in Coins /\ n \in Nat
            BY <3>1 DEF from, to, coin, n
          <6> QED
            BY <2>2, <3>1, <3>4, <5>1, <6>1, TransferMoves
        <5> QED
          BY <5>2 DEF from, to, coin, n, net
      <4>2. r.ok = TRUE
        BY <4>1
      <4>3. l.operations \subseteq Movements
        BY DEF Exact
      <4>4. ASSUME NEW a \in Parties, NEW s \in Coins
            PROVE  r.bal[a][s].available + r.bal[a][s].reserved =
                     OpeningFunds(a, s) + NetIn(r.operations, a, s)
        <5>1. /\ NetIn(l.operations, a, s) \in Int
              /\ NetIn(r.operations, a, s) = NetIn(l.operations, a, s) + NetOfLeg(m, a, s)
          <6>1. m \in Movements /\ m \notin l.operations /\ r.operations = l.operations \cup {m}
            BY <2>2, <3>1, <4>1
          <6> HIDE DEF m
          <6>2. /\ NetIn(l.operations, a, s) \in Int
                /\ NetIn(l.operations \cup {m}, a, s) = NetIn(l.operations, a, s) + NetOfLeg(m, a, s)
            BY <4>3, <6>1, NetGrows
          <6> QED
            BY <6>1, <6>2, Zenon
        <5>2. l.bal[a][s].available + l.bal[a][s].reserved = OpeningFunds(a, s) + NetIn(l.operations, a, s)
          BY DEF Exact
        <5>3. OpeningFunds(a, s) \in Int
          BY SettlementAssumption DEF OpeningFunds, Parties, Coins
        <5>4. net(a, s) \in Int /\ NetOfLeg(m, a, s) = net(a, s)
          BY <3>1, <3>2
        <5>5. r.bal[a][s].available + r.bal[a][s].reserved =
                (OpeningFunds(a, s) + NetIn(l.operations, a, s)) + net(a, s)
          BY <4>1, <5>2
        <5> HIDE DEF net, leg, m
        <5> QED
          BY <5>1, <5>3, <5>4, <5>5
      <4>5. r.operations \subseteq Movements
        BY <3>1, <4>1, <4>3
      <4>6. Exact(r)
        BY <4>1, <4>2, <4>4, <4>5 DEF Exact
      <4> QED
        BY <2>2, <4>1, <4>6
    <3> QED
      BY <3>3, <3>4
  <2> QED
    BY <1>1, <2>1, <2>2
<1>5. name \in Legs(d) => r = Ledger!Thrown(l) \/ r = moved
  BY Zenon DEF MoveLeg
<1> QED
  BY <1>2, <1>3, <1>4, <1>5

(* All of them: when none has thrown, every leg of the trade has moved.     *)
LEMMA MoveLegsKeeps ==
  ASSUME NEW l, Exact(l), NEW d \in Deals, NEW r, r = MoveLegs(l, d)
  PROVE  /\ Exact(r)
         /\ l.operations \subseteq r.operations
         /\ r.ok => MovedIn(r.operations, d)
<1> DEFINE l1 == MoveLeg(d, l, "base")
           l2 == MoveLeg(d, l1, "quote")
           l3 == MoveLeg(d, l2, "buyerFee")
<1>1. r = MoveLeg(d, l3, "sellerFee")
  BY Zenon DEF MoveLegs
<1>2. /\ Exact(l1) /\ l.operations \subseteq l1.operations
      /\ l1.ok => l.ok /\ ("base" \in Legs(d) => <<d, "base">> \in l1.operations)
  BY MoveLegKeeps DEF LegNames
<1> HIDE DEF l1
<1>3. /\ Exact(l2) /\ l1.operations \subseteq l2.operations
      /\ l2.ok => l1.ok /\ ("quote" \in Legs(d) => <<d, "quote">> \in l2.operations)
  BY <1>2, MoveLegKeeps DEF LegNames
<1> HIDE DEF l2
<1>4. /\ Exact(l3) /\ l2.operations \subseteq l3.operations
      /\ l3.ok => l2.ok /\ ("buyerFee" \in Legs(d) => <<d, "buyerFee">> \in l3.operations)
  BY <1>3, MoveLegKeeps DEF LegNames
<1> HIDE DEF l3
<1>5. /\ Exact(r) /\ l3.operations \subseteq r.operations
      /\ r.ok => l3.ok /\ ("sellerFee" \in Legs(d) => <<d, "sellerFee">> \in r.operations)
  BY <1>1, <1>4, MoveLegKeeps DEF LegNames
<1>6. \A name \in Legs(d) : name \in {"base", "quote", "buyerFee", "sellerFee"}
  BY DEF Legs, LegNames
<1>7. l.operations \subseteq r.operations
  BY <1>2, <1>3, <1>4, <1>5
<1>8. r.ok => MovedIn(r.operations, d)
  <2> SUFFICES ASSUME r.ok, NEW name \in Legs(d) PROVE <<d, name>> \in r.operations
    BY DEF MovedIn
  <2> QED
    BY <1>2, <1>3, <1>4, <1>5, <1>6
<1> QED
  BY <1>5, <1>7, <1>8
---------------------------------------------------------------------------
LogEvents == [type : {"TradeExecuted", "SettlementApplied"}, deal : Deals]

(* A trade the log calls settled is settled, and so is one remembered.      *)
Said(evts, ops) ==
  \A n \in 1..Len(evts) : evts[n].type = "SettlementApplied" => MovedIn(ops, evts[n].deal)

GoodParts(b, e, f, c, k) ==
  /\ Exact(b) /\ b.ok
  /\ e \in Seq(LogEvents)
  /\ f \in Nat
  /\ c \subseteq Deals /\ \A d \in c : MovedIn(b.operations, d)
  /\ Said(e, b.operations)
  /\ k \in BOOLEAN

GoodWork(s) ==
  /\ s = [book |-> s.book, events |-> s.events, failures |-> s.failures,
          settled |-> s.settled, ok |-> s.ok]
  /\ GoodParts(s.book, s.events, s.failures, s.settled, s.ok)

Continues(s, t) ==
  /\ s.book.operations \subseteq t.book.operations
  /\ Len(s.events) <= Len(t.events)
  /\ \A n \in 1..Len(s.events) : t.events[n] = s.events[n]

(* Such a record with some of its fields changed.                           *)
LEMMA WorkChanges ==
  ASSUME NEW s, NEW b, NEW e, NEW f, NEW c, NEW k,
         s = [book |-> b, events |-> e, failures |-> f, settled |-> c, ok |-> k],
         NEW x, NEW y, NEW z
  PROVE  /\ z = [s EXCEPT !.book = x, !.ok = y] =>
              z = [book |-> x, events |-> e, failures |-> f, settled |-> c, ok |-> y]
         /\ z = [s EXCEPT !.failures = x, !.ok = y] =>
              z = [book |-> b, events |-> e, failures |-> x, settled |-> c, ok |-> y]
         /\ z = [s EXCEPT !.settled = x] =>
              z = [book |-> b, events |-> e, failures |-> f, settled |-> x, ok |-> k]
         /\ z = [s EXCEPT !.events = x] =>
              z = [book |-> b, events |-> x, failures |-> f, settled |-> c, ok |-> k]
         /\ z = [s EXCEPT !.ok = y] =>
              z = [book |-> b, events |-> e, failures |-> f, settled |-> c, ok |-> y]
<1>1. /\ [s EXCEPT !.book = x, !.ok = y] = [[s EXCEPT !.book = x] EXCEPT !.ok = y]
      /\ [s EXCEPT !.failures = x, !.ok = y] = [[s EXCEPT !.failures = x] EXCEPT !.ok = y]
  OBVIOUS
<1>2. [[s EXCEPT !.book = x] EXCEPT !.ok = y] =
        [book |-> x, events |-> e, failures |-> f, settled |-> c, ok |-> y]
  <2>1. PICK u : u = [s EXCEPT !.book = x]
    OBVIOUS
  <2>2. u = [book |-> x, events |-> e, failures |-> f, settled |-> c, ok |-> k]
    BY <2>1
  <2>3. [u EXCEPT !.ok = y] = [book |-> x, events |-> e, failures |-> f, settled |-> c, ok |-> y]
    BY <2>2
  <2> QED
    BY <2>1, <2>3, Zenon
<1>3. [[s EXCEPT !.failures = x] EXCEPT !.ok = y] =
        [book |-> b, events |-> e, failures |-> x, settled |-> c, ok |-> y]
  <2>1. PICK u : u = [s EXCEPT !.failures = x]
    OBVIOUS
  <2>2. u = [book |-> b, events |-> e, failures |-> x, settled |-> c, ok |-> k]
    BY <2>1
  <2>3. [u EXCEPT !.ok = y] = [book |-> b, events |-> e, failures |-> x, settled |-> c, ok |-> y]
    BY <2>2
  <2> QED
    BY <2>1, <2>3, Zenon
<1>4. [s EXCEPT !.settled = x] =
        [book |-> b, events |-> e, failures |-> f, settled |-> x, ok |-> k]
  OBVIOUS
<1>5. [s EXCEPT !.events = x] =
        [book |-> b, events |-> x, failures |-> f, settled |-> c, ok |-> k]
  OBVIOUS
<1>6. [s EXCEPT !.ok = y] =
        [book |-> b, events |-> e, failures |-> f, settled |-> c, ok |-> y]
  OBVIOUS
<1> QED
  BY <1>1, <1>2, <1>3, <1>4, <1>5, <1>6, Zenon

LEMMA WorkIsGood ==
  ASSUME NEW t, NEW b, NEW e, NEW f, NEW c, NEW k,
         t = [book |-> b, events |-> e, failures |-> f, settled |-> c, ok |-> k],
         GoodParts(b, e, f, c, k)
  PROVE  /\ GoodWork(t)
         /\ t.book = b /\ t.events = e /\ t.ok = k
<1>1. t.book = b /\ t.events = e /\ t.failures = f /\ t.settled = c /\ t.ok = k
  BY Zenon
<1> QED
  BY <1>1, Zenon DEF GoodWork

LEMMA ContinuesOn ==
  ASSUME NEW s, NEW t, NEW u, GoodWork(s), GoodWork(t), GoodWork(u),
         Continues(s, t), Continues(t, u)
  PROVE  Continues(s, u)
<1>1. Len(s.events) \in Nat /\ Len(t.events) \in Nat /\ Len(u.events) \in Nat
  BY DEF GoodWork, GoodParts
<1> QED
  BY <1>1 DEF Continues

(* What has moved stays moved.                                              *)
LEMMA MovedStays ==
  ASSUME NEW o, NEW p, o \subseteq p
  PROVE  /\ \A d : MovedIn(o, d) => MovedIn(p, d)
         /\ \A evts : Said(evts, o) => Said(evts, p)
BY DEF MovedIn, Said

(* settleTrade.                                                             *)
LEMMA SettleTradeKeeps ==
  ASSUME NEW s, GoodWork(s), s.ok, NEW d \in Deals, NEW t, t = SettleTrade(s, d)
  PROVE  /\ GoodWork(t)
         /\ Continues(s, t)
         /\ t.ok => MovedIn(t.book.operations, d)
<1>1. PICK sb, se, sf, ss :
        s = [book |-> sb, events |-> se, failures |-> sf, settled |-> ss, ok |-> TRUE]
  BY DEF GoodWork
<1>2. /\ Exact(sb) /\ sb.ok /\ se \in Seq(LogEvents) /\ sf \in Nat
      /\ ss \subseteq Deals /\ (\A x \in ss : MovedIn(sb.operations, x))
      /\ Said(se, sb.operations)
  <2>1. /\ GoodParts(s.book, s.events, s.failures, s.settled, s.ok)
        /\ s.book = sb /\ s.events = se /\ s.failures = sf /\ s.settled = ss
    BY <1>1 DEF GoodWork
  <2> QED
    BY <2>1 DEF GoodParts
<1>3. CASE d \in ss
  <2>1. t = s
    BY <1>1, <1>3 DEF SettleTrade
  <2>2. Len(se) \in Nat
    BY <1>2
  <2>3. s.book = sb /\ s.events = se
    BY <1>1
  <2>4. Continues(s, t)
    BY <2>1, <2>2, <2>3 DEF Continues
  <2> QED
    BY <1>2, <1>3, <2>1, <2>3, <2>4
<1>4. CASE d \notin ss
  <2> DEFINE l == MoveLegs(sb, d)
             b == [l EXCEPT !.ok = TRUE]
             e == Event("SettlementApplied", d)
  <2>1. /\ Exact(l) /\ sb.operations \subseteq l.operations
        /\ l.ok => MovedIn(l.operations, d)
    BY <1>2, MoveLegsKeeps
  <2> HIDE DEF l
  <2>2. l.ok \in BOOLEAN
    BY <2>1 DEF Exact
  <2>3. TRUE \in BOOLEAN
    OBVIOUS
  <2>4. Exact(b) /\ b.ok /\ b.operations = l.operations
    BY <2>1, <2>3, SetOk, Zenon
  <2> HIDE DEF b
  <2>5. PICK moved : moved = [s EXCEPT !.book = b, !.ok = l.ok]
    OBVIOUS
  <2>6. moved = [book |-> b, events |-> se, failures |-> sf, settled |-> ss, ok |-> l.ok]
    BY <1>1, <2>5, WorkChanges, Zenon
  <2>7. s.book = sb /\ s.settled = ss /\ s.events = se
    BY <1>1
  <2>8. /\ ~l.ok => t = moved
        /\ l.ok => t = IF AppendEvent(moved, e).ok
                       THEN [AppendEvent(moved, e) EXCEPT !.settled = @ \cup {d}]
                       ELSE AppendEvent(moved, e)
    BY <1>4, <2>5, <2>7, Zenon DEF SettleTrade, l, b
  <2>9. /\ \A x \in ss : MovedIn(b.operations, x)
        /\ Said(se, b.operations)
        /\ l.ok => MovedIn(b.operations, d)
    BY <1>2, <2>1, <2>4, MovedStays
  <2>10. sb.operations \subseteq b.operations /\ Len(se) \in Nat
    BY <1>2, <2>1, <2>4
  <2>11. CASE ~l.ok
    <3>1. t = moved
      BY <2>8, <2>11
    <3>2. GoodWork(t) /\ t.book = b /\ t.events = se /\ t.ok = l.ok
      <4>1. GoodParts(b, se, sf, ss, l.ok)
        BY <1>2, <2>2, <2>4, <2>9 DEF GoodParts
      <4> QED
        BY <2>6, <3>1, <4>1, WorkIsGood, Zenon
    <3> QED
      BY <2>7, <2>10, <2>11, <3>2 DEF Continues
  <2>12. CASE l.ok /\ sf > 0
    <3>1. PICK n \in Nat : n = sf - 1
      BY <1>2, <2>12
    <3>2. PICK said : said = AppendEvent(moved, e)
      OBVIOUS
    <3>3. said = [moved EXCEPT !.failures = n, !.ok = FALSE]
      <4>1. moved.failures = sf
        BY <2>6
      <4> QED
        BY <2>12, <3>1, <3>2, <4>1, Zenon DEF AppendEvent
    <3>4. said = [book |-> b, events |-> se, failures |-> n, settled |-> ss, ok |-> FALSE]
      BY <2>6, <3>3, WorkChanges, Zenon
    <3>5. said.ok = FALSE
      BY <3>4, Zenon
    <3>6. t = said
      BY <2>8, <2>12, <3>2, <3>5, Zenon
    <3>7. FALSE \in BOOLEAN
      OBVIOUS
    <3>8. GoodWork(t) /\ t.book = b /\ t.events = se /\ t.ok = FALSE
      <4>1. GoodParts(b, se, n, ss, FALSE)
        BY <1>2, <2>4, <2>9, <3>1, <3>7 DEF GoodParts
      <4> QED
        BY <3>4, <3>6, <4>1, WorkIsGood, Zenon
    <3> QED
      BY <2>7, <2>10, <3>8 DEF Continues
  <2>13. CASE l.ok /\ ~(sf > 0)
    <3> DEFINE evts == Append(se, e)
    <3>1. PICK said : said = AppendEvent(moved, e)
      OBVIOUS
    <3>2. said = [moved EXCEPT !.events = evts]
      <4>1. moved.failures = sf /\ moved.events = se
        BY <2>6
      <4> QED
        BY <2>13, <3>1, <4>1, Zenon DEF AppendEvent
    <3>3. said = [book |-> b, events |-> evts, failures |-> sf, settled |-> ss, ok |-> l.ok]
      <4> HIDE DEF evts
      <4> QED
        BY <2>6, <3>2, WorkChanges, Zenon
    <3>4. said.ok = l.ok /\ said.settled = ss
      <4> HIDE DEF evts
      <4> QED
        BY <3>3, Zenon
    <3>5. t = [said EXCEPT !.settled = ss \cup {d}]
      BY <2>8, <2>13, <3>1, <3>4, Zenon
    <3>6. t = [book |-> b, events |-> evts, failures |-> sf, settled |-> ss \cup {d}, ok |-> l.ok]
      <4> HIDE DEF evts
      <4> QED
        BY <3>3, <3>5, WorkChanges, Zenon
    <3>7. e \in LogEvents /\ e.deal = d
      BY DEF LogEvents, Event
    <3> HIDE DEF e
    <3>8. /\ evts \in Seq(LogEvents) /\ Len(evts) = Len(se) + 1
          /\ \A n \in 1..Len(se) : evts[n] = se[n]
          /\ evts[Len(se) + 1] = e
      BY <1>2, <3>7, AppendProperties
    <3> HIDE DEF evts
    <3>9. Said(evts, b.operations)
      <4> SUFFICES ASSUME NEW n \in 1..Len(evts), evts[n].type = "SettlementApplied"
                   PROVE  MovedIn(b.operations, evts[n].deal)
        BY DEF Said
      <4>1. n \in 1..Len(se) \/ n = Len(se) + 1
        BY <2>10, <3>8
      <4> QED
        BY <2>9, <2>13, <3>7, <3>8, <4>1 DEF Said
    <3>10. GoodParts(b, evts, sf, ss \cup {d}, l.ok)
      BY <1>2, <2>2, <2>4, <2>9, <2>13, <3>8, <3>9 DEF GoodParts
    <3>11. GoodWork(t) /\ t.book = b /\ t.events = evts
      BY <3>6, <3>10, WorkIsGood, Zenon
    <3>12. Continues(s, t)
      BY <2>7, <2>10, <3>8, <3>11 DEF Continues
    <3> QED
      BY <2>9, <2>13, <3>11, <3>12
  <2> QED
    BY <2>2, <2>11, <2>12, <2>13
<1> QED
  BY <1>3, <1>4

---------------------------------------------------------------------------
(* The fold of consume's attempts, and what one attempt keeps.              *)
TriedIn(g, p, q, s) ==
  IF s = {} THEN p ELSE Attempt(g[s \ {Max(s)}], q[Max(s)])

Tries(g, p, q, U) == g = [s \in U |-> TriedIn(g, p, q, s)]

LEMMA AttemptIsChosen ==
  ASSUME NEW p, NEW q
  PROVE  FoldLeft(Attempt, p, q) = (CHOOSE g : Tries(g, p, q, SUBSET DOMAIN q))[DOMAIN q]
BY Zenon DEF FoldLeft, MapThenFoldSet, Tries, TriedIn

(* The recursion has a solution.                                            *)
LEMMA TriesExist ==
  ASSUME NEW p, NEW q, NEW n \in Nat, DOMAIN q = 1..n
  PROVE  \E g : Tries(g, p, q, SUBSET (1..n))
<1> DEFINE S == 1..n
           Solved(m) == \E g : Tries(g, p, q, Upto(S, m))
           T == {m \in Nat : Solved(m)}
<1>1. IsFiniteSet(S) /\ Cardinality(S) \in Nat
  BY FS_Interval, FS_CardinalityType
<1>2. \A s \in SUBSET S : /\ IsFiniteSet(s) /\ Cardinality(s) \in Nat
                          /\ Cardinality(s) <= Cardinality(S)
                          /\ s # {} => Max(s) \in s
  <2>1. \A s \in SUBSET S : s # {} => Max(s) \in s
    BY MaxIsLast
  <2> HIDE DEF S
  <2> QED
    BY <1>1, <2>1, FS_Subset, FS_CardinalityType
<1> HIDE DEF S
<1>3. Solved(0)
  <2> DEFINE g == [s \in Upto(S, 0) |-> p]
  <2>1. \A s \in Upto(S, 0) : s = {}
    BY <1>2, FS_EmptySet DEF Upto
  <2>2. \A s \in Upto(S, 0) : TriedIn(g, p, q, s) = p
    BY <2>1 DEF TriedIn
  <2>3. Tries(g, p, q, Upto(S, 0))
    BY <2>2 DEF Tries
  <2> QED
    BY <2>3
<1>4. ASSUME NEW m \in Nat, Solved(m)
      PROVE  Solved(m + 1)
  <2>1. PICK g : Tries(g, p, q, Upto(S, m))
    BY <1>4
  <2> DEFINE h == [s \in Upto(S, m + 1) |-> TriedIn(g, p, q, s)]
  <2>2. \A s \in Upto(S, m + 1) : s # {} => s \ {Max(s)} \in Upto(S, m)
    <3> SUFFICES ASSUME NEW s \in Upto(S, m + 1), s # {}
                 PROVE  s \ {Max(s)} \in Upto(S, m)
      OBVIOUS
    <3>1. /\ Max(s) \in s /\ s \in SUBSET S /\ IsFiniteSet(s)
          /\ Cardinality(s) \in Nat /\ Cardinality(s) <= m + 1
      BY <1>2 DEF Upto
    <3>2. Cardinality(s \ {Max(s)}) = Cardinality(s) - 1
      BY <3>1, FS_RemoveElement
    <3> QED
      BY <3>1, <3>2 DEF Upto
  <2>3. \A s \in Upto(S, m) : s \in Upto(S, m + 1)
    BY <1>2 DEF Upto
  <2>4. \A s \in Upto(S, m) : h[s] = g[s]
    BY <2>1, <2>3 DEF Tries
  <2>5. \A s \in Upto(S, m + 1) : TriedIn(h, p, q, s) = TriedIn(g, p, q, s)
    <3> HIDE DEF h
    <3> SUFFICES ASSUME NEW s \in Upto(S, m + 1)
                 PROVE  TriedIn(h, p, q, s) = TriedIn(g, p, q, s)
      OBVIOUS
    <3>1. CASE s = {}
      BY <3>1 DEF TriedIn
    <3>2. CASE s # {}
      <4>1. h[s \ {Max(s)}] = g[s \ {Max(s)}]
        BY <2>2, <2>4, <3>2
      <4> QED
        BY <3>2, <4>1 DEF TriedIn
    <3> QED
      BY <3>1, <3>2
  <2>6. Tries(h, p, q, Upto(S, m + 1))
    BY <2>5 DEF Tries
  <2> QED
    BY <2>6
<1> DEFINE c == Cardinality(S)
<1>5. Solved(c)
  <2> HIDE DEF Solved, c
  <2>1. 0 \in T
    BY <1>3
  <2>2. \A k \in 1..c : k - 1 \in T => k \in T
    <3> SUFFICES ASSUME NEW k \in 1..c, k - 1 \in T PROVE k \in T
      OBVIOUS
    <3>1. k - 1 \in Nat /\ k \in Nat /\ (k - 1) + 1 = k
      OBVIOUS
    <3> QED
      BY <1>4, <3>1
  <2>3. c \in Nat
    BY <1>1 DEF c
  <2> HIDE DEF T
  <2>4. c \in T
    <3>1. \A k \in 0..c : k \in T
      BY <2>1, <2>2, <2>3, StepsInduction
    <3> QED
      BY <2>3, <3>1
  <2> QED
    BY <2>4 DEF T
<1>6. Upto(S, c) = SUBSET S
  BY <1>2 DEF Upto
<1> QED
  BY <1>5, <1>6 DEF S

(* The fold attempt by attempt.                                                 *)
LEMMA AttemptedInSteps ==
  ASSUME NEW p, NEW q, NEW n \in Nat, DOMAIN q = 1..n
  PROVE  \E st : /\ st[0] = p
                 /\ \A k \in 1..n : st[k] = Attempt(st[k - 1], q[k])
                 /\ st[n] = FoldLeft(Attempt, p, q)
<1> DEFINE g == CHOOSE g : Tries(g, p, q, SUBSET (1..n))
           st == [k \in 0..n |-> g[1..k]]
<1>1. Tries(g, p, q, SUBSET (1..n))
  BY TriesExist, Zenon
<1>2. FoldLeft(Attempt, p, q) = g[1..n]
  BY AttemptIsChosen
<1> HIDE DEF g
<1>3. \A k \in 0..n : 1..k \in SUBSET (1..n)
  OBVIOUS
<1>4. st[0] = p
  <2>1. 1..0 = {} /\ 0 \in 0..n
    OBVIOUS
  <2>2. g[1..0] = TriedIn(g, p, q, 1..0)
    BY <1>1, <1>3, <2>1 DEF Tries
  <2> QED
    BY <2>1, <2>2 DEF TriedIn
<1>5. ASSUME NEW k \in 1..n
      PROVE  st[k] = Attempt(st[k - 1], q[k])
  <2>1. k \in 0..n /\ k - 1 \in 0..n /\ k \in 1..k /\ k \in Nat
    OBVIOUS
  <2>2. Max(1..k) = k
    <3>1. Max(1..k) \in 1..k /\ Max(1..k) >= k
      BY <2>1, MaxIsLast
    <3> QED
      BY <3>1
  <2>3. (1..k) \ {k} = 1..(k - 1)
    OBVIOUS
  <2>4. g[1..k] = TriedIn(g, p, q, 1..k)
    BY <1>1, <1>3, <2>1 DEF Tries
  <2>5. 1..k # {}
    BY <2>1
  <2>6. g[1..k] = Attempt(g[1..(k - 1)], q[k])
    BY <2>2, <2>3, <2>4, <2>5 DEF TriedIn
  <2> QED
    BY <2>1, <2>6
<1>6. st[n] = FoldLeft(Attempt, p, q)
  BY <1>2
<1> HIDE DEF st
<1> QED
  BY <1>4, <1>5, <1>6

(* An attempt that does not throw has settled the trade of the event.       *)
Handled(t, e) == t.ok => (e.type = "TradeExecuted" => MovedIn(t.book.operations, e.deal))

LEMMA FlagAside ==
  ASSUME NEW s, GoodWork(s), NEW k \in BOOLEAN, NEW t, t = [s EXCEPT !.ok = k]
  PROVE  GoodWork(t) /\ Continues(s, t) /\ t.ok = k
<1>1. PICK sb, se, sf, ss, sk :
        s = [book |-> sb, events |-> se, failures |-> sf, settled |-> ss, ok |-> sk]
  BY DEF GoodWork
<1>2. s.book = sb /\ s.events = se /\ s.failures = sf /\ s.settled = ss
  BY <1>1
<1>3. t = [book |-> sb, events |-> se, failures |-> sf, settled |-> ss, ok |-> k]
  BY <1>1, WorkChanges, Zenon
<1>4. GoodParts(sb, se, sf, ss, s.ok)
  BY <1>2 DEF GoodWork
<1>5. GoodParts(sb, se, sf, ss, k)
  BY <1>4 DEF GoodParts
<1>6. GoodWork(t) /\ t.book = sb /\ t.events = se /\ t.ok = k
  BY <1>3, <1>5, WorkIsGood, Zenon
<1>7. Len(se) \in Nat
  BY <1>4 DEF GoodParts
<1> QED
  BY <1>2, <1>6, <1>7 DEF Continues

LEMMA AttemptKeeps ==
  ASSUME NEW s, GoodWork(s), NEW e \in LogEvents, Handled(s, e), NEW t, t = Attempt(s, e)
  PROVE  GoodWork(t) /\ Continues(s, t) /\ Handled(t, e)
<1>1. Len(s.events) \in Nat /\ s.ok \in BOOLEAN
  BY DEF GoodWork, GoodParts
<1>2. CASE s.ok
  <2>1. t = s
    BY <1>2 DEF Attempt
  <2> QED
    BY <1>1, <2>1 DEF Continues
<1>3. CASE ~s.ok
  <2>1. PICK u : u = [s EXCEPT !.ok = TRUE]
    OBVIOUS
  <2>2. TRUE \in BOOLEAN
    OBVIOUS
  <2>3. GoodWork(u) /\ Continues(s, u) /\ u.ok = TRUE
    BY <2>1, <2>2, FlagAside, Zenon
  <2>4. t = HandleEvent(u, e)
    BY <1>3, <2>1, Zenon DEF Attempt
  <2>5. CASE e.type = "TradeExecuted"
    <3>1. t = SettleTrade(u, e.deal) /\ e.deal \in Deals
      BY <2>4, <2>5 DEF HandleEvent, LogEvents
    <3>2. GoodWork(t) /\ Continues(u, t) /\ (t.ok => MovedIn(t.book.operations, e.deal))
      <4>1. u.ok
        BY <2>3
      <4> QED
        BY <2>3, <3>1, <4>1, SettleTradeKeeps
    <3> QED
      BY <2>3, <3>2, ContinuesOn DEF Handled
  <2>6. CASE e.type # "TradeExecuted"
    <3>1. t = u
      BY <2>4, <2>6 DEF HandleEvent
    <3> QED
      BY <2>3, <2>6, <3>1 DEF Handled
  <2> QED
    BY <2>5, <2>6
<1> QED
  BY <1>1, <1>2, <1>3

LEMMA AttemptedKeeps ==
  ASSUME NEW s, GoodWork(s), NEW e \in LogEvents, NEW t, t = Attempted(s, e)
  PROVE  GoodWork(t) /\ Continues(s, t) /\ Handled(t, e)
<1> DEFINE q == [n \in 1..MaxRetries |-> e]
<1>1. PICK p : p = [s EXCEPT !.ok = FALSE]
  OBVIOUS
<1>2. t = FoldLeft(Attempt, p, q)
  BY <1>1, Zenon DEF Attempted
<1>3. GoodWork(p) /\ Continues(s, p) /\ p.ok = FALSE
  <2>1. FALSE \in BOOLEAN
    OBVIOUS
  <2> QED
    BY <1>1, <2>1, FlagAside, Zenon
<1>4. MaxRetries \in Nat
  BY SettlementAssumption
<1>5. DOMAIN q = 1..MaxRetries /\ \A n \in 1..MaxRetries : q[n] = e
  OBVIOUS
<1> HIDE DEF q
<1>6. PICK st : /\ st[0] = p
                /\ \A n \in 1..MaxRetries : st[n] = Attempt(st[n - 1], q[n])
                /\ st[MaxRetries] = FoldLeft(Attempt, p, q)
  BY <1>4, <1>5, AttemptedInSteps
<1> DEFINE Good(n) == GoodWork(st[n]) /\ Continues(s, st[n]) /\ Handled(st[n], e)
           T == {n \in 0..MaxRetries : Good(n)}
<1>7. 0 \in T
  BY <1>3, <1>4, <1>6 DEF Handled
<1>8. \A n \in 1..MaxRetries : n - 1 \in T => n \in T
  <2> SUFFICES ASSUME NEW n \in 1..MaxRetries, n - 1 \in T PROVE n \in T
    OBVIOUS
  <2>1. Good(n - 1) /\ n \in 0..MaxRetries
    BY <1>4
  <2>2. st[n] = Attempt(st[n - 1], e)
    BY <1>5, <1>6
  <2>3. GoodWork(st[n]) /\ Continues(st[n - 1], st[n]) /\ Handled(st[n], e)
    BY <2>1, <2>2, AttemptKeeps
  <2>4. Continues(s, st[n])
    BY <2>1, <2>3, ContinuesOn
  <2> QED
    BY <2>1, <2>3, <2>4
<1>9. MaxRetries \in T
  <2> HIDE DEF T
  <2>1. \A n \in 0..MaxRetries : n \in T
    BY <1>4, <1>7, <1>8, StepsInduction
  <2> QED
    BY <1>4, <2>1
<1> QED
  BY <1>2, <1>6, <1>9

---------------------------------------------------------------------------
(* The inductive invariant: what was poisoned stays so, and an archive says *)
(* of its events what the log says of its own.                              *)
Passed(evts, n, ops, bad) ==
  /\ n \in Nat /\ n <= Len(evts)
  /\ \A i \in 1..n : MovedIn(ops, evts[i].deal) \/ evts[i].deal \in bad

Archived ==
  archive = NoArchive \/
    (/\ archive.events \in Seq(LogEvents)
     /\ Said(archive.events, book.operations)
     /\ Passed(archive.events, archive.offset, book.operations, poisoned))

SettlementLogInv ==
  /\ GoodParts(book, events, failures, settled, TRUE)
  /\ Passed(events, offset, book.operations, poisoned)
  /\ Archived
  /\ feeAccount \in BOOLEAN /\ deadLetters \subseteq Deals /\ poisoned \subseteq Deals

LEMMA PassedStays ==
  ASSUME NEW e \in Seq(LogEvents), NEW f \in Seq(LogEvents), NEW n, NEW o, NEW p, NEW b, NEW c,
         Passed(e, n, o, b), o \subseteq p, b \subseteq c,
         Len(e) <= Len(f), \A i \in 1..Len(e) : f[i] = e[i]
  PROVE  Passed(f, n, p, c)
<1>1. Len(e) \in Nat /\ Len(f) \in Nat
  OBVIOUS
<1>2. n \in Nat /\ n <= Len(f)
  BY <1>1 DEF Passed
<1>3. ASSUME NEW i \in 1..n
      PROVE  MovedIn(p, f[i].deal) \/ f[i].deal \in c
  <2>1. f[i] = e[i] /\ (MovedIn(o, e[i].deal) \/ e[i].deal \in b)
    BY <1>1 DEF Passed
  <2> QED
    BY <2>1, MovedStays
<1> QED
  BY <1>2, <1>3 DEF Passed

LEMMA ArchiveStays ==
  ASSUME Archived, archive' = archive, book.operations \subseteq book'.operations,
         poisoned \subseteq poisoned'
  PROVE  Archived'
<1>1. CASE archive = NoArchive
  BY <1>1 DEF Archived, NoArchive
<1>2. CASE archive # NoArchive
  <2>1. /\ archive.events \in Seq(LogEvents)
        /\ Said(archive.events, book.operations)
        /\ Passed(archive.events, archive.offset, book.operations, poisoned)
    BY <1>2 DEF Archived
  <2>2. Said(archive.events, book'.operations)
    BY <2>1, MovedStays
  <2>3. Passed(archive.events, archive.offset, book'.operations, poisoned')
    <3>1. Len(archive.events) \in Nat
      BY <2>1
    <3> QED
      BY <2>1, <3>1, PassedStays
  <2> QED
    BY <2>1, <2>2, <2>3 DEF Archived
<1> QED
  BY <1>1, <1>2

LEMMA SettlementInitInv ==
  ASSUME SettlementInit
  PROVE  SettlementLogInv
<1> DEFINE row(a) == [s \in Coins |-> [available |-> 0, reserved |-> OpeningFunds(a, s)]]
           bal == [a \in Parties |-> row(a)]
           none == {}
<1>1. \A a \in Parties, s \in Coins : OpeningFunds(a, s) \in Int
  BY SettlementAssumption DEF OpeningFunds, Parties, Coins
<1>2. book.bal = bal /\ book = [bal |-> book.bal, operations |-> {}, postings |-> {}, ok |-> TRUE]
  <2>1. book = [bal |-> [a \in Parties |-> [s \in Coins |->
                  [Ledger!Empty EXCEPT !.reserved = OpeningFunds(a, s)]]],
                operations |-> {}, postings |-> {}, ok |-> TRUE]
    BY Zenon DEF SettlementInit, Parties, Coins, OpeningFunds
  <2>2. \A a, s : [Ledger!Empty EXCEPT !.reserved = OpeningFunds(a, s)] = [available |-> 0, reserved |-> OpeningFunds(a, s)]
    BY DEF Ledger!Empty
  <2>3. [a \in Parties |-> [s \in Coins |-> [Ledger!Empty EXCEPT !.reserved = OpeningFunds(a, s)]]] = bal
    BY <2>2
  <2> HIDE DEF bal
  <2>4. book = [bal |-> bal, operations |-> {}, postings |-> {}, ok |-> TRUE]
    BY <2>1, <2>3, Zenon
  <2> QED
    BY <2>4
<1>3. bal \in [Parties -> [Coins -> Purse]]
  <2>1. \A a \in Parties, s \in Coins : [available |-> 0, reserved |-> OpeningFunds(a, s)] \in Purse
    BY <1>1 DEF Purse
  <2> QED
    BY <2>1
<1>4. \A a \in Parties, s \in Coins :
        bal[a][s].available = 0 /\ bal[a][s].reserved = OpeningFunds(a, s) /\ NetIn({}, a, s) = 0
  BY SumEmpty DEF NetIn
<1> HIDE DEF bal
<1>5. book.operations = {} /\ book.ok = TRUE
  BY <1>2
<1>6. Exact(book)
  <2>1. \A a \in Parties, s \in Coins :
          book.bal[a][s].available + book.bal[a][s].reserved =
            OpeningFunds(a, s) + NetIn(book.operations, a, s)
    BY <1>1, <1>2, <1>4, <1>5
  <2>2. book = [bal |-> book.bal, operations |-> book.operations, postings |-> book.postings, ok |-> book.ok]
    BY <1>2
  <2> QED
    BY <1>2, <1>3, <1>5, <2>1, <2>2 DEF Exact
<1>7. /\ feeAccount = FALSE /\ events = << >> /\ offset = 0 /\ deadLetters = {}
      /\ failures = 0 /\ settled = {} /\ archive = NoArchive /\ poisoned = {}
  BY DEF SettlementInit
<1>8. GoodParts(book, events, failures, settled, TRUE)
  BY <1>5, <1>6, <1>7 DEF GoodParts, Said
<1>9. Passed(events, offset, book.operations, poisoned)
  BY <1>7 DEF Passed
<1>10. Archived /\ feeAccount \in BOOLEAN /\ deadLetters \subseteq Deals /\ poisoned \subseteq Deals
  BY <1>7 DEF Archived
<1> QED
  BY <1>8, <1>9, <1>10 DEF SettlementLogInv

LEMMA AppendTradeKeeps ==
  ASSUME SettlementLogInv, NEW d \in Deals, appendTrade(d)
  PROVE  SettlementLogInv'
<1>1. /\ GoodParts(book, events, failures, settled, TRUE)
      /\ Passed(events, offset, book.operations, poisoned)
      /\ Archived /\ feeAccount \in BOOLEAN /\ deadLetters \subseteq Deals
      /\ poisoned \subseteq Deals
  BY DEF SettlementLogInv
<1>2. /\ UNCHANGED <<book, feeAccount, offset, deadLetters, settled, archive, poisoned>>
      /\ \/ failures >= MaxRetries /\ failures' = failures - MaxRetries /\ events' = events
         \/ failures' = 0 /\ events' = Append(events, Event("TradeExecuted", d))
  BY DEF appendTrade
<1>3. events \in Seq(LogEvents) /\ failures \in Nat /\ Said(events, book.operations)
  BY <1>1 DEF GoodParts
<1>4. failures' \in Nat
  BY <1>2, <1>3, SettlementAssumption
<1>5. Event("TradeExecuted", d) \in LogEvents /\ Event("TradeExecuted", d).type # "SettlementApplied"
  BY DEF LogEvents, Event
<1>6. /\ events' \in Seq(LogEvents) /\ Len(events) <= Len(events')
      /\ \A i \in 1..Len(events) : events'[i] = events[i]
      /\ \A i \in 1..Len(events') : i \in 1..Len(events) \/ events'[i].type # "SettlementApplied"
  <2>1. CASE events' = events
    BY <1>3, <2>1
  <2>2. CASE events' = Append(events, Event("TradeExecuted", d))
    <3>1. \A i \in 1..Len(events') : i \in 1..Len(events) \/ i = Len(events) + 1
      BY <1>3, <1>5, <2>2, AppendProperties
    <3> QED
      BY <1>3, <1>5, <2>2, <3>1, AppendProperties
  <2> QED
    BY <1>2, <2>1, <2>2
<1>7. Said(events', book.operations)
  BY <1>3, <1>6 DEF Said
<1>8. GoodParts(book, events', failures', settled, TRUE)
  BY <1>1, <1>4, <1>6, <1>7 DEF GoodParts
<1>9. Passed(events', offset, book.operations, poisoned)
  BY <1>1, <1>3, <1>6, PassedStays
<1> QED
  BY <1>1, <1>2, <1>8, <1>9, ArchiveStays DEF SettlementLogInv

(* A call that continues the log keeps what holds of both log and archive.  *)
LEMMA BecomesKeeps ==
  ASSUME SettlementLogInv, NEW t, GoodWork(t), Continues(Working, t), Becomes(t),
         UNCHANGED <<feeAccount, archive>>, poisoned \subseteq poisoned',
         deadLetters' \subseteq Deals, poisoned' \subseteq Deals
  PROVE  /\ GoodParts(book', events', failures', settled', TRUE)
         /\ Passed(events', offset, book'.operations, poisoned')
         /\ Archived'
         /\ feeAccount' \in BOOLEAN /\ deadLetters' \subseteq Deals /\ poisoned' \subseteq Deals
         /\ book'.operations = t.book.operations
<1>1. Working.book = book /\ Working.events = events
  BY DEF Working
<1>2. /\ GoodParts(t.book, t.events, t.failures, t.settled, t.ok)
      /\ book' = t.book /\ events' = t.events /\ failures' = t.failures /\ settled' = t.settled
  BY DEF GoodWork, Becomes
<1>3. GoodParts(book', events', failures', settled', TRUE)
  BY <1>2 DEF GoodParts
<1>4. /\ book.operations \subseteq book'.operations /\ Len(events) <= Len(events')
      /\ \A i \in 1..Len(events) : events'[i] = events[i]
  BY <1>1, <1>2 DEF Continues
<1>5. /\ events \in Seq(LogEvents) /\ events' \in Seq(LogEvents)
      /\ Passed(events, offset, book.operations, poisoned) /\ Archived
      /\ feeAccount \in BOOLEAN
  BY <1>3 DEF SettlementLogInv, GoodParts
<1>6. Passed(events', offset, book'.operations, poisoned')
  BY <1>4, <1>5, PassedStays
<1> QED
  BY <1>2, <1>3, <1>4, <1>5, <1>6, ArchiveStays

LEMMA WorkingIsGood ==
  ASSUME SettlementLogInv
  PROVE  GoodWork(Working) /\ Working.ok
<1>1. Working = [book |-> book, events |-> events, failures |-> failures, settled |-> settled, ok |-> TRUE]
  BY DEF Working
<1>2. GoodParts(book, events, failures, settled, TRUE)
  BY DEF SettlementLogInv
<1> QED
  BY <1>1, <1>2, WorkIsGood, Zenon

LEMMA SettleTradeCallKeeps ==
  ASSUME SettlementLogInv, NEW d \in Deals, settleTrade(d)
  PROVE  SettlementLogInv'
<1>1. PICK t : t = SettleTrade(Working, d)
  OBVIOUS
<1>2. GoodWork(t) /\ Continues(Working, t)
  BY <1>1, WorkingIsGood, SettleTradeKeeps
<1>3. Becomes(t) /\ UNCHANGED <<feeAccount, offset, deadLetters, archive, poisoned>>
  BY <1>1 DEF settleTrade
<1>4. deadLetters \subseteq Deals /\ poisoned \subseteq Deals
  BY DEF SettlementLogInv
<1>5. /\ GoodParts(book', events', failures', settled', TRUE)
      /\ Passed(events', offset, book'.operations, poisoned')
      /\ Archived'
      /\ feeAccount' \in BOOLEAN /\ deadLetters' \subseteq Deals /\ poisoned' \subseteq Deals
  BY <1>2, <1>3, <1>4, BecomesKeeps
<1> QED
  BY <1>3, <1>5 DEF SettlementLogInv

LEMMA ConsumeKeeps ==
  ASSUME SettlementLogInv, consume
  PROVE  SettlementLogInv'
<1> DEFINE e == events[offset + 1]
<1>1. PICK t : t = Attempted(Working, e)
  OBVIOUS
<1>2. /\ offset < Len(events) /\ Becomes(t)
      /\ deadLetters' = IF t.ok THEN deadLetters ELSE deadLetters \cup {e.deal}
      /\ poisoned' = IF t.ok THEN poisoned ELSE poisoned \cup {e.deal}
      /\ offset' = offset + 1
      /\ UNCHANGED <<feeAccount, archive>>
  BY <1>1, Zenon DEF consume
<1>3. /\ GoodParts(book, events, failures, settled, TRUE)
      /\ Passed(events, offset, book.operations, poisoned)
      /\ deadLetters \subseteq Deals /\ poisoned \subseteq Deals
  BY DEF SettlementLogInv
<1>4. /\ events \in Seq(LogEvents) /\ offset \in Nat /\ Len(events) \in Nat
      /\ Said(events, book.operations)
  BY <1>3 DEF GoodParts, Passed
<1>5. offset + 1 \in 1..Len(events) /\ e \in LogEvents /\ e.deal \in Deals
  <2>1. offset < Len(events)
    BY DEF consume
  <2>2. offset + 1 \in 1..Len(events)
    BY <1>4, <2>1
  <2>3. e \in LogEvents
    BY <1>4, <2>2
  <2> QED
    BY <2>2, <2>3 DEF LogEvents
<1> HIDE DEF e
<1>6. GoodWork(t) /\ Continues(Working, t) /\ Handled(t, e)
  BY <1>1, <1>5, WorkingIsGood, AttemptedKeeps
<1>7. poisoned \subseteq poisoned' /\ deadLetters' \subseteq Deals /\ poisoned' \subseteq Deals
  BY <1>2, <1>3, <1>5
<1>8. /\ GoodParts(book', events', failures', settled', TRUE)
      /\ Passed(events', offset, book'.operations, poisoned')
      /\ Archived'
      /\ feeAccount' \in BOOLEAN /\ deadLetters' \subseteq Deals /\ poisoned' \subseteq Deals
      /\ book'.operations = t.book.operations
  BY <1>2, <1>6, <1>7, BecomesKeeps
<1>9. events'[offset + 1] = e /\ Len(events) <= Len(events')
  <2>1. Working.events = events /\ events' = t.events
    BY <1>2 DEF Working, Becomes
  <2> QED
    BY <1>5, <1>6, <2>1 DEF Continues, e
<1>10. MovedIn(book'.operations, e.deal) \/ e.deal \in poisoned'
  <2>1. CASE ~t.ok
    BY <1>2, <2>1
  <2>2. CASE t.ok /\ e.type = "TradeExecuted"
    BY <1>6, <1>8, <2>2 DEF Handled
  <2>3. CASE e.type = "SettlementApplied"
    <3>1. MovedIn(book.operations, e.deal)
      BY <1>4, <1>5, <2>3 DEF Said, e
    <3>2. book.operations \subseteq book'.operations
      <4>1. Working.book = book
        BY DEF Working
      <4> QED
        BY <1>6, <1>8, <4>1 DEF Continues
    <3> QED
      BY <3>1, <3>2, MovedStays
  <2> QED
    BY <1>5, <2>1, <2>2, <2>3 DEF LogEvents
<1>11. Passed(events', offset + 1, book'.operations, poisoned')
  <2>1. Len(events') \in Nat
    BY <1>8 DEF GoodParts
  <2>2. offset + 1 \in Nat /\ offset + 1 <= Len(events')
    BY <1>4, <1>5, <1>9, <2>1
  <2>3. \A i \in 1..(offset + 1) : i \in 1..offset \/ i = offset + 1
    BY <1>4
  <2> QED
    BY <1>8, <1>9, <1>10, <2>2, <2>3 DEF Passed
<1> QED
  BY <1>2, <1>8, <1>11 DEF SettlementLogInv

LEMMA LogMovesKeep ==
  ASSUME SettlementLogInv,
         ProvisionFees \/ createArchive \/ restore \/ \E n \in Outages : failNext(n)
  PROVE  SettlementLogInv'
<1>1. /\ GoodParts(book, events, failures, settled, TRUE)
      /\ Passed(events, offset, book.operations, poisoned)
      /\ Archived /\ feeAccount \in BOOLEAN /\ deadLetters \subseteq Deals
      /\ poisoned \subseteq Deals
  BY DEF SettlementLogInv
<1>2. CASE ProvisionFees
  <2>1. /\ UNCHANGED <<book, events, offset, deadLetters, failures, settled, archive, poisoned>>
        /\ feeAccount' \in BOOLEAN
    BY <1>2 DEF ProvisionFees
  <2> QED
    BY <1>1, <2>1, ArchiveStays DEF SettlementLogInv
<1>3. CASE createArchive
  <2>1. /\ UNCHANGED <<book, feeAccount, events, offset, deadLetters, failures, settled, poisoned>>
        /\ archive' = [events |-> events, offset |-> offset]
    BY <1>3 DEF createArchive
  <2>2. archive'.events = events /\ archive'.offset = offset
    BY <2>1
  <2>3. events \in Seq(LogEvents) /\ Said(events, book.operations)
    BY <1>1 DEF GoodParts
  <2>4. Archived'
    BY <1>1, <2>1, <2>2, <2>3 DEF Archived
  <2> QED
    BY <1>1, <2>1, <2>4 DEF SettlementLogInv
<1>4. CASE restore
  <2>1. /\ archive # NoArchive /\ UNCHANGED <<book, feeAccount, archive, poisoned>>
        /\ events' = archive.events /\ offset' = archive.offset
        /\ deadLetters' = {} /\ failures' = 0 /\ settled' = {}
    BY <1>4 DEF restore
  <2>2. /\ archive.events \in Seq(LogEvents)
        /\ Said(archive.events, book.operations)
        /\ Passed(archive.events, archive.offset, book.operations, poisoned)
    BY <1>1, <2>1 DEF Archived
  <2>3. GoodParts(book, archive.events, 0, {}, TRUE)
    BY <1>1, <2>2 DEF GoodParts
  <2> QED
    BY <1>1, <2>1, <2>2, <2>3, ArchiveStays DEF SettlementLogInv
<1>5. CASE \E n \in Outages : failNext(n)
  <2>1. PICK n \in Outages : failNext(n)
    BY <1>5
  <2>2. /\ UNCHANGED <<book, feeAccount, events, offset, deadLetters, settled, archive, poisoned>>
        /\ failures' = n /\ n \in Nat
    BY <2>1, SettlementAssumption DEF failNext
  <2>3. GoodParts(book, events, n, settled, TRUE)
    BY <1>1, <2>2 DEF GoodParts
  <2> QED
    BY <1>1, <2>2, <2>3, ArchiveStays DEF SettlementLogInv
<1> QED
  BY <1>2, <1>3, <1>4, <1>5

LEMMA RetainKeeps ==
  ASSUME SettlementLogInv, NEW n \in 0..MaxEvents, retainLatest(n)
  PROVE  SettlementLogInv'
<1> DEFINE k == Len(events) - n
<1>1. /\ GoodParts(book, events, failures, settled, TRUE)
      /\ Passed(events, offset, book.operations, poisoned)
      /\ Archived /\ feeAccount \in BOOLEAN /\ deadLetters \subseteq Deals
      /\ poisoned \subseteq Deals
  BY DEF SettlementLogInv
<1>2. /\ k > 0 /\ events' = SubSeq(events, k + 1, Len(events))
      /\ offset' = IF k > offset THEN 0 ELSE offset - k
      /\ UNCHANGED <<book, feeAccount, deadLetters, failures, settled, archive, poisoned>>
  BY DEF retainLatest, OffsetAfter
<1>3. /\ events \in Seq(LogEvents) /\ Len(events) \in Nat /\ offset \in Nat
      /\ offset <= Len(events) /\ Said(events, book.operations) /\ n \in Nat
  BY <1>1, SettlementAssumption DEF GoodParts, Passed
<1>4. k \in Nat /\ Len(events) = k + n
  BY <1>2, <1>3
<1> HIDE DEF k
<1>5. /\ events' \in Seq(LogEvents) /\ Len(events') = n
      /\ \A i \in 1..n : events'[i] = events[i + k]
  <2>1. /\ k + 1 \in 1..(Len(events) + 1) /\ Len(events) \in k..Len(events)
        /\ Len(events) - (k + 1) + 1 = n
    BY <1>3, <1>4
  <2> QED
    BY <1>2, <1>3, <1>4, <2>1, SubSeqProperties
<1>6. \A i \in 1..n : i + k \in 1..Len(events)
  BY <1>3, <1>4
<1>7. Said(events', book.operations)
  BY <1>3, <1>5, <1>6 DEF Said
<1>8. GoodParts(book, events', failures, settled, TRUE)
  BY <1>1, <1>5, <1>7 DEF GoodParts
<1>9. Passed(events', offset', book.operations, poisoned)
  <2>1. CASE k > offset
    BY <1>2, <1>3, <1>5, <2>1 DEF Passed
  <2>2. CASE ~(k > offset)
    <3>1. offset' = offset - k /\ offset' \in Nat /\ offset' <= n
      BY <1>2, <1>3, <1>4, <2>2
    <3>2. ASSUME NEW i \in 1..offset'
          PROVE  i \in 1..n /\ i + k \in 1..offset
      BY <1>3, <1>4, <3>1
    <3> QED
      BY <1>1, <1>5, <3>1, <3>2 DEF Passed
  <2> QED
    BY <2>1, <2>2
<1> QED
  BY <1>1, <1>2, <1>8, <1>9, ArchiveStays DEF SettlementLogInv

LEMMA SettlementKeeps ==
  ASSUME SettlementLogInv, [SettlementNext]_settlementVars
  PROVE  SettlementLogInv'
<1>1. CASE UNCHANGED settlementVars
  BY <1>1 DEF settlementVars, SettlementLogInv, Archived
<1>2. CASE SettlementNext
  BY <1>2, AppendTradeKeeps, SettleTradeCallKeeps, ConsumeKeeps, LogMovesKeep, RetainKeeps
     DEF SettlementNext
<1> QED
  BY <1>1, <1>2

(* The invariant holds in every reachable state.                            *)
THEOREM SettlementLogInvariant == SettlementSpec => []SettlementLogInv
<1>1. SettlementInit => SettlementLogInv
  BY SettlementInitInv
<1>2. SettlementLogInv /\ [SettlementNext]_settlementVars => SettlementLogInv'
  BY SettlementKeeps
<1> QED
  BY <1>1, <1>2, PTL DEF SettlementSpec

LEMMA InvGivesSettled ==
  ASSUME SettlementLogInv
  PROVE  ConsumedIsSettled
<1>1. /\ Exact(book) /\ Said(events, book.operations)
      /\ Passed(events, offset, book.operations, poisoned)
  BY DEF SettlementLogInv, GoodParts
<1>2. \A d : TradeMoved(d) <=> MovedIn(book.operations, d)
  BY DEF TradeMoved, MovedIn
<1>3. \A a, s : NetOf(a, s) = NetIn(book.operations, a, s)
  BY Zenon DEF NetOf, NetIn
<1>4. \A a \in Holders \cup {"fees"}, s \in {"base", "quote"} :
       book.bal[a][s].available + book.bal[a][s].reserved =
         (IF a = "fees" THEN 0 ELSE Reserves[a][s]) + NetOf(a, s)
  <2> SUFFICES ASSUME NEW a \in Parties, NEW s \in Coins
               PROVE  book.bal[a][s].available + book.bal[a][s].reserved =
                        OpeningFunds(a, s) + NetOf(a, s)
    BY Zenon DEF Parties, Coins, OpeningFunds
  <2> QED
    BY <1>1, <1>3 DEF Exact
<1>5. offset <= Len(events) /\ \A n \in 1..offset : TradeMoved(events[n].deal) \/ events[n].deal \in poisoned
  BY <1>1, <1>2 DEF Passed
<1>6. \A n \in 1..Len(events) : events[n].type = "SettlementApplied" => TradeMoved(events[n].deal)
  BY <1>1, <1>2 DEF Said
<1> QED
  BY <1>4, <1>5, <1>6, Zenon DEF ConsumedIsSettled

THEOREM ConsumedTradesSettled == SettlementSpec => []ConsumedIsSettled
<1>1. SettlementLogInv => ConsumedIsSettled
  BY InvGivesSettled
<1> QED
  BY <1>1, SettlementLogInvariant, PTL

HIDE ConstantsAssumption

(***************************************************************************)
(* PostgresEventLog.  HandledOnce is inductive by itself, given the types.  *)
(* SkippedOnlyOvertaken is not: a worker acts on an offset it took up in an *)
(* earlier transaction, so the invariant must speak of the offsets in work, *)
(* too, and must know that a row is the only one with its offset.           *)
(***************************************************************************)
(* Rows, committed or not, are told apart by offsets drawn before.          *)
RowsDistinct ==
  /\ \A r, q \in outbox \cup Pending : r.offset = q.offset => r = q
  /\ \A r \in outbox \cup Pending : r.offset <= serial

(* The checkpoint and the offsets in work are offsets of committed rows.    *)
TakenStored ==
  \A o \in TakenUp : o = 0 \/ \E r \in outbox : r.offset = o

(* Every committed row below an offset in work is settled or overtaken.     *)
PassedSettled ==
  \A c \in Consumers : \A r \in outbox :
    r.offset < worker[c].offset => Settled(r.id) \/ r \in overtaken

IInv ==
  /\ EventLogTypeOK
  /\ RowsDistinct
  /\ TakenStored
  /\ PassedSettled
  /\ SkippedOnlyOvertaken
  /\ HandledOnce

----------------------------------------------------------------------------

(* In the initial state nothing is stored or in work.                       *)
LEMMA InitHolds == EventLogInit => IInv
<1> SUFFICES ASSUME EventLogInit PROVE IInv
  OBVIOUS
<1> USE DEF EventLogInit
<1>1. EventLogTypeOK
  BY EventLogAssumption DEF EventLogTypeOK, Ready
<1>2. RowsDistinct
  BY DEF RowsDistinct, Pending
<1>3. TakenStored
  BY DEF TakenStored, TakenUp, Ready
<1>4. PassedSettled /\ SkippedOnlyOvertaken /\ HandledOnce
  BY DEF PassedSettled, SkippedOnlyOvertaken, HandledOnce
<1> QED
  BY <1>1, <1>2, <1>3, <1>4 DEF IInv

(* An insert draws a fresh offset and touches no committed row.             *)
LEMMA InsertHolds ==
  ASSUME IInv, NEW p \in Producers, NEW id \in Ids, Insert(p, id)
  PROVE  IInv'
<1> DEFINE row == [offset |-> serial + 1, id |-> id]
<1>1. /\ EventLogTypeOK /\ RowsDistinct /\ TakenStored /\ PassedSettled
      /\ SkippedOnlyOvertaken /\ HandledOnce
  BY DEF IInv
<1>2. /\ serial \in 0 .. MaxSerial /\ serial < MaxSerial
      /\ serial' = serial + 1
      /\ pending' = [pending EXCEPT ![p] = @ \cup {row}]
      /\ UNCHANGED <<outbox, checkpoint, processed, dead, worker, handled, overtaken>>
  BY <1>1 DEF Insert, EventLogTypeOK
<1>3. row \in Row /\ row.offset = serial + 1
  BY <1>2, EventLogAssumption DEF Row
<1> HIDE DEF row
<1>4. EventLogTypeOK'
  <2>1. pending' \in [Producers -> SUBSET Row]
    BY <1>1, <1>2, <1>3 DEF EventLogTypeOK
  <2>2. serial' \in 0 .. MaxSerial
    BY <1>2, EventLogAssumption
  <2> QED
    BY <1>1, <1>2, <2>1, <2>2 DEF EventLogTypeOK
<1>5. Pending' = Pending \cup {row}
  BY <1>1, <1>2 DEF Pending, EventLogTypeOK
<1>6. RowsDistinct'
  <2>1. \A r \in outbox \cup Pending : r.offset <= serial /\ r.offset \in Nat
    BY <1>1 DEF RowsDistinct, EventLogTypeOK, Pending, Row
  <2> QED
    BY <1>1, <1>2, <1>3, <1>5, <2>1 DEF RowsDistinct
<1>7. TakenStored' /\ PassedSettled' /\ SkippedOnlyOvertaken' /\ HandledOnce'
  BY <1>1, <1>2 DEF TakenStored, TakenUp, PassedSettled, SkippedOnlyOvertaken,
                    HandledOnce, Settled
<1> QED
  BY <1>4, <1>6, <1>7 DEF IInv

(* A commit stores rows; those below an offset taken up are overtaken.      *)
LEMMA CommitHolds ==
  ASSUME IInv, NEW p \in Producers, CommitAppend(p)
  PROVE  IInv'
<1>1. /\ EventLogTypeOK /\ RowsDistinct /\ TakenStored /\ PassedSettled
      /\ SkippedOnlyOvertaken /\ HandledOnce
  BY DEF IInv
<1>2. /\ outbox' = outbox \cup pending[p]
      /\ pending' = [pending EXCEPT ![p] = {}]
      /\ overtaken' = overtaken \cup
           {r \in pending[p] : \E o \in TakenUp : r.offset < o}
      /\ UNCHANGED <<serial, checkpoint, processed, dead, worker, handled>>
  BY DEF CommitAppend
<1>3. pending[p] \subseteq Row /\ pending[p] \subseteq Pending
  BY <1>1 DEF EventLogTypeOK, Pending
<1>4. EventLogTypeOK'
  <2>1. pending' \in [Producers -> SUBSET Row]
    BY <1>1, <1>2 DEF EventLogTypeOK
  <2>2. outbox' \subseteq Row /\ overtaken' \subseteq outbox'
    BY <1>1, <1>2, <1>3 DEF EventLogTypeOK
  <2> QED
    BY <1>1, <1>2, <2>1, <2>2 DEF EventLogTypeOK
<1>5. outbox' \cup Pending' \subseteq outbox \cup Pending
  BY <1>1, <1>2, <1>3 DEF Pending, EventLogTypeOK
<1>6. RowsDistinct'
  BY <1>1, <1>2, <1>5 DEF RowsDistinct
<1>7. TakenStored'
  BY <1>1, <1>2 DEF TakenStored, TakenUp
<1>8. PassedSettled'
  <2> SUFFICES ASSUME NEW c \in Consumers, NEW r \in outbox',
                      r.offset < worker[c].offset
               PROVE  Settled(r.id) \/ r \in overtaken'
    BY <1>2 DEF PassedSettled, Settled
  <2>1. CASE r \in outbox
    BY <1>1, <1>2, <2>1 DEF PassedSettled
  <2>2. CASE r \in pending[p]
    BY <1>2, <2>2 DEF TakenUp
  <2> QED
    BY <1>2, <2>1, <2>2
<1>9. SkippedOnlyOvertaken'
  <2> SUFFICES ASSUME NEW r \in outbox', r.offset <= checkpoint
               PROVE  Settled(r.id) \/ r \in overtaken'
    BY <1>2 DEF SkippedOnlyOvertaken, Settled
  <2>1. CASE r \in outbox
    BY <1>1, <1>2, <2>1 DEF SkippedOnlyOvertaken
  <2>2. CASE r \in pending[p]
    <3>1. r.offset \in 1 .. MaxSerial /\ checkpoint \in Nat /\ checkpoint \in TakenUp
      BY <1>1, <1>3, <2>2 DEF Row, EventLogTypeOK, TakenUp
    <3>2. CASE r.offset < checkpoint
      BY <1>2, <2>2, <3>1, <3>2
    <3>3. CASE r.offset = checkpoint
      <4>1. PICK q \in outbox : q.offset = checkpoint
        BY <1>1, <3>1, <3>3 DEF TakenStored
      <4>2. q = r
        BY <1>1, <1>3, <2>2, <3>3, <4>1 DEF RowsDistinct
      <4> QED
        BY <2>1, <4>1, <4>2
    <3> QED
      BY <3>1, <3>2, <3>3
  <2> QED
    BY <1>2, <2>1, <2>2
<1>10. HandledOnce'
  BY <1>1, <1>2 DEF HandledOnce
<1> QED
  BY <1>4, <1>6, <1>7, <1>8, <1>9, <1>10 DEF IInv

(* A rollback only forgets rows that nobody has seen.                       *)
LEMMA AbortHolds ==
  ASSUME IInv, NEW p \in Producers, AbortAppend(p)
  PROVE  IInv'
<1>1. /\ EventLogTypeOK /\ RowsDistinct /\ TakenStored /\ PassedSettled
      /\ SkippedOnlyOvertaken /\ HandledOnce
  BY DEF IInv
<1>2. /\ pending' = [pending EXCEPT ![p] = {}]
      /\ UNCHANGED <<serial, outbox, checkpoint, processed, dead, worker, handled,
                     overtaken>>
  BY DEF AbortAppend
<1>3. EventLogTypeOK'
  BY <1>1, <1>2 DEF EventLogTypeOK
<1>4. Pending' \subseteq Pending
  BY <1>1, <1>2 DEF Pending, EventLogTypeOK
<1>5. RowsDistinct'
  BY <1>1, <1>2, <1>4 DEF RowsDistinct
<1>6. TakenStored' /\ PassedSettled' /\ SkippedOnlyOvertaken' /\ HandledOnce'
  BY <1>1, <1>2 DEF TakenStored, TakenUp, PassedSettled, SkippedOnlyOvertaken,
                    HandledOnce, Settled
<1> QED
  BY <1>3, <1>5, <1>6 DEF IInv

(* A step that only changes worker c, to an offset it may take up, keeps    *)
(* the invariant: the frame of Poll, Fail, Interrupt, Stop and Start.       *)
LEMMA WorkerStep ==
  ASSUME IInv, NEW c \in Consumers, NEW w,
         w \in [up : BOOLEAN, offset : 0 .. MaxSerial, failures : 0 .. MaxAttempts],
         worker' = [worker EXCEPT ![c] = w],
         w.offset = 0 \/ \E r \in outbox : r.offset = w.offset,
         \A r \in outbox : r.offset < w.offset => Settled(r.id) \/ r \in overtaken,
         UNCHANGED <<serial, pending, outbox, checkpoint, processed, dead,
                     handled, overtaken>>
  PROVE  IInv'
<1>1. /\ EventLogTypeOK /\ RowsDistinct /\ TakenStored /\ PassedSettled
      /\ SkippedOnlyOvertaken /\ HandledOnce
  BY DEF IInv
<1>2. EventLogTypeOK'
  BY <1>1 DEF EventLogTypeOK
<1>3. \A d \in Consumers : worker'[d] = IF d = c THEN w ELSE worker[d]
  BY <1>1 DEF EventLogTypeOK
<1>4. TakenStored'
  BY <1>1, <1>3 DEF TakenStored, TakenUp
<1>5. PassedSettled'
  BY <1>1, <1>3 DEF PassedSettled, Settled
<1>6. RowsDistinct' /\ SkippedOnlyOvertaken' /\ HandledOnce'
  BY <1>1 DEF RowsDistinct, Pending, SkippedOnlyOvertaken, Settled, HandledOnce
<1> QED
  BY <1>2, <1>4, <1>5, <1>6 DEF IInv

(* nextOffset takes the least offset above the checkpoint: what is below it *)
(* is at or below the checkpoint.                                           *)
LEMMA PollHolds ==
  ASSUME IInv, NEW c \in Consumers, Poll(c)
  PROVE  IInv'
<1>1. EventLogTypeOK /\ SkippedOnlyOvertaken
  BY DEF IInv
<1>2. PICK o \in Backlog :
        /\ \A other \in Backlog : o <= other
        /\ worker' = [worker EXCEPT ![c] = [up |-> TRUE, offset |-> o, failures |-> 0]]
  BY DEF Poll
<1> DEFINE w == [up |-> TRUE, offset |-> o, failures |-> 0]
<1>3. PICK q \in outbox : q.offset = o
  BY DEF Backlog
<1>4. o \in 1 .. MaxSerial /\ checkpoint \in 0 .. MaxSerial
  BY <1>1, <1>3 DEF EventLogTypeOK, Row
<1>5. w \in [up : BOOLEAN, offset : 0 .. MaxSerial, failures : 0 .. MaxAttempts]
  BY <1>4, EventLogAssumption
<1>6. ASSUME NEW r \in outbox, r.offset < o
      PROVE  Settled(r.id) \/ r \in overtaken
  <2>1. r.offset \in 1 .. MaxSerial
    BY <1>1 DEF EventLogTypeOK, Row
  <2>2. r.offset \notin Backlog
    BY <1>2, <1>4, <1>6, <2>1
  <2>3. r.offset <= checkpoint
    BY <1>4, <2>1, <2>2 DEF Backlog
  <2> QED
    BY <1>1, <2>3 DEF SkippedOnlyOvertaken
<1>7. w.offset = o
  OBVIOUS
<1> HIDE DEF w
<1> QED
  BY <1>2, <1>3, <1>5, <1>6, <1>7, WorkerStep DEF Poll, w

(* A failed attempt leaves the worker on its offset.                        *)
LEMMA FailHolds ==
  ASSUME IInv, NEW c \in Consumers, Fail(c)
  PROVE  IInv'
<1> DEFINE w == [up |-> TRUE, offset |-> worker[c].offset,
                 failures |-> worker[c].failures + 1]
<1>1. EventLogTypeOK /\ TakenStored /\ PassedSettled
  BY DEF IInv
<1>2. worker[c] \in [up : BOOLEAN, offset : 0 .. MaxSerial, failures : 0 .. MaxAttempts]
  BY <1>1 DEF EventLogTypeOK
<1>3. /\ w \in [up : BOOLEAN, offset : 0 .. MaxSerial, failures : 0 .. MaxAttempts]
      /\ w.offset = worker[c].offset
  BY <1>2, EventLogAssumption DEF Fail
<1>4. worker' = [worker EXCEPT ![c] = w]
  BY DEF Fail
<1> HIDE DEF w
<1>5. w.offset = 0 \/ \E r \in outbox : r.offset = w.offset
  BY <1>1, <1>3 DEF TakenStored, TakenUp
<1>6. \A r \in outbox : r.offset < w.offset => Settled(r.id) \/ r \in overtaken
  BY <1>1, <1>3 DEF PassedSettled
<1>7. UNCHANGED <<serial, pending, outbox, checkpoint, processed, dead, handled,
                  overtaken>>
  BY DEF Fail
<1> QED
  BY <1>3, <1>4, <1>5, <1>6, <1>7, WorkerStep

(* An interrupt, a stop and a start leave the worker without an offset.     *)
LEMMA ResetHolds ==
  ASSUME IInv, NEW c \in Consumers, Interrupt(c) \/ Stop(c) \/ Start(c)
  PROVE  IInv'
<1>1. \/ worker' = [worker EXCEPT ![c] = Ready]
      \/ worker' = [worker EXCEPT ![c] = Down]
  BY DEF Interrupt, Stop, Start
<1>2. \A w \in {Ready, Down} :
        /\ w \in [up : BOOLEAN, offset : 0 .. MaxSerial, failures : 0 .. MaxAttempts]
        /\ w.offset = 0
  <2>1. 0 \in 0 .. MaxSerial /\ 0 \in 0 .. MaxAttempts
    BY EventLogAssumption
  <2>2. /\ Ready \in [up : BOOLEAN, offset : 0 .. MaxSerial, failures : 0 .. MaxAttempts]
        /\ Ready.offset = 0
    BY <2>1 DEF Ready
  <2>3. /\ Down \in [up : BOOLEAN, offset : 0 .. MaxSerial, failures : 0 .. MaxAttempts]
        /\ Down.offset = 0
    BY <2>1 DEF Down
  <2> QED
    BY <2>2, <2>3
<1>3. \A r \in outbox : ~(r.offset < 0)
  BY DEF IInv, EventLogTypeOK, Row
<1>4. UNCHANGED <<serial, pending, outbox, checkpoint, processed, dead, handled,
                  overtaken>>
  BY DEF Interrupt, Stop, Start
<1>5. CASE worker' = [worker EXCEPT ![c] = Ready]
  BY <1>2, <1>3, <1>4, <1>5, WorkerStep
<1>6. CASE worker' = [worker EXCEPT ![c] = Down]
  BY <1>2, <1>3, <1>4, <1>6, WorkerStep
<1> QED
  BY <1>1, <1>5, <1>6

(* The transaction that settles the row in work, by handling it or by       *)
(* quarantining it, and advances the checkpoint: every row up to the new    *)
(* checkpoint is settled or overtaken.                                      *)
LEMMA SettleStep ==
  ASSUME IInv, NEW c \in Consumers, NEW r \in outbox,
         r.offset = worker[c].offset,
         checkpoint' = Advance(r.offset),
         worker' = [worker EXCEPT ![c] = Ready],
         processed \subseteq processed', dead \subseteq dead',
         processed' \cup dead' \subseteq processed \cup dead \cup {r.id},
         Settled(r.id)',
         UNCHANGED <<serial, pending, outbox, overtaken>>
  PROVE  /\ checkpoint' \in 0 .. MaxSerial
         /\ RowsDistinct' /\ TakenStored' /\ PassedSettled'
         /\ SkippedOnlyOvertaken'
<1>1. EventLogTypeOK /\ RowsDistinct /\ TakenStored /\ PassedSettled /\ SkippedOnlyOvertaken
  BY DEF IInv
<1>2. /\ r.offset \in 1 .. MaxSerial /\ checkpoint \in 0 .. MaxSerial
      /\ \A q \in outbox : q.offset \in 1 .. MaxSerial
  BY <1>1 DEF EventLogTypeOK, Row
<1>3. /\ checkpoint' \in {checkpoint, r.offset}
      /\ checkpoint' \in 0 .. MaxSerial
  BY <1>2 DEF Advance
<1>4. \A d \in Consumers : worker'[d] = IF d = c THEN Ready ELSE worker[d]
  BY <1>1 DEF EventLogTypeOK
<1>5. RowsDistinct'
  BY <1>1 DEF RowsDistinct, Pending
<1>6. TakenStored'
  <2> SUFFICES ASSUME NEW o \in TakenUp'
               PROVE  o = 0 \/ \E q \in outbox : q.offset = o
    BY DEF TakenStored
  <2>1. CASE o = checkpoint'
    BY <1>1, <1>3, <2>1 DEF TakenStored, TakenUp
  <2>2. CASE \E d \in Consumers : o = worker'[d].offset
    <3>1. PICK d \in Consumers : o = worker'[d].offset
      BY <2>2
    <3>2. CASE d = c
      BY <1>4, <3>1, <3>2 DEF Ready
    <3>3. CASE d # c
      BY <1>1, <1>4, <3>1, <3>3, ZenonT(60) DEF TakenStored, TakenUp
    <3> QED
      BY <3>2, <3>3
  <2> QED
    BY <2>1, <2>2 DEF TakenUp
<1>7. \A id : Settled(id) => Settled(id)'
  BY DEF Settled
<1>8. PassedSettled'
  BY <1>1, <1>2, <1>4, <1>7 DEF PassedSettled, Ready
<1>9. SkippedOnlyOvertaken'
  <2> SUFFICES ASSUME NEW q \in outbox, q.offset <= checkpoint'
               PROVE  Settled(q.id)' \/ q \in overtaken
    BY DEF SkippedOnlyOvertaken
  <2>1. CASE q.offset <= checkpoint
    BY <1>1, <1>7, <2>1 DEF SkippedOnlyOvertaken
  <2>2. CASE q.offset < r.offset
    BY <1>1, <1>7, <2>2 DEF PassedSettled
  <2>3. CASE q.offset = r.offset
    BY <1>1, <2>3 DEF RowsDistinct
  <2> QED
    BY <1>2, <1>3, <2>1, <2>2, <2>3
<1> QED
  BY <1>3, <1>5, <1>6, <1>8, <1>9

(* process: the handler runs exactly when the event was not processed.      *)
LEMMA ProcessHolds ==
  ASSUME IInv, NEW c \in Consumers, Process(c)
  PROVE  IInv'
<1>1. EventLogTypeOK /\ HandledOnce
  BY DEF IInv
<1>2. PICK r \in outbox :
        /\ r.offset = worker[c].offset
        /\ processed' = processed \cup {r.id}
        /\ handled' = IF Handle(r.id)
                      THEN [handled EXCEPT ![r.id] = @ + 1] ELSE handled
        /\ checkpoint' = Advance(r.offset)
  BY DEF Process
<1>3. /\ worker' = [worker EXCEPT ![c] = Ready]
      /\ UNCHANGED <<serial, pending, outbox, dead, overtaken>>
  BY DEF Process
<1>4. r.id \in Ids
  BY <1>1 DEF EventLogTypeOK, Row
<1>5. /\ checkpoint' \in 0 .. MaxSerial
      /\ RowsDistinct' /\ TakenStored' /\ PassedSettled'
      /\ SkippedOnlyOvertaken'
  BY <1>2, <1>3, SettleStep DEF Settled
<1>6. handled' \in [Ids -> Nat]
  BY <1>1, <1>2, <1>4 DEF EventLogTypeOK
<1>7. HandledOnce'
  BY <1>1, <1>2, <1>4 DEF HandledOnce, Handle, EventLogTypeOK
<1>8. Ready \in [up : BOOLEAN, offset : 0 .. MaxSerial, failures : 0 .. MaxAttempts]
  BY EventLogAssumption DEF Ready
<1>9. EventLogTypeOK'
  BY <1>1, <1>2, <1>3, <1>4, <1>5, <1>6, <1>8 DEF EventLogTypeOK
<1> QED
  BY <1>5, <1>7, <1>9 DEF IInv

(* quarantine settles the row without running its handler.                  *)
LEMMA QuarantineHolds ==
  ASSUME IInv, NEW c \in Consumers, Quarantine(c)
  PROVE  IInv'
<1>1. EventLogTypeOK /\ HandledOnce
  BY DEF IInv
<1>2. PICK r \in outbox :
        /\ r.offset = worker[c].offset
        /\ dead' = dead \cup {r.id}
        /\ checkpoint' = Advance(r.offset)
  BY DEF Quarantine
<1>3. /\ worker' = [worker EXCEPT ![c] = Ready]
      /\ UNCHANGED <<serial, pending, outbox, processed, handled, overtaken>>
  BY DEF Quarantine
<1>4. r.id \in Ids
  BY <1>1 DEF EventLogTypeOK, Row
<1>5. /\ checkpoint' \in 0 .. MaxSerial
      /\ RowsDistinct' /\ TakenStored' /\ PassedSettled'
      /\ SkippedOnlyOvertaken'
  BY <1>2, <1>3, SettleStep DEF Settled
<1>6. HandledOnce'
  BY <1>1, <1>3 DEF HandledOnce
<1>7. Ready \in [up : BOOLEAN, offset : 0 .. MaxSerial, failures : 0 .. MaxAttempts]
  BY EventLogAssumption DEF Ready
<1>8. EventLogTypeOK'
  BY <1>1, <1>2, <1>3, <1>4, <1>5, <1>7 DEF EventLogTypeOK
<1> QED
  BY <1>5, <1>6, <1>8 DEF IInv

(* An append of a stored id only draws an offset.                           *)
LEMMA AppendAgainHolds ==
  ASSUME IInv, NEW p \in Producers, NEW e \in Events, AppendAgain(p, e)
  PROVE  IInv'
<1>1. /\ EventLogTypeOK /\ RowsDistinct /\ TakenStored /\ PassedSettled
      /\ SkippedOnlyOvertaken /\ HandledOnce
  BY DEF IInv
<1>2. /\ serial \in 0 .. MaxSerial /\ serial < MaxSerial /\ serial' = serial + 1
      /\ UNCHANGED <<pending, outbox, checkpoint, processed, dead, worker, handled,
                     overtaken>>
  BY <1>1 DEF AppendAgain, EventLogTypeOK
<1>3. EventLogTypeOK'
  <2>1. serial' \in 0 .. MaxSerial
    BY <1>2, EventLogAssumption
  <2> QED
    BY <1>1, <1>2, <2>1 DEF EventLogTypeOK
<1>4. RowsDistinct'
  <2>1. \A r \in outbox \cup Pending : r.offset <= serial /\ r.offset \in Nat
    BY <1>1 DEF RowsDistinct, EventLogTypeOK, Pending, Row
  <2>2. Pending' = Pending
    BY <1>2 DEF Pending
  <2> QED
    BY <1>1, <1>2, <2>1, <2>2 DEF RowsDistinct
<1>5. TakenStored' /\ PassedSettled' /\ SkippedOnlyOvertaken' /\ HandledOnce'
  BY <1>1, <1>2 DEF TakenStored, TakenUp, PassedSettled, SkippedOnlyOvertaken,
                    HandledOnce, Settled
<1> QED
  BY <1>3, <1>4, <1>5 DEF IInv

(* A step that changes nothing keeps the invariant.                         *)
LEMMA StutterHolds ==
  ASSUME IInv, UNCHANGED eventLogVars
  PROVE  IInv'
<1> USE DEF eventLogVars
<1>1. EventLogTypeOK' /\ RowsDistinct'
  BY DEF IInv, EventLogTypeOK, RowsDistinct, Pending
<1>2. TakenStored' /\ PassedSettled' /\ SkippedOnlyOvertaken' /\ HandledOnce'
  BY DEF IInv, TakenStored, TakenUp, PassedSettled, SkippedOnlyOvertaken,
         HandledOnce, Settled
<1> QED
  BY <1>1, <1>2 DEF IInv

(* The invariant is inductive: one step per action.                         *)
LEMMA NextHolds == IInv /\ [EventLogNext]_eventLogVars => IInv'
<1> SUFFICES ASSUME IInv, [EventLogNext]_eventLogVars
             PROVE  IInv'
  OBVIOUS
<1>1. ASSUME NEW p \in Producers, NEW e \in Events, AppendNew(p, e)
      PROVE  IInv'
  <2>1. <<e, 0>> \in Ids
    BY EventLogAssumption DEF Ids
  <2> QED
    BY <1>1, <2>1, InsertHolds DEF AppendNew
<1>2. ASSUME NEW p \in Producers, NEW e \in Events, AppendAgain(p, e)
      PROVE  IInv'
  BY <1>2, AppendAgainHolds
<1>3. ASSUME NEW p \in Producers, NEW id \in Ids, Replay(p, id)
      PROVE  IInv'
  <2>1. id[2] < MaxReplays /\ Insert(p, ReplayOf(id))
    BY <1>3 DEF Replay
  <2>2. ReplayOf(id) \in Ids
    BY <2>1, EventLogAssumption DEF Ids, ReplayOf
  <2> QED
    BY <2>1, <2>2, InsertHolds
<1>4. ASSUME NEW p \in Producers, CommitAppend(p) \/ AbortAppend(p)
      PROVE  IInv'
  BY <1>4, CommitHolds, AbortHolds
<1>5. ASSUME NEW c \in Consumers, Work(c)
      PROVE  IInv'
  BY <1>5, ResetHolds, PollHolds, ProcessHolds, FailHolds, QuarantineHolds DEF Work
<1>6. ASSUME NEW c \in Consumers, Interrupt(c) \/ Stop(c)
      PROVE  IInv'
  BY <1>6, ResetHolds
<1>7. CASE UNCHANGED eventLogVars
  BY <1>7, StutterHolds
<1> QED
  BY <1>1, <1>2, <1>3, <1>4, <1>5, <1>6, <1>7 DEF EventLogNext

(* Every reachable state satisfies the invariant.                           *)
LEMMA Invariance == EventLogSpec => []IInv
BY InitHolds, NextHolds, PTL DEF EventLogSpec

----------------------------------------------------------------------------

(* The tables, open transactions and workers keep their types.              *)
THEOREM EventLogTypeCorrect == EventLogSpec => []EventLogTypeOK
<1>1. IInv => EventLogTypeOK
  BY DEF IInv
<1> QED
  BY <1>1, Invariance, PTL

(* For any number of workers and any schedule of failures and stops, the    *)
(* handler's effect of one event id is committed at most once (process:     *)
(* the handler and the insert into processed_events are one transaction).   *)
THEOREM EffectsOnce == EventLogSpec => []HandledOnce
<1>1. IInv => HandledOnce
  BY DEF IInv
<1> QED
  BY <1>1, Invariance, PTL

(* No crash, failure, poison event or second worker leaves a committed      *)
(* event behind the checkpoint unsettled: only the order of commits does.   *)
THEOREM NothingElseSkipped == EventLogSpec => []SkippedOnlyOvertaken
<1>1. IInv => SkippedOnlyOvertaken
  BY DEF IInv
<1> QED
  BY <1>1, Invariance, PTL

(* No worker moves the checkpoint back, however old the offset it finishes. *)
THEOREM CheckpointMonotone == EventLogSpec => CheckpointNeverFalls
<1>1. ASSUME IInv, [EventLogNext]_eventLogVars
      PROVE  [checkpoint' >= checkpoint]_eventLogVars
  <2>1. /\ checkpoint \in Nat
        /\ \A r \in outbox : r.offset \in Nat
    BY <1>1 DEF IInv, EventLogTypeOK, Row
  <2>2. ASSUME NEW c \in Consumers, Process(c) \/ Quarantine(c)
        PROVE  checkpoint' >= checkpoint
    <3>1. PICK r \in outbox : checkpoint' = Advance(r.offset)
      BY <2>2 DEF Process, Quarantine
    <3> QED
      BY <2>1, <3>1 DEF Advance
  <2>3. CASE UNCHANGED checkpoint
    BY <2>1, <2>3
  <2>4. CASE UNCHANGED eventLogVars
    BY <2>4
  <2> QED
    BY <1>1, <2>2, <2>3, <2>4
       DEF EventLogNext, AppendNew, AppendAgain, Replay, Insert, CommitAppend, AbortAppend, Work, Start,
           Poll, Fail, Interrupt, Stop
<1> QED
  BY <1>1, Invariance, PTL DEF EventLogSpec, CheckpointNeverFalls

(***************************************************************************)
(* PostgresLedger.  Each money operation records one new operation, moves   *)
(* every balance row by what that operation posts to it, and moves the      *)
(* reservations by what it posts to the reserved column (Posts); the two    *)
(* sums of the invariant then follow from the lemmas on sums.               *)
(***************************************************************************)
ReservedSum(rows, k) == SumFunctionOnSet(RemainingFor(rows, k), 1..Len(rows))

(* The step records operation o as id.                                      *)
Records(id, o) ==
  /\ Fresh(id)
  /\ operations' = [operations EXCEPT ![id] = o]

(* The step moves every balance row by what o posts to it, and no column    *)
(* falls below zero.                                                        *)
MovesBalances(o) ==
  /\ DOMAIN balances' = DOMAIN balances
  /\ \A k \in DOMAIN balances :
       /\ balances'[k] \in BalanceRow
       /\ balances'[k].available = balances[k].available + PostedAvailable(o, k)
       /\ balances'[k].reserved = balances[k].reserved + PostedReserved(o, k)

(* The step moves the reservations by what o posts to the reserved columns. *)
MovesReservations(o) ==
  /\ reservations' \in Seq(ReservationRow)
  /\ \A i \in 1..Len(reservations') :
       Opened(reservations'[i].account, reservations'[i].asset)
  /\ \A k \in DOMAIN balances :
       ReservedSum(reservations', k)
         = ReservedSum(reservations, k) + PostedReserved(o, k)

(* A mutation names one account and the system, a transfer two accounts.    *)
SidesNamed(o) ==
  /\ o.type \in {"CREDIT", "RELEASE"} => o.debit = System /\ o.credit \in Accounts
  /\ o.type \in {"DEBIT", "RESERVE"} => o.debit \in Accounts /\ o.credit = System
  /\ o.type \in TransferTypes => o.debit \in Accounts /\ o.credit \in Accounts

NamesOpened(o) ==
  \A a \in {o.debit, o.credit} : a \in Accounts => Opened(a, o.asset)

Posts(id, o) ==
  /\ o \in OperationRow
  /\ NamesOpened(o)
  /\ SidesNamed(o)
  /\ Records(id, o)
  /\ MovesBalances(o)
  /\ MovesReservations(o)

---------------------------------------------------------------------------
(* Amounts are positive, operations are rows.                               *)
LEMMA ConstantFacts ==
  /\ \A n \in Amounts : n \in Nat /\ n > 0
  /\ System \notin Accounts
  /\ NoOp \notin OperationRow
  BY LedgerConstants

(* What an operation posts is an integer.                                   *)
LEMMA PostedTyped ==
  ASSUME NEW o \in OperationRow, NEW k
  PROVE  PostedAvailable(o, k) \in Int /\ PostedReserved(o, k) \in Int
<1>1. o.amount \in Int
  BY ConstantFacts DEF OperationRow
<1> QED
  BY <1>1 DEF PostedAvailable, PostedReserved, AmountIf

(* A balance row is named by its account and asset.                         *)
LEMMA RowNames ==
  ASSUME LedgerTypeOK, NEW k \in DOMAIN balances
  PROVE  /\ k[1] \in Accounts /\ k[2] \in Assets
         /\ k = <<k[1], k[2]>>
         /\ k[1] # System
         /\ balances[k] \in BalanceRow
         /\ balances[k].available \in Nat /\ balances[k].reserved \in Nat
  BY ConstantFacts DEF LedgerTypeOK, BalanceRow

(* The reservations of one balance row can be summed.                       *)
LEMMA RemainingTyped ==
  ASSUME NEW rows \in Seq(ReservationRow), NEW k
  PROVE  /\ IsFiniteSet(1..Len(rows))
         /\ \A i \in 1..Len(rows) : RemainingFor(rows, k)[i] \in Int
         /\ ReservedSum(rows, k) \in Int
<1>1. IsFiniteSet(1..Len(rows))
  BY FS_Interval
<1>2. \A i \in 1..Len(rows) : rows[i] \in ReservationRow
  OBVIOUS
<1>3. \A i \in 1..Len(rows) : RemainingFor(rows, k)[i] \in Int
  BY <1>2 DEF RemainingFor, ReservationRow
<1> QED
  BY <1>1, <1>3, SumTyped DEF ReservedSum

(* A reservation more adds what remains of it.                              *)
LEMMA ReservationAdds ==
  ASSUME NEW rows \in Seq(ReservationRow), NEW row \in ReservationRow, NEW k
  PROVE  ReservedSum(Append(rows, row), k)
           = ReservedSum(rows, k)
             + (IF <<row.account, row.asset>> = k THEN row.remaining ELSE 0)
<1> DEFINE n == Len(rows)
           more == Append(rows, row)
           f == RemainingFor(rows, k)
           h == RemainingFor(more, k)
<1>1. /\ n \in Nat /\ Len(more) = n + 1
      /\ 1..(n + 1) = (1..n) \cup {n + 1} /\ n + 1 \notin 1..n
      /\ \A i \in 1..n : more[i] = rows[i]
      /\ more[n + 1] = row
      /\ more \in Seq(ReservationRow)
  OBVIOUS
<1>2. /\ IsFiniteSet(1..n)
      /\ \A i \in 1..n : f[i] \in Int
      /\ \A i \in 1..(n + 1) : h[i] \in Int
  BY <1>1, RemainingTyped
<1>3. \A i \in 1..n : h[i] = f[i]
  BY <1>1 DEF RemainingFor
<1>4. h[n + 1] = IF <<row.account, row.asset>> = k THEN row.remaining ELSE 0
  BY <1>1 DEF RemainingFor
<1> HIDE DEF n, more, f, h
<1>5. n + 1 \in 1..(n + 1)
  BY <1>1
<1>6. SumFunctionOnSet(h, 1..(n + 1)) = SumFunctionOnSet(f, 1..n) + h[n + 1]
  BY <1>1, <1>2, <1>3, <1>5, SumGrows
<1> QED
  BY <1>1, <1>4, <1>6 DEF ReservedSum, n, more, f, h

(* Reservation i of rows reduced by n.                                      *)
Reduced(rows, less, i, n) ==
  /\ less \in Seq(ReservationRow)
  /\ Len(less) = Len(rows)
  /\ \A j \in 1..Len(rows) :
       /\ less[j].account = rows[j].account
       /\ less[j].asset = rows[j].asset
       /\ less[j].remaining = rows[j].remaining - (IF j = i THEN n ELSE 0)

(* Taking n off one reservation row reduces that row by n and leaves the    *)
(* others.                                                                  *)
LEMMA RowReduced ==
  ASSUME NEW rows \in Seq(ReservationRow), NEW i \in 1..Len(rows),
         NEW n \in Nat, rows[i].remaining >= n
  PROVE  Reduced(rows, [rows EXCEPT ![i].remaining = @ - n], i, n)
<1> DEFINE less == [rows EXCEPT ![i].remaining = @ - n]
           T == 1..Len(rows)
<1>1. \A j \in T : rows[j] \in ReservationRow /\ rows[j].remaining \in Nat
  <2>1. \A j \in T : rows[j] \in ReservationRow
    OBVIOUS
  <2> QED
    BY <2>1 DEF ReservationRow
<1>2. /\ Len(less) = Len(rows)
      /\ \A j \in T : j # i => less[j] = rows[j]
      /\ less[i] = [rows[i] EXCEPT !.remaining = @ - n]
  OBVIOUS
<1>3. /\ less[i].account = rows[i].account /\ less[i].asset = rows[i].asset
      /\ less[i].remaining = rows[i].remaining - n
      /\ less[i] \in ReservationRow
  <2>1. rows[i].remaining - n \in Nat
    BY <1>1
  <2> QED
    BY <1>1, <1>2, <2>1, ZenonT(60) DEF ReservationRow
<1>4. less \in Seq(ReservationRow)
  <2>1. \A j \in T : less[j] \in ReservationRow
    BY <1>1, <1>2, <1>3
  <2>2. less \in [T -> ReservationRow]
    BY <2>1
  <2>3. Len(rows) \in Nat
    OBVIOUS
  <2> HIDE DEF less
  <2> QED
    BY <2>2, <2>3
<1> HIDE DEF less
<1>5. ASSUME NEW j \in T
      PROVE  less[j].remaining
               = rows[j].remaining - (IF j = i THEN n ELSE 0)
  <2>1. CASE j = i
    BY <1>3, <2>1
  <2>2. CASE j # i
    BY <1>1, <1>2, <2>2
  <2> QED
    BY <2>1, <2>2
<1>6. \A j \in T : /\ less[j].account = rows[j].account
                   /\ less[j].asset = rows[j].asset
  BY <1>2, <1>3
<1> QED
  BY <1>2, <1>4, <1>5, <1>6 DEF Reduced, less

(* A reservation reduced takes as much from its row's sum.                  *)
LEMMA ReservationReduces ==
  ASSUME NEW rows \in Seq(ReservationRow), NEW i \in 1..Len(rows),
         NEW n \in Nat, NEW less, Reduced(rows, less, i, n), NEW k
  PROVE  ReservedSum(less, k)
           = ReservedSum(rows, k)
             - (IF <<rows[i].account, rows[i].asset>> = k THEN n ELSE 0)
<1> DEFINE f == RemainingFor(rows, k)
           h == RemainingFor(less, k)
           T == 1..Len(rows)
<1>1. \A j \in T : rows[j].remaining \in Nat
  <2>1. \A j \in T : rows[j] \in ReservationRow
    OBVIOUS
  <2> QED
    BY <2>1 DEF ReservationRow
<1>2. less \in Seq(ReservationRow) /\ Len(less) = Len(rows)
  BY DEF Reduced
<1>3. /\ IsFiniteSet(T)
      /\ \A j \in T : f[j] \in Int /\ h[j] \in Int
  BY <1>2, RemainingTyped
<1>4. \A j \in T \ {i} : f[j] = h[j]
  BY <1>1, <1>2 DEF RemainingFor, Reduced
<1>5. h[i] - f[i] = -(IF <<rows[i].account, rows[i].asset>> = k THEN n ELSE 0)
  <2>1. f[i] = IF <<rows[i].account, rows[i].asset>> = k
               THEN rows[i].remaining ELSE 0
    BY DEF RemainingFor
  <2>2. h[i] = IF <<rows[i].account, rows[i].asset>> = k
               THEN rows[i].remaining - n ELSE 0
    BY <1>2 DEF RemainingFor, Reduced
  <2> HIDE DEF f, h
  <2> QED
    BY <1>1, <2>1, <2>2
<1>6. ReservedSum(rows, k) \in Int
  BY RemainingTyped
<1>7. i \in T
  OBVIOUS
<1> HIDE DEF f, h, T
<1>8. SumFunctionOnSet(h, T) = SumFunctionOnSet(f, T) + (h[i] - f[i])
  BY <1>3, <1>4, <1>7, SumChanges, ZenonT(60)
<1>9. /\ ReservedSum(less, k) = SumFunctionOnSet(h, T)
      /\ ReservedSum(rows, k) = SumFunctionOnSet(f, T)
  BY <1>2 DEF ReservedSum, f, h, T
<1> QED
  BY <1>5, <1>6, <1>8, <1>9

(* Reducing the oldest reservation that covers the amount.                  *)
LEMMA TakeMoves ==
  ASSUME LedgerTypeOK, ReservationsOpened, NEW a, NEW s, NEW n \in Nat,
         TakeReservation(a, s, n)
  PROVE  /\ reservations' \in Seq(ReservationRow)
         /\ \A i \in 1..Len(reservations') :
              Opened(reservations'[i].account, reservations'[i].asset)
         /\ \A k : ReservedSum(reservations', k)
                     = ReservedSum(reservations, k)
                       - (IF <<a, s>> = k THEN n ELSE 0)
<1>1. PICK i \in 1..Len(reservations) :
        /\ reservations[i].account = a /\ reservations[i].asset = s
        /\ reservations[i].remaining >= n
        /\ reservations' = [reservations EXCEPT ![i].remaining = @ - n]
  BY DEF TakeReservation
<1>2. reservations \in Seq(ReservationRow)
  BY DEF LedgerTypeOK
<1>3. Reduced(reservations, reservations', i, n)
  BY <1>1, <1>2, RowReduced
<1>4. \A k : ReservedSum(reservations', k)
               = ReservedSum(reservations, k)
                 - (IF <<reservations[i].account, reservations[i].asset>> = k
                    THEN n ELSE 0)
  BY <1>2, <1>3, ReservationReduces
<1>5. <<reservations[i].account, reservations[i].asset>> = <<a, s>>
  BY <1>1
<1> QED
  BY <1>3, <1>4, <1>5 DEF ReservationsOpened, Reduced

(* Moving one balance row.                                                  *)
LEMMA MovedRow ==
  ASSUME NEW b, \A k \in DOMAIN b : b[k] \in BalanceRow,
         NEW a, NEW s, <<a, s>> \in DOMAIN b, NEW x \in Int, NEW y \in Int,
         b[<<a, s>>].available + x >= 0, b[<<a, s>>].reserved + y >= 0
  PROVE  /\ DOMAIN Moved(b, a, s, x, y) = DOMAIN b
         /\ \A k \in DOMAIN b :
              /\ Moved(b, a, s, x, y)[k] \in BalanceRow
              /\ Moved(b, a, s, x, y)[k].available
                   = b[k].available + (IF k = <<a, s>> THEN x ELSE 0)
              /\ Moved(b, a, s, x, y)[k].reserved
                   = b[k].reserved + (IF k = <<a, s>> THEN y ELSE 0)
<1> DEFINE key == <<a, s>>
           row == [available |-> b[key].available + x,
                   reserved |-> b[key].reserved + y]
           m == Moved(b, a, s, x, y)
<1>1. m = [b EXCEPT ![key] = row]
  BY DEF Moved
<1>2. /\ row \in BalanceRow
      /\ row.available = b[key].available + x
      /\ row.reserved = b[key].reserved + y
  BY DEF BalanceRow
<1>3. \A k \in DOMAIN b : b[k].available \in Nat /\ b[k].reserved \in Nat
  BY DEF BalanceRow
<1> HIDE DEF key, row, m
<1>4. key \in DOMAIN b
  BY DEF key
<1>5. /\ DOMAIN m = DOMAIN b
      /\ \A k \in DOMAIN b : m[k] = IF k = key THEN row ELSE b[k]
  BY <1>1
<1>6. ASSUME NEW k \in DOMAIN b
      PROVE  /\ m[k] \in BalanceRow
             /\ m[k].available = b[k].available + (IF k = key THEN x ELSE 0)
             /\ m[k].reserved = b[k].reserved + (IF k = key THEN y ELSE 0)
  <2>1. CASE k = key
    BY <1>2, <1>5, <2>1
  <2>2. CASE k # key
    BY <1>3, <1>5, <2>2
  <2> QED
    BY <2>1, <2>2
<1> QED
  BY <1>5, <1>6 DEF key, m

(* What a mutation posts to a row: the credit or debit of its account.      *)
LEMMA MutationPosted ==
  ASSUME LedgerTypeOK, NEW k \in DOMAIN balances, NEW a \in Accounts, NEW s,
         NEW n \in Amounts, NEW o, o.asset = s, o.amount = n
  PROVE  /\ o.type \in {"CREDIT", "RELEASE"} /\ o.debit = System /\ o.credit = a
              => /\ PostedAvailable(o, k) = IF k = <<a, s>> THEN n ELSE 0
                 /\ PostedReserved(o, k) =
                      IF k = <<a, s>> /\ o.type = "RELEASE" THEN -n ELSE 0
         /\ o.type \in {"DEBIT", "RESERVE"} /\ o.debit = a /\ o.credit = System
              => /\ PostedAvailable(o, k) = IF k = <<a, s>> THEN -n ELSE 0
                 /\ PostedReserved(o, k) =
                      IF k = <<a, s>> /\ o.type = "RESERVE" THEN n ELSE 0
<1>1. n \in Int
  BY ConstantFacts
<1>2. k[1] # System /\ (k = <<a, s>> <=> (k[1] = a /\ k[2] = s))
  BY RowNames
<1>3. a # System
  BY ConstantFacts
<1> QED
  BY <1>1, <1>2, <1>3
  DEF PostedAvailable, PostedReserved, AmountIf, Credited, Debited

---------------------------------------------------------------------------
(* mutate records one operation and posts it, whichever type it has.        *)
LEMMA MutatePosts ==
  ASSUME LedgerTypeOK, ReservationsOpened, NEW id \in OpIds,
         NEW type \in MutationTypes, NEW a, NEW s, NEW n \in Amounts,
         NEW for \in OpIds \cup {NoOp}, Mutate(id, type, a, s, n, for)
  PROVE  \E o : Posts(id, o)
<1> DEFINE
      o == [type |-> type,
            debit |-> IF CreditsAccount(type) THEN System ELSE a,
            credit |-> IF CreditsAccount(type) THEN a ELSE System,
            asset |-> s, amount |-> n, for |-> for]
      key == <<a, s>>
<1>1. /\ Fresh(id) /\ key \in DOMAIN balances /\ n \in Nat
      /\ a \in Accounts /\ s \in Assets
  BY ConstantFacts DEF Mutate, Opened, LedgerTypeOK
<1>2. o \in OperationRow /\ NamesOpened(o) /\ SidesNamed(o)
  <2>1. o \in OperationRow /\ NamesOpened(o)
    BY <1>1, ConstantFacts
    DEF OperationRow, NamesOpened, Opened, MutationTypes
  <2>2. SidesNamed(o)
    BY <1>1 DEF SidesNamed, CreditsAccount, MutationTypes, TransferTypes
  <2> QED
    BY <2>1, <2>2
<1>3. Records(id, o)
  BY <1>1 DEF Mutate, Record, Records
<1>4. \A k \in DOMAIN balances : balances[k] \in BalanceRow
  BY DEF LedgerTypeOK
<1>5. balances[key].available \in Nat /\ balances[key].reserved \in Nat
  BY <1>1, <1>4 DEF BalanceRow
<1>6. reservations \in Seq(ReservationRow)
  BY DEF LedgerTypeOK
<1>7. ASSUME NEW x \in Int, NEW y \in Int,
             balances' = Moved(balances, a, s, x, y),
             balances[key].available + x >= 0,
             balances[key].reserved + y >= 0,
             \A k \in DOMAIN balances :
               /\ PostedAvailable(o, k) = IF k = key THEN x ELSE 0
               /\ PostedReserved(o, k) = IF k = key THEN y ELSE 0
      PROVE  MovesBalances(o)
  <2> HIDE DEF o
  <2>1. /\ DOMAIN balances' = DOMAIN balances
        /\ \A k \in DOMAIN balances :
             /\ balances'[k] \in BalanceRow
             /\ balances'[k].available
                  = balances[k].available + (IF k = key THEN x ELSE 0)
             /\ balances'[k].reserved
                  = balances[k].reserved + (IF k = key THEN y ELSE 0)
    BY <1>1, <1>4, <1>7, MovedRow
  <2> QED
    BY <1>7, <2>1 DEF MovesBalances
<1>8. ASSUME reservations' = reservations,
             \A k \in DOMAIN balances : PostedReserved(o, k) = 0
      PROVE  MovesReservations(o)
  <2> HIDE DEF o
  <2>1. \A k : ReservedSum(reservations, k) \in Int
    BY <1>6, RemainingTyped
  <2> QED
    BY <1>6, <1>8, <2>1 DEF MovesReservations, ReservationsOpened
<1>9. CASE type = "CREDIT"
  <2>1. balances' = Moved(balances, a, s, n, 0) /\ reservations' = reservations
    BY <1>9 DEF Mutate
  <2>2. /\ o.type = "CREDIT" /\ o.debit = System /\ o.credit = a
        /\ o.asset = s /\ o.amount = n
    BY <1>9 DEF CreditsAccount
  <2>3. \A k \in DOMAIN balances :
          /\ PostedAvailable(o, k) = IF k = key THEN n ELSE 0
          /\ PostedReserved(o, k) = 0
    <3> HIDE DEF o
    <3> QED
      BY <1>1, <2>2, MutationPosted
  <2> HIDE DEF o, key
  <2>4. MovesBalances(o)
    BY <1>1, <1>5, <1>7, <2>1, <2>3
  <2>5. MovesReservations(o)
    BY <1>8, <2>1, <2>3
  <2> QED
    BY <1>2, <1>3, <2>4, <2>5 DEF Posts
<1>10. CASE type = "DEBIT"
  <2>1. /\ balances' = Moved(balances, a, s, -n, 0)
        /\ reservations' = reservations
        /\ balances[key].available >= n
    BY <1>10 DEF Mutate, Enough
  <2>2. /\ o.type = "DEBIT" /\ o.debit = a /\ o.credit = System
        /\ o.asset = s /\ o.amount = n
    BY <1>10 DEF CreditsAccount
  <2>3. \A k \in DOMAIN balances :
          /\ PostedAvailable(o, k) = IF k = key THEN -n ELSE 0
          /\ PostedReserved(o, k) = 0
    <3> HIDE DEF o
    <3> QED
      BY <1>1, <2>2, MutationPosted
  <2> HIDE DEF o, key
  <2>4. MovesBalances(o)
    BY <1>1, <1>5, <1>7, <2>1, <2>3
  <2>5. MovesReservations(o)
    BY <1>8, <2>1, <2>3
  <2> QED
    BY <1>2, <1>3, <2>4, <2>5 DEF Posts
<1>11. CASE type = "RESERVE"
  <2> DEFINE row == [op |-> id, account |-> a, asset |-> s, remaining |-> n]
  <2>1. /\ balances' = Moved(balances, a, s, -n, n)
        /\ balances[key].available >= n
        /\ reservations' = Append(reservations, row)
    BY <1>11 DEF Mutate, Enough
  <2>2. /\ o.type = "RESERVE" /\ o.debit = a /\ o.credit = System
        /\ o.asset = s /\ o.amount = n
    BY <1>11 DEF CreditsAccount
  <2>3. \A k \in DOMAIN balances :
          /\ PostedAvailable(o, k) = IF k = key THEN -n ELSE 0
          /\ PostedReserved(o, k) = IF k = key THEN n ELSE 0
    <3> HIDE DEF o
    <3> QED
      BY <1>1, <2>2, MutationPosted
  <2>4. /\ row \in ReservationRow /\ row.account = a /\ row.asset = s
        /\ row.remaining = n
    BY <1>1 DEF ReservationRow
  <2> HIDE DEF o, key, row
  <2>5. MovesBalances(o)
    BY <1>1, <1>5, <1>7, <2>1, <2>3, SMTT(30)
  <2>6. \A k : ReservedSum(reservations', k)
                 = ReservedSum(reservations, k)
                   + (IF <<row.account, row.asset>> = k
                      THEN row.remaining ELSE 0)
    BY <1>6, <2>1, <2>4, ReservationAdds
  <2>7. \A k \in DOMAIN balances :
          ReservedSum(reservations', k)
            = ReservedSum(reservations, k) + PostedReserved(o, k)
    BY <2>3, <2>4, <2>6 DEF key
  <2>8. reservations' \in Seq(ReservationRow)
    BY <1>6, <2>1, <2>4
  <2>9. \A i \in 1..Len(reservations') :
          Opened(reservations'[i].account, reservations'[i].asset)
    <3>1. Opened(a, s)
      BY <1>1 DEF Opened, key
    <3>2. \A i \in 1..Len(reservations') :
            \/ i \in 1..Len(reservations) /\ reservations'[i] = reservations[i]
            \/ reservations'[i] = row
      BY <1>6, <2>1
    <3> QED
      BY <2>4, <3>1, <3>2 DEF ReservationsOpened
  <2>10. MovesReservations(o)
    BY <2>7, <2>8, <2>9 DEF MovesReservations
  <2> QED
    BY <1>2, <1>3, <2>5, <2>10 DEF Posts
<1>12. CASE type = "RELEASE"
  <2>1. /\ balances' = Moved(balances, a, s, n, -n)
        /\ balances[key].reserved >= n
        /\ TakeReservation(a, s, n)
    BY <1>12 DEF Mutate, Enough
  <2>2. /\ o.type = "RELEASE" /\ o.debit = System /\ o.credit = a
        /\ o.asset = s /\ o.amount = n
    BY <1>12 DEF CreditsAccount
  <2>3. \A k \in DOMAIN balances :
          /\ PostedAvailable(o, k) = IF k = key THEN n ELSE 0
          /\ PostedReserved(o, k) = IF k = key THEN -n ELSE 0
    <3> HIDE DEF o
    <3> QED
      BY <1>1, <2>2, MutationPosted
  <2> HIDE DEF o, key
  <2>4. MovesBalances(o)
    BY <1>1, <1>5, <1>7, <2>1, <2>3
  <2>5. \A k \in DOMAIN balances :
          ReservedSum(reservations', k)
            = ReservedSum(reservations, k) + PostedReserved(o, k)
    <3>1. \A k : /\ ReservedSum(reservations, k) \in Int
                 /\ ReservedSum(reservations', k)
                      = ReservedSum(reservations, k)
                        - (IF key = k THEN n ELSE 0)
      BY <1>1, <1>6, <2>1, TakeMoves, RemainingTyped DEF key
    <3> QED
      BY <1>1, <2>3, <3>1
  <2>6. MovesReservations(o)
    BY <1>1, <2>1, <2>5, TakeMoves DEF MovesReservations
  <2> QED
    BY <1>2, <1>3, <2>4, <2>6 DEF Posts
<1> QED
  BY <1>9, <1>10, <1>11, <1>12 DEF MutationTypes

(* What a transfer posts to a row: its two sides, of which a settlement     *)
(* takes from the reserved column.  The two accounts may be the same.       *)
LEMMA TransferPosted ==
  ASSUME LedgerTypeOK, NEW k \in DOMAIN balances, NEW d \in Accounts,
         NEW c \in Accounts, NEW s, NEW n \in Amounts, NEW o,
         o.asset = s, o.amount = n, o.debit = d, o.credit = c
  PROVE  /\ o.type = "TRANSFER_AVAILABLE"
              => /\ PostedAvailable(o, k)
                      = (IF k = <<c, s>> THEN n ELSE 0)
                        + (IF k = <<d, s>> THEN -n ELSE 0)
                 /\ PostedReserved(o, k) = 0
         /\ o.type = "SETTLE_RESERVED_TRANSFER"
              => /\ PostedAvailable(o, k) = IF k = <<c, s>> THEN n ELSE 0
                 /\ PostedReserved(o, k) = IF k = <<d, s>> THEN -n ELSE 0
<1>1. n \in Int
  BY ConstantFacts
<1>2. \A a : k = <<a, s>> <=> (k[1] = a /\ k[2] = s)
  BY RowNames
<1> QED
  BY <1>1, <1>2
  DEF PostedAvailable, PostedReserved, AmountIf, Credited, Debited

(* The step moves the row of d by x and y, and gives c an amount.           *)
MovesTwice(d, c, s, x, y, n) ==
  /\ DOMAIN balances' = DOMAIN balances
  /\ \A k \in DOMAIN balances :
       /\ balances'[k] \in BalanceRow
       /\ balances'[k].available
            = balances[k].available + (IF k = <<c, s>> THEN n ELSE 0)
              + (IF k = <<d, s>> THEN x ELSE 0)
       /\ balances'[k].reserved
            = balances[k].reserved + (IF k = <<d, s>> THEN y ELSE 0)

(* Two rows moved one after the other: x and y out of the debited row, n    *)
(* into the available column of the credited one.                           *)
LEMMA MovedTwice ==
  ASSUME LedgerTypeOK, NEW d, NEW c, NEW s, Opened(d, s), Opened(c, s),
         NEW n \in Nat, NEW x \in Int, NEW y \in Int,
         balances[<<d, s>>].available + x >= 0,
         balances[<<d, s>>].reserved + y >= 0,
         balances' = Moved(Moved(balances, d, s, x, y), c, s, n, 0)
  PROVE  MovesTwice(d, c, s, x, y, n)
<1> DEFINE b == Moved(balances, d, s, x, y)
           from == <<d, s>>
           to == <<c, s>>
<1>1. /\ \A k \in DOMAIN balances : balances[k] \in BalanceRow
      /\ from \in DOMAIN balances /\ to \in DOMAIN balances
  BY DEF LedgerTypeOK, Opened
<1>2. /\ DOMAIN b = DOMAIN balances
      /\ \A k \in DOMAIN balances :
           /\ b[k] \in BalanceRow
           /\ b[k].available
                = balances[k].available + (IF k = from THEN x ELSE 0)
           /\ b[k].reserved
                = balances[k].reserved + (IF k = from THEN y ELSE 0)
  BY <1>1, MovedRow
<1>3. balances' = Moved(b, c, s, n, 0)
  OBVIOUS
<1> HIDE DEF b
<1>4. b[to].available \in Nat /\ b[to].reserved \in Nat
  BY <1>1, <1>2 DEF BalanceRow
<1>5. /\ DOMAIN balances' = DOMAIN b
      /\ \A k \in DOMAIN b :
           /\ balances'[k] \in BalanceRow
           /\ balances'[k].available
                = b[k].available + (IF k = to THEN n ELSE 0)
           /\ balances'[k].reserved = b[k].reserved + (IF k = to THEN 0 ELSE 0)
  BY <1>1, <1>2, <1>3, <1>4, MovedRow
<1> HIDE DEF from, to
<1>6. \A k \in DOMAIN balances :
        balances[k].available \in Int /\ balances[k].reserved \in Int
  BY <1>1 DEF BalanceRow
<1>7. \A k \in DOMAIN balances :
        /\ balances'[k].available
             = balances[k].available + (IF k = to THEN n ELSE 0)
               + (IF k = from THEN x ELSE 0)
        /\ balances'[k].reserved
             = balances[k].reserved + (IF k = from THEN y ELSE 0)
  BY <1>2, <1>5, <1>6
<1> QED
  BY <1>2, <1>5, <1>7 DEF from, to, MovesTwice

(* transferAvailable posts one operation and touches no reservation.        *)
LEMMA TransferPosts ==
  ASSUME LedgerTypeOK, ReservationsOpened, NEW id \in OpIds,
         NEW d \in Accounts, NEW c \in Accounts, NEW s \in Assets,
         NEW n \in Amounts, TransferAvailable(id, d, c, s, n)
  PROVE  \E o : Posts(id, o)
<1> DEFINE o == [type |-> "TRANSFER_AVAILABLE", debit |-> d, credit |-> c,
                 asset |-> s, amount |-> n, for |-> NoOp]
<1>1. /\ n \in Nat /\ Opened(d, s) /\ Opened(c, s)
      /\ balances[<<d, s>>].available >= n
      /\ balances' = Moved(Moved(balances, d, s, -n, 0), c, s, n, 0)
      /\ reservations' = reservations
  BY ConstantFacts DEF TransferAvailable, Enough
<1>2. o \in OperationRow /\ NamesOpened(o) /\ SidesNamed(o) /\ Records(id, o)
  BY <1>1 DEF OperationRow, TransferTypes, NamesOpened, SidesNamed, TransferAvailable,
              Record, Records
<1>3. \A k \in DOMAIN balances :
        /\ PostedAvailable(o, k) = (IF k = <<c, s>> THEN n ELSE 0)
                                   + (IF k = <<d, s>> THEN -n ELSE 0)
        /\ PostedReserved(o, k) = 0
  <2>1. /\ o.type = "TRANSFER_AVAILABLE" /\ o.debit = d /\ o.credit = c
        /\ o.asset = s /\ o.amount = n
    OBVIOUS
  <2> HIDE DEF o
  <2> QED
    BY <2>1, TransferPosted
<1> HIDE DEF o
<1>4. /\ balances[<<d, s>>].available \in Nat
      /\ balances[<<d, s>>].reserved \in Nat
      /\ \A k \in DOMAIN balances :
           balances[k].available \in Int /\ balances[k].reserved \in Int
  BY <1>1, RowNames DEF Opened
<1>5. /\ DOMAIN balances' = DOMAIN balances
      /\ \A k \in DOMAIN balances :
           /\ balances'[k] \in BalanceRow
           /\ balances'[k].available
                = balances[k].available + (IF k = <<c, s>> THEN n ELSE 0)
                  + (IF k = <<d, s>> THEN -n ELSE 0)
           /\ balances'[k].reserved
                = balances[k].reserved + (IF k = <<d, s>> THEN 0 ELSE 0)
  <2> DEFINE x == -n
             y == 0
  <2>1. /\ x \in Int /\ y \in Int
        /\ balances[<<d, s>>].available + x >= 0
        /\ balances[<<d, s>>].reserved + y >= 0
        /\ balances' = Moved(Moved(balances, d, s, x, y), c, s, n, 0)
    BY <1>1, <1>4
  <2> HIDE DEF x, y
  <2>2. MovesTwice(d, c, s, x, y, n)
    BY <1>1, <2>1, MovedTwice, Zenon
  <2> QED
    BY <2>2 DEF MovesTwice, x, y
<1>6. MovesBalances(o)
  BY <1>1, <1>3, <1>4, <1>5 DEF MovesBalances
<1>7. MovesReservations(o)
  <2>1. /\ reservations \in Seq(ReservationRow)
        /\ \A k : ReservedSum(reservations, k) \in Int
    BY RemainingTyped DEF LedgerTypeOK
  <2> QED
    BY <1>1, <1>3, <2>1 DEF MovesReservations, ReservationsOpened
<1> QED
  BY <1>2, <1>6, <1>7 DEF Posts

(* settleReservedTransfer posts one operation and uses up a reservation.    *)
LEMMA SettlePosts ==
  ASSUME LedgerTypeOK, ReservationsOpened, NEW id \in OpIds,
         NEW d \in Accounts, NEW c \in Accounts, NEW s \in Assets,
         NEW n \in Amounts, SettleReservedTransfer(id, d, c, s, n)
  PROVE  \E o : Posts(id, o)
<1> DEFINE o == [type |-> "SETTLE_RESERVED_TRANSFER", debit |-> d,
                 credit |-> c, asset |-> s, amount |-> n, for |-> NoOp]
<1>1. /\ n \in Nat /\ Opened(d, s) /\ Opened(c, s)
      /\ balances[<<d, s>>].reserved >= n
      /\ balances' = Moved(Moved(balances, d, s, 0, -n), c, s, n, 0)
      /\ TakeReservation(d, s, n)
  BY ConstantFacts DEF SettleReservedTransfer, Enough
<1>2. o \in OperationRow /\ NamesOpened(o) /\ SidesNamed(o) /\ Records(id, o)
  BY <1>1 DEF OperationRow, TransferTypes, NamesOpened, SidesNamed,
              SettleReservedTransfer, Record, Records
<1>3. \A k \in DOMAIN balances :
        /\ PostedAvailable(o, k) = IF k = <<c, s>> THEN n ELSE 0
        /\ PostedReserved(o, k) = IF k = <<d, s>> THEN -n ELSE 0
  <2>1. /\ o.type = "SETTLE_RESERVED_TRANSFER" /\ o.debit = d /\ o.credit = c
        /\ o.asset = s /\ o.amount = n
    OBVIOUS
  <2> HIDE DEF o
  <2> QED
    BY <2>1, TransferPosted
<1> HIDE DEF o
<1>4. /\ balances[<<d, s>>].available \in Nat
      /\ balances[<<d, s>>].reserved \in Nat
      /\ \A k \in DOMAIN balances :
           balances[k].available \in Int /\ balances[k].reserved \in Int
  BY <1>1, RowNames DEF Opened
<1>5. /\ DOMAIN balances' = DOMAIN balances
      /\ \A k \in DOMAIN balances :
           /\ balances'[k] \in BalanceRow
           /\ balances'[k].available
                = balances[k].available + (IF k = <<c, s>> THEN n ELSE 0)
                  + (IF k = <<d, s>> THEN 0 ELSE 0)
           /\ balances'[k].reserved
                = balances[k].reserved + (IF k = <<d, s>> THEN -n ELSE 0)
  <2>1. /\ -n \in Int /\ 0 \in Int
        /\ balances[<<d, s>>].available + 0 >= 0
        /\ balances[<<d, s>>].reserved + -n >= 0
    BY <1>1, <1>4
  <2>2. MovesTwice(d, c, s, 0, -n, n)
    BY <1>1, <2>1, MovedTwice
  <2> QED
    BY <2>2 DEF MovesTwice
<1>6. MovesBalances(o)
  BY <1>1, <1>3, <1>4, <1>5 DEF MovesBalances
<1>7. MovesReservations(o)
  <2>1. \A k : /\ ReservedSum(reservations, k) \in Int
               /\ ReservedSum(reservations', k)
                    = ReservedSum(reservations, k)
                      - (IF <<d, s>> = k THEN n ELSE 0)
    BY <1>1, RemainingTyped, TakeMoves DEF LedgerTypeOK
  <2>2. \A k \in DOMAIN balances :
          ReservedSum(reservations', k)
            = ReservedSum(reservations, k) + PostedReserved(o, k)
    BY <1>1, <1>3, <2>1
  <2> QED
    BY <1>1, <2>2, TakeMoves DEF MovesReservations
<1> QED
  BY <1>2, <1>6, <1>7 DEF Posts

---------------------------------------------------------------------------
(* The applied operations after one more has been recorded.                 *)
LEMMA AppliedGrows ==
  ASSUME LedgerTypeOK, NEW id \in OpIds, NEW o \in OperationRow, Records(id, o)
  PROVE  /\ id \notin Applied
         /\ Applied' = Applied \cup {id}
         /\ operations'[id] = o
         /\ \A other \in OpIds \ {id} : operations'[other] = operations[other]
         /\ operations' \in [OpIds -> OperationRow \cup {NoOp}]
<1>1. o # NoOp
  BY ConstantFacts
<1>2. operations[id] = NoOp
  BY DEF Records, Fresh
<1>3. /\ operations' = [operations EXCEPT ![id] = o]
      /\ operations \in [OpIds -> OperationRow \cup {NoOp}]
  BY DEF Records, LedgerTypeOK
<1>4. /\ operations'[id] = o
      /\ \A other \in OpIds \ {id} : operations'[other] = operations[other]
      /\ operations' \in [OpIds -> OperationRow \cup {NoOp}]
  BY <1>3
<1> QED
  BY <1>1, <1>2, <1>4 DEF Applied

(* A posted operation keeps the invariant: both sums gain what it posts.    *)
LEMMA PostsInv ==
  ASSUME BooksInv, NEW id \in OpIds, NEW o, Posts(id, o)
  PROVE  BooksInv'
<1>1. /\ LedgerTypeOK /\ PostingsOpened /\ ReservationsOpened /\ ReservedBacked
      /\ BalancesExplained /\ IsFiniteSet(Applied)
      /\ o \in OperationRow /\ NamesOpened(o) /\ Records(id, o)
      /\ MovesBalances(o) /\ MovesReservations(o)
  BY DEF BooksInv, Posts
<1>2. /\ id \notin Applied
      /\ Applied' = Applied \cup {id}
      /\ operations'[id] = o
      /\ \A other \in OpIds \ {id} : operations'[other] = operations[other]
      /\ operations' \in [OpIds -> OperationRow \cup {NoOp}]
  BY <1>1, AppliedGrows
<1>3. DOMAIN balances' = DOMAIN balances
  BY <1>1 DEF MovesBalances
<1>4. Applied \subseteq OpIds /\ \A other \in Applied : operations'[other] = operations[other]
  BY <1>2 DEF Applied
<1>5. \A other \in Applied : operations[other] \in OperationRow
  BY <1>1 DEF LedgerTypeOK, Applied
<1>6. LedgerTypeOK'
  BY <1>1, <1>2, <1>3 DEF LedgerTypeOK, MovesBalances, MovesReservations
<1>7. IsFiniteSet(Applied')
  BY <1>1, <1>2, FS_AddElement
<1>8. PostingsOpened'
  BY <1>1, <1>2, <1>3, <1>4, ZenonT(60) DEF PostingsOpened, NamesOpened, Opened
<1>9. ReservationsOpened'
  BY <1>1, <1>3 DEF ReservationsOpened, MovesReservations, Opened
<1>10. ReservedBacked'
  BY <1>1, <1>3 DEF ReservedBacked, ReservedSum, MovesBalances,
                    MovesReservations
<1>11. ASSUME NEW k \in DOMAIN balances
       PROVE  /\ SumFunctionOnSet(AvailablePostings(operations', Applied', k),
                                  Applied')
                   = balances'[k].available
              /\ SumFunctionOnSet(ReservedPostings(operations', Applied', k),
                                  Applied')
                   = balances'[k].reserved
  <2> DEFINE f == AvailablePostings(operations, Applied, k)
             h == AvailablePostings(operations', Applied', k)
             g == ReservedPostings(operations, Applied, k)
             j == ReservedPostings(operations', Applied', k)
  <2>1. /\ PostedAvailable(o, k) \in Int /\ PostedReserved(o, k) \in Int
        /\ \A x \in Applied : /\ PostedAvailable(operations[x], k) \in Int
                              /\ PostedReserved(operations[x], k) \in Int
    BY <1>1, <1>5, PostedTyped
  <2>2. /\ \A x \in Applied : f[x] \in Int /\ h[x] = f[x]
        /\ h[id] = PostedAvailable(o, k)
    BY <1>2, <1>4, <2>1 DEF AvailablePostings
  <2>3. /\ \A x \in Applied : g[x] \in Int /\ j[x] = g[x]
        /\ j[id] = PostedReserved(o, k)
    BY <1>2, <1>4, <2>1 DEF ReservedPostings
  <2> HIDE DEF f, h, g, j
  <2>4. SumFunctionOnSet(h, Applied') = SumFunctionOnSet(f, Applied) + h[id]
    BY <1>1, <1>2, <2>1, <2>2, SumGrows
  <2>5. SumFunctionOnSet(j, Applied') = SumFunctionOnSet(g, Applied) + j[id]
    BY <1>1, <1>2, <2>1, <2>3, SumGrows
  <2>6. /\ SumFunctionOnSet(f, Applied) = balances[k].available
        /\ SumFunctionOnSet(g, Applied) = balances[k].reserved
    BY <1>1 DEF BalancesExplained, f, g
  <2>7. /\ balances'[k].available
             = balances[k].available + PostedAvailable(o, k)
        /\ balances'[k].reserved = balances[k].reserved + PostedReserved(o, k)
    BY <1>1 DEF MovesBalances
  <2>8. /\ SumFunctionOnSet(h, Applied') = balances'[k].available
        /\ SumFunctionOnSet(j, Applied') = balances'[k].reserved
    BY <2>2, <2>3, <2>4, <2>5, <2>6, <2>7
  <2> QED
    BY <2>8 DEF h, j
<1>12. BalancesExplained'
  BY <1>3, <1>11 DEF BalancesExplained
<1> QED
  BY <1>6, <1>7, <1>8, <1>9, <1>10, <1>12 DEF BooksInv

(* A balance row opened is zero, as are the sums for it: nothing was ever   *)
(* posted to a row that was not there.                                      *)
LEMMA OpenInv ==
  ASSUME BooksInv, NEW a \in Accounts, NEW s \in Assets, OpenBalance(a, s)
  PROVE  BooksInv'
<1> DEFINE key == <<a, s>>
<1>1. /\ LedgerTypeOK /\ PostingsOpened /\ ReservationsOpened /\ ReservedBacked
      /\ BalancesExplained /\ IsFiniteSet(Applied)
      /\ key \notin DOMAIN balances
      /\ operations' = operations /\ reservations' = reservations
  BY DEF BooksInv, OpenBalance, Opened
<1>2. /\ DOMAIN balances' = DOMAIN balances \cup {key}
      /\ balances'[key] = [available |-> 0, reserved |-> 0]
      /\ \A k \in DOMAIN balances : balances'[k] = balances[k]
  BY <1>1 DEF OpenBalance
<1>3. Applied' = Applied
  BY <1>1 DEF Applied
<1>4. LedgerTypeOK'
  <2>1. /\ DOMAIN balances' \subseteq Accounts \X Assets
        /\ \A k \in DOMAIN balances' : balances'[k] \in BalanceRow
    BY <1>1, <1>2 DEF LedgerTypeOK, BalanceRow
  <2> QED
    BY <1>1, <2>1 DEF LedgerTypeOK
<1>5. PostingsOpened' /\ ReservationsOpened'
  BY <1>1, <1>2, <1>3 DEF PostingsOpened, ReservationsOpened, Opened
<1>6. ReservedSum(reservations, key) = 0
  <2>1. reservations \in Seq(ReservationRow)
    BY <1>1 DEF LedgerTypeOK
  <2>2. \A i \in 1..Len(reservations) : RemainingFor(reservations, key)[i] = 0
    BY <1>1 DEF RemainingFor, ReservationsOpened, Opened
  <2>3. IsFiniteSet(1..Len(reservations))
    BY <2>1, RemainingTyped
  <2> QED
    BY <2>2, <2>3, SumZero DEF ReservedSum
<1>7. ReservedBacked'
  <2>1. \A k \in DOMAIN balances' :
          balances'[k].reserved = ReservedSum(reservations, k)
    BY <1>1, <1>2, <1>6 DEF ReservedBacked, ReservedSum
  <2> QED
    BY <1>1, <2>1 DEF ReservedBacked, ReservedSum
<1>8. \A id \in Applied : /\ PostedAvailable(operations[id], key) = 0
                          /\ PostedReserved(operations[id], key) = 0
  <2>1. key[1] = a /\ key[2] = s
    OBVIOUS
  <2>2. \A id \in Applied : /\ ~Credited(operations[id], key)
                            /\ ~Debited(operations[id], key)
    BY <1>1, <2>1 DEF PostingsOpened, Opened, Credited, Debited
  <2> QED
    BY <2>2 DEF PostedAvailable, PostedReserved, AmountIf
<1>9. /\ SumFunctionOnSet(AvailablePostings(operations, Applied, key), Applied) = 0
      /\ SumFunctionOnSet(ReservedPostings(operations, Applied, key), Applied) = 0
  <2>1. \A id \in Applied :
          /\ AvailablePostings(operations, Applied, key)[id] = 0
          /\ ReservedPostings(operations, Applied, key)[id] = 0
    BY <1>8 DEF AvailablePostings, ReservedPostings
  <2> QED
    BY <1>1, <2>1, SumZero
<1>10. BalancesExplained'
  <2>1. \A k \in DOMAIN balances' :
          /\ balances'[k].available =
               SumFunctionOnSet(AvailablePostings(operations, Applied, k), Applied)
          /\ balances'[k].reserved =
               SumFunctionOnSet(ReservedPostings(operations, Applied, k), Applied)
    BY <1>1, <1>2, <1>9 DEF BalancesExplained
  <2> QED
    BY <1>1, <1>3, <2>1 DEF BalancesExplained
<1> QED
  BY <1>1, <1>3, <1>4, <1>5, <1>7, <1>10 DEF BooksInv

(* compensate is one more mutation.                                         *)
LEMMA CompensatePosts ==
  ASSUME LedgerTypeOK, ReservationsOpened, NEW id \in OpIds, NEW original \in OpIds,
         Compensate(id, original)
  PROVE  \E o : Posts(id, o)
<1> DEFINE old == operations[original]
           account == IF old.debit = System THEN old.credit ELSE old.debit
<1>1. /\ old # NoOp /\ old.type \in MutationTypes
      /\ Mutate(id, Undo(old.type), account, old.asset, old.amount, original)
  BY DEF Compensate
<1>2. old \in OperationRow
  BY <1>1 DEF LedgerTypeOK
<1>3. old.amount \in Amounts
  BY <1>2 DEF OperationRow
<1>4. Undo(old.type) \in MutationTypes
  BY <1>1 DEF Undo, MutationTypes
<1> HIDE DEF old, account
<1> QED
  BY <1>1, <1>3, <1>4, MutatePosts

(* Every money operation posts exactly one operation.                       *)
LEMMA NextPosts ==
  ASSUME LedgerTypeOK, ReservationsOpened, LedgerNext
  PROVE  \/ \E a \in Accounts, s \in Assets : OpenBalance(a, s)
         \/ \E id \in OpIds : \E o : Posts(id, o)
<1>1. ASSUME NEW id \in OpIds, NEW type \in MutationTypes, NEW a \in Accounts,
             NEW s \in Assets, NEW n \in Amounts,
             Mutate(id, type, a, s, n, NoOp)
      PROVE  \E o : Posts(id, o)
  <2>1. NoOp \in OpIds \cup {NoOp}
    OBVIOUS
  <2> QED
    BY <1>1, <2>1, MutatePosts
<1> QED
  BY <1>1, TransferPosts, SettlePosts, CompensatePosts DEF LedgerNext

(* The empty tables meet the inductive invariant.                           *)
LEMMA BooksInit == LedgerInit => BooksInv
<1> SUFFICES ASSUME LedgerInit PROVE BooksInv
  OBVIOUS
<1>1. /\ DOMAIN balances = {} /\ reservations = << >>
      /\ operations = [id \in OpIds |-> NoOp]
  BY DEF LedgerInit
<1>2. Applied = {}
  BY <1>1 DEF Applied
<1>3. LedgerTypeOK
  BY <1>1 DEF LedgerTypeOK
<1> QED
  BY <1>1, <1>2, <1>3, FS_EmptySet
  DEF BooksInv, PostingsOpened, ReservationsOpened, ReservedBacked,
      BalancesExplained

(* Every ledger operation, and every refusal, keeps the inductive           *)
(* invariant.                                                               *)
LEMMA BooksStep == BooksInv /\ [LedgerNext]_ledgerVars => BooksInv'
<1> SUFFICES ASSUME BooksInv, [LedgerNext]_ledgerVars PROVE BooksInv'
  OBVIOUS
<1>1. CASE LedgerNext
  <2>1. LedgerTypeOK /\ ReservationsOpened
    BY DEF BooksInv
  <2> QED
    BY <1>1, <2>1, NextPosts, PostsInv, OpenInv
<1>2. CASE UNCHANGED ledgerVars
  BY <1>2
  DEF ledgerVars, BooksInv, LedgerTypeOK, Applied, PostingsOpened, ReservationsOpened,
      ReservedBacked, BalancesExplained, Opened
<1> QED
  BY <1>1, <1>2

(* BooksInv is an inductive invariant of the ledger.                        *)
THEOREM BooksInvariant == LedgerSpec => []BooksInv
  BY BooksInit, BooksStep, PTL DEF LedgerSpec

(* No balance is ever negative, and the rows keep their types.              *)
THEOREM LedgerTypeCorrect == LedgerSpec => []LedgerTypeOK
<1>1. BooksInv => LedgerTypeOK
  BY DEF BooksInv
<1> QED
  BY <1>1, BooksInvariant, PTL

(* The reserved column of every balance is the sum of what remains of its   *)
(* reservations.                                                            *)
THEOREM ReservationsBack == LedgerSpec => []ReservedBacked
<1>1. BooksInv => ReservedBacked
  BY DEF BooksInv
<1> QED
  BY <1>1, BooksInvariant, PTL

(* Both columns of every balance are what the immutable operations add up   *)
(* to.                                                                      *)
THEOREM BooksRebuild == LedgerSpec => []BalancesExplained
<1>1. BooksInv => BalancesExplained
  BY DEF BooksInv
<1> QED
  BY <1>1, BooksInvariant, PTL

(* No operation is rewritten, and a step that moves a balance records       *)
(* exactly one new operation, which names the balance's account.            *)
THEOREM OperationsImmutable == LedgerSpec => AppliedOnce
<1> DEFINE Once ==
      /\ \A id \in Applied : operations'[id] = operations[id]
      /\ \A k \in DOMAIN balances : balances'[k] # balances[k] =>
           \E id \in OpIds \ Applied :
             /\ operations'[id] # NoOp
             /\ k[1] \in {operations'[id].debit, operations'[id].credit}
             /\ \A other \in OpIds \ (Applied \cup {id}) :
                  operations'[other] = NoOp
<1>1. BooksInv /\ [LedgerNext]_ledgerVars => [Once]_ledgerVars
  <2> SUFFICES ASSUME BooksInv, LedgerNext PROVE Once
    OBVIOUS
  <2>1. LedgerTypeOK /\ ReservationsOpened
    BY DEF BooksInv
  <2>2. ASSUME NEW a \in Accounts, NEW s \in Assets, OpenBalance(a, s)
        PROVE  Once
    BY <2>2 DEF OpenBalance, Opened, Applied
  <2>3. ASSUME NEW id \in OpIds, NEW o, Posts(id, o)
        PROVE  Once
    <3>1. /\ o \in OperationRow /\ o # NoOp
          /\ id \notin Applied /\ operations'[id] = o
          /\ \A other \in OpIds \ {id} : operations'[other] = operations[other]
      BY <2>1, <2>3, AppliedGrows, ConstantFacts DEF Posts
    <3>2. \A other \in OpIds \ (Applied \cup {id}) : operations'[other] = NoOp
      BY <3>1 DEF Applied
    <3>3. \A other \in Applied : operations'[other] = operations[other]
      BY <3>1 DEF Applied
    <3>4. ASSUME NEW k \in DOMAIN balances, balances'[k] # balances[k]
          PROVE  k[1] \in {o.debit, o.credit}
      <4> SUFFICES ASSUME o.debit # k[1], o.credit # k[1] PROVE FALSE
        OBVIOUS
      <4>1. PostedAvailable(o, k) = 0 /\ PostedReserved(o, k) = 0
        BY DEF PostedAvailable, PostedReserved, AmountIf, Credited, Debited
      <4>2. /\ balances[k] \in BalanceRow /\ balances'[k] \in BalanceRow
            /\ balances'[k].available = balances[k].available + 0
            /\ balances'[k].reserved = balances[k].reserved + 0
        BY <2>1, <2>3, <4>1, RowNames DEF Posts, MovesBalances
      <4> QED
        BY <3>4, <4>2 DEF BalanceRow
    <3> QED
      BY <3>1, <3>2, <3>3, <3>4
  <2> QED
    BY <2>1, <2>2, <2>3, NextPosts
<1> QED
  BY <1>1, BooksInvariant, PTL DEF LedgerSpec, AppliedOnce

---------------------------------------------------------------------------
(* What an operation posts to both columns of row k, if k is a row of s.    *)
PostedOf(o, s) ==
  [k \in DOMAIN balances |->
     IF k[2] = s THEN PostedAvailable(o, k) + PostedReserved(o, k) ELSE 0]

(* Over all rows an operation posts what it brings in or takes out: the two *)
(* sides of a transfer and the two columns of a reservation cancel.         *)
LEMMA PostedNets ==
  ASSUME BooksInv, IsFiniteSet(DOMAIN balances), NEW s, NEW o \in OperationRow,
         NamesOpened(o), SidesNamed(o)
  PROVE  SumFunctionOnSet(PostedOf(o, s), DOMAIN balances) = Inflow(o, s)
<1> DEFINE D == DOMAIN balances
           n == o.amount
           from == <<o.debit, s>>
           to == <<o.credit, s>>
           out == [k \in D |-> IF k = from THEN -n ELSE 0]
           in == [k \in D |-> IF k = to THEN n ELSE 0]
           p == PostedOf(o, s)
<1>1. /\ o.type \in MutationTypes \cup TransferTypes /\ n \in Int
      /\ LedgerTypeOK /\ System \notin Accounts
  BY ConstantFacts DEF OperationRow, BooksInv
<1>2. \A k \in D : /\ k = <<k[1], k[2]>>
                   /\ k[1] # System /\ k[1] \in Accounts
  BY <1>1, RowNames
<1>3. CASE o.asset # s
  <2>1. \A k \in D : p[k] = 0
    BY <1>3 DEF PostedOf, PostedAvailable, PostedReserved, AmountIf, Credited,
                Debited
  <2>2. Inflow(o, s) = 0
    BY <1>3 DEF Inflow, AmountIf
  <2> HIDE DEF p
  <2>3. SumFunctionOnSet(p, D) = 0
    BY <2>1, SumZero
  <2> QED
    BY <2>2, <2>3 DEF p
<1>4. CASE o.asset = s
  <2>1. \A k \in D : /\ k = to <=> (k[1] = o.credit /\ k[2] = s)
                     /\ k = from <=> (k[1] = o.debit /\ k[2] = s)
    BY <1>2
  <2>2. /\ o.credit \in Accounts => to \in D
        /\ o.debit \in Accounts => from \in D
    BY <1>4 DEF NamesOpened, Opened
  <2>3. \A k \in D : in[k] \in Int /\ out[k] \in Int
    BY <1>1
  <2>4. o.credit \in Accounts => SumFunctionOnSet(in, D) = n
    <3> SUFFICES ASSUME o.credit \in Accounts
                 PROVE  SumFunctionOnSet(in, D) = n
      OBVIOUS
    <3>1. to \in D /\ in[to] = n /\ \A k \in D \ {to} : in[k] = 0
      BY <2>2
    <3> HIDE DEF in, to, D, n
    <3>2. SumFunctionOnSet(in, D) = in[to]
      BY <1>1, <3>1, SumSingle DEF D
    <3> QED
      BY <3>1, <3>2
  <2>5. o.debit \in Accounts => SumFunctionOnSet(out, D) = -n
    <3> SUFFICES ASSUME o.debit \in Accounts
                 PROVE  SumFunctionOnSet(out, D) = -n
      OBVIOUS
    <3>1. from \in D /\ out[from] = -n /\ \A k \in D \ {from} : out[k] = 0
      BY <2>2
    <3>2. -n \in Int
      BY <1>1
    <3> HIDE DEF out, from, D, n
    <3>3. SumFunctionOnSet(out, D) = out[from]
      BY <3>1, <3>2, SumSingle DEF D
    <3> QED
      BY <3>1, <3>3
  <2>6. \A k \in D :
          p[k] = IF k[2] = s
                 THEN PostedAvailable(o, k) + PostedReserved(o, k) ELSE 0
    BY DEF PostedOf
  <2>7. CASE o.type = "CREDIT"
    <3>1. o.credit \in Accounts /\ o.debit = System
      BY <2>7 DEF SidesNamed
    <3>2. \A k \in D : p[k] = in[k]
      BY <1>1, <1>2, <1>4, <2>1, <2>6, <2>7, <3>1
      DEF PostedAvailable, PostedReserved, AmountIf, Credited, Debited
    <3>3. Inflow(o, s) = n
      BY <1>1, <1>4, <2>7 DEF Inflow, AmountIf
    <3> HIDE DEF p, in
    <3>4. SumFunctionOnSet(p, D) = SumFunctionOnSet(in, D)
      BY <3>2, SumCongruent
    <3> QED
      BY <2>4, <3>1, <3>3, <3>4 DEF p
  <2>8. CASE o.type = "DEBIT"
    <3>1. o.debit \in Accounts /\ o.credit = System
      BY <2>8 DEF SidesNamed
    <3>2. \A k \in D : p[k] = out[k]
      BY <1>1, <1>2, <1>4, <2>1, <2>6, <2>8, <3>1
      DEF PostedAvailable, PostedReserved, AmountIf, Credited, Debited
    <3>3. Inflow(o, s) = -n
      BY <1>1, <1>4, <2>8 DEF Inflow, AmountIf
    <3> HIDE DEF p, out
    <3>4. SumFunctionOnSet(p, D) = SumFunctionOnSet(out, D)
      BY <3>2, SumCongruent
    <3> QED
      BY <2>5, <3>1, <3>3, <3>4 DEF p
  <2>9. CASE o.type \in {"RESERVE", "RELEASE"}
    <3>1. \/ o.type = "RESERVE" /\ o.debit \in Accounts /\ o.credit = System
          \/ o.type = "RELEASE" /\ o.credit \in Accounts /\ o.debit = System
      BY <2>9 DEF SidesNamed
    <3>2. \A k \in D : p[k] = 0
      BY <1>1, <1>2, <1>4, <2>6, <3>1
      DEF PostedAvailable, PostedReserved, AmountIf, Credited, Debited
    <3>3. Inflow(o, s) = 0
      BY <2>9 DEF Inflow, AmountIf
    <3> HIDE DEF p
    <3>4. SumFunctionOnSet(p, D) = 0
      BY <3>2, SumZero
    <3> QED
      BY <3>3, <3>4 DEF p
  <2>10. CASE o.type \in TransferTypes
    <3>1. o.debit \in Accounts /\ o.credit \in Accounts
      BY <2>10 DEF SidesNamed
    <3>2. \A k \in D : p[k] = in[k] + out[k]
      BY <1>1, <1>2, <1>4, <2>1, <2>6, <2>10
      DEF PostedAvailable, PostedReserved, AmountIf, Credited, Debited,
          TransferTypes
    <3>3. Inflow(o, s) = 0
      BY <2>10 DEF Inflow, AmountIf, TransferTypes
    <3> HIDE DEF p, in, out
    <3>4. SumFunctionOnSet(p, D)
            = SumFunctionOnSet(in, D) + SumFunctionOnSet(out, D)
      BY <2>3, <3>2, SumPlus
    <3> QED
      BY <1>1, <2>4, <2>5, <3>1, <3>3, <3>4 DEF p
  <2> QED
    BY <1>1, <2>7, <2>8, <2>9, <2>10 DEF MutationTypes
<1> QED
  BY <1>3, <1>4

(* The books with the supply.                                               *)
SupplyInv ==
  /\ BooksInv
  /\ IsFiniteSet(DOMAIN balances)
  /\ SupplyConserved

(* What the accounts hold of an asset is an integer for each balance row.   *)
LEMMA HeldTyped ==
  ASSUME LedgerTypeOK, NEW s
  PROVE  \A k \in DOMAIN balances : HeldOf(balances, s)[k] \in Int
  BY DEF HeldOf, LedgerTypeOK, BalanceRow

(* What an operation brings in of an asset is an integer.                   *)
LEMMA InflowTyped ==
  ASSUME NEW o \in OperationRow, NEW s
  PROVE  Inflow(o, s) \in Int
<1>1. o.amount \in Int
  BY ConstantFacts DEF OperationRow
<1> QED
  BY <1>1 DEF Inflow, AmountIf

(* A posted operation adds its inflow on both sides.                        *)
LEMMA PostsSupply ==
  ASSUME SupplyInv, NEW id \in OpIds, NEW o, Posts(id, o)
  PROVE  IsFiniteSet(DOMAIN balances)' /\ SupplyConserved'
<1>1. /\ BooksInv /\ LedgerTypeOK /\ IsFiniteSet(DOMAIN balances)
      /\ IsFiniteSet(Applied)
      /\ o \in OperationRow /\ NamesOpened(o) /\ SidesNamed(o)
      /\ Records(id, o) /\ MovesBalances(o)
  BY DEF SupplyInv, BooksInv, Posts
<1>2. DOMAIN balances' = DOMAIN balances
  BY <1>1 DEF MovesBalances
<1>3. /\ id \notin Applied /\ Applied' = Applied \cup {id}
      /\ operations'[id] = o
      /\ \A x \in Applied : operations'[x] = operations[x]
      /\ \A x \in Applied : operations[x] \in OperationRow
  BY <1>1, AppliedGrows DEF Applied, LedgerTypeOK
<1>4. ASSUME NEW s \in Assets
      PROVE  SumFunctionOnSet(HeldOf(balances', s), DOMAIN balances)
               = SumFunctionOnSet(InflowsOf(operations', Applied', s), Applied')
  <2> DEFINE f == HeldOf(balances, s)
             h == HeldOf(balances', s)
             p == PostedOf(o, s)
             i == InflowsOf(operations, Applied, s)
             j == InflowsOf(operations', Applied', s)
  <2>1. \A k \in DOMAIN balances : f[k] \in Int /\ p[k] \in Int
    BY <1>1, HeldTyped, PostedTyped DEF PostedOf
  <2>2. \A k \in DOMAIN balances : h[k] = f[k] + p[k]
    <3> SUFFICES ASSUME NEW k \in DOMAIN balances PROVE h[k] = f[k] + p[k]
      OBVIOUS
    <3>1. /\ balances'[k].available
               = balances[k].available + PostedAvailable(o, k)
          /\ balances'[k].reserved
               = balances[k].reserved + PostedReserved(o, k)
          /\ PostedAvailable(o, k) \in Int /\ PostedReserved(o, k) \in Int
          /\ balances[k].available \in Int /\ balances[k].reserved \in Int
      BY <1>1, PostedTyped, RowNames DEF MovesBalances
    <3>2. f[k] = IF k[2] = s
                 THEN balances[k].available + balances[k].reserved ELSE 0
      BY DEF HeldOf
    <3>3. h[k] = IF k[2] = s
                 THEN balances'[k].available + balances'[k].reserved ELSE 0
      BY <1>2 DEF HeldOf
    <3>4. p[k] = IF k[2] = s
                 THEN PostedAvailable(o, k) + PostedReserved(o, k) ELSE 0
      BY DEF PostedOf
    <3> HIDE DEF f, h, p
    <3> QED
      BY <3>1, <3>2, <3>3, <3>4
  <2>3. /\ \A x \in Applied : i[x] \in Int /\ j[x] = i[x]
        /\ j[id] = Inflow(o, s) /\ j[id] \in Int
    BY <1>1, <1>3, InflowTyped DEF InflowsOf
  <2>4. SumFunctionOnSet(p, DOMAIN balances) = Inflow(o, s)
    BY <1>1, PostedNets
  <2>5. SumFunctionOnSet(f, DOMAIN balances) = SumFunctionOnSet(i, Applied)
    BY DEF SupplyInv, SupplyConserved
  <2> HIDE DEF f, h, p, i, j
  <2>6. SumFunctionOnSet(h, DOMAIN balances)
          = SumFunctionOnSet(f, DOMAIN balances)
            + SumFunctionOnSet(p, DOMAIN balances)
    BY <1>1, <2>1, <2>2, SumPlus
  <2>7. SumFunctionOnSet(j, Applied') = SumFunctionOnSet(i, Applied) + j[id]
    BY <1>1, <1>3, <2>3, SumGrows
  <2>8. SumFunctionOnSet(h, DOMAIN balances) = SumFunctionOnSet(j, Applied')
    BY <2>3, <2>4, <2>5, <2>6, <2>7
  <2> QED
    BY <2>8 DEF h, j
<1> QED
  BY <1>1, <1>2, <1>4 DEF SupplyConserved

(* A balance row opened holds nothing.                                      *)
LEMMA OpenSupply ==
  ASSUME SupplyInv, NEW a \in Accounts, NEW b \in Assets, OpenBalance(a, b)
  PROVE  IsFiniteSet(DOMAIN balances)' /\ SupplyConserved'
<1> DEFINE key == <<a, b>>
           D == DOMAIN balances
<1>1. /\ LedgerTypeOK /\ IsFiniteSet(D) /\ key \notin D
      /\ operations' = operations
      /\ DOMAIN balances' = D \cup {key}
      /\ balances'[key] = [available |-> 0, reserved |-> 0]
      /\ \A k \in D : balances'[k] = balances[k]
  BY DEF SupplyInv, BooksInv, OpenBalance, Opened
<1>2. Applied' = Applied
  BY <1>1 DEF Applied
<1>3. IsFiniteSet(DOMAIN balances)'
  BY <1>1, FS_AddElement
<1>4. ASSUME NEW s \in Assets
      PROVE  SumFunctionOnSet(HeldOf(balances', s), DOMAIN balances')
               = SumFunctionOnSet(HeldOf(balances, s), D)
  <2> DEFINE f == HeldOf(balances, s)
             h == HeldOf(balances', s)
             T == DOMAIN balances'
  <2>1. /\ \A k \in D : f[k] \in Int /\ h[k] = f[k]
        /\ h[key] = 0
    BY <1>1, HeldTyped DEF HeldOf
  <2>2. T = D \cup {key}
    BY <1>1
  <2> HIDE DEF f, h, T, D
  <2>3. SumFunctionOnSet(f, D) \in Int
    BY <1>1, <2>1, SumTyped
  <2>4. SumFunctionOnSet(h, T) = SumFunctionOnSet(f, D) + h[key]
    BY <1>1, <2>1, <2>2, SumGrows
  <2>5. SumFunctionOnSet(h, T) = SumFunctionOnSet(f, D)
    BY <2>1, <2>3, <2>4
  <2> QED
    BY <2>5 DEF f, h, T
<1> QED
  BY <1>1, <1>2, <1>3, <1>4 DEF SupplyInv, SupplyConserved

(* What the accounts hold of an asset is what credits brought in minus what *)
(* debits took out; transfers, settlements, reservations and releases move  *)
(* it but never change it.                                                  *)
THEOREM SupplyIsConserved == LedgerSpec => []SupplyConserved
<1>1. LedgerInit => SupplyInv
  <2> SUFFICES ASSUME LedgerInit PROVE SupplyInv
    OBVIOUS
  <2>1. BooksInv
    BY BooksInit
  <2>2. DOMAIN balances = {} /\ Applied = {}
    BY DEF LedgerInit, Applied
  <2> QED
    BY <2>1, <2>2, FS_EmptySet, SumEmpty DEF SupplyInv, SupplyConserved
<1>2. SupplyInv /\ [LedgerNext]_ledgerVars => SupplyInv'
  <2> SUFFICES ASSUME SupplyInv, [LedgerNext]_ledgerVars PROVE SupplyInv'
    OBVIOUS
  <2>1. BooksInv /\ LedgerTypeOK /\ ReservationsOpened
    BY DEF SupplyInv, BooksInv
  <2>2. BooksInv'
    BY <2>1, BooksStep
  <2>3. CASE LedgerNext
    BY <2>1, <2>2, <2>3, NextPosts, PostsSupply, OpenSupply DEF SupplyInv
  <2>4. CASE UNCHANGED ledgerVars
    BY <2>2, <2>4 DEF ledgerVars, SupplyInv, SupplyConserved, Applied
  <2> QED
    BY <2>3, <2>4
<1>3. SupplyInv => SupplyConserved
  BY DEF SupplyInv
<1> QED
  BY <1>1, <1>2, <1>3, PTL DEF LedgerSpec
---------------------------------------------------------------------------
(* Opening of accounts.  A request under way is one row of opener: what it  *)
(* holds it has found to agree, and no other request holds it.              *)
Definitions == [asset : STRING, scale : 0 .. 18]
AccountsNamed == {o.account : o \in Openings}
Owners == {o.owner : o \in Openings}
Refusals == {"ACCOUNT_ALREADY_EXISTS", "BALANCE_DEFINITION_INVALID", "ASSET_DEFINITION_CONFLICT",
             "DUPLICATE_KEY", "FAILED"}
Outcomes == [request : Openings, code : Refusals \cup {"CREATED"}]
Scales == 0 .. 18 \cup {Nobody}
OpenerStates == [at : {"idle", "owner", "assets", "account", "balances"},
                 request : Openings \cup {Nobody}, next : Nat \ {0}]

OpeningTyped ==
  /\ keeper \in {"memory", "postgres"}
  /\ catalog \in [AssetsNamed -> Scales]
  /\ owners \in [AccountsNamed -> Owners \cup {Nobody}]
  /\ opener \in [Openers -> OpenerStates]
  /\ outcomes \in Seq(Outcomes)

(* A request under way has found the definitions it holds to agree, and     *)
(* before its commit its account is free.                                   *)
Names(c, i) == Under(c).definitions[i].asset
HeldUpTo(c) == 1 .. (opener[c].next - 1)

Sound(c) ==
  opener[c].at # "idle" =>
    /\ keeper = "postgres" /\ Under(c) \in Openings
    /\ opener[c].at = "owner" => opener[c].next = 1
    /\ opener[c].at # "owner" => ~Repeats(Under(c))
    /\ opener[c].at = "assets" => opener[c].next <= Len(Under(c).definitions)
    /\ opener[c].at \in {"account", "balances"} => opener[c].next = Len(Under(c).definitions) + 1
    /\ \A i \in HeldUpTo(c) : Agrees(Under(c).definitions[i])
    /\ opener[c].at = "balances" => owners[Under(c).account] = Nobody

(* No two requests hold the same asset, nor the same account.               *)
Apart(c, d) ==
  opener[c].at # "idle" /\ opener[d].at # "idle" =>
    /\ \A i \in HeldUpTo(c), j \in HeldUpTo(d) : Names(c, i) # Names(d, j)
    /\ opener[c].at = "balances" /\ opener[d].at = "balances" =>
         Under(c).account # Under(d).account

OpeningWork == \A c \in Openers : Sound(c) /\ \A d \in Openers \ {c} : Apart(c, d)

OpeningInv == OpeningTyped /\ OpeningWork /\ OpenedWhole

(* What the schema says of a request.                                       *)
LEMMA OpeningFacts ==
  ASSUME NEW r \in Openings
  PROVE  /\ r.definitions \in Seq(Definitions) /\ Len(r.definitions) \in Nat \ {0}
         /\ \A i \in 1 .. Len(r.definitions) :
              /\ r.definitions[i] \in Definitions /\ r.definitions[i].asset \in AssetsNamed
              /\ r.definitions[i].scale \in Scales /\ r.definitions[i].scale # Nobody
         /\ r.account \in AccountsNamed /\ r.owner \in Owners /\ r.owner # Nobody
<1>1. /\ r.owner # Nobody /\ r.definitions \in Seq(Definitions) /\ r.definitions # << >>
      /\ Nobody \notin 0 .. 18
  BY OpeningAssumption DEF Definitions
<1>2. Len(r.definitions) \in Nat \ {0}
  BY <1>1
<1>3. \A i \in 1 .. Len(r.definitions) :
        r.definitions[i] \in Definitions /\ r.definitions[i].scale \in 0 .. 18
  <2>1. \A i \in 1 .. Len(r.definitions) : r.definitions[i] \in Definitions
    BY <1>1, <1>2
  <2>2. \A x \in Definitions : x.scale \in 0 .. 18
    BY DEF Definitions
  <2> QED
    BY <2>1, <2>2
<1>4. \A i \in 1 .. Len(r.definitions) : r.definitions[i].asset \in AssetsNamed
  BY DEF AssetsNamed
<1>5. r.account \in AccountsNamed /\ r.owner \in Owners
  BY DEF AccountsNamed, Owners
<1> QED
  BY <1>1, <1>2, <1>3, <1>4, <1>5 DEF Scales

(* Registering definitions that agree changes nothing that was defined.     *)
LEMMA RegisteredKeeps ==
  ASSUME OpeningTyped, NEW ds \in Seq(Definitions), Nobody \notin 0 .. 18,
         \A i \in 1 .. Len(ds) : Agrees(ds[i])
  PROVE  /\ Registered(ds) \in [AssetsNamed -> Scales]
         /\ \A a \in AssetsNamed :
              catalog[a] # Nobody \/ (\A i \in 1 .. Len(ds) : ds[i].asset # a) =>
                Registered(ds)[a] = catalog[a]
<1>1. /\ DOMAIN catalog = AssetsNamed /\ \A a \in AssetsNamed : catalog[a] \in Scales
      /\ \A i \in 1 .. Len(ds) : ds[i].scale \in 0 .. 18
  <2>1. \A i \in 1 .. Len(ds) : ds[i] \in Definitions
    OBVIOUS
  <2>2. \A x \in Definitions : x.scale \in 0 .. 18
    BY DEF Definitions
  <2> QED
    BY <2>1, <2>2 DEF OpeningTyped
<1>2. ASSUME NEW a \in AssetsNamed
      PROVE  /\ Registered(ds)[a] \in Scales
             /\ catalog[a] # Nobody \/ (\A i \in 1 .. Len(ds) : ds[i].asset # a) =>
                  Registered(ds)[a] = catalog[a]
  <2>1. CASE \E i \in 1 .. Len(ds) : ds[i].asset = a
    <3> PICK k : k = CHOOSE i \in 1 .. Len(ds) : ds[i].asset = a
      OBVIOUS
    <3>1. k \in 1 .. Len(ds) /\ ds[k].asset = a
      BY <2>1
    <3>2. Registered(ds)[a] = ds[k].scale
      BY <1>1, <2>1 DEF Registered
    <3>3. catalog[a] \in {Nobody, ds[k].scale}
      BY <3>1 DEF Agrees
    <3> QED
      BY <1>1, <3>1, <3>2, <3>3 DEF Scales
  <2>2. CASE ~\E i \in 1 .. Len(ds) : ds[i].asset = a
    <3>1. Registered(ds)[a] = catalog[a]
      BY <1>1, <2>2 DEF Registered
    <3> QED
      BY <1>1, <3>1
  <2> QED
    BY <2>1, <2>2
<1>3. Registered(ds) = [a \in AssetsNamed |-> Registered(ds)[a]]
  BY <1>1 DEF Registered
<1> QED
  BY <1>2, <1>3

(* With no asset named twice each has the scale it was named with.          *)
LEMMA RegisteredAll ==
  ASSUME OpeningTyped, NEW r \in Openings, ~Repeats(r), NEW k \in 1 .. Len(r.definitions)
  PROVE  Registered(r.definitions)[r.definitions[k].asset] = r.definitions[k].scale
<1> PICK ds, a : ds = r.definitions /\ a = ds[k].asset
  OBVIOUS
<1>1. DOMAIN catalog = AssetsNamed /\ a \in AssetsNamed
  BY OpeningFacts DEF OpeningTyped
<1>2. \A i \in 1 .. Len(ds) : ds[i].asset = a => i = k
  BY DEF Repeats
<1>3. (CHOOSE i \in 1 .. Len(ds) : ds[i].asset = a) = k
  BY <1>2
<1> QED
  BY <1>1, <1>3 DEF Registered

(* An answer that creates nothing: what was created stays as it is.         *)
LEMMA NothingCreated ==
  ASSUME OpeningTyped, OpenedWhole, UNCHANGED <<owners, opened>>,
         catalog' \in [AssetsNamed -> Scales],
         \A a \in AssetsNamed : catalog[a] # Nobody => catalog'[a] = catalog[a],
         \/ outcomes' = outcomes
         \/ \E r \in Openings, code \in Refusals : Answer(r, code)
  PROVE  /\ outcomes' \in Seq(Outcomes)
         /\ OpenedWhole'
<1>1. outcomes \in Seq(Outcomes)
  BY DEF OpeningTyped
<1>2. /\ outcomes' \in Seq(Outcomes)
      /\ Created' = Created /\ \A i \in Created : outcomes'[i] = outcomes[i]
  <2>1. CASE outcomes' = outcomes
    BY <1>1, <2>1 DEF Created
  <2>2. ASSUME NEW r \in Openings, NEW code \in Refusals, Answer(r, code)
        PROVE  /\ outcomes' \in Seq(Outcomes)
               /\ Created' = Created /\ \A i \in Created : outcomes'[i] = outcomes[i]
    <3>1. outcomes' = Append(outcomes, [request |-> r, code |-> code])
      BY <2>2 DEF Answer
    <3> PICK x : x = [request |-> r, code |-> code]
      OBVIOUS
    <3>2. x \in Outcomes /\ x.code # "CREATED"
      BY DEF Outcomes, Refusals
    <3>3. /\ outcomes' \in Seq(Outcomes)
          /\ Len(outcomes') = Len(outcomes) + 1 /\ Len(outcomes) \in Nat
          /\ outcomes'[Len(outcomes) + 1] = x
          /\ \A i \in 1 .. Len(outcomes) : outcomes'[i] = outcomes[i]
      BY <1>1, <3>1, <3>2
    <3>4. \A i \in 1 .. Len(outcomes') : i \in 1 .. Len(outcomes) \/ i = Len(outcomes) + 1
      BY <3>3
    <3>5. 1 .. Len(outcomes) \subseteq 1 .. Len(outcomes')
      BY <3>3
    <3>6. Created' = Created
      BY <3>2, <3>3, <3>4, <3>5 DEF Created
    <3> QED
      BY <3>3, <3>6 DEF Created
  <2> QED
    BY <2>1, <2>2
<1>3. ASSUME NEW i \in Created
      PROVE  LET r == outcomes[i].request IN
             /\ owners'[r.account] = r.owner
             /\ \A j \in Created \ {i} : outcomes[j].request.account # r.account
             /\ \A n \in 1..Len(r.definitions) :
                  catalog'[r.definitions[n].asset] = r.definitions[n].scale
  <2> PICK r : r = outcomes[i].request
    OBVIOUS
  <2>1. r \in Openings
    <3>1. i \in 1 .. Len(outcomes)
      BY DEF Created
    <3>2. outcomes[i] \in Outcomes
      BY <1>1, <3>1
    <3> QED
      BY <3>2 DEF Outcomes
  <2>2. /\ owners[r.account] = r.owner
        /\ \A j \in Created \ {i} : outcomes[j].request.account # r.account
        /\ \A n \in 1..Len(r.definitions) :
             catalog[r.definitions[n].asset] = r.definitions[n].scale
    BY DEF OpenedWhole
  <2>3. \A n \in 1..Len(r.definitions) :
          r.definitions[n].asset \in AssetsNamed /\ r.definitions[n].scale # Nobody
    BY <2>1, OpeningFacts
  <2>4. \A n \in 1..Len(r.definitions) :
             catalog'[r.definitions[n].asset] = r.definitions[n].scale
    BY <2>2, <2>3
  <2> QED
    BY <2>2, <2>4
<1>4. ASSUME NEW account \in DOMAIN owners
      PROVE  Listed(account)'
         = UNION {{outcomes'[i].request.definitions[n].asset :
                     n \in 1..Len(outcomes'[i].request.definitions)} :
                  i \in {j \in Created : outcomes'[j].request.account = account}}
  <2>1. Listed(account)' = Listed(account)
    BY DEF Listed
  <2>2. Listed(account) = UNION {{outcomes[i].request.definitions[n].asset :
                     n \in 1..Len(outcomes[i].request.definitions)} :
                  i \in {j \in Created : outcomes[j].request.account = account}}
    BY DEF OpenedWhole
  <2>3. {j \in Created : outcomes'[j].request.account = account}
         = {j \in Created : outcomes[j].request.account = account}
    BY <1>2
  <2>4. \A i \in Created : outcomes'[i].request = outcomes[i].request
    BY <1>2
  <2> QED
    BY <2>1, <2>2, <2>3, <2>4
<1>5. ASSUME NEW i \in Created'
      PROVE  LET r == outcomes'[i].request IN
             /\ owners'[r.account] = r.owner
             /\ \A j \in Created' \ {i} : outcomes'[j].request.account # r.account
             /\ \A n \in 1..Len(r.definitions) :
                  catalog'[r.definitions[n].asset] = r.definitions[n].scale
  BY <1>2, <1>3
<1>6. ASSUME NEW account \in DOMAIN owners'
      PROVE  Listed(account)'
         = UNION {{outcomes'[i].request.definitions[n].asset :
                     n \in 1..Len(outcomes'[i].request.definitions)} :
                  i \in {j \in Created' : outcomes'[j].request.account = account}}
  BY <1>2, <1>4
<1> QED
  BY <1>2, <1>5, <1>6 DEF OpenedWhole

(* A request is answered CREATED: its account was free, its definitions     *)
(* agree, and both are stored with its balances.                            *)
LEMMA OneIsCreated ==
  ASSUME OpeningTyped, OpenedWhole, NEW r \in Openings, ~Repeats(r),
         owners[r.account] = Nobody, \A i \in 1 .. Len(r.definitions) : Agrees(r.definitions[i]),
         catalog' = Registered(r.definitions),
         owners' = [owners EXCEPT ![r.account] = r.owner],
         opened' = opened \cup Balances(r), Answer(r, "CREATED")
  PROVE  /\ catalog' \in [AssetsNamed -> Scales]
         /\ owners' \in [AccountsNamed -> Owners \cup {Nobody}]
         /\ outcomes' \in Seq(Outcomes)
         /\ OpenedWhole'
<1>1. /\ outcomes \in Seq(Outcomes)
      /\ owners \in [AccountsNamed -> Owners \cup {Nobody}]
      /\ r.account \in AccountsNamed /\ r.owner \in Owners /\ r.owner # Nobody
      /\ r.definitions \in Seq(Definitions)
      /\ \A i \in 1 .. Len(r.definitions) :
            r.definitions[i].asset \in AssetsNamed /\ r.definitions[i].scale # Nobody
  BY OpeningFacts DEF OpeningTyped
<1>2. /\ catalog' \in [AssetsNamed -> Scales]
      /\ \A a \in AssetsNamed : catalog[a] # Nobody => catalog'[a] = catalog[a]
      /\ \A n \in 1 .. Len(r.definitions) :
           catalog'[r.definitions[n].asset] = r.definitions[n].scale
  <2>1. Nobody \notin 0 .. 18
    BY OpeningAssumption
  <2> QED
    BY <1>1, <2>1, RegisteredKeeps, RegisteredAll
<1>3. /\ owners' \in [AccountsNamed -> Owners \cup {Nobody}] /\ owners'[r.account] = r.owner
      /\ \A a \in AccountsNamed : a # r.account => owners'[a] = owners[a]
  BY <1>1
<1> PICK x : x = [request |-> r, code |-> "CREATED"]
  OBVIOUS
<1> PICK top : top = Len(outcomes) + 1
  OBVIOUS
<1>4. /\ outcomes' \in Seq(Outcomes) /\ top \in Nat
      /\ Created' = Created \cup {top} /\ top \notin Created
      /\ outcomes'[top].request = r
      /\ \A i \in Created : outcomes'[i] = outcomes[i]
  <2>1. outcomes' = Append(outcomes, x)
    BY DEF Answer
  <2>2. x \in Outcomes /\ x.code = "CREATED" /\ x.request = r
    BY DEF Outcomes
  <2>3. /\ outcomes' \in Seq(Outcomes)
        /\ Len(outcomes') = Len(outcomes) + 1 /\ Len(outcomes) \in Nat
        /\ outcomes'[Len(outcomes) + 1] = x
        /\ \A i \in 1 .. Len(outcomes) : outcomes'[i] = outcomes[i]
    BY <1>1, <2>1, <2>2
  <2>4. /\ \A i \in 1 .. Len(outcomes') : i \in 1 .. Len(outcomes) \/ i = Len(outcomes) + 1
        /\ top \in 1 .. Len(outcomes') /\ top \notin 1 .. Len(outcomes)
    BY <2>3
  <2>5. 1 .. Len(outcomes) \subseteq 1 .. Len(outcomes')
    BY <2>3
  <2>6. Created' = Created \cup {top}
    BY <2>2, <2>3, <2>4, <2>5 DEF Created
  <2>7. top \notin Created /\ \A i \in Created : outcomes'[i] = outcomes[i]
    BY <2>3, <2>4 DEF Created
  <2> QED
    BY <2>2, <2>3, <2>6, <2>7
<1>5. ASSUME NEW i \in Created
      PROVE  /\ outcomes[i].request \in Openings
             /\ owners[outcomes[i].request.account] = outcomes[i].request.owner
             /\ outcomes[i].request.account # r.account
  <2>1. i \in 1 .. Len(outcomes)
    BY DEF Created
  <2>2. outcomes[i] \in Outcomes
    BY <1>1, <2>1
  <2>3. outcomes[i].request \in Openings
    BY <2>2 DEF Outcomes
  <2>4. owners[outcomes[i].request.account] = outcomes[i].request.owner
    BY DEF OpenedWhole
  <2>5. outcomes[i].request.owner # Nobody
    BY <2>3, OpeningFacts
  <2> QED
    BY <2>3, <2>4, <2>5
<1>6. ASSUME NEW i \in Created
      PROVE  LET q == outcomes[i].request IN
             /\ owners'[q.account] = q.owner
             /\ \A j \in (Created \cup {top}) \ {i} : outcomes'[j].request.account # q.account
             /\ \A n \in 1..Len(q.definitions) :
                  catalog'[q.definitions[n].asset] = q.definitions[n].scale
  <2> PICK q : q = outcomes[i].request
    OBVIOUS
  <2>1. /\ q \in Openings /\ q.account # r.account /\ owners[q.account] = q.owner
    BY <1>5
  <2>2. /\ \A j \in Created \ {i} : outcomes[j].request.account # q.account
        /\ \A n \in 1..Len(q.definitions) :
             catalog[q.definitions[n].asset] = q.definitions[n].scale
    BY DEF OpenedWhole
  <2>3. \A j \in (Created \cup {top}) \ {i} : outcomes'[j].request.account # q.account
    BY <1>4, <2>1, <2>2
  <2>4. q.account \in AccountsNamed /\ \A n \in 1..Len(q.definitions) :
          q.definitions[n].asset \in AssetsNamed /\ q.definitions[n].scale # Nobody
    BY <2>1, OpeningFacts
  <2>5. \A n \in 1..Len(q.definitions) :
             catalog'[q.definitions[n].asset] = q.definitions[n].scale
    BY <1>2, <2>2, <2>4
  <2> QED
    BY <1>3, <2>1, <2>3, <2>4, <2>5
<1>7. ASSUME NEW i \in Created'
      PROVE  LET q == outcomes'[i].request IN
             /\ owners'[q.account] = q.owner
             /\ \A j \in Created' \ {i} : outcomes'[j].request.account # q.account
             /\ \A n \in 1..Len(q.definitions) :
                  catalog'[q.definitions[n].asset] = q.definitions[n].scale
  <2>1. CASE i \in Created
    BY <1>4, <1>6, <2>1
  <2>2. CASE i = top
    <3>1. \A j \in Created' \ {i} : outcomes'[j].request.account # r.account
      BY <1>4, <1>5, <2>2
    <3> QED
      BY <1>2, <1>3, <1>4, <2>2, <3>1
  <2> QED
    BY <1>4, <2>1, <2>2
<1>8. ASSUME NEW account \in DOMAIN owners'
      PROVE  Listed(account)'
         = UNION {{outcomes'[i].request.definitions[n].asset :
                     n \in 1..Len(outcomes'[i].request.definitions)} :
                  i \in {j \in Created' : outcomes'[j].request.account = account}}
  <2> DEFINE AssetsOf(q) == {q.definitions[n].asset : n \in 1 .. Len(q.definitions)}
  <2>1. account \in DOMAIN owners
    BY <1>1, <1>3
  <2>2. Listed(account) = UNION {AssetsOf(outcomes[i].request) :
                  i \in {j \in Created : outcomes[j].request.account = account}}
    BY <2>1 DEF OpenedWhole
  <2>3. \A i \in Created : outcomes'[i].request = outcomes[i].request
    BY <1>4
  <2>4. CASE account # r.account
    <3>1. Listed(account)' = Listed(account)
      <4>1. \A p \in Balances(r) : p[1] = r.account
        BY DEF Balances
      <4> QED
        BY <2>4, <4>1 DEF Listed
    <3>2. {j \in Created' : outcomes'[j].request.account = account}
            = {j \in Created : outcomes[j].request.account = account}
      BY <1>4, <2>3, <2>4
    <3> HIDE DEF AssetsOf
    <3>3. UNION {AssetsOf(outcomes'[i].request) :
                  i \in {j \in Created' : outcomes'[j].request.account = account}}
            = UNION {AssetsOf(outcomes[i].request) :
                  i \in {j \in Created : outcomes[j].request.account = account}}
      BY <2>3, <3>2
    <3> QED
      BY <2>2, <3>1, <3>3 DEF AssetsOf
  <2>5. CASE account = r.account
    <3>1. {j \in Created : outcomes[j].request.account = account} = {}
      BY <1>5, <2>5
    <3>2. Listed(account) = {}
      BY <2>2, <3>1
    <3>3. Listed(account)' = AssetsOf(r)
      <4>1. \A p \in Balances(r) : p[1] = account
        BY <2>5 DEF Balances
      <4>2. {p[2] : p \in Balances(r)} = AssetsOf(r)
        <5>1. \A i \in 1 .. Len(r.definitions) :
                <<r.account, r.definitions[i].asset>> \in Balances(r)
          BY DEF Balances
        <5>2. \A p \in Balances(r) : p[2] \in AssetsOf(r)
          BY DEF Balances
        <5>3. \A a \in AssetsOf(r) : <<r.account, a>> \in Balances(r)
          BY <5>1
        <5> HIDE DEF AssetsOf
        <5>4. \A a \in AssetsOf(r) : \E p \in Balances(r) : p[2] = a
          BY <5>3
        <5> QED
          BY <5>2, <5>4
      <4>3. {q \in opened : q[1] = account} = {}
        BY <3>2 DEF Listed
      <4>4. {q \in opened' : q[1] = account} = Balances(r)
        BY <4>1, <4>3
      <4> QED
        BY <4>2, <4>4 DEF Listed
    <3>4. {j \in Created' : outcomes'[j].request.account = account} = {top}
      BY <1>4, <1>5, <2>5
    <3> HIDE DEF AssetsOf
    <3>5. UNION {AssetsOf(outcomes'[i].request) : i \in {top}} = AssetsOf(r)
      BY <1>4
    <3> QED
      BY <3>3, <3>4, <3>5 DEF AssetsOf
  <2> QED
    BY <2>4, <2>5
<1>9. OpenedWhole'
  BY <1>7, <1>8 DEF OpenedWhole
<1> QED
  BY <1>2, <1>3, <1>4, <1>9

(* In memory a request is one turn.                                         *)
LEMMA InMemoryInv ==
  ASSUME OpeningInv, NEW r \in Openings, createInMemory(r)
  PROVE  OpeningInv'
<1>1. /\ OpeningTyped /\ OpeningWork /\ OpenedWhole /\ keeper = "memory"
      /\ keeper' = keeper /\ opener' = opener
      /\ r.definitions \in Seq(Definitions) /\ Len(r.definitions) \in Nat
      /\ Nobody \notin 0 .. 18
  BY OpeningFacts, OpeningAssumption DEF OpeningInv, createInMemory
<1>2. OpeningWork'
  <2>1. \A c \in Openers : opener[c].at = "idle"
    BY <1>1 DEF OpeningWork, Sound
  <2> QED
    BY <1>1, <2>1 DEF OpeningWork, Sound, Apart
<1>3. ASSUME UNCHANGED stored, NEW code \in Refusals, Answer(r, code)
      PROVE  OpeningTyped' /\ OpenedWhole'
  <2>1. UNCHANGED <<owners, opened>> /\ catalog' = catalog
    BY <1>3 DEF stored
  <2>2. catalog' \in [AssetsNamed -> Scales]
    BY <1>1, <2>1 DEF OpeningTyped
  <2>3. outcomes' \in Seq(Outcomes) /\ OpenedWhole'
    BY <1>1, <1>3, <2>1, <2>2, NothingCreated
  <2> QED
    BY <1>1, <2>1, <2>3 DEF OpeningTyped
<1>4. CASE owners[r.account] = Nobody /\ ~Repeats(r) /\ Conflicts(r) # {} /\
           Answer(r, "ASSET_DEFINITION_CONFLICT")
  <2>a. PICK first : first = CHOOSE i \in Conflicts(r) : \A j \in Conflicts(r) : i <= j
    OBVIOUS
  <2>b. PICK ds : ds = SubSeq(r.definitions, 1, first - 1)
    OBVIOUS
  <2>1. catalog' = Registered(ds) /\ UNCHANGED <<owners, opened>>
    BY <1>4, <2>a, <2>b DEF createInMemory
  <2>2. \E i \in Conflicts(r) : \A j \in Conflicts(r) : i <= j
    <3>1. Conflicts(r) \subseteq Nat
      BY <1>1 DEF Conflicts
    <3> QED
      BY <1>4, <3>1, LeastElement
  <2>3. first \in Conflicts(r) /\ \A j \in Conflicts(r) : first <= j
    BY <2>a, <2>2
  <2>4. first \in 1 .. Len(r.definitions)
    BY <2>3 DEF Conflicts
  <2>5. /\ ds \in Seq(Definitions) /\ Len(ds) = first - 1
        /\ \A i \in 1 .. (first - 1) : ds[i] = r.definitions[i]
    <3>1. /\ \A i \in 1 .. (first - 1) : r.definitions[i] \in Definitions
          /\ 1 \in Int /\ first - 1 \in Int
      BY <1>1, <2>4
    <3>2. /\ ds \in Seq(Definitions)
          /\ Len(ds) = IF 1 <= first - 1 THEN (first - 1) - 1 + 1 ELSE 0
          /\ \A i \in 1 .. ((first - 1) - 1 + 1) : ds[i] = r.definitions[1 + i - 1]
      BY <2>b, <3>1, SubSeqProperties
    <3> QED
      BY <2>4, <3>2
  <2>6. \A i \in 1 .. (first - 1) : Agrees(r.definitions[i])
    <3> SUFFICES ASSUME NEW i \in 1 .. (first - 1), ~Agrees(r.definitions[i]) PROVE FALSE
      OBVIOUS
    <3>1. i \in 1 .. Len(r.definitions) /\ i < first
      BY <1>1, <2>4
    <3>2. i \in Conflicts(r)
      BY <3>1 DEF Conflicts
    <3> QED
      BY <2>3, <2>4, <3>1, <3>2
  <2>7. /\ catalog' \in [AssetsNamed -> Scales]
        /\ \A a \in AssetsNamed : catalog[a] # Nobody => catalog'[a] = catalog[a]
    <3>1. \A i \in 1 .. Len(ds) : Agrees(ds[i])
      BY <2>5, <2>6
    <3> QED
      BY <1>1, <2>1, <2>5, <3>1, RegisteredKeeps
  <2>8. outcomes' \in Seq(Outcomes) /\ OpenedWhole'
    BY <1>1, <1>4, <2>1, <2>7, NothingCreated DEF Refusals
  <2>9. OpeningTyped'
    BY <1>1, <2>1, <2>7, <2>8 DEF OpeningTyped
  <2> QED
    BY <1>2, <2>8, <2>9 DEF OpeningInv
<1>5. CASE owners[r.account] = Nobody /\ ~Repeats(r) /\ Conflicts(r) = {} /\ Answer(r, "CREATED")
  <2>1. \A i \in 1 .. Len(r.definitions) : Agrees(r.definitions[i])
    BY <1>5 DEF Conflicts
  <2>2. /\ catalog' = Registered(r.definitions)
        /\ owners' = [owners EXCEPT ![r.account] = r.owner]
        /\ opened' = opened \cup Balances(r)
    BY <1>5 DEF createInMemory, Answer
  <2>3. /\ catalog' \in [AssetsNamed -> Scales]
         /\ owners' \in [AccountsNamed -> Owners \cup {Nobody}]
         /\ outcomes' \in Seq(Outcomes)
         /\ OpenedWhole'
    BY <1>1, <1>5, <2>1, <2>2, OneIsCreated
  <2>4. OpeningTyped'
    BY <1>1, <2>3 DEF OpeningTyped
  <2> QED
    BY <1>2, <2>3, <2>4 DEF OpeningInv
<1>6. \/ UNCHANGED stored /\ \E code \in Refusals : Answer(r, code)
      \/ owners[r.account] = Nobody /\ ~Repeats(r) /\ Conflicts(r) # {} /\
           Answer(r, "ASSET_DEFINITION_CONFLICT")
      \/ owners[r.account] = Nobody /\ ~Repeats(r) /\ Conflicts(r) = {} /\ Answer(r, "CREATED")
  BY DEF createInMemory, Refusals
<1>7. CASE UNCHANGED stored /\ \E code \in Refusals : Answer(r, code)
  <2>1. OpeningTyped' /\ OpenedWhole'
    BY <1>3, <1>7
  <2> QED
    BY <1>2, <2>1 DEF OpeningInv
<1> QED
  BY <1>4, <1>5, <1>6, <1>7

(* One request moves under PostgreSQL, the others do not.                   *)
LEMMA OthersApart ==
  ASSUME OpeningTyped, OpeningWork, NEW c \in Openers, NEW n \in OpenerStates,
         opener' = [opener EXCEPT ![c] = n], keeper' = keeper,
         Sound(c)', \A d \in Openers \ {c} : Apart(c, d)',
         \A d \in Openers \ {c} : Sound(d) => Sound(d)'
  PROVE  OpeningWork' /\ opener' \in [Openers -> OpenerStates]
<1>1. opener' \in [Openers -> OpenerStates] /\ \A d \in Openers \ {c} : opener'[d] = opener[d]
  BY DEF OpeningTyped
<1>2. ASSUME NEW d \in Openers PROVE Sound(d)'
  BY DEF OpeningWork
<1>3. ASSUME NEW d \in Openers, NEW e \in Openers \ {d} PROVE Apart(d, e)'
  <2>1. CASE d = c
    BY <2>1
  <2>2. CASE e = c
    <3>1. Apart(c, d)'
      BY <1>3, <2>2
    <3> QED
      BY <2>2, <3>1 DEF Apart, HeldUpTo, Names, Under
  <2>3. CASE d # c /\ e # c
    <3>1. Apart(d, e)
      BY <1>3 DEF OpeningWork
    <3>2. opener'[d] = opener[d] /\ opener'[e] = opener[e]
      BY <1>1, <2>3
    <3> QED
      BY <3>1, <3>2 DEF Apart, HeldUpTo, Names, Under
  <2> QED
    BY <2>1, <2>2, <2>3
<1> QED
  BY <1>1, <1>2, <1>3 DEF OpeningWork

(* A request that moves without touching what is stored.                    *)
LEMMA OpenerMoves ==
  ASSUME OpeningInv, NEW c \in Openers, NEW n \in OpenerStates,
         OpenerGoto(c, n), UNCHANGED <<keeper, stored>>,
         \/ outcomes' = outcomes
         \/ \E r \in Openings, code \in Refusals : Answer(r, code),
         Sound(c)', \A d \in Openers \ {c} : Apart(c, d)'
  PROVE  OpeningInv'
<1>1. /\ OpeningTyped /\ OpeningWork /\ OpenedWhole
      /\ opener' = [opener EXCEPT ![c] = n] /\ keeper' = keeper /\ catalog' = catalog
      /\ UNCHANGED <<owners, opened>>
  BY DEF OpeningInv, OpenerGoto, stored
<1>2. \A d \in Openers \ {c} : Sound(d) => Sound(d)'
  <2>1. \A d \in Openers \ {c} : opener'[d] = opener[d]
    BY <1>1 DEF OpeningTyped
  <2> QED
    BY <1>1, <2>1 DEF Sound, HeldUpTo, Under, Repeats, Agrees
<1>3. OpeningWork' /\ opener' \in [Openers -> OpenerStates]
  BY <1>1, <1>2, OthersApart
<1>4. catalog' \in [AssetsNamed -> Scales]
  BY <1>1 DEF OpeningTyped
<1>5. outcomes' \in Seq(Outcomes) /\ OpenedWhole'
  BY <1>1, <1>4, NothingCreated
<1> QED
  BY <1>1, <1>3, <1>5 DEF OpeningInv, OpeningTyped

(* ROLLBACK, with an answer or without.                                     *)
LEMMA AbortInv ==
  ASSUME OpeningInv, NEW c \in Openers, opener[c].at # "idle",
         processLost(c) \/ \E code \in Refusals : Abort(c, code)
  PROVE  OpeningInv'
<1>1. /\ opener \in [Openers -> OpenerStates] /\ Under(c) \in Openings
  BY DEF OpeningInv, OpeningTyped, OpeningWork, Sound
<1>2. /\ OpenerGoto(c, OpenerIdle) /\ UNCHANGED <<keeper, stored>>
      /\ \/ outcomes' = outcomes
         \/ \E r \in Openings, code \in Refusals : Answer(r, code)
  BY <1>1 DEF processLost, Abort
<1>3. OpenerIdle \in OpenerStates
  BY DEF OpenerIdle, OpenerStates
<1>4. opener'[c].at = "idle"
  BY <1>1, <1>2 DEF OpenerGoto, OpenerIdle
<1>5. Sound(c)' /\ \A d \in Openers \ {c} : Apart(c, d)'
  BY <1>4 DEF Sound, Apart
<1> QED
  BY <1>2, <1>3, <1>5, OpenerMoves

(* A request begins, and looks whether its account is free.                 *)
LEMMA BeginOpeningInv ==
  ASSUME OpeningInv, NEW c \in Openers,
         (\E r \in Openings : createAccount(c, r)) \/ getAccountOwner(c)
  PROVE  OpeningInv'
<1>1. /\ opener \in [Openers -> OpenerStates] /\ Sound(c) /\ keeper = keeper
  BY DEF OpeningInv, OpeningTyped, OpeningWork
<1>2. ASSUME NEW r \in Openings, createAccount(c, r) PROVE OpeningInv'
  <2> PICK n : n = [at |-> "owner", request |-> r, next |-> 1]
    OBVIOUS
  <2>1. n \in OpenerStates /\ n.at = "owner" /\ n.request = r /\ n.next = 1
    BY DEF OpenerStates
  <2>2. /\ OpenerGoto(c, n) /\ UNCHANGED <<keeper, stored>> /\ outcomes' = outcomes
        /\ keeper = "postgres"
    BY <1>2 DEF createAccount
  <2>3. opener'[c] = n
    BY <1>1, <2>2 DEF OpenerGoto
  <2>4. HeldUpTo(c)' = {}
    BY <2>1, <2>3 DEF HeldUpTo
  <2>5. Sound(c)'
    BY <2>1, <2>2, <2>3, <2>4 DEF Sound, Under
  <2>6. \A d \in Openers \ {c} : Apart(c, d)'
    BY <2>1, <2>3, <2>4 DEF Apart
  <2> QED
    BY <2>1, <2>2, <2>5, <2>6, OpenerMoves
<1>3. CASE getAccountOwner(c)
  <2>1. CASE \E code \in Refusals : Abort(c, code)
    <3>1. opener[c].at # "idle"
      BY <1>3 DEF getAccountOwner
    <3> QED
      BY <2>1, <3>1, AbortInv
  <2>2. CASE ~Repeats(Under(c)) /\ OpenerGoto(c, [opener[c] EXCEPT !.at = "assets"])
             /\ UNCHANGED <<keeper, stored, outcomes>>
    <3> PICK n : n = [opener[c] EXCEPT !.at = "assets"]
      OBVIOUS
    <3>1. opener[c].at = "owner" /\ opener[c] \in OpenerStates
      BY <1>1, <1>3 DEF getAccountOwner
    <3>2. /\ n \in OpenerStates /\ n.at = "assets" /\ n.request = Under(c) /\ n.next = opener[c].next
      BY <3>1 DEF OpenerStates, Under
    <3>3. Under(c) \in Openings /\ keeper = "postgres" /\ opener[c].next = 1
      BY <1>1, <3>1 DEF Sound
    <3>4. opener'[c] = n
      BY <1>1, <2>2 DEF OpenerGoto
    <3>5. HeldUpTo(c)' = {}
      BY <3>2, <3>3, <3>4 DEF HeldUpTo
    <3>6. 1 <= Len(Under(c).definitions)
      BY <3>3, OpeningFacts
    <3>7. Sound(c)'
      BY <2>2, <3>2, <3>3, <3>4, <3>5, <3>6 DEF Sound, Under, Repeats
    <3>8. \A d \in Openers \ {c} : Apart(c, d)'
      BY <3>2, <3>4, <3>5 DEF Apart
    <3> QED
      BY <2>2, <3>2, <3>7, <3>8, OpenerMoves
  <2> QED
    BY <1>3, <2>1, <2>2 DEF getAccountOwner, Refusals
<1> QED
  BY <1>2, <1>3

(* The row of an asset: nobody else holds it.                               *)
LEMMA RegisterAssetInv ==
  ASSUME OpeningInv, NEW c \in Openers, registerAsset(c)
  PROVE  OpeningInv'
<1>1. /\ opener \in [Openers -> OpenerStates] /\ Sound(c)
      /\ opener[c].at = "assets" /\ opener[c] \in OpenerStates
      /\ \A d \in Openers \ {c} : Apart(c, d)
  BY DEF OpeningInv, OpeningTyped, OpeningWork, registerAsset
<1>2. CASE \E code \in Refusals : Abort(c, code)
  BY <1>1, <1>2, AbortInv
<1>3. CASE /\ Agrees(Under(c).definitions[opener[c].next])
           /\ OpenerGoto(c, [opener[c] EXCEPT !.next = @ + 1,
                !.at = IF opener[c].next = Len(Under(c).definitions) THEN "account" ELSE "assets"])
           /\ UNCHANGED <<keeper, stored, outcomes>>
  <2> PICK k : k = opener[c].next
    OBVIOUS
  <2> PICK n : n = [opener[c] EXCEPT !.next = @ + 1,
                !.at = IF k = Len(Under(c).definitions) THEN "account" ELSE "assets"]
    OBVIOUS
  <2>1. /\ Under(c) \in Openings /\ keeper = "postgres" /\ k \in Nat \ {0} /\ ~Repeats(Under(c))
        /\ k <= Len(Under(c).definitions) /\ Len(Under(c).definitions) \in Nat
        /\ \A i \in 1 .. (k - 1) : Agrees(Under(c).definitions[i])
    BY <1>1, OpeningFacts DEF Sound, OpenerStates, HeldUpTo
  <2>2. /\ n \in OpenerStates /\ n.at = IF k = Len(Under(c).definitions) THEN "account" ELSE "assets"
        /\ n.request = Under(c) /\ n.next = k + 1
    <3> PICK to : to = IF k = Len(Under(c).definitions) THEN "account" ELSE "assets"
      OBVIOUS
    <3>1. to \in {"idle", "owner", "assets", "account", "balances"} /\ k + 1 \in Nat \ {0}
      BY <2>1
    <3>2. n = [opener[c] EXCEPT !.next = k + 1, !.at = to]
      OBVIOUS
    <3>3. n = [at |-> to, request |-> opener[c].request, next |-> k + 1]
      BY <1>1, <3>2 DEF OpenerStates
    <3>4. opener[c].request \in Openings \cup {Nobody}
      BY <1>1 DEF OpenerStates
    <3>5. n \in OpenerStates
      BY <3>1, <3>3, <3>4 DEF OpenerStates
    <3> QED
      BY <3>3, <3>5 DEF Under
  <2>3. opener'[c] = n /\ OpenerGoto(c, n) /\ Under(c)' = Under(c)
    BY <1>1, <1>3, <2>2 DEF OpenerGoto, Under
  <2>4. HeldUpTo(c)' = HeldUpTo(c) \cup {k} /\ HeldUpTo(c) = 1 .. (k - 1)
    BY <2>1, <2>2, <2>3 DEF HeldUpTo
  <2>5. catalog' = catalog /\ owners' = owners
    BY <1>3 DEF stored
  <2>6. Sound(c)'
    <3>1. \A i \in HeldUpTo(c)' : Agrees(Under(c).definitions[i])
      BY <1>3, <2>1, <2>4
    <3> QED
      <4>1. /\ n.at = "assets" => n.next <= Len(Under(c).definitions)
            /\ n.at = "account" => n.next = Len(Under(c).definitions) + 1
            /\ n.at \in {"assets", "account"}
        BY <2>1, <2>2
      <4>2. \A i \in HeldUpTo(c)' : Agrees(Under(c).definitions[i])'
        BY <2>3, <2>5, <3>1 DEF Agrees
      <4>3. Repeats(Under(c))' = Repeats(Under(c))
        BY <2>3 DEF Repeats
      <4>4. opener'[c].at = n.at /\ opener'[c].next = n.next /\ keeper' = keeper
        BY <1>3, <2>3
      <4> QED
        BY <2>1, <2>3, <4>1, <4>2, <4>3, <4>4 DEF Sound
  <2>7. ASSUME NEW d \in Openers \ {c} PROVE Apart(c, d)'
    <3>1. opener'[d] = opener[d]
      BY <1>1, <2>3 DEF OpenerGoto
    <3>2. opener[d].at = "idle" \/ ~Holds(d, Names(c, k))
      BY DEF registerAsset, Ahead, Names
    <3>3. opener[d].at # "idle" => \A j \in HeldUpTo(d) : Names(c, k) # Names(d, j)
      BY <3>2 DEF Holds, HeldUpTo, Names
    <3>4. opener[d].at # "idle" => \A i \in HeldUpTo(c), j \in HeldUpTo(d) : Names(c, i) # Names(d, j)
      BY <1>1 DEF Apart
    <3>5. HeldUpTo(d)' = HeldUpTo(d) /\ Under(d)' = Under(d)
      BY <3>1 DEF HeldUpTo, Under
    <3>6. opener[d].at # "idle" =>
            \A i \in HeldUpTo(c)', j \in HeldUpTo(d)' : Names(c, i) # Names(d, j)
      BY <2>4, <3>3, <3>4, <3>5
    <3>7. \A i : Names(c, i)' = Names(c, i) /\ Names(d, i)' = Names(d, i)
      BY <2>3, <3>5 DEF Names
    <3> QED
      BY <2>2, <2>3, <3>1, <3>6, <3>7 DEF Apart
  <2> QED
    BY <1>3, <2>2, <2>3, <2>6, <2>7, OpenerMoves
<1> QED
  BY <1>2, <1>3 DEF registerAsset, Refusals

(* The row of an account: nobody else holds it.                             *)
LEMMA RegisterAccountInv ==
  ASSUME OpeningInv, NEW c \in Openers, registerAccount(c)
  PROVE  OpeningInv'
<1>1. /\ opener \in [Openers -> OpenerStates] /\ Sound(c)
      /\ opener[c].at = "account" /\ opener[c] \in OpenerStates
      /\ \A d \in Openers \ {c} : Apart(c, d)
  BY DEF OpeningInv, OpeningTyped, OpeningWork, registerAccount
<1>2. CASE \E code \in Refusals : Abort(c, code)
  BY <1>1, <1>2, AbortInv
<1>3. CASE /\ owners[Under(c).account] = Nobody
           /\ OpenerGoto(c, [opener[c] EXCEPT !.at = "balances"])
           /\ UNCHANGED <<keeper, stored, outcomes>>
  <2> PICK n : n = [opener[c] EXCEPT !.at = "balances"]
    OBVIOUS
  <2>1. /\ n \in OpenerStates /\ n.at = "balances" /\ n.request = Under(c) /\ n.next = opener[c].next
    BY <1>1 DEF OpenerStates, Under
  <2>2. opener'[c] = n /\ OpenerGoto(c, n) /\ Under(c)' = Under(c) /\ HeldUpTo(c)' = HeldUpTo(c)
    BY <1>1, <1>3, <2>1 DEF OpenerGoto, Under, HeldUpTo
  <2>3. catalog' = catalog /\ owners' = owners
    BY <1>3 DEF stored
  <2>4. Sound(c)'
    BY <1>1, <1>3, <2>1, <2>2, <2>3 DEF Sound, Repeats, Agrees, Under
  <2>5. ASSUME NEW d \in Openers \ {c} PROVE Apart(c, d)'
    <3>1. opener'[d] = opener[d] /\ Under(d)' = Under(d) /\ HeldUpTo(d)' = HeldUpTo(d)
      BY <1>1, <2>2 DEF OpenerGoto, Under, HeldUpTo
    <3>2. ~HoldsAccount(d, Under(c).account)
      BY <1>1 DEF registerAccount, Ahead
    <3>3. opener[d].at = "balances" => Under(c).account # Under(d).account
      BY <3>2 DEF HoldsAccount
    <3>4. Apart(c, d)
      BY <1>1
    <3> QED
      BY <1>1, <2>1, <2>2, <3>1, <3>3, <3>4 DEF Apart, Names
  <2> QED
    BY <1>3, <2>1, <2>2, <2>4, <2>5, OpenerMoves
<1> QED
  BY <1>2, <1>3 DEF registerAccount, Refusals

(* COMMIT: what the others hold is not touched.                             *)
LEMMA OpenBalancesInv ==
  ASSUME OpeningInv, NEW c \in Openers, openBalances(c)
  PROVE  OpeningInv'
<1> PICK r : r = Under(c)
  OBVIOUS
<1>1. /\ OpeningTyped /\ OpeningWork /\ OpenedWhole
      /\ opener \in [Openers -> OpenerStates] /\ Sound(c) /\ opener[c].at = "balances"
      /\ \A d \in Openers \ {c} : Apart(c, d)
  BY DEF OpeningInv, OpeningTyped, OpeningWork, openBalances
<1>2. /\ r \in Openings /\ ~Repeats(r) /\ owners[r.account] = Nobody
      /\ HeldUpTo(c) = 1 .. Len(r.definitions)
      /\ \A i \in 1 .. Len(r.definitions) : Agrees(r.definitions[i])
      /\ r.definitions \in Seq(Definitions)
      /\ Nobody \notin 0 .. 18
  <2>1. /\ r \in Openings /\ ~Repeats(r) /\ owners[r.account] = Nobody
        /\ opener[c].next = Len(r.definitions) + 1
        /\ \A i \in HeldUpTo(c) : Agrees(r.definitions[i])
    BY <1>1 DEF Sound
  <2>2. Len(r.definitions) \in Nat /\ r.definitions \in Seq(Definitions)
    BY <2>1, OpeningFacts
  <2>3. HeldUpTo(c) = 1 .. Len(r.definitions)
    BY <2>1, <2>2 DEF HeldUpTo
  <2> QED
    BY <2>1, <2>2, <2>3, OpeningAssumption
<1>3. /\ catalog' = Registered(r.definitions)
      /\ owners' = [owners EXCEPT ![r.account] = r.owner]
      /\ opened' = opened \cup Balances(r)
      /\ Answer(r, "CREATED") /\ keeper' = keeper
      /\ opener' = [opener EXCEPT ![c] = OpenerIdle]
  BY DEF openBalances, OpenerGoto
<1>4. /\ catalog' \in [AssetsNamed -> Scales]
      /\ owners' \in [AccountsNamed -> Owners \cup {Nobody}]
      /\ outcomes' \in Seq(Outcomes)
      /\ OpenedWhole'
  BY <1>1, <1>2, <1>3, OneIsCreated
<1>5. OpenerIdle \in OpenerStates /\ opener'[c].at = "idle"
  BY <1>1, <1>3 DEF OpenerIdle, OpenerStates
<1>6. Sound(c)' /\ \A d \in Openers \ {c} : Apart(c, d)'
  BY <1>5 DEF Sound, Apart
<1>7. ASSUME NEW d \in Openers \ {c}, Sound(d), opener[d].at # "idle" PROVE Sound(d)'
  <2>1. opener'[d] = opener[d] /\ Under(d)' = Under(d) /\ HeldUpTo(d)' = HeldUpTo(d)
    BY <1>1, <1>3 DEF Under, HeldUpTo
  <2> PICK q : q = Under(d)
    OBVIOUS
  <2>2. q \in Openings /\ opener[d].next \in Nat \ {0} /\ Len(q.definitions) \in Nat
    BY <1>1, <1>7, OpeningFacts DEF Sound, OpenerStates
  <2>3. HeldUpTo(d) \subseteq 1 .. Len(q.definitions)
    BY <1>1, <1>7, <2>2 DEF Sound, HeldUpTo, OpenerStates
  <2>4. ASSUME NEW j \in HeldUpTo(d) PROVE Agrees(q.definitions[j])'
    <3> PICK a : a = q.definitions[j].asset
      OBVIOUS
    <3>1. a \in AssetsNamed
      BY <2>2, <2>3, OpeningFacts
    <3>2. \A i \in 1 .. Len(r.definitions) : r.definitions[i].asset # a
      BY <1>1, <1>2, <1>7 DEF Apart, Names
    <3>3. catalog'[a] = catalog[a]
      BY <1>1, <1>2, <1>3, <3>1, <3>2, RegisteredKeeps
    <3>4. Agrees(q.definitions[j])
      BY <1>7 DEF Sound
    <3> QED
      BY <3>3, <3>4 DEF Agrees
  <2>5. opener[d].at = "balances" => owners'[q.account] = Nobody
    <3> SUFFICES ASSUME opener[d].at = "balances" PROVE owners'[q.account] = Nobody
      OBVIOUS
    <3>1. q.account # r.account /\ owners[q.account] = Nobody
      BY <1>1, <1>7 DEF Apart, Sound
    <3>2. q.account \in AccountsNamed /\ owners \in [AccountsNamed -> Owners \cup {Nobody}]
      BY <1>1, <2>2, OpeningFacts DEF OpeningTyped
    <3> QED
      BY <1>3, <3>1, <3>2
  <2>6. \A j \in HeldUpTo(d)' : Agrees(Under(d).definitions[j])'
    BY <2>1, <2>4
  <2> QED
    BY <1>3, <1>7, <2>1, <2>5, <2>6 DEF Sound, Repeats
<1>8. ASSUME NEW d \in Openers \ {c}, Sound(d) PROVE Sound(d)'
  <2>1. opener'[d] = opener[d]
    BY <1>1, <1>3
  <2>2. CASE opener[d].at = "idle"
    BY <2>1, <2>2 DEF Sound
  <2> QED
    BY <1>7, <1>8, <2>2
<1>9. OpeningWork' /\ opener' \in [Openers -> OpenerStates]
  BY <1>1, <1>3, <1>5, <1>6, <1>8, OthersApart
<1> QED
  BY <1>1, <1>3, <1>4, <1>9 DEF OpeningInv, OpeningTyped

(* Every step of an opening.                                                *)
LEMMA OpeningStep ==
  ASSUME OpeningInv, [OpeningNext]_openingVars
  PROVE  OpeningInv'
<1>1. ASSUME NEW r \in Openings, createInMemory(r) PROVE OpeningInv'
  BY <1>1, InMemoryInv
<1>2. ASSUME NEW c \in Openers, NEW r \in Openings, createAccount(c, r) PROVE OpeningInv'
  BY <1>2, BeginOpeningInv
<1>3. ASSUME NEW c \in Openers, getAccountOwner(c) PROVE OpeningInv'
  BY <1>3, BeginOpeningInv
<1>4. ASSUME NEW c \in Openers, registerAsset(c) PROVE OpeningInv'
  BY <1>4, RegisterAssetInv
<1>5. ASSUME NEW c \in Openers, registerAccount(c) PROVE OpeningInv'
  BY <1>5, RegisterAccountInv
<1>6. ASSUME NEW c \in Openers, openBalances(c) PROVE OpeningInv'
  BY <1>6, OpenBalancesInv
<1>7. ASSUME NEW c \in Openers, deadlockDetected(c) PROVE OpeningInv'
  <2>1. Ahead(c) # {}
    BY <1>7 DEF deadlockDetected
  <2>2. opener[c].at # "idle"
    BY <2>1 DEF Ahead
  <2>3. \E code \in Refusals : Abort(c, code)
    BY <1>7 DEF deadlockDetected, Refusals
  <2> QED
    BY <2>2, <2>3, AbortInv
<1>8. ASSUME NEW c \in Openers, statementFails(c) PROVE OpeningInv'
  <2>1. \E code \in Refusals : Abort(c, code)
    BY <1>8 DEF statementFails, Refusals
  <2> QED
    BY <1>8, <2>1, AbortInv DEF statementFails
<1>9. ASSUME NEW c \in Openers, processLost(c) PROVE OpeningInv'
  BY <1>9, AbortInv DEF processLost
<1>10. CASE UNCHANGED openingVars
  <2>1. OpeningTyped'
    BY <1>10 DEF OpeningInv, OpeningTyped, openingVars
  <2>2. OpeningWork'
    BY <1>10 DEF OpeningInv, OpeningWork, Sound, Apart, HeldUpTo, Names, Under, Repeats, Agrees,
                 openingVars
  <2>3. OpenedWhole'
    BY <1>10, <2>1, NothingCreated DEF OpeningInv, OpeningTyped, openingVars
  <2> QED
    BY <2>1, <2>2, <2>3 DEF OpeningInv
<1> QED
  BY <1>1, <1>2, <1>3, <1>4, <1>5, <1>6, <1>7, <1>8, <1>9, <1>10 DEF OpeningNext

(* Whatever requests for accounts overlap: every one under way has locked   *)
(* the assets it holds against the others, has found them to agree, and has *)
(* its account to itself from the row on until the commit.                  *)
THEOREM OpeningInvariant == OpeningSpec => []OpeningInv
<1>1. OpeningInit => OpeningInv
  <2> SUFFICES ASSUME OpeningInit PROVE OpeningInv
    OBVIOUS
  <2>1. OpeningTyped
    <3>1. OpenerIdle \in OpenerStates /\ Nobody \in Scales
      BY DEF OpenerIdle, OpenerStates, Scales
    <3> QED
      BY <3>1 DEF OpeningInit, OpeningTyped, AccountsNamed
  <2>2. OpeningWork
    BY DEF OpeningInit, OpeningWork, Sound, Apart, OpenerIdle
  <2>3. OpenedWhole
    <3>1. Created = {}
      BY DEF OpeningInit, Created
    <3>2. \A account : Listed(account) = {}
      BY DEF OpeningInit, Listed
    <3> QED
      BY <3>1, <3>2 DEF OpenedWhole
  <2> QED
    BY <2>1, <2>2, <2>3 DEF OpeningInv
<1>2. OpeningInv /\ [OpeningNext]_openingVars => OpeningInv'
  BY OpeningStep
<1> QED
  BY <1>1, <1>2, PTL DEF OpeningSpec

(* createAccount: an id is given to one request only, with its owner and a  *)
(* balance in exactly the assets it named, each with the scale the request  *)
(* knows, whatever overlaps, waits, deadlocks, fails or is cut off.         *)
THEOREM AccountsOpenWhole == OpeningSpec => []OpenedWhole
<1>1. OpeningInv => OpenedWhole
  BY DEF OpeningInv
<1> QED
  BY <1>1, OpeningInvariant, PTL
=============================================================================
