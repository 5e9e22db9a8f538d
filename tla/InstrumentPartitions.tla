------------------------ MODULE InstrumentPartitions ------------------------
(***************************************************************************)
(* TradingSequencer over one TradingStateMachine per instrument, and the    *)
(* MemorySequencerStore that keeps their leases, sequences and snapshots.   *)
(* The commands of an instrument come from its command log, in which each   *)
(* has the sequence of its place (docs/trading-state-machine.md); they may  *)
(* be delivered again, too early, or by a process that is not the owner.    *)
(* A machine is lost and built anew with an empty engine behind it; the     *)
(* snapshot holds what the machine admits by, not what the engine knows.    *)
(* A call is synchronous, so one call is one step.                          *)
(* Mutated forms, named for the bug they introduce, stand before the        *)
(* definition they mutate; no other definition uses them.                   *)
(***************************************************************************)
EXTENDS Integers, Sequences, FiniteSets

CONSTANTS
  Instruments,
  Owners,
  NoOwner,
  CommandLog,     \* the command ids of each instrument, in order
  MaxRebuilds     \* bound: how often machines are built anew

ASSUME PartitionAssumption ==
  /\ NoOwner \notin Owners /\ MaxRebuilds \in Nat
  /\ DOMAIN CommandLog = Instruments
  /\ \A i \in Instruments : Len(CommandLog[i]) \in Nat

VARIABLES
  owners,     \* TradingSequencer.owners
  machines,   \* sequence, status and processed commands of each machine
  leases,     \* MemorySequencerStore.leases: the owner, or NoOwner
  sequences,  \* MemorySequencerStore.sequences: the last reserved
  snapshots,  \* MemorySequencerStore.snapshots
  ran,        \* history: places of the log each engine has executed, in order
  rebuilds    \* history: how often machines were built anew

partitionVars == <<owners, machines, leases, sequences, snapshots, ran, rebuilds>>

NewMachine == [sequence |-> 0, status |-> "ACTIVE", processed |-> {}]
NoSnapshot == [lastSequence |-> -1, payload |-> NewMachine]

PartitionsInit ==
  /\ owners = [i \in Instruments |-> NoOwner]
  /\ machines = [i \in Instruments |-> NewMachine]
  /\ leases = [i \in Instruments |-> NoOwner]
  /\ sequences = [i \in Instruments |-> 0]
  /\ snapshots = [i \in Instruments |-> NoSnapshot]
  /\ ran = [i \in Instruments |-> << >>]
  /\ rebuilds = 0
---------------------------------------------------------------------------
(* The sequencer.                                                           *)

assignOwner(i, o) ==
  /\ owners[i] \in {NoOwner, o}
  /\ owners' = [owners EXCEPT ![i] = o]
  /\ UNCHANGED <<machines, leases, sequences, snapshots, ran, rebuilds>>

(* A command that has been processed is answered from memory, paused or     *)
(* not, and changes nothing.                                                *)
Admits(m, i, n) ==
  /\ CommandLog[i][n] \notin m.processed
  /\ m.status # "PAUSED"
  /\ n = m.sequence + 1

(* submit and apply: the transition runs in the engine.                     *)
submit(i, o, n) ==
  /\ owners[i] = o
  /\ Admits(machines[i], i, n)
  /\ machines' = [machines EXCEPT ![i].sequence = n,
                                  ![i].processed = @ \cup {CommandLog[i][n]}]
  /\ ran' = [ran EXCEPT ![i] = Append(@, n)]
  /\ UNCHANGED <<owners, leases, sequences, snapshots, rebuilds>>

pause(i, o) ==
  /\ owners[i] = o
  /\ machines' = [machines EXCEPT ![i].status = "PAUSED"]
  /\ UNCHANGED <<owners, leases, sequences, snapshots, ran, rebuilds>>

resume(i, o) ==
  /\ owners[i] = o
  /\ machines' = [machines EXCEPT ![i].status = "ACTIVE"]
  /\ UNCHANGED <<owners, leases, sequences, snapshots, ran, rebuilds>>

(* A sequencer is built anew: no owners, and machines made when asked for.  *)
createSequencer ==
  /\ rebuilds < MaxRebuilds
  /\ rebuilds' = rebuilds + 1
  /\ owners' = [i \in Instruments |-> NoOwner]
  /\ machines' = [i \in Instruments |-> NewMachine]
  /\ ran' = [i \in Instruments |-> << >>]
  /\ UNCHANGED <<leases, sequences, snapshots>>
---------------------------------------------------------------------------
(* The store.  The epoch of a memory lease never changes, so its token is   *)
(* its owner.                                                               *)
acquire(i, o) ==
  /\ leases[i] \in {NoOwner, o}
  /\ leases' = [leases EXCEPT ![i] = o]
  /\ UNCHANGED <<owners, machines, sequences, snapshots, ran, rebuilds>>

assertLease(i, o) == leases[i] = o

reserveSequence(i, o) ==
  /\ assertLease(i, o)
  /\ sequences[i] < Len(CommandLog[i])
  /\ sequences' = [sequences EXCEPT ![i] = @ + 1]
  /\ UNCHANGED <<owners, machines, leases, snapshots, ran, rebuilds>>

(* saveSnapshot of createSnapshot.                                          *)
saveSnapshot(i, o) ==
  /\ assertLease(i, o)
  /\ snapshots' = [snapshots EXCEPT ![i] =
                     [lastSequence |-> sequences[i], payload |-> machines[i]]]
  /\ UNCHANGED <<owners, machines, leases, sequences, ran, rebuilds>>

RestoresAny(m, snapshot) == TRUE

(* restoreSnapshot refuses a snapshot older than the machine.               *)
Restores(m, snapshot) == snapshot.sequence >= m.sequence

(* prepareRecovery, whose plan holds no commands, restoreSnapshot, and      *)
(* completeRecovery with the sequence that was recovered.                   *)
recover(i, o) ==
  /\ assertLease(i, o)
  /\ snapshots[i] # NoSnapshot
  /\ Restores(machines[i], snapshots[i].payload)
  /\ machines' = [machines EXCEPT ![i] = snapshots[i].payload]
  /\ sequences' = [sequences EXCEPT ![i] = snapshots[i].payload.sequence]
  /\ UNCHANGED <<owners, leases, snapshots, ran, rebuilds>>

gracefulShutdown(i, o) ==
  /\ assertLease(i, o)
  /\ leases' = [leases EXCEPT ![i] = NoOwner]
  /\ UNCHANGED <<owners, machines, sequences, snapshots, ran, rebuilds>>

PartitionsNext ==
  \/ createSequencer
  \/ \E i \in Instruments, o \in Owners :
       \/ assignOwner(i, o) \/ pause(i, o) \/ resume(i, o)
       \/ \E n \in 1..Len(CommandLog[i]) : submit(i, o, n)
       \/ acquire(i, o) \/ reserveSequence(i, o) \/ saveSnapshot(i, o)
       \/ recover(i, o) \/ gracefulShutdown(i, o)

PartitionsSpec == PartitionsInit /\ [][PartitionsNext]_partitionVars
---------------------------------------------------------------------------
(* An engine executes the commands of its log in their order and none of    *)
(* them twice, and its machine remembers exactly the commands up to its     *)
(* sequence - through redeliveries, pauses, changes of owner, machines      *)
(* built anew and snapshots restored before, between and after commands.    *)
RunsInOrder ==
  \A i \in Instruments :
    /\ \A a, b \in 1..Len(ran[i]) : a < b => ran[i][a] < ran[i][b]
    /\ machines[i].processed = {CommandLog[i][n] : n \in 1..machines[i].sequence}
---------------------------------------------------------------------------
(* What RunsInOrder rests on: a machine, the kept one and the one of the    *)
(* snapshot alike, knows the commands up to its sequence, and no engine has *)
(* run a place of the log behind its machine.                               *)
Remembers(i, m) ==
  /\ m \in [sequence : 0..Len(CommandLog[i]), status : {"ACTIVE", "PAUSED"},
            processed : SUBSET {CommandLog[i][n] : n \in 1..Len(CommandLog[i])}]
  /\ m.processed = {CommandLog[i][n] : n \in 1..m.sequence}

Increasing(places) ==
  \A a, b \in 1..Len(places) : a < b => places[a] < places[b]

PartitionsInv ==
  /\ machines = [i \in Instruments |-> machines[i]]
  /\ snapshots = [i \in Instruments |-> snapshots[i]]
  /\ ran \in [Instruments -> Seq(Nat)]
  /\ \A i \in Instruments :
       /\ Remembers(i, machines[i])
       /\ Remembers(i, snapshots[i].payload)
       /\ Increasing(ran[i])
       /\ \A a \in 1..Len(ran[i]) : ran[i][a] <= machines[i].sequence
=============================================================================
