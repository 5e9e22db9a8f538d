----------------------------- MODULE FencedLog -----------------------------
(***************************************************************************)
(* What the durable command path promises for one instrument partition     *)
(* (docs/adr/0007-partition-lease-fencing.md): the accepted commands form   *)
(* one append-only log, no command is accepted twice, and ownership is      *)
(* fenced: along the log the epoch never falls and each epoch belongs to    *)
(* one owner process.  Nothing else of the protocol (leases, locks,         *)
(* snapshots, transactions) is visible here.                                *)
(***************************************************************************)
EXTENDS Naturals, Sequences

CONSTANTS Procs,     \* backend replicas (INSTANCE_ID)
          Commands   \* command identifiers

VARIABLE log         \* the accepted commands, oldest first

Entry == [cmd : Commands, writer : Procs, epoch : Nat \ {0}]

Accepted(c) == \E i \in 1..Len(log) : log[i].cmd = c

(* A process may write in epoch e when e is newer than the last writer's    *)
(* epoch, or when it is that last writer.                                   *)
MayWrite(p, e) ==
  log # <<>> =>
    LET last == log[Len(log)]
    IN  e > last.epoch \/ (e = last.epoch /\ p = last.writer)

(* The log starts empty, or with the first command of the partition.        *)
Init == \/ log = <<>>
        \/ \E p \in Procs, c \in Commands :
             log = <<[cmd |-> c, writer |-> p, epoch |-> 1]>>

Accept(entry) ==
  /\ entry \in Entry
  /\ ~Accepted(entry.cmd)
  /\ MayWrite(entry.writer, entry.epoch)
  /\ log' = Append(log, entry)

(* Every step accepts one command, which is then the last of the log.  (The *)
(* first conjunct spares TLC the comparison when the log has not grown.)    *)
Next == /\ Len(log') > Len(log)
        /\ Accept(log'[Len(log')])

Spec == Init /\ [][Next]_log
=============================================================================
