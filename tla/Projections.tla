---------------------------- MODULE Projections ----------------------------
(***************************************************************************)
(* The read models: orders, trades and balances folded from the events a   *)
(* command produces, the versions a rebuild builds and swaps, and a client *)
(* that reads a list page by page.                                         *)
(*                                                                         *)
(* In the durable profile a command's nextSequence and apply run in its    *)
(* transaction: the first of them locks the ACTIVE row until the end.  The *)
(* lock is taken under READ COMMITTED: a statement that waited for it      *)
(* looks again at the row it had found, not for another one.  In the       *)
(* component profile the two calls are separate turns on one in-memory     *)
(* store, kept here as version 1.                                          *)
(***************************************************************************)
EXTENDS Integers, Sequences, FiniteSets, SequencesExt, TLC

CONSTANTS
  Commands,      \* commands of the trading runtime
  Produces,      \* Produces[c]: the events c applies, in order
  Rebuilds,      \* calls of rebuild
  Reader,        \* the user that reads
  PageLimit,     \* limit of a page
  MaxVersions,   \* bound: projection versions
  Lists,         \* the lists the client reads: trades, orders
  MaxFaults      \* bound: transactions rolled back, commands applied again

ASSUME ProjectionsAssumption ==
  {PageLimit, MaxVersions} \subseteq Nat \ {0} /\ MaxFaults \in Nat

VARIABLES
  durable,    \* the durable profile, or the component profile
  versions,   \* projection_versions with the rows of each version
  holder,     \* whose transaction has locked the ACTIVE row
  command,    \* command[c]: where c is, the version it found, events applied
  rebuilding, \* rebuilding[r]: where r is, its stream, its versions
  page,       \* the client's listing
  faults,     \* transactions rolled back and commands applied again
  stream      \* history: the events applied to the live model, in order

projectionVars == <<durable, versions, holder, command, rebuilding, page, faults, stream>>

Events == UNION {Range(Produces[c]) : c \in Commands}
Ids == {e.id : e \in Events}
Accounts == UNION {DOMAIN e.deltas : e \in Events}
VersionIds == 1..MaxVersions
Free == "free"

\* Only a settlement has deltas, they are integers, and an identifier is one
\* event's of one command.
ASSUME EventsAssumption ==
  /\ Free \notin Commands
  /\ \A c \in Commands :
       /\ Produces[c] \in Seq(Range(Produces[c]))
       /\ \A e \in Range(Produces[c]) :
            /\ e.kind \in {"order", "trade", "settlement"} /\ e.deltas \in [DOMAIN e.deltas -> Int]
            /\ e.kind # "settlement" => DOMAIN e.deltas = {}
       /\ \A d \in Commands : \A i \in DOMAIN Produces[c] : \A j \in DOMAIN Produces[d] :
            Produces[c][i].id = Produces[d][j].id => c = d /\ i = j

Empty == [status |-> "none", applied |-> 0, processed |-> {},
          orders |-> <<>>, trades |-> <<>>, balances |-> [a \in Accounts |-> 0]]

ProjectionsInit ==
  /\ durable \in BOOLEAN
  /\ versions = [v \in VersionIds |-> IF v = 1 THEN [Empty EXCEPT !.status = "ACTIVE"] ELSE Empty]
  /\ holder = Free
  /\ command = [c \in Commands |-> [at |-> "idle", version |-> 1, applied |-> 0]]
  /\ rebuilding = [r \in Rebuilds |-> [at |-> "idle", stream |-> <<>>, active |-> 1, next |-> 1]]
  /\ page = [at |-> "idle", list |-> "trades", version |-> 1, seen |-> <<>>, first |-> {}]
  /\ faults = 0 /\ stream = <<>>

----------------------------------------------------------------------------
(* The event appliers                                                      *)

RowOf(e, seq) == [users |-> e.users, status |-> e.status, at |-> seq]
RowStored(rows, key, row) == [k \in DOMAIN rows \cup {key} |-> IF k = key THEN row ELSE rows[k]]

\* upsert of an order row: the newest event gives its position in the list.
Upserted(m, e, seq) == [m EXCEPT !.orders = RowStored(m.orders, e.key, RowOf(e, seq))]

\* insert of a trade row: a trade that is there stays as it is.
Inserted(m, e, seq) ==
  IF e.key \in DOMAIN m.trades THEN m
  ELSE [m EXCEPT !.trades = RowStored(m.trades, e.key, RowOf(e, seq))]

\* applyDelta for every posting.
Delta(e, a) == IF a \in DOMAIN e.deltas THEN e.deltas[a] ELSE 0
Posted(m, e) == [m EXCEPT !.balances = [a \in Accounts |-> m.balances[a] + Delta(e, a)]]

Mutated(m, e, seq) ==
  CASE e.kind = "order" -> Upserted(m, e, seq)
    [] e.kind = "trade" -> Inserted(m, e, seq)
    [] e.kind = "settlement" -> Posted(m, e)

\* record and markApplied.
Recorded(m, e, seq) == [m EXCEPT !.processed = m.processed \cup {e.id}, !.applied = seq]

\* applyToVersion for the event after the applied ones.
Applied(m, e) == Recorded(Mutated(m, e, m.applied + 1), e, m.applied + 1)

\* An event that was processed changes nothing; another one changes the model
\* and is one of its live events.
Delivered(p, e) ==
  IF e.id \in p.model.processed THEN p
  ELSE [model |-> Applied(p.model, e), live |-> Append(p.live, e)]

DeliveredAll(m, live, events) == FoldLeft(Delivered, [model |-> m, live |-> live], events)

----------------------------------------------------------------------------
(* Live commands, durable profile                                          *)

Active == CHOOSE v \in VersionIds : versions[v].status = "ACTIVE"

\* The statement of activeVersion finds the ACTIVE row.
FindActive(c) ==
  /\ durable /\ command[c].at = "idle"
  /\ command' = [command EXCEPT ![c] = [at |-> "waits", version |-> Active, applied |-> 0]]
  /\ UNCHANGED <<durable, versions, holder, rebuilding, page, faults, stream>>

\* The lock is granted; a row that is no longer ACTIVE is not found and the
\* command fails with PROJECTION_NOT_READY.
LockActive(c) ==
  /\ command[c].at = "waits" /\ holder = Free
  /\ IF versions[command[c].version].status = "ACTIVE"
       THEN /\ holder' = c
            /\ command' = [command EXCEPT ![c].at = "locked"]
       ELSE /\ command' = [command EXCEPT ![c].at = "refused"]
            /\ UNCHANGED holder
  /\ UNCHANGED <<durable, versions, rebuilding, page, faults, stream>>

\* nextSequence and apply of the command's first n events.  Nobody else sees
\* the rows before the commit, and the ACTIVE row is locked: one step.
After(c, n) == DeliveredAll(versions[command[c].version], stream, SubSeq(Produces[c], 1, n))

CommitCommand(c) ==
  /\ holder = c /\ holder' = Free /\ command' = [command EXCEPT ![c].at = "done"]
  /\ versions' = [versions EXCEPT ![command[c].version] = After(c, Len(Produces[c])).model]
  /\ stream' = After(c, Len(Produces[c])).live
  /\ UNCHANGED <<durable, rebuilding, page, faults>>

\* A plausible bug: the events applied before the failure stay.
KeptEvents(c, n) == [versions EXCEPT ![command[c].version] = After(c, n).model]

RolledBack(c, n) == versions

\* The transaction fails after n events or its process dies; the command may
\* be sent again.
Abort(c, n) ==
  /\ holder = c /\ faults < MaxFaults /\ faults' = faults + 1
  /\ versions' = RolledBack(c, n) /\ holder' = Free
  /\ command' = [command EXCEPT ![c] = [at |-> "idle", version |-> 1, applied |-> 0]]
  /\ UNCHANGED <<durable, rebuilding, page, stream>>

\* A command that committed is applied again: its events have their ids.
Repeat(c) ==
  /\ command[c].at = "done" /\ faults < MaxFaults /\ faults' = faults + 1
  /\ command' = [command EXCEPT ![c] = [at |-> "idle", version |-> 1, applied |-> 0]]
  /\ UNCHANGED <<durable, versions, holder, rebuilding, page, stream>>

----------------------------------------------------------------------------
(* Live commands, component profile                                        *)

\* nextSequence; version keeps the number it returned.
nextSequence(c) ==
  /\ ~durable /\ command[c].at = "idle"
  /\ IF command[c].applied = Len(Produces[c])
       THEN command' = [command EXCEPT ![c].at = "done"]
       ELSE command' = [command EXCEPT ![c] =
              [at |-> "numbered", version |-> versions[1].applied + 1, applied |-> command[c].applied]]
  /\ UNCHANGED <<durable, versions, holder, rebuilding, page, faults, stream>>

\* apply: a duplicate changes nothing, another number than the next is a gap
\* and fails the command between two of its events.
apply(c) ==
  /\ command[c].at = "numbered"
  /\ LET e == Produces[c][command[c].applied + 1]
         after == Delivered([model |-> versions[1], live |-> stream], e)
         gap == e.id \notin versions[1].processed /\ command[c].version # versions[1].applied + 1 IN
       IF gap
         THEN /\ command' = [command EXCEPT ![c].at = "refused"]
              /\ UNCHANGED <<versions, stream>>
         ELSE /\ versions' = [versions EXCEPT ![1] = after.model]
              /\ stream' = after.live
              /\ command' = [command EXCEPT ![c] =
                   [at |-> "idle", version |-> 1, applied |-> command[c].applied + 1]]
  /\ UNCHANGED <<durable, holder, rebuilding, page, faults>>

----------------------------------------------------------------------------
(* Rebuild                                                                 *)

Rebuilt(events, status) == DeliveredAll([Empty EXCEPT !.status = status], <<>>, events).model

\* The caller captures the stream and the first transaction reads the ACTIVE
\* version and the highest version.
BeginRebuild(r) ==
  /\ durable /\ rebuilding[r].at = "idle"
  /\ \E v \in VersionIds :
       /\ versions[v].status = "none" /\ \A w \in 1..(v - 1) : versions[w].status # "none"
       /\ \A w \in v..MaxVersions : versions[w].status = "none"
       /\ rebuilding' = [rebuilding EXCEPT ![r] =
            [at |-> "building", stream |-> stream, active |-> Active, next |-> v]]
  /\ UNCHANGED <<durable, versions, holder, command, page, faults, stream>>

\* The first transaction commits the shadow version - unless another rebuild
\* has inserted the same number.
CommitShadow(r) ==
  /\ rebuilding[r].at = "building"
  /\ IF versions[rebuilding[r].next].status = "none"
       THEN /\ versions' = [versions EXCEPT ![rebuilding[r].next] = Rebuilt(rebuilding[r].stream, "BUILDING")]
            /\ rebuilding' = [rebuilding EXCEPT ![r].at = "built"]
       ELSE /\ rebuilding' = [rebuilding EXCEPT ![r].at = "refused"]
            /\ UNCHANGED versions
  /\ UNCHANGED <<durable, holder, command, page, faults, stream>>

\* The second transaction starts: activeVersion finds the ACTIVE row.
FindForSwap(r) ==
  /\ rebuilding[r].at = "built"
  /\ rebuilding' = [rebuilding EXCEPT ![r].at = IF Active = rebuilding[r].active THEN "swaps" ELSE "stale"]
  /\ UNCHANGED <<durable, versions, holder, command, page, faults, stream>>

\* A plausible bug: only the version is compared.
SameVersion(r) == versions[rebuilding[r].active].status = "ACTIVE"

\* swapBuildingToActive with the lock: the expected version, at the sequence
\* of the captured stream.
Expected(r) ==
  /\ versions[rebuilding[r].active].status = "ACTIVE"
  /\ versions[rebuilding[r].active].applied = Len(rebuilding[r].stream)

swapBuildingToActive(r) ==
  /\ rebuilding[r].at = "swaps" /\ holder = Free
  /\ IF Expected(r)
       THEN /\ versions' = [versions EXCEPT ![rebuilding[r].active].status = "RETIRED",
                                            ![rebuilding[r].next].status = "ACTIVE"]
            /\ rebuilding' = [rebuilding EXCEPT ![r].at = "done"]
       ELSE /\ rebuilding' = [rebuilding EXCEPT ![r].at = "stale"]
            /\ UNCHANGED versions
  /\ UNCHANGED <<durable, holder, command, page, faults, stream>>

deleteBuilding(r) ==
  /\ rebuilding[r].at = "stale"
  /\ versions' = [versions EXCEPT ![rebuilding[r].next] = IF @.status = "BUILDING" THEN Empty ELSE @]
  /\ rebuilding' = [rebuilding EXCEPT ![r].at = "refused"]
  /\ UNCHANGED <<durable, holder, command, page, faults, stream>>

\* The process dies between the transactions: the shadow version stays.
CrashRebuild(r) ==
  /\ rebuilding[r].at \in {"built", "swaps", "stale"}
  /\ rebuilding' = [rebuilding EXCEPT ![r].at = "refused"]
  /\ UNCHANGED <<durable, versions, holder, command, page, faults, stream>>

\* The in-memory rebuild clears and applies the stream in one turn.
rebuild(r) ==
  /\ ~durable /\ rebuilding[r].at = "idle"
  /\ versions' = [versions EXCEPT ![1] = Rebuilt(stream, "ACTIVE")]
  /\ rebuilding' = [rebuilding EXCEPT ![r].at = "done"]
  /\ UNCHANGED <<durable, holder, command, page, faults, stream>>

----------------------------------------------------------------------------
(* The lists of the query API                                              *)

Rows(v, list) == IF list = "trades" THEN versions[v].trades ELSE versions[v].orders
Owned(v, list) == {k \in DOMAIN Rows(v, list) : Reader \in Rows(v, list)[k].users}

\* A plausible bug: the newest row first.
NewestFirst(v, list) ==
  SetToSortSeq(Owned(v, list), LAMBDA j, k : Rows(v, list)[j].at > Rows(v, list)[k].at)

\* listByUser: the rows of the owner by sequence.
Listing(v, list) ==
  SetToSortSeq(Owned(v, list), LAMBDA j, k : Rows(v, list)[j].at < Rows(v, list)[k].at)

\* A client starts to list.
StartListing(list) ==
  /\ durable /\ page.at = "idle"
  /\ page' = [at |-> "asks", list |-> list, version |-> Active, seen |-> <<>>, first |-> Owned(Active, list)]
  /\ UNCHANGED <<durable, versions, holder, command, rebuilding, faults, stream>>

\* A request first reads the ACTIVE version ...
PageVersion ==
  /\ page.at = "asks" /\ page' = [page EXCEPT !.at = "reads", !.version = Active]
  /\ UNCHANGED <<durable, versions, holder, command, rebuilding, faults, stream>>

\* ... then the rows after the cursor, one more than the limit; the cursor is
\* the number of rows returned so far.
PageRows ==
  /\ page.at = "reads"
  /\ LET rows == Listing(page.version, page.list)
         offset == Len(page.seen)
         items == SubSeq(rows, offset + 1, IF offset + PageLimit < Len(rows) THEN offset + PageLimit ELSE Len(rows)) IN
       page' = [page EXCEPT !.seen = @ \o items,
                            !.at = IF Len(rows) > offset + PageLimit THEN "asks" ELSE "ended"]
  /\ UNCHANGED <<durable, versions, holder, command, rebuilding, faults, stream>>

ProjectionsNext ==
  \/ \E c \in Commands :
       \/ FindActive(c) \/ LockActive(c) \/ CommitCommand(c)
       \/ \E n \in 0..Len(Produces[c]) : Abort(c, n)
       \/ Repeat(c)
       \/ nextSequence(c) \/ apply(c)
  \/ \E r \in Rebuilds :
       \/ BeginRebuild(r) \/ CommitShadow(r) \/ FindForSwap(r) \/ swapBuildingToActive(r)
       \/ deleteBuilding(r) \/ CrashRebuild(r) \/ rebuild(r)
  \/ \E list \in Lists : StartListing(list)
  \/ PageVersion \/ PageRows

ProjectionsSpec == ProjectionsInit /\ [][ProjectionsNext]_projectionVars

----------------------------------------------------------------------------
(* Properties                                                              *)

\* Every variable holds values of its type.
ProjectionsTypeOK ==
  /\ durable \in BOOLEAN /\ holder \in Commands \cup {Free}
  /\ \A v \in VersionIds :
       /\ versions[v].status \in {"none", "BUILDING", "ACTIVE", "RETIRED"}
       /\ versions[v].applied \in Nat /\ versions[v].processed \subseteq Ids
  /\ \A c \in Commands :
       /\ command[c].at \in {"idle", "waits", "locked", "numbered", "done", "refused"}
       /\ command[c].applied \in 0..Len(Produces[c])
  /\ \A r \in Rebuilds :
       /\ rebuilding[r].at \in {"idle", "building", "built", "swaps", "stale", "done", "refused"}
       /\ {rebuilding[r].active, rebuilding[r].next} \subseteq VersionIds
  /\ page.at \in {"idle", "asks", "reads", "ended"} /\ page.version \in VersionIds

\* The reference fold of the live events: an order is as its last event left
\* it, a trade as its first one did, a balance is the sum of its deltas.
PositionsOf(kind, key) == {n \in DOMAIN stream : stream[n].kind = kind /\ stream[n].key = key}
KeysOf(kind) == {stream[n].key : n \in {j \in DOMAIN stream : stream[j].kind = kind}}
RowAt(n) == RowOf(stream[n], n)
SumOf(a) == SumFunctionOnSet([n \in DOMAIN stream |-> Delta(stream[n], a)], DOMAIN stream)

\* The model the API reads is the fold of all live events, each counted once,
\* whatever rebuilds were built beside it, swapped, refused or abandoned and
\* whichever events were delivered again.
ActiveIsStream ==
  LET m == versions[Active] IN
    /\ m.applied = Len(stream)
    /\ DOMAIN m.orders = KeysOf("order") /\ DOMAIN m.trades = KeysOf("trade")
    /\ \A k \in DOMAIN m.orders : m.orders[k] = RowAt(Max(PositionsOf("order", k)))
    /\ \A k \in DOMAIN m.trades : m.trades[k] = RowAt(Min(PositionsOf("trade", k)))
    /\ \A a \in Accounts : m.balances[a] = SumOf(a)

\* In the durable profile a command's events are in the model all or none:
\* no reader sees a trade whose settlement is missing.
CommandsProjectedWhole ==
  durable => \A c \in Commands :
    LET ids == {e.id : e \in Range(Produces[c])}
        there == ids \cap versions[Active].processed IN
      there \in {{}, ids} /\ (command[c].at = "done" => there = ids)

\* A client that pages through its trades sees each trade that was there when
\* it began, and none twice, across commands that add trades and rebuilds
\* that swap the version under its cursor.
TradesSeenOnce ==
  page.at = "ended" /\ page.list = "trades" =>
    page.first \subseteq Range(page.seen) /\ IsInjective(page.seen)

\* The same of its orders.  An order that changes between two pages moves to
\* the end of the list and another one slips past the cursor.
OrdersSeenOnce ==
  page.at = "ended" /\ page.list = "orders" =>
    page.first \subseteq Range(page.seen) /\ IsInjective(page.seen)

\* In the component profile too, a command that is not refused half-way.
NoneRefusedHalfway ==
  \A c \in Commands : command[c].at = "refused" => command[c].applied = 0
============================================================================
