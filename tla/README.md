# Formal models of the spot exchange

TLA+ modules, TLC configurations and TLAPS proofs for this repository: a spot
exchange (NestJS, PostgreSQL, Redis) with a double-entry ledger, a matching
engine per instrument, a fenced command sequencer, settlement, an outbox, read
models, market data, identity and administration, and for what calls it: the
console and the simulation worker. Paths below are relative to the repository;
`trading/...`, `ledger/...` mean `apps/backend/src/modules/trading/...` etc.

## 1. Inventory

A trading command enters through `gateway` (HTTP, idempotency key, admission
control). In the durable profile `PostgresTradingCommandAdapter.persist` opens
one database transaction, takes the partition lease of the instrument, takes
the next sequence number, writes the command journal and calls
`TradingRuntimeProcessor`: reserve funds in the ledger, run the matching
engine, settle trades (ledger transfers and an outbox event), update
projections and market data. The transaction then commits or rolls back; the
matching engine, the order states and several memo tables live in process
memory and do not roll back. Background workers poll the outbox. In the
component profile every store is a map of the process and nothing rolls back.
Beside the book there is a second way to trade: a fill at the reference price
of an external feed (`realtime-market`).

| component | state | hard behaviour | what makes it correct | module |
|---|---|---|---|---|
| fenced sequencer (`trading/sequencer`, `gateway/infrastructure/postgres-trading-command.adapter.ts`) | lease and partition rows, journal, snapshots; per process: known lease, engine | replicas racing on absent rows, expiring leases, wrong clocks, crash, rollback | one writer per epoch, no hole, recoverable | FencedLog, FencedSequencer |
| PostgreSQL ledger (`ledger/infrastructure`) | balances, operations with postings, reservation rows | retries, self transfers, choice of a reservation row | reserved funds backed by rows, balances explained by operations | PostgresLedger |
| matching engine (`trading/matching-engine`) | active orders, levels, sequence | partial fills, FOK look-ahead, self-trade in the middle of a sweep | priority, conservation, never crossed | OrderBook, MatchingEngine |
| runtime and settlement, durable (`trading/runtime`, `trading/settlement`) | engines, order states, results, memos | the database rolls back and memory does not | trades logged once and at nobody else's cost | TradingRuntime |
| runtime, settlement, ledger in memory | the same and a map of balances | an exception leaves what was done before it | nothing created or destroyed | MemoryLedger, ComponentTrading |
| log-first settlement (`trading/settlement`, `trading/event-log`, in memory) | log, offset, dead letters, archive | outages, trimming, restoring | what the consumer passed is settled | SettlementLog |
| event log and outbox (`trading/event-log`) | outbox rows, offset, processed events, dead letters | offsets drawn before commit, several consumers, poison events | effects once, nothing skipped but overtaken commits | PostgresEventLog |
| in-process sequencer and state machine (`trading/sequencer`, `trading/state-machine`) | lease, sequence, snapshot per instrument | redelivery, changes of owner, machines built anew | the engine runs its log in order | InstrumentPartitions |
| process and workers (`config`, `trading/workers`, `health`, `main.ts`) | environment, worker status, timers | outages, deadlines, stop racing a tick, crash, roll-out | accepted commands survive, the process gets ready | Configuration, BackendProcess |
| projections (`projections`) | versions, rows, processed events | rebuild while live events go on | the active version is the stream | Projections |
| gateway commands, machine keys, idempotency (`gateway`, `auth`) | idempotency rows, keys, running operations | repeats on other replicas, lost answers, rollback | one answer per key, a secret shown once | AccessPolicy, CommandGateway |
| rate limits (`auth/security/auth-rate-limit.ts`, `gateway`) | windows | shared and per-replica counters, a full map | at most two limits in a window's span | AdmissionLimits |
| human sessions (`auth`, `identity`) | users, sessions, generation, lock | logins against password changes and revocations | nobody is admitted by an old credential | HumanSessions |
| administration and audit (`admin`, `audit`) | pending approvals, controls, hash chain | memory and transaction part ways | two signatures, controls follow their history | AdminControl |
| market data (`market-data`) | book, history, subscribers, slots | leaving within a handler, slow clients, gaps | a resync closes the gap, a revoked key leaves | MarketData |
| real-time quotes (`realtime-market`) | lease, sockets, stored quote, subscribers, panel | lease lost during an await, lost publications | no leader stranded, no quote missed | QuoteIngest, QuoteFeed |
| fills at the reference price (`realtime-market`) | fills, replays, switches, catalog | stale reads at commit | a fill moves what its record says | RealtimeExecution |
| instruments, rules, decimals (`trading/instruments`, `shared-kernel/decimal.ts`) | versions of rules | scales, rounding, a new version in between | exact to the last digit | InstrumentRules |
| opening of accounts (`ledger/application`) | catalog, owners, balances | overlapping transactions, deadlock | all of a request or nothing | AccountOpening |
| simulation worker (`scripts/exchange-simulation-engine.mjs`) | users, running calls, counters | stop while calls are in flight | a stop drains and ends | ExchangeSimulation |
| operator console (`apps/frontend/src/App.tsx`) | cookie, panel, forms, flow | answers lost or late, somebody else signs in | a green card means what it says | OperatorConsole |

The hazards, each with its line and the properties that cover it, are the
`hazards` of PROJECT.json. Three have no property that holds; section 6 says
what happens there.

## 2. Order of the work

What decides whether commands may be executed twice or lost came first
(FencedLog, FencedSequencer), then the money (PostgresLedger), the market
(OrderBook, MatchingEngine), their composition under rollback and retry
(TradingRuntime) and the outbox (PostgresEventLog); then every boundary a
request crosses on its way in (sessions, gateway, limits, administration), what
leaves again (Projections, MarketData, quotes), the component profile, the life
of the process, and the callers. Proofs follow the same order: section 5.

Compositions: TradingRuntime extends OrderBook and carries its own ledger rows;
ComponentTrading composes OrderBook and MemoryLedger, SettlementLog takes
MemoryLedger as an instance; BackendProcess extends Configuration;
CommandGateway and AdminControl extend AccessPolicy, as does OperatorConsole;
FencedSequencer implements FencedLog. Components that share no state are
explored side by side in one run: the MC module extends them and a constant
choice in the initial state (`part`, `boundary`, `feed`) says which of them a
behaviour is about, so that no state of one is multiplied by those of another.

## 3. The modules

Each module's header states its abstraction. Mutated forms (definitions that
no other definition uses, named for the bug they would be) stand before what
they mutate.

### FencedLog, FencedSequencer, MCFencedSequencer

`FencedLog` is the promise: a log of accepted commands, each appended once, in
an epoch that never falls and belongs to one writer.

`FencedSequencer` is one partition (instrument). Tables: `lease`, `part`
(partition row: status, owner, epoch, last sequence), `journal`, `snapshots`.
Transactions: one per slot, `tx[s]`, with the process that runs it, its stage
and what it has read; a slot is one HTTP request inside
`PostgresTransactionManager.run`. Process memory: `cache` (the adapter's
`leases` map) and `engine` (what the matching engine has executed). Actions
follow the awaits of the code:

| action | code |
|---|---|
| `Begin` | persist: look up the command in the journal, a duplicate returns |
| `ReadLease`, `ReadPartition` | `SELECT ... FOR UPDATE`: lock the row if it exists, otherwise lock nothing |
| `Acquire` | epoch computation, refusal of an active foreign lease, the upserts (which wait for the locks) |
| `RecoveryPlanned` in `Recover` | prepareRecovery and, at once, completeRecovery |
| `Execute` | sequence, journal row, the processor (engine memory changes here) |
| `Commit`, `Rollback` | end of the transaction; `Rollback` may keep or forget the cached lease, as the code does for errors inside or after persist |
| `SaveSnapshot`, `GracefulShutdown`, `Expire`, `Crash` | store operations, the database clock passing the lease, process loss |

Abstractions: a retry is another `Begin`, without the bound of three attempts;
waiting for a row lock that ends in a deadlock error (40P01) is a `Rollback`;
the two upserts of acquire are one step since both rows are locked in the same
order; an in-flight status of the journal is never visible outside its
transaction; `saveSnapshot` has no production caller and is a port operation;
the snapshot's checksum and version are not modelled. Clocks: acquire compares
with the process clock, so with `ClocksAgree = FALSE` a replica may believe any
lease expired; with `TRUE` only after `Expire`. `InitFresh` starts from empty
tables, `Init` from the partition's first commit; `FreshSpec` and `Spec` are
the two specifications.

### PostgresLedger, MCPostgresLedger

One action per `LedgerPort` operation. An operation is one transaction that
locks the operation id (advisory lock) and then the balance row, so one step;
a retry of an applied id changes nothing and is a stutter. The postings are
folded into the operation record as its debit and credit account. A
reservation row is `ACTIVE` exactly while something remains. `created_at` order
is append order. Deadlock is not checked: the operation ids run out.

### OrderBook, MatchingEngine; InstrumentPartitions; SettlementLog (MCMatchingEngine)

`OrderBook` is the pure part: the queue of crossing makers in price-time order,
the matching loop as a fold over that queue, FOK feasibility, the book after
the trades, the outcome of place and cancel. Sorting again on each turn of the
loop, as the code does, gives the same queue: a maker either leaves or fills the
taker. `MatchingEngine` adds the sequence and the last result. The inputs are
those the gateway schema admits (`gateway/validation/gateway.validation.ts`),
including MARKET with GTC.

`InstrumentPartitions` is `TradingSequencer` over one `TradingStateMachine` per
instrument and the `MemorySequencerStore`: assignOwner, pause, resume, submit,
acquire, reserveSequence, saveSnapshot, recover, gracefulShutdown, and the
building of a new sequencer. Calls are synchronous, one call is one step.

`SettlementLog` is settlement from the in-memory event log: append (with an
outage that fails the next attempts), direct settlement with fees, `consume`
with its attempts and dead letters, archive, `retainLatest`, restore.

The view of the run leaves out `last`, which no action reads.

### TradingRuntime, MCTradingRuntime

The durable mode: the commands of one instrument run one after the other under
the partition lock (FencedSequencer), each inside one transaction. A step is
one PLACE or CANCEL, with a failure at one of the points where the code can
fail: none, in the application of the events (`events`) or at the end of the
transaction (`commit`). `db` (available funds, reservation rows, log of trades)
returns to its old value on failure; `active`, `states`, `results` and
`reserved` are process memory and stay as they are at that point. A reserve that
is refused changes nothing and is no step. Left out: fees (zero in the
composition root), the memo of applied trades (trade ids are unique within a
process), and the restart of the process, which is FencedSequencer's.

### MemoryLedger, ComponentTrading, MCComponentTrading

The same processor in the component profile. Every await there resolves in the
same turn of the event loop, so a command is one step; what differs is that an
exception leaves everything before it done. `MemoryLedger` is `Ledger` as
operators on a record whose `ok` falls when an operation throws; its transfer
computes both balances before it writes either. `ChangeBalance` is the
administrator's credit and debit.

### PostgresEventLog, MCPostgresEventLog

The outbox as its consumers see it. `serial` is the BIGSERIAL, which advances for
every insert, also one that rolls back or conflicts; `pending[p]` the rows of
an open producer transaction; `outbox` the committed rows. All workers of all
replicas use the consumer name `exchange-backend`
(`trading/event-log/event-log.module.ts` builds one adapter with the default
name), so there is one `checkpoint`, one `processed`, one `dead`. `Poll` is
nextOffset in its own transaction; `Process`, `Fail` and `Quarantine` are the
transactions that follow, each one step because it holds the row's lock from its
first statement. The handler's effect is part of that transaction. An id is an
event and its replay count. `Interrupt` is an error outside an attempt, which
the worker manager retries; `Stop` and `Start` end and boot a process, and
`Start` runs the recovery check. `handled` and `overtaken` are history
variables.

### Configuration, BackendProcess, MCBackendProcess

`Configuration` is `validateEnvironment` with its validators and the choice of
adapters; an environment maps variables to the class of their value.
`BackendProcess` is one process under its supervisor: `Deploy` (another
environment is rolled out), `Boot` (validation and composition), `Start`
(recovery of the workers), `Listen`, `Work` (a batch of a worker, with attempts
and dead letters), `Deadline` (the batch deadline), `Fail` (an unhandled
rejection ends the process), `Stop`/`Stopped`, `Crash`, `Outage` (the database
goes or comes back), `Transact` and `Direct` (a command in one transaction, or
store by store). A command leaves its effect in every store.

### HumanSessions

`HumanAuthService` over the users table and the sessions in Redis, one user.
Every awaited command is a step: login, session admission by the guard
(`CheckGeneration`, `CheckUser`, `Touch`), password change and reset, logout,
revocation by an administrator, the locked sections of `RedisSessionStore`
(`Section`), verification and recovery challenges. A command may fail with or
without its effect (`Fail`), the lock of the user may expire under its holder
(`LockExpires`).

### AccessPolicy, CommandGateway, AdminControl (MCAccess)

`AccessPolicy` is the authorization table and the principals the guard makes.
`CommandGateway` has the place and cancel commands and the key administration
through the idempotency store: `CheckAdmission`, `Replay` (a stored answer),
`Begin`/`Join` (start, or wait for the running operation of the process),
`Execute`, `Commit`, `RollBack`, `Abandon` (the client stops waiting) and
`ControlChanges`. `AdminControl` has `AdminService.request`, `approve`,
`compensate` and the dashboard over the admission controls and the audit chain:
in the durable profile `db` changes at `CommitAudit` or not at all, while the
maps of the process change at once and survive `RollBackAudit`; `Restart`
empties them. Repetition with one key is the gateway's subject, so
administrators use fresh keys.

### QuoteIngest, QuoteFeed, RealtimeExecution (MCRealtimeMarket)

`QuoteIngest`: `PriceStreamSupervisor` of each replica (lease, `open()` around
its await of the catalog, phases of a socket, reconnect timer, writes on their
way to Redis, shutdown, restart) and the script that stores a quote.
`QuoteFeed`: the Redis channel, the hub and the gateway of one replica with
every await of `handleConnection`, `subscribe`, `unsubscribe`, and the panel
with its REST polling. `RealtimeExecution`: `execute()` read by read, its
commit in both profiles, the administrators' switches, the catalog
synchronisation, and debits from elsewhere.

### Projections, MarketData (MCPublicFeed)

`Projections`: a command's `nextSequence` and `apply` under the lock of the
ACTIVE row (found first, locked later, as READ COMMITTED does it), a rebuild in
two transactions, rebuild by another, aborts, crashes, and a client that pages.
`MarketData`: book, bounded history, subscribers, admission of an address,
slots in Redis, message handlers, the credential timer, and the client's local
book.

### ExchangeSimulation, OperatorConsole, AdmissionLimits, InstrumentRules, AccountOpening (MCClients)

`ExchangeSimulation`: start, concurrent setup, rounds of paired orders, stop; a
call succeeds, is refused or times out with or without its effect.
`OperatorConsole`: person panel, order forms and the user flow over one cookie
jar; a call is sent, served and answered in separate steps and may get lost.
`AdmissionLimits`: both limiters, with fractions of a window as time.
`InstrumentRules`: rule versions, admission of an order by the version in
force, reservation, release, and reference-price fills with a rounded fee, on
decimals that are a coefficient and a scale as in the code.
`AccountOpening`: `createAccount`, statement by statement with its row locks
(PostgreSQL), or in one turn (memory).

### Proof modules

`PostgresProofs` (sequencer, log-first settlement, event log, ledger, opening of
accounts), `MatchingProofs` (engine, partitions, read models),
`TradingRuntimeProofs`, `AccessProofs` (gateway, administration, sessions),
`RealtimeProofs` (quotes in and out, executions) and `ServiceProofs` (process,
console, rate limits) hold theorems and their lemmas only; `OrderBookProofs` and
`FiniteSums` hold what they share. They define operators
only to name a part of an argument.

## 4. Runs

| run | what it asks |
|---|---|
| `sequencer_safety` | two replicas, two open transactions, three commands, arbitrary clocks, crashes, drains, snapshots; the refinement of FencedLog |
| `ledger_pg_safety` | six operation ids on two accounts and one asset |
| `matching_safety` | four orders of two users, quantities 1 and 3 at two prices, all times in force; three commands over one partition, two owners, two machines built anew; two trades with fees, one outage of three attempts, two events kept |
| `runtime_safety` | four commands with failures, retries and reuse of order ids |
| `component_safety` | four commands with a balance change by an administrator |
| `eventlog_safety` | two producers, two workers, one poison event, four offsets, two attempts, one replay; the queue drains |
| `process_safety` | ten environments, two workers, two commands, two attempts; the process gets ready |
| `sessions_safety` | two concurrent requests, one session allowed, two issued, one password change, one revoke-all |
| `access_safety` | two concurrent requests with two idempotency keys over five commands, three secrets; two administrators, a risk manager, three commands |
| `realtime_safety` | two replicas, two ticks; one subscriber with two pending messages; two fills against price, pause and catalog changes |
| `feed_safety` | two commands with four events each, two rebuilds, a paging client; two sockets, one with a key, a history of one, a write buffer of one |
| `clients_safety` | three simulated users, two runs; one user flow with two sends and two people; two replicas' limits over three windows; three rule versions; three openings of overlapping requests |

Why the bounds are enough. Sequencer: a race needs two transactions; a hole
needs a rollback between two commits; a takeover of a takeover needs three
commands. Ledger: the longest chain of causes is credit, reserve, reserve,
settle, compensate, retry, i.e. six ids. Matching: three resting makers and one
taker that sweeps all of them (quantity 3 against 1 + 1 + 1). Partitions: a
snapshot before, between and after commands needs three (`MaxRebuilds` lets it
be restored twice). Settlement log: an outage longer than the attempts, a
trimmed log and one archive. Runtime: a maker, a second order of the same
account, a taker and a cancel. Event log: two events overtake each other, a lost
offset and a replay need two more offsets. Process: two workers so that one may
be done while the other fails. Sessions: one allowed session makes the second
login trim. Gateway: the second request repeats the first, before, during and
after it; three secrets are two issues and a rotation. Administration: an audit
chain of four (`MaxAudit`) is request, approval, application and one other.
Ingest: a lease lost and regained with two sockets of one process
(`MaxSockets`, `MaxOpened`). Feed: a history of one makes every second
increment a gap. Clients: `MaxOrders` 4 are two rounds of two pairs; a bucket
map of four fills up; `MaxOpenings` 3 are two that deadlock and one that repeats.
Other bounds (`MaxSeq`, `MaxTs`, `MaxTicks`, `MaxChanges`, `MaxFaults`,
`MaxSequence`, `MaxRequests`, `MaxIssued`, `MaxVersion`, `MaxClock`, `MaxTime`,
`MaxChecks`, `MaxFills`, `Finest`) only cap counters. Where commands run out the
configuration turns deadlock checking off. The views of `access_safety` and
`matching_safety` leave out histories that no action reads.

Fairness, and why the code gives it:

- `eventlog_safety`: weak fairness of each worker's next step, because
  `DurableWorkerManager.schedule` polls as long as the process runs and each
  attempt ends; stops and errors outside an attempt end some day (the formula in
  `EventLogFairSpec`); a handler may fail at every attempt.
- `process_safety`: the supervisor restarts, so boot, start, listen and the end
  of a stop are fair, as is each worker's timer; that outages and roll-outs end
  (`<>[]database`, `<>[][~Disturbance]_vars`) is a condition.
- `realtime_safety`: the panel's interval (`quoteSnapshots`), the delivery of what
  Redis holds, and the answer to a poll are fair; quotes may stop or go on.
- `feed_safety`: the credential timer of a socket is a `setInterval`.
- `clients_safety`: every request of the simulation worker has an
  `AbortSignal.timeout`, so setting up and trading go on.

Elsewhere a command may always be refused (lock timeouts, an active foreign
lease), so the code promises no progress of one command and none is stated.

Further properties stand in the modules and hold on the runs' instances, but
are not checked with every run: the type invariants (`TypeOK`, `EventLogTypeOK`, `GatewayTypeOK`,
`AdminTypeOK`, ...), `EpochsFollowOrder`, `ExclusiveOwner`, `SupplyConserved`,
`AppliedOnce`, `CheckpointNeverFalls`, `FokAllOrNothing`, `TradesAdmissible`,
`FreezeHolds`, `NoFillWhilePaused`, `FundedBeforeTrading`, `TradesSeenOnce`,
`OneCallbackEach`, `ConnectionsLimited`. Section 5 proves the type invariants of
the proved components, `ExclusiveOwner`, `SupplyConserved`,
`CheckpointNeverFalls`, `FokAllOrNothing`, `TradesAdmissible` and `FreezeHolds`. `TradesAccounted` is the conjunction
of `TotalsFollowTrades` and `LoggedTradesExecutedOnce`; `RuntimeInv`, the
invariant behind it, was checked on the same instance before it was proved.

## 5. Theorems

Proved for every value of the constants that the named assumptions admit. Each
proof module extends the modules it speaks of; an invariant that had to be
strengthened is defined beside its component or its proof and was checked by
TLC on the run's instance before it was proved.

| module | assumptions | inductive invariants | theorems |
|---|---|---|---|
| `PostgresProofs` | `ConstantsAssumption` of FencedSequencer: the three null values are outside their sets; `SettlementAssumption`: finitely many trades, between two different holders (the engine matches no order with one of the same user), of positive quantity and value, fees and reserves naturals, at least one attempt; `EventLogAssumption`: poison events are events, bounds are naturals, at least one attempt; `LedgerConstants`: amounts are positive, the null values are outside their sets; `OpeningAssumption`: a request names an owner and at least one asset, with scales from 0 to 18 (`createAccountSchema`) | `FencingInv`, `LogInv`, `SettlementLogInv`, `IInv` (event log), `BooksInv`, `SupplyInv`, `OpeningInv` | FencingInvariant, TypeCorrect, NoJournalHole, Fencing, OwnerExclusive, EpochsOnlyGrow, LogInvariant, RecoveryReachesWatermark, Refinement; SettlementLogInvariant, ConsumedTradesSettled; NextHolds, EventLogTypeCorrect, EffectsOnce, NothingElseSkipped, CheckpointMonotone; BooksInvariant, LedgerTypeCorrect, ReservationsBack, BooksRebuild, OperationsImmutable, SupplyIsConserved; OpeningInvariant, AccountsOpenWhole |
| `OrderBookProofs` | none | | lemmas on the order book, which the next two rest on |
| `TradingRuntimeProofs` | `RuntimeConstants`: prices are naturals, or the mark of a market order, quantities are positive, the funds at the start a natural | `RuntimeInv` with an uncrossed book | RuntimeInvariant, TradesAreAccounted, FundsAreTakenByOwner |
| `MatchingProofs` | `EngineConstants` (prices and quantities are positive numbers, markers outside their sets), `PartitionAssumption`, `EventsAssumption` (an identifier is one event's of one command, as the processor builds them from command, kind and sequence; deltas are integers and only settlements have any), `ProjectionsAssumption` | `EngineInv`, `PartitionsInv`, `ProjectionsInv` | EngineInvariant, EngineTypeCorrect, BookNeverCrossed, NothingLostInMatching, PriorityRespected, FokFillsOrKills, TradesAreAdmissible, PartitionsInvariant, InOrderOnce, ProjectionsInvariant, ReadsAreTheStream, CommandsAreWhole, ProjectionsTyped |
| `AccessProofs` | `GatewayAssumption` (no body is the mark of an absent journal row, three keys of which two have a secret at first), `AdminAssumption` (commands have types and targets the code knows, markers outside their sets), `SessionsAssumption` (the limit and the bound on credentials are at least one, the marker of a free lock is no request) | `GatewayInv`, `AdminInv`, `SessionInv` | GatewayInvariant, OneAnswer, SecretOnce, FreezeIsHeld, GatewayTypeCorrect, AdminInvariant, TwoSignatures, ControlsAreHistory, ChangesAudited, AdminTypeCorrect, SessionInvariant, AdmissionIsFresh, LimitIsHeld, SessionsTypeCorrect |
| `RealtimeProofs` | `IngestAssumption`: the bounds are at least one, the markers are no process; `ExecutionAssumption`: quantities and prices are positive, fee and funds naturals, the marker of a missing row is no row; `FeedAssumption`: the bounds are at least one, the marker of no socket is none | `IngestInv`, `ExecutionInv`, `FeedInv` | IngestInvariant, LeaderNeverStranded, IngestTypeCorrect, StoredQuoteAdvances, ExecutionInvariant, MoneyAsRecorded, ExecutionTypeCorrect, AnswersAsConfirmed, PauseIsHeld, FeedInvariant, NothingMissed, ListenersAgree |
| `ServiceProofs` | `ProcessAssumption`: at least one attempt; `ConsoleAssumption`: the bounds are naturals; `LimitsAssumption`: limit, window and map bound are positive, the bound on time is a natural | `ProcessInv`, `ConsoleInv`, `LimitsInv` | ProcessInvariant, AcceptedIsKept, ConsoleInvariant, TimelineIsHonest, LimitsInvariant, SpansAreBounded |
| `FiniteSums` | none | | lemmas on sums over finite sets |

Sequencer. `FencingInv` says that a transaction past acquire holds both rows
(so there is at most one), that what it has read is what the tables hold, that
the journal is contiguous and its epochs ordered, and that the newest epoch of
the journal belongs to the owner of the lease row. The last two are needed
together: without the second a takeover could reuse the epoch of an earlier
writer. `LogInv` adds `SnapshotsBehind` (no snapshot is ahead of the committed
sequence) and `PendingFresh` (a command executed but not committed is not in
the journal). From the first, every takeover finds the rows between the newest
snapshot and the watermark; from both, a step of the protocol is a step of
`FencedLog` or leaves its log as it is: only `Commit` lengthens the journal, by
one row, in an epoch no older than the last. All start from `Init`; from empty
tables the fencing theorem is false (`FreshSpec`, section 6).

Log-first settlement. `ConsumedIsSettled` is about the log as it stands;
`SettlementLogInv` adds that an archive says of its events what the log says of
its own (so a restored log may take its place), and that a remembered trade has
moved (so it may be skipped). `Exact` relates the balances to the sum, over the
operations the ledger knows, of what each leg brings and takes. One lemma shows
that a transfer keeps it, by the one term the sum grows by; the others follow
legs, appends and attempts through their error paths, where a leg that has moved
stays moved whatever throws after it. That buyer and seller differ is needed:
`settleReservedTransfer` computes both balances before it writes either, and
with one account on both sides the credit would overwrite the debit.

Event log. `HandledOnce` is inductive by itself, given the types, because the
handler's effect and the row of processed_events are one transaction.
`SkippedOnlyOvertaken` is not: a worker acts on an offset it took up in an
earlier transaction, when the checkpoint may have been elsewhere. `PassedSettled`
carries the statement over to the offsets in work; `TakenStored` and
`RowsDistinct` exclude that a row commits at exactly an offset taken up, or that
settling one row leaves a second one with its offset behind. One lemma treats the
steps that only change a worker (`WorkerStep`), one the transaction that settles
a row and advances the checkpoint, which process and quarantine share
(`SettleStep`).

Sums. The ledger adds up postings and remaining amounts, and the engine adds up
trades, with the community modules' sum, a recursive function over the subsets
of a finite set. `FiniteSums` unfolds that recursion by a least counterexample
(no induction theorem takes an operator here) and gives what the others cite:
the sum of nothing, of a set and one more element, of two functions that differ
at one element, of two sets that do not meet and of a part, and the order of sums.

Ledger. Every operation that is not refused `Posts`: it records a row nobody
recorded before, opens the accounts it names, and moves the balances and the
reservation rows by exactly what the row says. One lemma per operation shows
that, and one lemma each shows that a post keeps `ReservedBacked` and
`BalancesExplained`; so the case analysis over ten operations is made once and
the sums are reasoned about once. `PostingsOpened` and `ReservationsOpened` are
the strengthening: without them an amount could stand against an account whose
balance row is opened later with zero. Supply conservation adds that the
balance rows are finitely many.

Opening of accounts. A request commits long after its statements have looked
at the catalog, so `OpenedWhole` needs to know what it still relies on. `Sound`:
the definitions a request holds agree with the catalog, and before its commit
its account is free; `Apart`: no two requests hold the same asset, nor the same
account. A commit changes the catalog only at assets it holds, so the others
stay sound. The inductive invariant needs nothing about who waits: a deadlock,
a failing statement and a lost process all take back a request that has stored
nothing yet.

Book. The makers of a sweep are listed by `CHOOSE` in a strict total order; that
such a listing exists for every finite set, and begins with its least element,
is proved from the order alone. The matching loop is a fold over that listing,
unfolded into a sequence of states; the loop invariant (what is left, the
trades so far, which makers were taken, whether an own order was met) is carried
turn by turn, and says at the end that all makers before the last one traded
were taken whole. `EngineInv` is types, sequences of their own and not in the
future (so that price-time is a strict order), and an uncrossed book. A rest
after a sweep stays uncrossed because whatever it could meet was taken, or
belongs to its own account and then the command is rejected; the action
properties follow from the same loop invariant and need no history.

These lemmas about the book are in `OrderBookProofs`; `MatchingProofs` adds the
engine's sequence.

Runtime. A command settles its trades by a fold, unfolded trade by trade like
the matching loop. The reservation rows of an account are summed; taking an
amount lowers one row by it, so a transfer moves exactly what its trade says
(`Settles`), and each turn keeps `Balanced`: what an account has available and
reserved is what it began with and what the logged trades gave or took. That a
trade is logged once needs the engine: `RuntimeInv` says that no executed trade
is of a later sequence than the engine's, so the trades of a new command are new,
also when commands before it were rolled back and the engine kept what they had
done. That a trade names a maker's account needs that an order another may meet
was accepted and has a state; a market order, which may rest without a price, is
met by nobody. A transaction that fails leaves the database as it was, whatever
the engine and the memos remember; so each kind of state is carried through a
command on its own (`LedgerPart`, `MemoryPart`, `EngineKeeps`).
`OnlyOwnFundsTaken` comes out of the same steps: settling takes from rows alone,
and only a placing command sets funds aside.

Partitions. `PartitionsInv`: a machine and the payload of a snapshot know
exactly the commands up to their sequence, and an engine has run strictly
increasing places of the log, none behind its machine. The last conjunct is what
keeps a restored snapshot from running a place again.

Gateway. `OneAnswerPerKey` and `SecretShownOnce` need to know what requests in
their transaction are about to write. `ScopeHeld`: one such request per
idempotency key, and its row is not yet written; `EffectsJournaled`: a request
about to commit finds the journal free or holding its own body;
`SecretsUnseen`: a secret generated and not committed was shown to nobody, and
no two requests generated the same one.

Administration. The tables change at COMMIT only, so `AdminInv` describes what
each action carries there: `RowsSigned` (the approval is among the records that
commit with it), `RowsNext` (its transition is the next version of its target,
since it holds the lock of the audit chain), and, for the maps of the process,
that a pending approval names its requester. From it `DualControl`,
`ControlFollowsHistory` and `TransitionsAudited` follow for any number of
concurrent actions, rollbacks and restarts. In the component profile the
approval is in the audit log before the change, in the other it commits with it;
the invariant has both cases.

Sessions. `AdmittedFresh` compares a record read at the first of four commands
with the floor that stood then; `RequestsWell` says what each check has added,
and that tables only move forward (`TablesForward`) keeps it true while other
requests run. For `LimitHolds` the history variable of untrimmed sessions is
shown to be an upper interval of all sessions created (`Trimmed`), and a request
between its listing and its last revocation carries the statement for the
sessions it listed: what is live of them and not among its victims is within
the limit. Two trims whose lock expired may end in either order, so the bound of
the interval is the larger of the two. The lock itself is not needed for either
statement; it only keeps the work from being done twice.

Quotes. `NeverStranded` is inductive beside the types of sockets, timers and
opens under way: a leader has an open under way, a socket whose events are
still to come, or a timer. `StoredQuoteAdvances` is an action property of the
script that stores a quote.

Quotes on their way out. `NoQuoteMissed` speaks of a client whose messages are
all answered; `FeedInv` says what holds while they are not. `Served`: the map
and the hub agree, an instrument the client wants is listened to or is still to
be asked of the catalog, and of an instrument listened to the stored quote has
reached the client, is on the channel, or is owed by a handler that has read it
or reads it next. A listener is registered before its snapshot is read, which
is what makes the last disjunct true at that moment. Two things that an overflow
needs: one socket is connected at a time, and nothing is kept for a socket that
has not connected. An earlier form of the property counted refused
subscriptions as wanted and is false with two instruments; `wanted` now changes
where the message is taken up.

Executions. `SettledAsRecorded` is not inductive: a transaction settles with
the price its call has read long before. `CallsFormed` carries that price from
the read to the commit, `RecordsFormed` makes every stored fill that of the body
stored with it, and `SwitchWaits` holds the kill switch back while a transaction
has read it. The transfers of a fill are two or three; `LegsSettle` follows them
leg by leg and shows that no account is overdrawn, nothing is lost and the fee
account grows by the fee. In the component profile, where the transfers are
separate steps, only types, coverage and conservation are claimed.

Process. `AcceptedSurvives` rests on one fact about configurations, for every
environment there can be: one that passes validation and puts a transaction
around each command has PostgreSQL under every store (`AtomicIsDurable`). The
invariant keeps that a running process was validated; memory may then be lost
at any moment.

Console. A green card says that a call was answered, and the answer may be that
of an idempotency record. `ServedWell` says whose records there are: of a form,
or of one write of one run, with that write's body, scope and effect. A second
credit of a run would have to be served without finding such a record.
`CallsWell` says that every call under way is a read, a form's write or a write
of some run, that the flow waits for one call at most, and that this call was
made by its running card: what the connection breaks off, or a reload leaves
behind, may still be served, and only repeats what is recorded.

Rate limits. A window is opened only after the one before it is over, so a span
of one duration meets at most two of them. `LimitsInv` keeps, beside the types,
that the admissions of one duration before the running window are within one
ceiling (the limit times the number of counters) and that those of the running
window are within the count of its counter; the bound on a span is then the
sum of its two parts (`SumUnion`, `SumOfPart`).

Read models. `ActiveIsStream` speaks of the ACTIVE version only, and a swap
makes another one ACTIVE. `ProjectionsInv` carries the statement over to the
shadow versions: the stream a rebuild captured is a beginning of the live one
(`Shadows`), its version is the fold of what it captured, and no other rebuild
holds that version; a locked row is ACTIVE, so nothing is committed to a version
that a swap has retired (`Holding`). At the swap the ACTIVE version has applied
as many events as were captured, so the beginning is the whole. The relation
`IsModel` states the fold without recursion, row by row; `DeliveredIsFaithful`
shows that one event keeps it, known or new, and `DeliveredInSteps` takes
FoldLeft apart event by event, by the same argument as the sums. `Whole` says
that the identifiers of a command are all among the live events or none is: it
needs that no two commands share one.

Only model-checked, and why:

- liveness (`eventlog_safety`, `process_safety`, `realtime_safety`,
  `feed_safety`, `clients_safety`) and everything that rests on fairness or
  ENABLED: outside the prover's logic;
- the statements of section 6, which the code does not meet;
- `OwnedExplained`, `SettlesWholly`: the component profile, where an exception
  leaves everything before it done; the argument of `TradingRuntimeProofs` has
  a case for each point at which each leg of each trade can stop there;
- `ExactMoney`: decimal arithmetic with powers of ten, products of variables
  and remainders; outside what the installed provers decide.

## 6. Where the code does something else

Sentences of the repository that the models refute. To see a trace, check the
property with the configuration of the run, in the place of its properties.

| run | property | what happens |
|---|---|---|
| `sequencer_safety` with `FreshSpec` and `ClocksAgree = TRUE` | `OneWriterPerEpoch` | from empty tables both replicas lock nothing, compute epoch 1 and write in it; `docs/adr/0007-partition-lease-fencing.md:68` lets only the holder of the current epoch write |
| `sequencer_safety` | `LiveLeaseNotTaken` | a replica that read no lease row overwrites the live lease committed since; `sequencer.port.ts:65` refuses an active foreign lease |
| `sequencer_safety` | `PlanAppliedBeforeAdmission` | after a takeover the engine executed nothing of the plan; `sequencer.port.ts:91` opens admission after the whole plan is applied |
| `sequencer_safety` | `EngineReplayed` | a restart within the own lease's time keeps the epoch and skips recovery; ADR 0007:62 promises the same recovery |
| `ledger_pg_safety` | `BalanceIsNetOfPostings` | RESERVE and the settlement both post a debit of the same funds; `docs/adr/0003-double-entry-ledger.md:14` calls balances a projection of the postings |
| `matching_safety` | `MarketNeverRests` | MARKET with GTC stays active with its remainder and fails on the missing price; `docs/matching-engine.md:13` cancels the remainder |
| `matching_safety` | `SettledOnce` | a trade settled directly and again by the consumer has two SettlementApplied; `docs/settlement.md` has one |
| `runtime_safety` | `ActiveReserved` | the engine keeps an order whose transaction rolled back, and the memo of a rolled-back reservation admits the next attempt without one |
| `runtime_safety` | `ActiveSettleable` | release and settle take the account's oldest row that covers the amount, another order's too |
| `runtime_safety` | `HeldIsNeeded` | the cancelled remainder of an IOC order and the price improvement of a BUY stay reserved |
| `runtime_safety` | `ExecutedTradesSettled` | trades before a self-trade rejection in the same sweep are never settled |
| `runtime_safety` | `CancelReleasesRemainder` | a cancel of a partly filled order releases the full amount or fails |
| `component_safety` | `NothingHalved`, `NoneUnfunded` | an exception leaves half a settlement; an active order has no funds under it |
| `component_safety` | `LastResultShown` | getOrder answers with the first result kept, not the last |
| `eventlog_safety` | `RecoveryAdmits` | recovery compares the offset with the number of events; a BIGSERIAL with a gap makes every start fail (`durable-workers` says the offset must not pass the tail) |
| `eventlog_safety` | `NothingSkipped` | an event that commits late is never delivered; `docs/durable-runtime.md:20` says at least once |
| `eventlog_safety` | `OneEffect` | one worker handles an event, another quarantines it, its replay is handled again |
| `access_safety` | `ApprovedOnce` | a failed transaction or two concurrent approvals leave two applications of one command |
| `access_safety` without `VIEW` | `RefusalsAudited` | the record of a refusal is rolled back by the exception that reports it; `assertAdminRole` says it stays visible |
| `access_safety` without `VIEW` | `ReportedInForce` | a command answered APPLIED from memory after its transaction rolled back |
| `feed_safety` | `NoneRefusedHalfway` | in the component profile two rebuilt sequences collide and a command is refused with part of its events applied |
| `feed_safety` | `NoPublicationFails` | one slow socket throws into the command's transaction |
| `feed_safety` | `BookFollowed` | what the runtime publishes to the book is not broadcast as an increment |
| `feed_safety` | `SlotsReturned`, `DisconnectDropsSubscriptions` | a socket that leaves within a handler keeps its slot, or its subscription; `docs/market-data.md` removes it |
| `feed_safety` with `Lists = {"orders"}`, three commands, one rebuild | `OrdersSeenOnce` | an order that changes between two pages moves and another slips past the cursor |
| `realtime_safety` | `NoListenerLeft` | a subscribe that ends after the disconnect leaves its listener |
| `realtime_safety` | `ShownAdvances` | a snapshot read before a live quote is shown after it |
| `realtime_safety` | `UpstreamOnlyAtLeader` | the reconnect timer and an `open()` under way do not look at leadership; the README of the module says only the owner connects |
| `realtime_safety` | `FilledWhileTradable` | an instrument disabled between its read and the commit is still filled |
| `realtime_safety` | `RetryGetsFill` | a retry that looked before the first call committed is refused although its fill exists |
| `process_safety` | `NothingDeadLettered` | a batch deadline fails the attempts of every event behind it |
| `process_safety` | `FillsDurable` | with the profile left to its default, fills at the reference price are kept in memory |
| `clients_safety` | `StoppedNotFailed`, `SeedReproduces` | a stop during setup ends as failed; users become ready in the order of the answers |
| `clients_safety` | `LimitsKept`, `JudgmentStands` | `maxOpenOrders` and `maxNotional` are not enforced; a version with an earlier effectiveAt changes what was in force |
| `clients_safety` | `ConflictsAreReal`, `RefusedLeavesNothing` | createAccount turns every error of registerAsset, a deadlock too, into ASSET_DEFINITION_CONFLICT; in memory a refused request leaves its assets (`ledger-application.service.ts:67` checks before it changes) |
| `clients_safety` with `MaxSends = 3` | `ShownIsSignedIn` | two answers out of order leave the panel with the other person |

Beside these: a batch that finishes while the manager drains sets it RUNNING
again; two rebuilds compute the same next version; a crash leaves a BUILDING
version behind; a full bucket map of `AuthRateLimit` refuses everyone;
`RateLimitService` counts per replica; the admin switches of the reference-price
execution are set outside the idempotency transaction; archive and restore
lose the dead letters; the epoch of the in-memory lease never grows.

## 7. Not modelled

Logs, metrics and traces: no decision reads them. Contracts, Swagger, DTO
shapes, load tests, resilience and end-to-end scripts: schemas, and sequential
drivers of a running system. The provider's REST client, candles and
diagnostics; the status page. Password hashing, one-time codes and CSRF
digests are library arithmetic. The in-memory identity stores are sequential
maps with the same calls. `trading/lifecycle/trading-lifecycle.ts`,
`PostgresOutboxPublisher`, and `compensate` of the in-memory ledger have no
caller in the program. The other forms of `App.tsx` are single calls. Several
instruments at once in the durable path: partitions share only the ledger, whose
operations are serialised by row locks.
