------------------------- MODULE RealtimeExecution -------------------------
(***************************************************************************)
(* The execution of orders at the reference price: execute() of the        *)
(* service, the two repositories it commits to, the admin switches and     *)
(* the catalog they act on.                                                *)
(*                                                                         *)
(* execute() awaits the replay, the pause, the instrument, the quote and   *)
(* the balances one after the other; what it has read may be stale when    *)
(* it commits.  In the durable profile the commit is one transaction; the  *)
(* row locks it takes order it after the ones it meets, so its transfers   *)
(* and inserts are one step.  In the component profile every transfer is   *)
(* awaited on its own and nothing is rolled back.                          *)
(*                                                                         *)
(* An order id stands for the pair of command id and order id.             *)
(***************************************************************************)
EXTENDS Integers, FiniteSets, Sequences, Functions

CONSTANTS
  Requests,     \* calls of POST /realtime/orders
  Bodies,       \* what a call may carry: [key, order, side, quantity, expects, mine]
  None,
  Listed,       \* instruments the provider's catalog may list
  Traded,       \* the instrument the orders are about
  Price,        \* Price[q]: the price of quote q, for q \in 1..MaxTicks
  FeePercent,   \* REALTIME_EXECUTION_FEE_RATE, in percent
  UserFunds,    \* available base and quote of the user account
  SystemFunds,  \* available base and quote of the liquidity account
  MaxTicks,    \* bound: quotes stored
  MaxChanges    \* bound: switches of the admin, catalog syncs, foreign debits

Assets == {"base", "quote"}
Sides == {"BUY", "SELL"}
Keys == {b.key : b \in Bodies}
Orders == {b.order : b \in Bodies}

ASSUME ExecutionAssumption ==
  /\ Traded \in Listed /\ IsFiniteSet(Listed) /\ MaxTicks \in Nat \ {0} /\ MaxChanges \in Nat
  /\ Bodies \subseteq [key : Keys, order : Orders, side : Sides, quantity : Nat \ {0},
                       expects : 1..MaxTicks, mine : BOOLEAN]
  /\ Price \in [1..MaxTicks -> Nat \ {0}] /\ FeePercent \in Nat
  /\ UserFunds \in [Assets -> Nat] /\ SystemFunds \in [Assets -> Nat]
  /\ None \notin Bodies
  /\ LET fill == [order : Orders, side : Sides, quantity : Nat, price : Nat]
     IN None \notin fill \cup [body : Bodies, fill : fill]

VARIABLES
  durable,     \* the profile: PostgreSQL or process memory
  catalog,     \* catalog[i]: the row of instrument i, or None
  tick,        \* the stored quote: its id, 0 when none, and whether it is fresh
  paused,      \* realtime_execution_controls
  balances,    \* balances[a][x]: available funds
  applied,     \* applied[o]: the ledger operations rt:<o>:... that exist
  replays,     \* replays[k]: the body and the fill stored under key k, or None
  fills,       \* fills[o]: the fill stored for order o, or None
  request,     \* request[r]: where the call is and what it has read
  changes      \* how often the world has changed, for the bound

money == <<balances, applied, replays, fills>>
world == <<catalog, tick, paused, changes>>
executionVars == <<durable, money, world, request>>

Accounts == {"user", "liquidity", "fees", "elsewhere"}
Waiting == [at |-> "idle", body |-> None, price |-> 0, leg |-> 0, answer |-> None]

\* Execution has been resumed once and one instrument enabled.
ExecutionInit ==
  /\ durable \in BOOLEAN
  /\ catalog = [i \in Listed |-> IF i = Traded THEN [status |-> "ACTIVE", price |-> TRUE, trade |-> TRUE] ELSE None]
  /\ tick = [id |-> 1, fresh |-> TRUE] /\ paused = FALSE
  /\ balances = [a \in Accounts |-> CASE a = "user" -> UserFunds [] a = "liquidity" -> SystemFunds
                                      [] OTHER -> [x \in Assets |-> 0]]
  /\ applied = [o \in Orders |-> {}]
  /\ replays = [k \in Keys |-> None] /\ fills = [o \in Orders |-> None]
  /\ request = [r \in Requests |-> Waiting] /\ changes = 0

----------------------------------------------------------------------------
(* The price and what it moves                                             *)

Notional(f) == f.quantity * f.price
Fee(f) == (Notional(f) * FeePercent) \div 100

\* The fill of a body at a price.
Fill(b, price) == [order |-> b.order, side |-> b.side, quantity |-> b.quantity, price |-> price]

Leg(name, from, to, asset, amount) ==
  [name |-> name, from |-> from, to |-> to, asset |-> asset, amount |-> amount]

\* settle: the transfers of a fill, in their order.
Legs(f) ==
  (IF f.side = "BUY"
     THEN <<Leg("notional", "user", "liquidity", "quote", Notional(f) + Fee(f)),
            Leg("asset", "liquidity", "user", "base", f.quantity)>>
     ELSE <<Leg("asset", "user", "liquidity", "base", f.quantity),
            Leg("notional", "liquidity", "user", "quote", Notional(f) - Fee(f))>>)
  \o (IF Fee(f) = 0 THEN <<>> ELSE <<Leg("fee", "liquidity", "fees", "quote", Fee(f))>>)

\* transferAvailable, the two accounts being different ones.
Moved(funds, l) ==
  [funds EXCEPT ![l.from][l.asset] = @ - l.amount, ![l.to][l.asset] = @ + l.amount]
Affordable(funds, l) == l.amount > 0 /\ funds[l.from][l.asset] >= l.amount

\* The funds after the first n transfers.
AfterLegs(legs) ==
  LET after[n \in 0..Len(legs)] ==
        IF n = 0 THEN balances ELSE Moved(after[n - 1], legs[n])
  IN after

----------------------------------------------------------------------------
(* execute(), up to the commit                                             *)

At(r, place) == request[r].at = place
Body(r) == request[r].body
Proceeds(r, place) == request' = [request EXCEPT ![r].at = place]
Replies(r, answer) == request' = [request EXCEPT ![r] = [@ EXCEPT !.at = "done", !.answer = answer]]
Refused == [refused |-> TRUE]

\* findReplay of body b: another body under the key is a conflict.
Replayed(b) == IF replays[b.key].body = b THEN replays[b.key].fill ELSE Refused

\* A call arrives and looks for a replay.
execute(r, b) ==
  /\ At(r, "idle")
  /\ request' = [request EXCEPT ![r] =
       IF replays[b.key] # None
         THEN [@ EXCEPT !.at = "done", !.body = b, !.answer = Replayed(b)]
         ELSE [@ EXCEPT !.at = "pause", !.body = b]]
  /\ UNCHANGED <<durable, money, world>>

isPaused(r) ==
  /\ At(r, "pause")
  /\ IF paused THEN Replies(r, Refused) ELSE Proceeds(r, "instrument")
  /\ UNCHANGED <<durable, money, world>>

\* The instrument must be tradable and the account the caller's.
Tradable == /\ catalog[Traded] # None
            /\ catalog[Traded].status = "ACTIVE" /\ catalog[Traded].price /\ catalog[Traded].trade
GetInstrument(r) ==
  /\ At(r, "instrument")
  /\ IF Tradable /\ Body(r).mine THEN Proceeds(r, "price") ELSE Replies(r, Refused)
  /\ UNCHANGED <<durable, money, world>>

\* A plausible bug: any fresh quote will do.
AnyFresh(b) == tick.id # 0 /\ tick.fresh

\* ExactLastExecutionPricePolicy: the quote exists, is fresh, and is the one
\* the client has confirmed.
Confirmed(b) == tick.id # 0 /\ tick.fresh /\ tick.id = b.expects

GetLatest(r) ==
  /\ At(r, "price")
  /\ IF Confirmed(Body(r))
       THEN request' = [request EXCEPT ![r].at = "liquidity", ![r].price = Price[tick.id]]
       ELSE Replies(r, Refused)
  /\ UNCHANGED <<durable, money, world>>

\* ensureLiquidity: the balances as they are now.
ensureLiquidity(r) ==
  /\ At(r, "liquidity")
  /\ LET f == Fill(Body(r), request[r].price)
         debited == IF f.side = "BUY" THEN Notional(f) + Fee(f) ELSE f.quantity
         provided == IF f.side = "BUY" THEN f.quantity ELSE Notional(f) IN
       IF /\ balances["user"][IF f.side = "BUY" THEN "quote" ELSE "base"] >= debited
          /\ balances["liquidity"][IF f.side = "BUY" THEN "base" ELSE "quote"] >= provided
         THEN Proceeds(r, "commit") ELSE Replies(r, Refused)
  /\ UNCHANGED <<durable, money, world>>

----------------------------------------------------------------------------
(* commit() of PostgresRealtimeExecutionRepository                         *)

Inside == {"control", "settle"}     \* inside the transaction, past its advisory lock
KeyLocked(k) == \E r \in Requests : durable /\ request[r].at \in Inside /\ Body(r).key = k

\* A plausible bug: FOR UPDATE is missing, the switch does not wait.
Unlocked == FALSE

ControlLocked == \E r \in Requests : durable /\ At(r, "settle")

\* The advisory lock of the key, the replay and the collision of ids.
BeginCommit(r) ==
  /\ durable /\ At(r, "commit") /\ ~KeyLocked(Body(r).key)
  /\ CASE replays[Body(r).key] # None -> Replies(r, Replayed(Body(r)))
       [] replays[Body(r).key] = None /\ fills[Body(r).order] # None -> Replies(r, Refused)
       [] OTHER -> Proceeds(r, "control")
  /\ UNCHANGED <<durable, money, world>>

\* SELECT paused ... FOR UPDATE: it waits for the transaction that holds the row.
LockControl(r) ==
  /\ durable /\ At(r, "control") /\ ~ControlLocked
  /\ IF paused THEN Replies(r, Refused) ELSE Proceeds(r, "settle")
  /\ UNCHANGED <<durable, money, world>>

\* A plausible bug: an order that exists is written over.
AlwaysNew(b) == TRUE

\* The unique constraints of realtime_commands.
Unique(b) == replays[b.key] = None /\ fills[b.order] = None

\* The transfers, the inserts of command, quote, execution and outbox event,
\* and COMMIT; or a rollback that leaves nothing, for missing funds or an
\* order id that another key has used meanwhile.
Settle(r) ==
  /\ durable /\ At(r, "settle")
  /\ LET f == Fill(Body(r), request[r].price)
         legs == Legs(f)
         payable == \A n \in 1..Len(legs) : Affordable(AfterLegs(legs)[n - 1], legs[n]) IN
       IF Unique(Body(r)) /\ payable
         THEN /\ balances' = AfterLegs(legs)[Len(legs)]
              /\ applied' = [applied EXCEPT ![f.order] = {legs[n].name : n \in 1..Len(legs)}]
              /\ replays' = [replays EXCEPT ![Body(r).key] = [body |-> Body(r), fill |-> f]]
              /\ fills' = [fills EXCEPT ![f.order] = f]
              /\ Replies(r, f)
         ELSE UNCHANGED money /\ Replies(r, Refused)
  /\ UNCHANGED <<durable, world>>

\* A transient conflict rolls the transaction back: it runs again, or the
\* retries are used up.  What was read before it is not read again.
Conflict(r) ==
  /\ durable /\ request[r].at \in Inside
  /\ Proceeds(r, "commit") \/ Replies(r, Refused)
  /\ UNCHANGED <<durable, money, world>>

\* The process stops with the call; a transaction under way is rolled back.
\* The client does not know and may call again.
Crash(r) ==
  /\ request[r].at \notin {"idle", "done"} /\ durable
  /\ request' = [request EXCEPT ![r] = Waiting]
  /\ UNCHANGED <<durable, money, world>>

----------------------------------------------------------------------------
(* commit() of MemoryRealtimeExecutionRepository                           *)

BeginMemoryCommit(r) ==
  /\ ~durable /\ At(r, "commit")
  /\ CASE replays[Body(r).key] # None -> Replies(r, Replayed(Body(r)))
       [] replays[Body(r).key] = None /\ (paused \/ fills[Body(r).order] # None) -> Replies(r, Refused)
       [] OTHER -> request' = [request EXCEPT ![r].at = "pay", ![r].leg = 1]
  /\ UNCHANGED <<durable, money, world>>

\* One transfer; an operation id that exists is not applied again.  A
\* transfer that fails leaves the ones before it.
Pay(r) ==
  /\ ~durable /\ At(r, "pay")
  /\ LET f == Fill(Body(r), request[r].price)
         l == Legs(f)[request[r].leg]
         done == l.name \in applied[f.order] IN
       /\ request[r].leg <= Len(Legs(f))
       /\ IF done \/ Affordable(balances, l)
            THEN /\ balances' = IF done THEN balances ELSE Moved(balances, l)
                 /\ applied' = [applied EXCEPT ![f.order] = @ \cup {l.name}]
                 /\ request' = [request EXCEPT ![r].leg = @ + 1]
            ELSE UNCHANGED <<balances, applied>> /\ Replies(r, Refused)
  /\ UNCHANGED <<durable, replays, fills, world>>

\* The four maps are written, over whatever a concurrent commit has written.
Record(r) ==
  /\ ~durable /\ At(r, "pay")
  /\ LET f == Fill(Body(r), request[r].price) IN
       /\ request[r].leg > Len(Legs(f))
       /\ replays' = [replays EXCEPT ![Body(r).key] = [body |-> Body(r), fill |-> f]]
       /\ fills' = [fills EXCEPT ![f.order] = f]
       /\ Replies(r, f)
  /\ UNCHANGED <<durable, balances, applied, world>>

----------------------------------------------------------------------------
(* The world around a call                                                 *)

Changes == changes < MaxChanges /\ changes' = changes + 1

\* The stored quote: replaced by the next one, grown stale, expired.
QuoteChanges ==
  /\ \/ tick.id < MaxTicks /\ tick' = [id |-> tick.id + 1, fresh |-> TRUE]
     \/ tick.fresh /\ tick' = [tick EXCEPT !.fresh = FALSE]
     \/ tick.id # 0 /\ tick' = [id |-> 0, fresh |-> FALSE]
  /\ Changes
  /\ UNCHANGED <<durable, money, catalog, paused, request>>

\* setPaused waits for a transaction that holds the row.
setPaused(value) ==
  /\ (durable => ~ControlLocked) /\ paused # value /\ paused' = value
  /\ Changes /\ UNCHANGED <<durable, money, catalog, tick, request>>

\* The UPDATEs of the two switches; a row they do not find is not changed.
Priced(row, enabled) ==
  IF enabled /\ row.status # "ACTIVE" THEN row
  ELSE [row EXCEPT !.price = enabled, !.trade = @ /\ enabled]
Allowed(row, enabled) ==
  IF enabled /\ ~(row.status = "ACTIVE" /\ row.price) THEN row ELSE [row EXCEPT !.trade = enabled]

setPriceEnabled(i, enabled) ==
  /\ catalog[i] # None /\ catalog' = [catalog EXCEPT ![i] = Priced(@, enabled)]
  /\ catalog' # catalog /\ Changes
  /\ UNCHANGED <<durable, money, tick, paused, request>>

setTradeEnabled(i, enabled) ==
  /\ catalog[i] # None /\ catalog' = [catalog EXCEPT ![i] = Allowed(@, enabled)]
  /\ catalog' # catalog /\ Changes
  /\ UNCHANGED <<durable, money, tick, paused, request>>

Known == {i \in Listed : catalog[i] # None}

\* A plausible bug: a delisted instrument keeps its switches.
OnlyDelisted(row) == [row EXCEPT !.status = "INACTIVE"]

Delisted(row) == [status |-> "INACTIVE", price |-> FALSE, trade |-> FALSE]

\* publishSnapshot is refused when empty or when less than half of the rows
\* remain (TWELVE_DATA_CATALOG_MIN_RETAINED_RATIO).
Retained(listed) == listed # {} /\ 2 * Cardinality(listed) >= Cardinality(Known)

\* Rows keep their switches, new ones have none, missing ones lose theirs.
\* (The instruments are of one asset class.)
Published(listed) ==
  [i \in Listed |->
     CASE i \in listed /\ catalog[i] = None -> [status |-> "ACTIVE", price |-> FALSE, trade |-> FALSE]
       [] i \in listed /\ catalog[i] # None -> [catalog[i] EXCEPT !.status = "ACTIVE"]
       [] i \notin listed /\ catalog[i] # None -> Delisted(catalog[i])
       [] OTHER -> None]

\* One run of the catalog sync publishes what the provider lists, or nothing.
sync(listed) ==
  /\ Retained(listed) /\ catalog' = Published(listed)
  /\ catalog' # catalog /\ Changes
  /\ UNCHANGED <<durable, money, tick, paused, request>>

\* The rest of the exchange takes funds of the two accounts: orders,
\* withdrawals, settlements of trades.
ForeignDebit(a, x) ==
  /\ a \in {"user", "liquidity"} /\ balances[a][x] > 0 /\ Changes
  /\ balances' = Moved(balances, Leg("debit", a, "elsewhere", x, 1))
  /\ UNCHANGED <<durable, applied, replays, fills, catalog, tick, paused, request>>

ExecutionNext ==
  \/ \E r \in Requests :
       \/ \E b \in Bodies : execute(r, b)
       \/ isPaused(r) \/ GetInstrument(r) \/ GetLatest(r) \/ ensureLiquidity(r)
       \/ BeginCommit(r) \/ LockControl(r) \/ Settle(r) \/ Conflict(r) \/ Crash(r)
       \/ BeginMemoryCommit(r) \/ Pay(r) \/ Record(r)
  \/ QuoteChanges \/ \E v \in BOOLEAN : setPaused(v)
  \/ \E i \in Listed, v \in BOOLEAN : setPriceEnabled(i, v) \/ setTradeEnabled(i, v)
  \/ \E listed \in SUBSET Listed : sync(listed)
  \/ \E a \in Accounts, x \in Assets : ForeignDebit(a, x)

ExecutionSpec == ExecutionInit /\ [][ExecutionNext]_executionVars

----------------------------------------------------------------------------
(* Properties                                                              *)

Filled == {o \in Orders : fills[o] # None}
Total(funds, x) == funds["user"][x] + funds["liquidity"][x] + funds["fees"][x] + funds["elsewhere"][x]

\* Every variable holds values of its type and no account is overdrawn; an
\* instrument that may be traded is priced and listed by the provider, and
\* funds only move between accounts.
ExecutionTypeOK ==
  /\ catalog \in [Listed -> [status : {"ACTIVE", "INACTIVE"}, price : BOOLEAN, trade : BOOLEAN]
                             \cup {None}]
  /\ \A i \in Listed : catalog[i] # None =>
       /\ catalog[i].trade => catalog[i].price
       /\ catalog[i].price => catalog[i].status = "ACTIVE"
  /\ tick \in [id : 0..MaxTicks, fresh : BOOLEAN] /\ paused \in BOOLEAN
  /\ balances \in [Accounts -> [Assets -> Nat]]
  /\ \A x \in Assets : Total(balances, x) = UserFunds[x] + SystemFunds[x]
  /\ \A r \in Requests : request[r].body \in Bodies \cup {None}

\* The fees of all fills.
FeesCharged == SumFunctionOnSet([o \in Filled |-> Fee(fills[o])], Filled)

\* The money has moved exactly as the recorded executions say: an order that
\* has a row is settled in full and once, an order without one has not moved
\* anything, and the fee account holds the fees of the rows - whatever
\* retries, conflicts, crashes, reused keys and stolen order ids come
\* together.  (Durable profile.)
SettledAsRecorded ==
  durable =>
    /\ \A o \in Orders :
         applied[o] = IF fills[o] = None THEN {}
                      ELSE {Legs(fills[o])[n].name : n \in 1..Len(Legs(fills[o]))}
    /\ balances["fees"]["quote"] = FeesCharged
    /\ \A o \in Filled : \E k \in Keys :
         replays[k] # None /\ replays[k].fill = fills[o]
    /\ \A k \in Keys : replays[k] # None => replays[k].fill = fills[replays[k].fill.order]

\* A client is told of a fill only at the price of the quote it has confirmed,
\* and every answer to one key tells of the same fill.
FilledAsConfirmed ==
  \A r \in Requests : At(r, "done") /\ request[r].answer # Refused =>
    /\ request[r].answer.price = Price[Body(r).expects]
    /\ durable => request[r].answer = replays[Body(r).key].fill

\* The kill switch: while execution is paused no order is filled, however far
\* a call had come before the switch.  (Durable profile.)
NoFillWhilePaused ==
  [][durable /\ fills' # fills => ~paused]_executionVars

\* The integration plan: a retry gets the earlier financial result.  A retry
\* that looked for it before the first call committed goes on to read the new
\* quote and is refused, although the fill of its key is stored by then.
RetryGetsFill ==
  [][\A r \in Requests :
       ~At(r, "done") /\ request[r].body # None /\ request'[r].answer = Refused
         => replays[Body(r).key] = None \/ replays[Body(r).key].body # Body(r)]_executionVars

\* A fill is of an instrument that may still be traded at that moment.
FilledWhileTradable == [][fills' # fills => Tradable]_executionVars
============================================================================
