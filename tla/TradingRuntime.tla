--------------------------- MODULE TradingRuntime ---------------------------
(***************************************************************************)
(* TradingRuntimeProcessor of one instrument inside the durable command     *)
(* path: reserve before match, match, settle, answer.                       *)
(*                                                                         *)
(* PostgresTradingCommandAdapter runs each command in one transaction while *)
(* it holds the partition (see FencedSequencer), so commands are serial and *)
(* one command is one step.  The ledger, the event log and the command      *)
(* journal live in the database and commit or roll back together; the       *)
(* matching engine, orderStates, results and SettlementService.reservations *)
(* live in process memory and never roll back.  A rejection is an exception *)
(* and rolls the transaction back; so does a transient failure of any       *)
(* statement, which strikes while the events are applied or at the commit.  *)
(*                                                                         *)
(* The reserved column of a balance is the sum of its reservation rows (see *)
(* PostgresLedger), so the rows alone stand for it.  Fees are zero, as the  *)
(* processor passes them, and each user trades for one account.             *)
(* Mutated forms, named for the bug they introduce, stand before the        *)
(* definition they mutate; no other definition uses them.                   *)
(***************************************************************************)
EXTENDS OrderBook, FiniteSetsExt

CONSTANTS Accounts, Commands, OrderIds, Prices, Quantities, TimesInForce,
          Funds,        \* what each account owns of each asset at the start
          MaxCommands,  \* bound on the commands the engine is given
          MayFail,      \* transient database failures happen
          MayRetry,     \* a command is sent again after an error
          MayReuse      \* a new command names an order id used before

ASSUME RuntimeConstants ==
  /\ Prices \subseteq Nat \cup {NoPrice}
  /\ Quantities \subseteq Nat \ {0}
  /\ Funds \in Nat /\ MaxCommands \in Nat
  /\ {MayFail, MayRetry, MayReuse} \subseteq BOOLEAN

Assets == {"base", "quote"}

VARIABLES
  db,        \* committed: available funds, reservation rows, event log, ...
  journal,   \* committed commands
  sequence,  \* the engine's sequence
  active,    \* the engine's active orders
  reserved,  \* SettlementService.reservations: order ids already reserved
  states,    \* orderStates: accepted orders by order id
  results,   \* commands whose result is kept in memory
  issued,    \* history: what each command id has been sent with
  executed   \* history: trades the engine has executed

vars == <<db, journal, sequence, active, reserved, states, results, issued,
          executed>>
---------------------------------------------------------------------------
(* The transaction's view of the database.  `ok' falls when a statement     *)
(* throws.                                                                  *)
Orders == [user : Accounts, side : Sides, price : Prices, qty : Quantities,
           tif : TimesInForce]

LimitOf(o) == IF o.price = NoPrice THEN 0 ELSE o.price

(* reserve and release: the asset an order commits, and all of its amount.  *)
Committed(o) == IF o.side = "BUY" THEN "quote" ELSE "base"
FullAmount(o) == IF o.side = "BUY" THEN o.qty * LimitOf(o) ELSE o.qty

Failed(d) == [d EXCEPT !.ok = FALSE]

AlwaysAffordable(d, a, asset, amount) == amount > 0

(* The ledger's RESERVE needs a positive amount and enough available.       *)
Affordable(d, a, asset, amount) == amount > 0 /\ d.avail[a][asset] >= amount

(* reserveBeforePlace: skipped when this process has reserved for the order *)
(* id, and a no-op when the database has (the operation id is derived from  *)
(* the order id).                                                           *)
Reserve(d, id, o) ==
  LET a == o.user
      asset == Committed(o)
      amount == FullAmount(o)
  IN IF id \in reserved \/ \E r \in ToSet(d.rows) : r.order = id THEN d
     ELSE IF ~Affordable(d, a, asset, amount) THEN Failed(d)
     ELSE [d EXCEPT !.avail[a][asset] = @ - amount,
                    !.rows = Append(@, [order |-> id, account |-> a,
                                        asset |-> asset, left |-> amount])]

(* Reservation rows: the account's oldest one that covers the whole amount. *)
TakeRow(d, a, asset, amount) ==
  LET covers(i) == /\ d.rows[i].account = a /\ d.rows[i].asset = asset
                   /\ d.rows[i].left > 0 /\ d.rows[i].left >= amount
      first(i)  == covers(i) /\ \A j \in 1..(i - 1) : ~covers(j)
  IN IF ~d.ok \/ amount = 0 \/ ~\E i \in 1..Len(d.rows) : covers(i)
     THEN Failed(d)
     ELSE [d EXCEPT !.rows[CHOOSE i \in 1..Len(d.rows) : first(i)].left
                      = @ - amount]

TransferFromAvailable(d, from, to, asset, amount) ==
  [d EXCEPT !.avail[from][asset] = @ - amount, !.avail[to][asset] = @ + amount]

(* settleReservedTransfer.                                                  *)
Transfer(d, from, to, asset, amount) ==
  LET taken == TakeRow(d, from, asset, amount)
  IN IF taken.ok THEN [taken EXCEPT !.avail[to][asset] = @ + amount]
     ELSE taken

Trade(id, o, t, seq) ==
  LET maker == states[t.maker].user
  IN [seq |-> seq, maker |-> t.maker, taker |-> id,
      seller |-> IF o.side = "BUY" THEN maker ELSE o.user,
      buyer  |-> IF o.side = "BUY" THEN o.user ELSE maker,
      qty |-> t.qty, value |-> t.qty * t.price]

SettleBaseOnly(d, trade) ==
  LET base == Transfer(d, trade.seller, trade.buyer, "base", trade.qty)
  IN IF base.ok THEN [base EXCEPT !.log = Append(@, trade)] ELSE base

AppendRetriedBlindly(d, trade) ==
  LET base  == Transfer(d, trade.seller, trade.buyer, "base", trade.qty)
      quote == Transfer(base, trade.buyer, trade.seller, "quote", trade.value)
  IN IF quote.ok THEN [quote EXCEPT !.log = @ \o <<trade, trade>>] ELSE quote

(* applyTrade: the event in the log, base to the buyer, quote to the seller.*)
Settle(d, trade) ==
  LET base  == Transfer(d, trade.seller, trade.buyer, "base", trade.qty)
      quote == Transfer(base, trade.buyer, trade.seller, "quote", trade.value)
  IN IF quote.ok THEN [quote EXCEPT !.log = Append(@, trade)] ELSE quote

(* release: the FULL amount of the order, once per order id.                *)
Release(d, id, o) ==
  IF id \in d.released THEN d
  ELSE LET taken == TakeRow(d, o.user, Committed(o), FullAmount(o))
       IN IF taken.ok
          THEN [taken EXCEPT !.avail[o.user][Committed(o)] = @ + FullAmount(o),
                             !.released = @ \cup {id}]
          ELSE taken
---------------------------------------------------------------------------
Init ==
  /\ db = [avail |-> [a \in Accounts |-> [s \in Assets |-> Funds]],
           rows |-> << >>, log |-> << >>, released |-> {}, ok |-> TRUE]
  /\ journal = {} /\ results = {} /\ reserved = {} /\ executed = {}
  /\ sequence = 0
  /\ active = << >> /\ states = << >> /\ issued = << >>

(* What callers send: a command id always stands for the same request, and  *)
(* a request is sent again only if MayRetry; an order id is new unless      *)
(* MayReuse.                                                                *)
Sent(c, request) ==
  /\ sequence < MaxCommands
  /\ c \notin journal
  /\ IF c \in DOMAIN issued THEN MayRetry /\ issued[c] = request
     ELSE request.kind = "PLACE" /\ ~MayReuse =>
            \A b \in DOMAIN issued : issued[b].id # request.id
  /\ issued' = With(issued, c, request)

PlaceOf(id, o) == [kind |-> "PLACE", id |-> id, order |-> o]
CancelOf(id)   == [kind |-> "CANCEL", id |-> id]

EngineTakes(outcome) ==
  /\ sequence' = sequence + 1
  /\ active' = outcome.book

(* The end of the transaction: it commits, or the COMMIT fails when the     *)
(* result is already in memory, or a statement has failed before.           *)
Ends(c, view, failure) ==
  \/ /\ view.ok /\ failure = "none"
     /\ db' = view
     /\ journal' = journal \cup {c} /\ results' = results \cup {c}
  \/ /\ MayFail /\ view.ok /\ failure = "commit"
     /\ results' = results \cup {c} /\ UNCHANGED <<db, journal>>
  \/ /\ MayFail \/ ~view.ok
     /\ failure = "events" /\ UNCHANGED <<db, journal, results>>

(* A result kept in memory answers a command the database has not seen.     *)
Replay(c) ==
  /\ c \in results /\ c \notin journal /\ MayRetry
  /\ journal' = journal \cup {c}
  /\ UNCHANGED <<db, sequence, active, reserved, states, results, issued,
                 executed>>

Trades(id, o, outcome) ==
  [i \in 1..Len(outcome.trades) |-> Trade(id, o, outcome.trades[i], sequence + 1)]

(* placeOrder, rejected by the engine or thrown out of it: the transaction  *)
(* rolls back (the release with it); memory and the swept makers stay.      *)
PlaceRejected(c, id, o) ==
  LET outcome == Placed(active, id, o, sequence + 1)
  IN /\ c \notin results
     /\ Sent(c, PlaceOf(id, o))
     /\ Reserve(db, id, o).ok
     /\ ~Accepts(outcome.code)
     /\ EngineTakes(outcome)
     /\ reserved' = reserved \cup {id}
     /\ executed' = executed \cup ToSet(Trades(id, o, outcome))
     /\ UNCHANGED <<db, journal, states, results>>

(* placeOrder, accepted by the engine: each trade is settled in turn.       *)
PlaceAccepted(c, id, o, failure) ==
  LET outcome == Placed(active, id, o, sequence + 1)
      trades  == Trades(id, o, outcome)
  IN /\ c \notin results
     /\ Sent(c, PlaceOf(id, o))
     /\ Reserve(db, id, o).ok
     /\ Accepts(outcome.code)
     /\ EngineTakes(outcome)
     /\ reserved' = reserved \cup {id}
     /\ states' = With(states, id, o)
     /\ executed' = executed \cup ToSet(trades)
     /\ Ends(c, FoldLeft(Settle, Reserve(db, id, o), trades), failure)

(* cancelOrder.  An order the engine kept after an exception has no state   *)
(* and nothing is released for it.                                          *)
Cancel(c, id, failure) ==
  /\ c \notin results
  /\ Sent(c, CancelOf(id))
  /\ id \in DOMAIN active
  /\ EngineTakes(Cancelled(active, id))
  /\ Ends(c, IF id \in DOMAIN states THEN Release(db, id, states[id]) ELSE db,
          failure)
  /\ UNCHANGED <<reserved, states, executed>>

(* cancelOrder of an order that is not active: only the sequence moves.     *)
CancelRejected(c, id) ==
  /\ c \notin results
  /\ Sent(c, CancelOf(id))
  /\ id \notin DOMAIN active
  /\ EngineTakes(Cancelled(active, id))
  /\ UNCHANGED <<db, journal, reserved, states, results, executed>>

Next ==
  \/ \E c \in Commands : Replay(c)
  \/ \E c \in Commands, id \in OrderIds, o \in Orders :
       \/ PlaceRejected(c, id, o)
       \/ \E failure \in {"none", "events", "commit"} :
            PlaceAccepted(c, id, o, failure)
  \/ \E c \in Commands, id \in OrderIds,
        failure \in {"none", "events", "commit"} : Cancel(c, id, failure)
  \/ \E c \in Commands, id \in OrderIds : CancelRejected(c, id)

Spec == Init /\ [][Next]_vars
---------------------------------------------------------------------------
Row == [order : OrderIds, account : Accounts, asset : Assets, left : Nat]

TradeExecuted == [seq : Nat, maker : OrderIds, taker : OrderIds,
                  seller : Accounts, buyer : Accounts, qty : Nat, value : Nat]

View == [avail : [Accounts -> [Assets -> Nat]], rows : Seq(Row),
         log : Seq(TradeExecuted), released : SUBSET OrderIds, ok : BOOLEAN]

ActiveOrder == [user : Accounts, side : Sides, price : Prices,
                left : Nat \ {0}, seq : Nat \ {0}]

(* No balance and no reservation is ever negative, no transaction commits   *)
(* after a failed statement, and memory speaks of orders that were sent.    *)
TypeOK ==
  /\ db \in View /\ db.ok
  /\ journal \subseteq Commands /\ results \subseteq Commands
  /\ sequence \in Nat
  /\ reserved \subseteq OrderIds
  /\ DOMAIN states \subseteq OrderIds
  /\ \A id \in DOMAIN states : states[id] \in Orders
  /\ DOMAIN active \subseteq OrderIds
  /\ \A id \in DOMAIN active : active[id] \in ActiveOrder

(* What the rows reserve of an asset of account a.                          *)
HeldIn(rows, a, asset) ==
  SumFunctionOnSet([i \in DOMAIN rows |->
                      IF rows[i].account = a /\ rows[i].asset = asset
                      THEN rows[i].left ELSE 0], DOMAIN rows)

Held(a, asset) == HeldIn(db.rows, a, asset)

(* What account a gains of an asset by trade t: a loss is negative.         *)
Gain(t, a, asset) ==
  LET amount == IF asset = "base" THEN t.qty ELSE t.value
      to     == IF asset = "base" THEN t.buyer ELSE t.seller
      from   == IF asset = "base" THEN t.seller ELSE t.buyer
  IN (IF a = to THEN amount ELSE 0) - (IF a = from THEN amount ELSE 0)

Gained(log, a, asset) ==
  SumFunctionOnSet([i \in DOMAIN log |-> Gain(log[i], a, asset)], DOMAIN log)

(* What an account owns is what it started with plus the trades in the      *)
(* committed event log: reservations, rollbacks, releases of the wrong row, *)
(* replayed and reused orders never create, lose or move value otherwise.   *)
TotalsFollowTrades ==
  \A a \in Accounts, asset \in Assets :
    db.avail[a][asset] + Held(a, asset) = Funds + Gained(db.log, a, asset)

(* The committed event log holds trades the engine executed, each once: a   *)
(* retried or reused order never settles a trade a second time.             *)
LoggedTradesExecutedOnce ==
  /\ ToSet(db.log) \subseteq executed
  /\ \A i, j \in 1..Len(db.log) : db.log[i] = db.log[j] => i = j

(* Both together: ownership is accounted for by trades that really happened *)
(* and are settled no more than once, whatever fails or is sent again.      *)
TradesAccounted == TotalsFollowTrades /\ LoggedTradesExecutedOnce

(* What both rest on: the engine never makes a trade under a sequence used  *)
(* before, and an order that another may meet was accepted.                 *)
RuntimeInv ==
  /\ TypeOK
  /\ TradesAccounted
  /\ IsFiniteSet(DOMAIN active) /\ OwnSequences(active, sequence)
  /\ \A id \in DOMAIN active : active[id].price # NoPrice => id \in DOMAIN states
  /\ \A t \in executed : t.seq \in 0..sequence

(* Nobody's available funds fall except through a command of his own: no    *)
(* settlement, cancel or failure of another user's order touches them.      *)
OnlyOwnFundsTaken ==
  [][\A a \in Accounts, asset \in Assets :
       db'.avail[a][asset] < db.avail[a][asset] =>
         \E c \in journal' \ journal :
           issued'[c].kind = "PLACE" /\ issued'[c].order.user = a]_vars

RowOf(id) == {i \in 1..Len(db.rows) : db.rows[i].order = id}

(* Funds under an active order are reserved at all                          *)
(* (docs/system-design-requirements.md, rule 3).                            *)
ActiveReserved == \A id \in DOMAIN active : RowOf(id) # {}

(* What an active order may still have to deliver.                          *)
Need(id) == IF active[id].side = "BUY" THEN active[id].left * active[id].price
            ELSE active[id].left

Demand(a, asset) ==
  {id \in DOMAIN active : /\ id \in DOMAIN states
                          /\ active[id].user = a
                          /\ Committed(states[id]) = asset}

(* Whatever an active order may still have to deliver can be delivered:     *)
(* some row of its account covers it (docs/system-design-requirements.md,   *)
(* rule 3).                                                                 *)
ActiveSettleable ==
  \A id \in DOMAIN active :
    \E r \in ToSet(db.rows) :
      /\ r.account = active[id].user
      /\ r.asset = Committed(active[id])
      /\ r.left >= Need(id)

(* An account has no more reserved than its active orders may still need:   *)
(* what an execution, an expiry or a cancel leaves over is set free         *)
(* (docs/system-design-requirements.md, 4.1, 4.2 and 5).                    *)
HeldIsNeeded ==
  \A a \in Accounts, asset \in Assets :
    Held(a, asset) <= MapThenSumSet(Need, Demand(a, asset))

(* Every trade the engine executes is settled in the same command           *)
(* (docs/system-design-requirements.md, rule 5).                            *)
ExecutedTradesSettled == executed \subseteq ToSet(db.log)

(* A cancel sets free what the order still had to deliver, no more and no   *)
(* less (cancelOrder: the unused reserve is released).                      *)
CancelReleasesRemainder ==
  [][\A id \in DOMAIN active :
       (\E c \in DOMAIN issued' \ DOMAIN issued : issued'[c] = CancelOf(id))
         => LET a == active[id].user
                asset == Committed(active[id])
            IN db'.avail[a][asset] = db.avail[a][asset] + Need(id)]_vars
=============================================================================
