-------------------------- MODULE ComponentTrading --------------------------
(***************************************************************************)
(* The component profile: TradingRuntimeProcessor over the in-memory ledger *)
(* and event log, in one process and with no transaction around a command   *)
(* (DIRECT_ATOMIC_EXECUTION).  Every await of the path resolves in the same *)
(* turn of the event loop, so one command is one step; but an exception in  *)
(* the middle leaves whatever was done before it, in the ledger too.        *)
(*                                                                         *)
(* In the durable profile the same code runs inside a transaction (see      *)
(* TradingRuntime); here reserved funds are one pool per account and asset, *)
(* not rows.  An account belongs to one user.  Fees are zero, as the        *)
(* processor passes them.  The consumers of the log have no effect here and *)
(* a restart forgets everything, so neither is modelled.                    *)
(* Mutated forms, named for the bug they introduce, stand before the        *)
(* definition they mutate; no other definition uses them.                   *)
(***************************************************************************)
EXTENDS OrderBook, MemoryLedger, FiniteSetsExt

CONSTANTS Accounts, Commands, OrderIds, Prices, Quantities, TimesInForce,
          Funds,        \* what each account owns of each asset at the start
          AdminCommands, \* command ids of balance changes
          Amounts,      \* amounts an administrator asks for
          MaxCommands   \* bound on the commands given to engine and ledger

Assets == {"base", "quote"}

VARIABLES
  ledger,        \* the Ledger aggregate
  log,           \* EventLog.events
  sequence,      \* the engine's sequence
  active,        \* the engine's active orders
  reservations,  \* SettlementService.reservations
  states,        \* orderStates
  results,       \* results by command, in the order they were kept
  audit,         \* AuditLog: balance changes reported as applied
  issued,        \* history: what each command id has been sent with
  excused,       \* history: accounts whose pool lost more than it should
  halved         \* history: trades that moved one leg and not the other

vars == <<ledger, log, sequence, active, reservations, states, results,
          audit, issued, excused, halved>>

Orders == [user : Accounts, side : Sides, price : Prices, qty : Quantities,
           tif : TimesInForce]

Changes == [action : {"CREDIT", "DEBIT", "RESERVE", "RELEASE"},
            account : Accounts, asset : Assets, amount : Amounts]

PlaceOf(id, o) == [kind |-> "PLACE", id |-> id, order |-> o]
CancelOf(id)   == [kind |-> "CANCEL", id |-> id]

LimitOf(o) == IF o.price = NoPrice THEN 0 ELSE o.price

Committed(o) == IF o.side = "BUY" THEN "quote" ELSE "base"

QuantityOnly(o) == o.qty

FullAmount(o) == IF o.side = "BUY" THEN o.qty * LimitOf(o) ELSE o.qty

Op(kind, id, other, n) == <<kind, id, other, n>>

(* reserveBeforePlace: an order id this process has reserved for is         *)
(* answered from memory.                                                    *)
ReserveBeforePlace(l, id, o) ==
  IF id \in reservations THEN l
  ELSE Reserve(l, Op("reserve", id, id, 0), o.user, Committed(o), FullAmount(o))

(* release: the full amount, once per order id and reason.                  *)
ReleaseOf(l, id, o, reason) ==
  Release(l, Op(reason, id, id, 0), o.user, Committed(o), FullAmount(o))

Trade(id, o, t) ==
  LET maker == states[t.maker].user
  IN [maker |-> t.maker, taker |-> id, seq |-> sequence + 1,
      seller |-> IF o.side = "BUY" THEN maker ELSE o.user,
      buyer  |-> IF o.side = "BUY" THEN o.user ELSE maker,
      qty |-> t.qty, value |-> t.qty * t.price]

Leg(kind, t) == Op(kind, t.maker, t.taker, t.seq)

(* settleTradeObserved: base to the buyer, then quote to the seller.        *)
BothLegs(l, t) ==
  SettleReserved(
    SettleReserved(l, Leg("base", t), t.seller, t.buyer, "base", t.qty),
    Leg("quote", t), t.buyer, t.seller, "quote", t.value)

(* What appendTrade and settleTrade put into the event log.                 *)
TradeExecuted(t)     == [type |-> "TradeExecuted", trade |-> t]
SettlementApplied(t) == [type |-> "SettlementApplied", trade |-> t]

(* One TRADE_EXECUTED event: the trade is in the log before it is settled;  *)
(* SettlementApplied follows only when both legs have moved.  Once the      *)
(* command has thrown the remaining events are not applied.                 *)
Settle(s, t) ==
  LET l == BothLegs(s.ledger, t)
  IN IF ~s.ledger.ok THEN s
     ELSE [ledger |-> l,
           log |-> s.log \o <<TradeExecuted(t)>>
                     \o IF l.ok THEN <<SettlementApplied(t)>> ELSE << >>,
           halved |-> IF ~l.ok /\ Leg("base", t) \in l.operations
                      THEN s.halved \cup {t} ELSE s.halved]

Applied(l, trades) ==
  FoldLeft(Settle, [ledger |-> l, log |-> log, halved |-> halved], trades)

(* The exception ends the command, not the ledger.                          *)
Caught(l) == [l EXCEPT !.ok = TRUE]
---------------------------------------------------------------------------
Init ==
  /\ ledger = [bal |-> [a \in Accounts |-> [s \in Assets |->
                          [Empty EXCEPT !.available = Funds]]],
               operations |-> {}, postings |-> {}, ok |-> TRUE]
  /\ log = << >> /\ sequence = 0 /\ active = << >> /\ states = << >>
  /\ results = << >> /\ audit = << >> /\ issued = << >>
  /\ reservations = {} /\ excused = {} /\ halved = {}

Remembered(c) == \E i \in 1..Len(results) : results[i].command = c

(* A command id stands for one request; a command that was remembered is    *)
(* answered from `results' and changes nothing, one that threw may be sent  *)
(* again.                                                                   *)
Sent(c, request) ==
  /\ sequence + Len(audit) < MaxCommands
  /\ ~Remembered(c)
  /\ c \in DOMAIN issued => issued[c] = request
  /\ issued' = With(issued, c, request)

Remember(c, id, status) ==
  Append(results, [command |-> c, order |-> id, status |-> status])

(* placeOrder, rejected by the engine: the full reserve is released.  The   *)
(* trades before a SELF_TRADE have changed the makers and are not settled.  *)
(* An exception inside the engine releases nothing.                         *)
PlaceRejected(c, id, o) ==
  LET outcome  == Placed(active, id, o, sequence + 1)
      held     == ReserveBeforePlace(ledger, id, o)
      released == IF outcome.code = "THROWN" THEN held
                  ELSE ReleaseOf(held, id, o, "matching-rejected")
  IN /\ Sent(c, PlaceOf(id, o))
     /\ held.ok
     /\ ~Accepts(outcome.code)
     /\ sequence' = sequence + 1 /\ active' = outcome.book
     /\ reservations' = reservations \cup {id}
     /\ ledger' = Caught(released)
     /\ excused' = IF id \in reservations THEN excused \cup {o.user} ELSE excused
     /\ UNCHANGED <<log, states, results, audit, halved>>

(* placeOrder, accepted: a settlement that throws ends the command without  *)
(* a remembered result; the order stays on the book.                        *)
PlaceAccepted(c, id, o) ==
  LET outcome == Placed(active, id, o, sequence + 1)
      held    == ReserveBeforePlace(ledger, id, o)
      trades  == [i \in 1..Len(outcome.trades) |-> Trade(id, o, outcome.trades[i])]
      done    == Applied(held, trades)
  IN /\ Sent(c, PlaceOf(id, o))
     /\ held.ok
     /\ Accepts(outcome.code)
     /\ sequence' = sequence + 1 /\ active' = outcome.book
     /\ reservations' = reservations \cup {id}
     /\ states' = With(states, id, o)
     /\ ledger' = Caught(done.ledger)
     /\ log' = done.log /\ halved' = done.halved
     /\ results' = IF done.ledger.ok THEN Remember(c, id, outcome.code) ELSE results
     /\ excused' = IF id \in reservations THEN excused \cup {o.user} ELSE excused
     /\ UNCHANGED audit

Remaining(order) ==
  IF order.side = "BUY" THEN order.left * LimitOf(order) ELSE order.left

(* cancelOrder: the order leaves the book, then its full amount is released.*)
Cancel(c, id) ==
  LET released == IF id \in DOMAIN states
                  THEN ReleaseOf(ledger, id, states[id], "cancelled")
                  ELSE ledger
  IN /\ Sent(c, CancelOf(id))
     /\ id \in DOMAIN active
     /\ sequence' = sequence + 1 /\ active' = Cancelled(active, id).book
     /\ ledger' = Caught(released)
     /\ results' = IF released.ok THEN Remember(c, id, "CANCELLED") ELSE results
     /\ excused' = IF /\ id \in DOMAIN states
                      /\ FullAmount(states[id]) # Remaining(active[id])
                   THEN excused \cup {states[id].user} ELSE excused
     /\ UNCHANGED <<log, reservations, states, audit, halved>>

(* cancelOrder of an order that is not active.                              *)
CancelRejected(c, id) ==
  /\ Sent(c, CancelOf(id))
  /\ id \notin DOMAIN active
  /\ sequence' = sequence + 1
  /\ UNCHANGED <<ledger, log, active, reservations, states, results, audit,
                 excused, halved>>

Changed(l, c, k) ==
  LET op == Op("admin", c, c, 0)
  IN CASE k.action = "CREDIT"  -> Credit(l, op, k.account, k.asset, k.amount)
       [] k.action = "DEBIT"   -> Debit(l, op, k.account, k.asset, k.amount)
       [] k.action = "RESERVE" -> Reserve(l, op, k.account, k.asset, k.amount)
       [] k.action = "RELEASE" -> Release(l, op, k.account, k.asset, k.amount)

(* changeBalance: the operation id is the command id, so a command id used  *)
(* again changes nothing, whatever it asks for; it is audited all the same. *)
(* A change the ledger refuses leaves nothing.                              *)
ChangeBalance(c, k) ==
  /\ sequence + Len(audit) < MaxCommands
  /\ Changed(ledger, c, k).ok
  /\ ledger' = Changed(ledger, c, k)
  /\ audit' = Append(audit, [command |-> c, change |-> k])
  /\ excused' = IF k.action = "RELEASE" THEN excused \cup {k.account} ELSE excused
  /\ UNCHANGED <<log, sequence, active, reservations, states, results, issued,
                 halved>>

Next ==
  \/ \E c \in Commands, id \in OrderIds, o \in Orders :
       PlaceRejected(c, id, o) \/ PlaceAccepted(c, id, o)
  \/ \E c \in Commands, id \in OrderIds : Cancel(c, id) \/ CancelRejected(c, id)
  \/ \E c \in AdminCommands, k \in Changes : ChangeBalance(c, k)

Spec == Init /\ [][Next]_vars
---------------------------------------------------------------------------
Owned(a, s) == ledger.bal[a][s].available + ledger.bal[a][s].reserved

(* The first audit record of each balance command.                          *)
FirstAudits == {i \in 1..Len(audit) :
                  \A j \in 1..(i - 1) : audit[j].command # audit[i].command}

Granted(a, s, action) ==
  MapThenSumSet(LAMBDA i : audit[i].change.amount,
                {i \in FirstAudits : /\ audit[i].change.action = action
                                     /\ audit[i].change.account = a
                                     /\ audit[i].change.asset = s})

TradesOf(a, s, party) ==
  {i \in 1..Len(log) : /\ log[i].type = "TradeExecuted"
                       /\ log[i].trade[party] = a
                       /\ Leg(s, log[i].trade) \in ledger.operations}

Moved(a, s, party) ==
  MapThenSumSet(LAMBDA i : IF s = "base" THEN log[i].trade.qty
                           ELSE log[i].trade.value, TradesOf(a, s, party))

(* What an account owns is what it started with, what the audit log says    *)
(* administrators gave and took, and the legs of logged trades: exceptions  *)
(* in the middle of a settlement, retries, reused command and order ids     *)
(* create and destroy nothing, although nothing rolls back.                 *)
OwnedExplained ==
  \A a \in Accounts :
    /\ Owned(a, "base") = Funds + Granted(a, "base", "CREDIT")
                            - Granted(a, "base", "DEBIT")
                            + Moved(a, "base", "buyer") - Moved(a, "base", "seller")
    /\ Owned(a, "quote") = Funds + Granted(a, "quote", "CREDIT")
                             - Granted(a, "quote", "DEBIT")
                             + Moved(a, "quote", "seller") - Moved(a, "quote", "buyer")

Claims(a, s) ==
  {id \in DOMAIN active : /\ id \in DOMAIN states
                          /\ active[id].user = a /\ Committed(states[id]) = s}

(* The pool of an account covers what its resting orders may still have to  *)
(* deliver, so no trade moves one leg and not the other: unless the account *)
(* has cancelled a partly filled order, whose full amount is released, has   *)
(* used an order id twice, which reserves nothing the second time, or has   *)
(* had funds released by an administrator.                                  *)
SettlesWholly ==
  /\ \A a \in Accounts \ excused, s \in Assets :
       ledger.bal[a][s].reserved
         >= MapThenSumSet(LAMBDA id : Remaining(active[id]), Claims(a, s))
  /\ \A t \in halved : t.buyer \in excused

(* The result getOrder returns: the first one kept for the order.           *)
Shown(id) ==
  LET kept == {i \in 1..Len(results) : results[i].order = id}
  IN results[Min(kept)].status

(* getOrder answers with the last public result of an order                 *)
(* (trading-runtime.processor.ts, getOrder).                                *)
LastResultShown ==
  \A i \in 1..Len(results) :
    (\A j \in (i + 1)..Len(results) : results[j].order # results[i].order)
      => Shown(results[i].order) = results[i].status

(* A resting order has funds under it.                                      *)
NoneUnfunded ==
  \A a \in Accounts, s \in Assets :
    ledger.bal[a][s].reserved
      >= MapThenSumSet(LAMBDA id : Remaining(active[id]), Claims(a, s))

(* No command stopped half way through its effects, as `halved` records.   *)
NothingHalved == halved = {}
=============================================================================
