--------------------------- MODULE MatchingEngine ---------------------------
(***************************************************************************)
(* The price-time priority matching engine of one instrument: a sequence    *)
(* counter and the active orders, changed by PLACE and CANCEL commands one  *)
(* at a time.  The matching itself is in OrderBook.                         *)
(***************************************************************************)
EXTENDS OrderBook

CONSTANTS OrderIds, Users, Prices, Quantities,
          MaxCommands   \* bound on the number of commands

ASSUME EngineConstants ==
  /\ Prices \subseteq Nat \ {0}
  /\ Quantities \subseteq Nat \ {0}
  /\ NoPrice \notin Nat
  /\ MaxCommands \in Nat

VARIABLES
  sequence,   \* sequence of the last command applied
  active,     \* activeOrders
  last        \* the last command and what apply returned for it

vars == <<sequence, active, last>>

TimesInForce == {"GTC", "IOC", "FOK"}

(* The commands the gateway admits: a LIMIT order has a price, a MARKET     *)
(* order has none, and the quantity is positive.                            *)
Orders == [user : Users, side : Sides, price : Prices \cup {NoPrice},
           qty : Quantities, tif : TimesInForce]

NoOrder == [user |-> "", side |-> "", price |-> NoPrice, qty |-> 0, tif |-> ""]

Result(id, o, outcome) ==
  [id |-> id, order |-> o, code |-> outcome.code, trades |-> outcome.trades,
   left |-> outcome.left]

Init ==
  /\ sequence = 0
  /\ active = << >>
  /\ last = Result("", NoOrder, Outcome("", << >>, 0, << >>))

(* applyObserved: every command takes a sequence, rejected ones too.        *)
Apply(id, o, outcome) ==
  /\ sequence < MaxCommands
  /\ sequence' = sequence + 1
  /\ active' = outcome.book
  /\ last' = Result(id, o, outcome)

Place(id, o) == Apply(id, o, Placed(active, id, o, sequence + 1))

Cancel(id) == Apply(id, NoOrder, Cancelled(active, id))

Next == \/ \E id \in OrderIds, o \in Orders : Place(id, o)
        \/ \E id \in OrderIds : Cancel(id)

Spec == Init /\ [][Next]_vars
---------------------------------------------------------------------------
ActiveOrder == [user : Users, side : Sides, price : Prices \cup {NoPrice},
                left : Nat \ {0}, seq : Nat \ {0}]

(* Active orders have a positive remaining quantity, never a filled one.    *)
TypeOK ==
  /\ sequence \in 0..MaxCommands
  /\ DOMAIN active \subseteq OrderIds
  /\ \A i \in DOMAIN active : active[i] \in ActiveOrder

(* The book is never crossed: whatever sequence of partial fills, rejected  *)
(* self-trades and cancels led here, no resting BUY meets a resting SELL.   *)
NotCrossed ==
  \A b, s \in DOMAIN active :
    /\ active[b].side = "BUY" /\ active[b].price # NoPrice
    /\ active[s].side = "SELL" /\ active[s].price # NoPrice
    => active[b].price < active[s].price

LeftIn(book, i) == IF i \in DOMAIN book THEN book[i].left ELSE 0

Placing == last'.order # NoOrder /\ sequence' # sequence

(* A maker trades only after every maker ahead of it, by price and then by  *)
(* time of arrival, has been filled: in each command, rejected ones too.    *)
PriceTimePriority ==
  [][Placing =>
       \A i, j \in DOMAIN active :
         (/\ active[i].side = active[j].side
          /\ active[i].price # NoPrice /\ active[j].price # NoPrice
          /\ \/ active[j].side = "SELL" /\ active[i].price < active[j].price
             \/ active[j].side = "BUY" /\ active[i].price > active[j].price
             \/ /\ active[i].price = active[j].price
                /\ active[i].seq < active[j].seq
          /\ LeftIn(active', j) < active[j].left)
         => i \notin DOMAIN active']_vars

(* No quantity appears or vanishes: each maker loses exactly what the       *)
(* reported trades took from it, the taker's quantity is split between the  *)
(* trades and the remainder, and a resting remainder rests in full.         *)
QuantityConserved ==
  [][Placing =>
       /\ \A i \in DOMAIN active :
            active[i].left - LeftIn(active', i) = TakenFrom(last'.trades, i)
       /\ Volume(last'.trades) + last'.left = last'.order.qty
       /\ \A i \in DOMAIN active' \ DOMAIN active :
            i = last'.id /\ active'[i].left = last'.left]_vars

(* FOK is all or nothing: filled completely, or neither a trade nor a       *)
(* change of the book, own orders in the way included.                      *)
FokAllOrNothing ==
  [][Placing /\ last'.order.tif = "FOK" =>
       IF last'.left = 0 THEN Volume(last'.trades) = last'.order.qty
       ELSE last'.trades = << >> /\ active' = active]_vars

(* No trade joins two orders of one user, and none is worse for the taker   *)
(* than its limit.                                                          *)
TradesAdmissible ==
  [][Placing =>
       \A t \in ToSet(last'.trades) :
         /\ active[t.maker].user # last'.order.user
         /\ \/ last'.order.price = NoPrice
            \/ last'.order.side = "BUY" /\ t.price <= last'.order.price
            \/ last'.order.side = "SELL" /\ t.price >= last'.order.price]_vars

(* A MARKET order never rests (docs/matching-engine.md, Place MARKET).      *)
MarketNeverRests == \A i \in DOMAIN active : active[i].price # NoPrice
---------------------------------------------------------------------------
(* What NotCrossed and the priority of makers rest on: active orders have   *)
(* sequences of their own, none later than the engine's.                    *)
EngineInv ==
  /\ TypeOK
  /\ IsFiniteSet(DOMAIN active)
  /\ OwnSequences(active, sequence)
  /\ NotCrossed
=============================================================================
