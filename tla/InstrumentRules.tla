-------------------------- MODULE InstrumentRules --------------------------
(***************************************************************************)
(* The rules an instrument is traded by, and the exact decimals orders and  *)
(* funds are counted in: versions of rules with growing effectiveAt, the    *)
(* check of a new order against the version in force, the reservation of    *)
(* its funds, their release when it is cancelled, and the fills at the      *)
(* reference price with their rounded fee.                                  *)
(*                                                                         *)
(* A Decimal is a coefficient and a scale, as in the code, and a decimal    *)
(* string is what Decimal.from reads from it.  The book is MatchingEngine:  *)
(* here an admitted order rests until it is cancelled.                      *)
(* Mutated forms, named for the bug they introduce, stand before the        *)
(* definition they mutate; no other definition uses them.                   *)
(***************************************************************************)
EXTENDS Integers, Sequences, FiniteSetsExt

CONSTANTS
  Refs,         \* ids of orders
  Sizes,        \* quantities as written by clients
  Quotes,       \* limit prices and reference prices, as written
  Unpriced,     \* the price of a MARKET order
  RuleBook,     \* contents of versions administrators write
  FeeRate,      \* REALTIME_EXECUTION_FEE_RATE
  FeeScale,     \* digits a fee is rounded to
  Wallet,       \* what the user and the house own of each asset
  MaxVersions, MaxClock, MaxFills, \* bounds
  Finest        \* digits in which every amount is a whole number

ASSUME RulesAssumption ==
  /\ {FeeScale, MaxVersions, MaxClock, MaxFills, Finest} \subseteq Nat
  /\ Unpriced \notin Quotes

VARIABLES
  listing,   \* the status of the instrument, "NONE" before it is registered
  versions,  \* its rules, in the order they were added
  clock,
  resting,   \* the admitted orders by id, with the time of the admission
  purse,     \* the user's Balance of each asset
  house,     \* available balances of the liquidity and of the fee account
  fills,     \* number of fills at the reference price
  charged    \* history: what the last fill was charged

rulesVars == <<listing, versions, clock, resting, purse, house, fills, charged>>

---------------------------------------------------------------------------
(* Decimal.                                                                 *)

Pow10[n \in Nat] == IF n = 0 THEN 1 ELSE 10 * Pow10[n - 1]

(* normalize drops the zeros at the end of the fraction.                    *)
Normalize(d) ==
  LET zeros == Max({n \in 0..d.s : d.c % Pow10[n] = 0})
  IN [c |-> d.c \div Pow10[zeros], s |-> d.s - zeros]

(* from: the written digits may end in zeros.                               *)
From(written) == Normalize(written)
Zero == [c |-> 0, s |-> 0]

CoefficientOnly(d, s) == d.c

(* align: the coefficient at a scale that is not smaller.                   *)
At(d, s) == d.c * Pow10[s - d.s]

Common(l, r) == Max({l.s, r.s})

Add(l, r) == LET s == Common(l, r) IN Normalize([c |-> At(l, s) + At(r, s), s |-> s])
Negate(d) == [d EXCEPT !.c = -@]
Subtract(l, r) == Add(l, Negate(r))
Multiply(l, r) == Normalize([c |-> l.c * r.c, s |-> l.s + r.s])
Less(l, r) == LET s == Common(l, r) IN At(l, s) < At(r, s)
Positive(d) == d.c > 0

MultipleOf(d, step) ==
  LET s == Common(d, step) IN d.c >= 0 /\ step.c > 0 /\ At(d, s) % At(step, s) = 0

(* round: half up, away from zero.                                          *)
Round(d, n) ==
  IF n >= d.s THEN d
  ELSE LET factor == Pow10[d.s - n]
           size   == IF d.c < 0 THEN -d.c ELSE d.c
           up     == IF 2 * (size % factor) >= factor THEN 1 ELSE 0
           q      == size \div factor + up
       IN Normalize([c |-> IF d.c < 0 THEN -q ELSE q, s |-> n])
---------------------------------------------------------------------------
(* Rules.                                                                   *)

(* assertRules of a version.                                                *)
Sound(v) ==
  /\ \A f \in {"tick", "lot", "min", "max", "low", "high", "maxOrder", "maxNotional"} :
       Positive(v[f])
  /\ ~Less(v.high, v.low) /\ ~Less(v.max, v.min) /\ ~Less(v.maxOrder, v.max)
  /\ v.maxOpen >= 1

Known == Len(versions)

(* The version in force: the last that has become effective.                *)
InForce(t) == Max({0} \cup {n \in 1..Known : versions[n].from <= t})

(* assertRules of an order.                                                 *)
Conforms(v, quantity, price) ==
  /\ Positive(quantity) /\ MultipleOf(quantity, v.lot)
  /\ ~Less(quantity, v.min) /\ ~Less(v.max, quantity)
  /\ price # Unpriced =>
       MultipleOf(price, v.tick) /\ ~Less(price, v.low) /\ ~Less(v.high, price)

(* validateOrder, which only tests call, has the caps of the limits besides.*)
Validated(v, quantity, price, openOrders) ==
  /\ Conforms(v, quantity, price)
  /\ ~Less(v.maxOrder, quantity)
  /\ openOrders < v.maxOpen
  /\ price # Unpriced => ~Less(v.maxNotional, Multiply(quantity, price))

(* reserveBeforePlace and release, without a fee as the processor asks.     *)
Price(o) == IF o.price = Unpriced THEN Zero ELSE o.price
Asset(o) == IF o.side = "BUY" THEN "quote" ELSE "base"
Amount(o) == IF o.side = "BUY" THEN Multiply(o.quantity, Price(o)) ELSE o.quantity
---------------------------------------------------------------------------
RulesInit ==
  /\ listing = "NONE" /\ versions = << >> /\ clock = 0
  /\ resting = [id \in {} |-> 0]
  /\ purse = [a \in {"base", "quote"} |-> [available |-> From(Wallet[a]), reserved |-> Zero]]
  /\ house = [base |-> From(Wallet.base), quote |-> From(Wallet.quote), fees |-> Zero]
  /\ fills = 0
  /\ charged = [quantity |-> Zero, price |-> Zero, fee |-> Zero]

FundVars == <<resting, purse, house, fills, charged>>

(* The seeder activates what it registers, under rules effective long ago;  *)
(* an administrator's instrument starts paused.                             *)
register(v, t, seeded) ==
  /\ listing = "NONE" /\ Sound(v)
  /\ listing' = IF seeded THEN "ACTIVE" ELSE "PAUSED"
  /\ versions' = <<[content |-> v, from |-> t]>>
  /\ UNCHANGED <<clock, FundVars>>

addRules(v, t) ==
  /\ listing # "NONE" /\ Known < MaxVersions
  /\ Sound(v) /\ t > versions[Known].from
  /\ versions' = Append(versions, [content |-> v, from |-> t])
  /\ UNCHANGED <<listing, clock, FundVars>>

setStatus(s) ==
  /\ listing \notin {"NONE", s}
  /\ listing' = s
  /\ UNCHANGED <<versions, clock, FundVars>>

Passes ==
  /\ clock < MaxClock
  /\ clock' = clock + 1
  /\ UNCHANGED <<listing, versions, FundVars>>

placeUnderRules(id, side, quantity, price) ==
  LET o == [side |-> side, quantity |-> quantity, price |-> price,
            at |-> clock, known |-> Known]
      b == purse[Asset(o)]
  IN /\ id \notin DOMAIN resting
     /\ listing = "ACTIVE" /\ InForce(clock) > 0
     /\ Conforms(versions[InForce(clock)].content, quantity, price)
     /\ Positive(Amount(o)) /\ ~Less(b.available, Amount(o))
     /\ purse' = [purse EXCEPT ![Asset(o)] =
                    [available |-> Subtract(b.available, Amount(o)),
                     reserved |-> Add(b.reserved, Amount(o))]]
     /\ resting' = [i \in DOMAIN resting \cup {id} |-> IF i = id THEN o ELSE resting[i]]
     /\ UNCHANGED <<listing, versions, clock, house, fills, charged>>

release(id) ==
  /\ id \in DOMAIN resting
  /\ LET o == resting[id]
         b == purse[Asset(o)]
     IN purse' = [purse EXCEPT ![Asset(o)] =
                    [available |-> Add(b.available, Amount(o)),
                     reserved |-> Subtract(b.reserved, Amount(o))]]
  /\ resting' = [i \in DOMAIN resting \ {id} |-> resting[i]]
  /\ UNCHANGED <<listing, versions, clock, house, fills, charged>>

FeeOf(notional) == Round(Multiply(notional, FeeRate), FeeScale)

Pay(asset, d) == [purse[asset] EXCEPT !.available = Add(@, d)]

(* execute at the reference price: the checks of ensureLiquidity, then      *)
(* settle.                                                                  *)
execute(side, quantity, price) ==
  LET notional == Multiply(quantity, price)
      fee      == FeeOf(notional)
      paid     == Add(notional, fee)
      got      == Subtract(notional, fee)
  IN /\ fills < MaxFills
     /\ Positive(quantity)
     /\ IF side = "BUY"
        THEN /\ ~Less(purse["quote"].available, paid) /\ ~Less(house.base, quantity)
             /\ purse' = [base |-> Pay("base", quantity), quote |-> Pay("quote", Negate(paid))]
             /\ house' = [base |-> Subtract(house.base, quantity),
                          quote |-> Subtract(Add(house.quote, paid), fee),
                          fees |-> Add(house.fees, fee)]
        ELSE /\ ~Less(purse["base"].available, quantity) /\ ~Less(house.quote, notional)
             /\ Positive(got)
             /\ purse' = [base |-> Pay("base", Negate(quantity)), quote |-> Pay("quote", got)]
             /\ house' = [base |-> Add(house.base, quantity),
                          quote |-> Subtract(Subtract(house.quote, got), fee),
                          fees |-> Add(house.fees, fee)]
     /\ fills' = fills + 1
     /\ charged' = [quantity |-> quantity, price |-> price, fee |-> fee]
     /\ UNCHANGED <<listing, versions, clock, resting>>

RulesNext ==
  \/ Passes
  \/ \E v \in RuleBook :
       \/ register(v, 0, TRUE)
       \/ \E t \in 0..MaxClock : addRules(v, t) \/ register(v, t, FALSE)
  \/ \E s \in {"ACTIVE", "PAUSED"} : setStatus(s)
  \/ \E side \in {"BUY", "SELL"}, q \in Sizes :
       \/ \E p \in Quotes : execute(side, From(q), From(p))
       \/ \E id \in Refs :
            \/ placeUnderRules(id, side, From(q), Unpriced)
            \/ \E p \in Quotes : placeUnderRules(id, side, From(q), From(p))
  \/ \E id \in Refs : release(id)
---------------------------------------------------------------------------
(* Whole numbers of 10^-Finest, by which the decimals are judged.           *)
Whole(d) == d.c * Pow10[Finest - d.s]
Product(l, r) == l.c * r.c * Pow10[Finest - l.s - r.s]

Owed(asset) ==
  MapThenSumSet(LAMBDA id :
    LET o == resting[id] IN
    CASE Asset(o) # asset -> 0
      [] asset = "base" -> Whole(o.quantity)
      [] OTHER -> Product(o.quantity, o.price), DOMAIN resting)

Canonical(d) == d.s = 0 \/ d.c % 10 # 0

(* The version that had become effective last among those known then.       *)
Judged(o) ==
  LET early == {n \in 1..o.known : versions[n].from <= o.at}
  IN versions[CHOOSE n \in early : \A m \in early : versions[m].from <= versions[n].from].content

(* However amounts of different scales are added, taken away again and      *)
(* rounded: what is reserved is to the last digit what the resting orders   *)
(* need, nothing is gained or lost between user, house and fees, no amount  *)
(* has two forms, a fee is the nearest to the exact one and a tie goes up,  *)
(* and every resting order obeys, in whole numbers, the version in force at *)
(* its admission, whichever were added before and since.                    *)
ExactMoney ==
  /\ \A a \in {"base", "quote"} :
       /\ Whole(purse[a].reserved) = Owed(a)
       /\ Whole(purse[a].available) + Whole(purse[a].reserved) + Whole(house[a])
            + (IF a = "quote" THEN Whole(house.fees) ELSE 0) = 2 * Whole(Wallet[a])
       /\ \A d \in {purse[a].available, purse[a].reserved, house[a], house.fees} :
            Canonical(d) /\ d.c >= 0
  /\ LET exact == Product(Multiply(charged.quantity, charged.price), FeeRate)
         off   == 2 * (Whole(charged.fee) - exact)
         unit  == Pow10[Finest - FeeScale]
     IN -unit < off /\ off <= unit
  /\ \A id \in DOMAIN resting :
       LET o == resting[id]
           v == Judged(o)
       IN /\ Whole(o.quantity) % Whole(v.lot) = 0
          /\ Whole(o.quantity) \in Whole(v.min)..Whole(v.max)
          /\ o.price # Unpriced =>
               /\ Whole(o.price) % Whole(v.tick) = 0
               /\ Whole(o.price) \in Whole(v.low)..Whole(v.high)

(* An order is within the caps of its version (docs/instrument-rules.md     *)
(* lists limits.maxOpenOrders and limits.maxNotional as caps).              *)
LimitsKept ==
  \A id \in DOMAIN resting :
    Validated(Judged(resting[id]), resting[id].quantity, resting[id].price,
              Cardinality(DOMAIN resting) - 1)

(* The version an order was judged by stays the one in force at its time    *)
(* (docs/instrument-rules.md: published versions do not change).            *)
JudgmentStands ==
  \A id \in DOMAIN resting :
    versions[InForce(resting[id].at)].content = Judged(resting[id])
=============================================================================
