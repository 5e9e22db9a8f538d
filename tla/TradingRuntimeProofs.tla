------------------------ MODULE TradingRuntimeProofs ------------------------
(***************************************************************************)
(* Proofs about the settlement of one instrument's commands inside the      *)
(* durable command path (TradingRuntime), for every number of accounts,     *)
(* orders, commands, prices and quantities, whatever fails, is sent again   *)
(* or reuses an order id.                                                   *)
(***************************************************************************)
EXTENDS TradingRuntime, OrderBookProofs, FiniteSums, SequenceTheorems

---------------------------------------------------------------------------
(* What reservation rows hold.                                              *)

Part(r, a, asset) == IF r.account = a /\ r.asset = asset THEN r.left ELSE 0

Parts(rows, a, asset) == [i \in 1..Len(rows) |-> Part(rows[i], a, asset)]

LEMMA PartIsNatural ==
  ASSUME NEW r \in Row, NEW a, NEW asset
  PROVE  Part(r, a, asset) \in Nat
  BY DEF Row, Part

LEMMA HeldIsSum ==
  ASSUME NEW rows \in Seq(Row), NEW a, NEW asset
  PROVE  /\ HeldIn(rows, a, asset) = SumFunctionOnSet(Parts(rows, a, asset), 1..Len(rows))
         /\ HeldIn(rows, a, asset) \in Nat
         /\ IsFiniteSet(1..Len(rows))
         /\ \A i \in 1..Len(rows) : Parts(rows, a, asset)[i] \in Nat
<1>1. DOMAIN rows = 1..Len(rows) /\ Len(rows) \in Nat
      /\ \A i \in 1..Len(rows) : rows[i] \in Row
  OBVIOUS
<1>2. IsFiniteSet(1..Len(rows))
  BY <1>1, FS_Interval
<1>3. HeldIn(rows, a, asset) = SumFunctionOnSet(Parts(rows, a, asset), 1..Len(rows))
  BY <1>1 DEF HeldIn, Parts, Part
<1>4. \A i \in 1..Len(rows) : Parts(rows, a, asset)[i] \in Nat
  BY <1>1, PartIsNatural DEF Parts
<1> QED
  BY <1>2, <1>3, <1>4, SumNatural

(* A new row holds what it reserves.                                        *)
LEMMA HeldByNew ==
  ASSUME NEW rows \in Seq(Row), NEW r \in Row, NEW a, NEW asset
  PROVE  /\ Append(rows, r) \in Seq(Row)
         /\ HeldIn(Append(rows, r), a, asset) = HeldIn(rows, a, asset) + Part(r, a, asset)
<1> DEFINE later == Append(rows, r)
           f == Parts(rows, a, asset)
           h == Parts(later, a, asset)
           n == Len(rows)
<1>1. /\ later \in Seq(Row) /\ n \in Nat /\ Len(later) = n + 1
      /\ \A i \in 1..n : i \in 1..(n + 1) /\ later[i] = rows[i]
      /\ later[n + 1] = r /\ n + 1 \in 1..(n + 1)
      /\ 1..(n + 1) = (1..n) \cup {n + 1} /\ n + 1 \notin 1..n
  OBVIOUS
<1> HIDE DEF later
<1>2. /\ HeldIn(rows, a, asset) = SumFunctionOnSet(f, 1..n) /\ IsFiniteSet(1..n)
      /\ \A i \in 1..n : f[i] \in Nat
  BY HeldIsSum
<1>3. /\ HeldIn(later, a, asset) = SumFunctionOnSet(h, 1..(n + 1))
      /\ \A i \in 1..(n + 1) : h[i] \in Nat
  BY <1>1, HeldIsSum
<1>4. /\ h[n + 1] = Part(r, a, asset)
      /\ \A i \in 1..n : h[i] = f[i]
  BY <1>1 DEF Parts
<1> HIDE DEF f, h
<1>5. SumFunctionOnSet(h, 1..(n + 1)) = SumFunctionOnSet(f, 1..n) + h[n + 1]
  <2> DEFINE S == 1..n
             x == n + 1
             T == 1..(n + 1)
  <2>1. /\ IsFiniteSet(S) /\ x \notin S /\ T = S \cup {x} /\ h[x] \in Int
        /\ \A y \in S : f[y] \in Int /\ h[y] = f[y]
    BY <1>1, <1>2, <1>3, <1>4
  <2> HIDE DEF S, x, T
  <2>2. SumFunctionOnSet(h, T) = SumFunctionOnSet(f, S) + h[x]
    BY <2>1, SumGrows
  <2> QED
    BY <2>2 DEF S, x, T
<1> QED
  BY <1>1, <1>2, <1>3, <1>4, <1>5 DEF later

(* A row with less left.                                                    *)
LEMMA LessLeft ==
  ASSUME NEW r \in Row, NEW x
  PROVE  [r EXCEPT !.left = x] = [order |-> r.order, account |-> r.account,
                                  asset |-> r.asset, left |-> x]
  BY DEF Row

Share(r, a, asset, amount) ==
  IF r.account = a /\ r.asset = asset THEN amount ELSE 0

RowLess(rows, k, amount, later) == later = [rows EXCEPT ![k].left = @ - amount]

(* Taking an amount from one row takes it from what its account holds.      *)
LEMMA HeldByTaken ==
  ASSUME NEW rows \in Seq(Row), NEW k \in 1..Len(rows), NEW amount \in Nat,
         rows[k].left >= amount, NEW a, NEW asset,
         NEW later, RowLess(rows, k, amount, later)
  PROVE  /\ later \in Seq(Row)
         /\ HeldIn(later, a, asset)
              = HeldIn(rows, a, asset)
                  - Share(rows[k], a, asset, amount)
<1> DEFINE f == Parts(rows, a, asset)
           h == Parts(later, a, asset)
           n == Len(rows)
           r == rows[k]
           x == r.left - amount
           z == [r EXCEPT !.left = x]
<1>1. n \in Nat /\ DOMAIN rows = 1..n /\ \A i \in 1..n : rows[i] \in Row
  OBVIOUS
<1>2. later = [i \in 1..n |-> IF i = k THEN z ELSE rows[i]]
  BY <1>1 DEF RowLess
<1>3. r \in Row /\ r.left \in Nat /\ x \in Nat
  <2>1. r \in Row
    BY <1>1
  <2>2. r.left \in Nat
    BY <2>1 DEF Row
  <2> QED
    BY <2>1, <2>2
<1> HIDE DEF x, r
<1>4. z = [order |-> r.order, account |-> r.account, asset |-> r.asset, left |-> x]
  BY <1>3, LessLeft
<1>5. z \in Row
  BY <1>3, <1>4 DEF Row
<1>6. z.account = r.account /\ z.asset = r.asset /\ z.left = x
  BY <1>4
<1> HIDE DEF z
<1>7. later \in Seq(Row) /\ Len(later) = n
  <2>1. later \in [1..n -> Row]
    BY <1>1, <1>2, <1>5
  <2> QED
    BY <1>1, <2>1
<1>8. /\ HeldIn(rows, a, asset) = SumFunctionOnSet(f, 1..n) /\ IsFiniteSet(1..n)
      /\ HeldIn(later, a, asset) = SumFunctionOnSet(h, 1..n)
      /\ SumFunctionOnSet(f, 1..n) \in Nat
      /\ \A i \in 1..n : f[i] \in Nat /\ h[i] \in Nat
  BY <1>7, HeldIsSum
<1>9. /\ \A i \in (1..n) \ {k} : f[i] = h[i]
      /\ f[k] = Part(r, a, asset) /\ h[k] = Part(z, a, asset)
  BY <1>2, <1>7 DEF Parts, r
<1>10. h[k] - f[k] = 0 - (IF r.account = a /\ r.asset = asset THEN amount ELSE 0)
  BY <1>3, <1>6, <1>9 DEF Part, x
<1> HIDE DEF f, h, n
<1>11. SumFunctionOnSet(h, 1..n) = SumFunctionOnSet(f, 1..n) + (h[k] - f[k])
  <2> DEFINE S == 1..n
  <2>1. IsFiniteSet(S) /\ k \in S /\ (\A y \in S : f[y] \in Int /\ h[y] \in Int)
        /\ \A y \in S \ {k} : f[y] = h[y]
    BY <1>8, <1>9 DEF n
  <2> HIDE DEF S
  <2>2. SumFunctionOnSet(h, S) = SumFunctionOnSet(f, S) + (h[k] - f[k])
    BY <2>1, SumChanges
  <2> QED
    BY <2>2 DEF S
<1>12. HeldIn(later, a, asset) = HeldIn(rows, a, asset)
         - (IF r.account = a /\ r.asset = asset THEN amount ELSE 0)
  BY <1>8, <1>10, <1>11
<1> QED
  BY <1>7, <1>12 DEF r, Share

---------------------------------------------------------------------------
(* The statements of a transaction.                                         *)

(* A view with one part changed.                                            *)
LEMMA ViewChanged ==
  ASSUME NEW d \in View, NEW u
  PROVE  /\ [d EXCEPT !.ok = u] =
              [avail |-> d.avail, rows |-> d.rows, log |-> d.log,
               released |-> d.released, ok |-> u]
         /\ [d EXCEPT !.rows = u] =
              [avail |-> d.avail, rows |-> u, log |-> d.log,
               released |-> d.released, ok |-> d.ok]
         /\ [d EXCEPT !.avail = u] =
              [avail |-> u, rows |-> d.rows, log |-> d.log,
               released |-> d.released, ok |-> d.ok]
         /\ [d EXCEPT !.log = u] =
              [avail |-> d.avail, rows |-> d.rows, log |-> u,
               released |-> d.released, ok |-> d.ok]
         /\ [d EXCEPT !.released = u] =
              [avail |-> d.avail, rows |-> d.rows, log |-> d.log,
               released |-> u, ok |-> d.ok]
  BY DEF View

LEMMA ViewParts ==
  ASSUME NEW d \in View
  PROVE  /\ d.avail \in [Accounts -> [Assets -> Nat]]
         /\ d.rows \in Seq(Row) /\ d.log \in Seq(TradeExecuted)
         /\ d.released \in SUBSET OrderIds /\ d.ok \in BOOLEAN
  BY DEF View

LEMMA ViewBuilt ==
  ASSUME NEW avail \in [Accounts -> [Assets -> Nat]], NEW rows \in Seq(Row),
         NEW log \in Seq(TradeExecuted), NEW released \in SUBSET OrderIds,
         NEW ok \in BOOLEAN
  PROVE  [avail |-> avail, rows |-> rows, log |-> log, released |-> released,
          ok |-> ok] \in View
  BY DEF View

(* A failed statement changes nothing and the transaction has failed.       *)
LEMMA FailedView ==
  ASSUME NEW d \in View
  PROVE  Failed(d) \in View /\ ~Failed(d).ok
<1> DEFINE z == [avail |-> d.avail, rows |-> d.rows, log |-> d.log,
                 released |-> d.released, ok |-> FALSE]
<1>1. Failed(d) = z
  BY ViewChanged, Zenon DEF Failed
<1>2. z \in View /\ ~z.ok
  BY ViewParts DEF View
<1> QED
  BY <1>1, <1>2

(* The share of account b and asset s in an amount of asset of account a.   *)
Portion(b, s, a, asset, amount) == IF b = a /\ s = asset THEN amount ELSE 0

(* r is the view d after account `to' got an amount.                        *)
Adds(d, r, to, asset, amount) ==
  /\ r.ok = d.ok /\ r.rows = d.rows /\ r.log = d.log /\ r.released = d.released
  /\ \A b \in Accounts, s \in Assets :
       r.avail[b][s] = d.avail[b][s] + Portion(b, s, to, asset, amount)

(* r is the view d after an amount was taken from a reservation of a.       *)
Takes(d, r, a, asset, amount) ==
  /\ d.ok /\ r.avail = d.avail /\ r.log = d.log /\ r.released = d.released
  /\ \A b, s : HeldIn(r.rows, b, s) =
                 HeldIn(d.rows, b, s) - Portion(b, s, a, asset, amount)

(* What one account gets is added to its available funds.                   *)
LEMMA FundsAdded ==
  ASSUME NEW d \in View, NEW to \in Accounts, NEW asset \in Assets, NEW amount \in Nat,
         NEW r, r = [d EXCEPT !.avail[to][asset] = @ + amount]
  PROVE  r \in View /\ Adds(d, r, to, asset, amount)
<1> DEFINE v == d.avail
           w == [v EXCEPT ![to][asset] = @ + amount]
<1>1. v \in [Accounts -> [Assets -> Nat]]
  BY ViewParts
<1>2. r = [d EXCEPT !.avail = w]
  OBVIOUS
<1> HIDE DEF v
<1>3. /\ w \in [Accounts -> [Assets -> Nat]]
      /\ \A b \in Accounts, s \in Assets :
           w[b][s] = v[b][s] + Portion(b, s, to, asset, amount)
  BY <1>1 DEF Portion
<1> HIDE DEF w
<1>4. r = [avail |-> w, rows |-> d.rows, log |-> d.log,
           released |-> d.released, ok |-> d.ok]
  BY <1>2, ViewChanged
<1>5. r \in View
  <2>1. /\ d.rows \in Seq(Row) /\ d.log \in Seq(TradeExecuted)
        /\ d.released \in SUBSET OrderIds /\ d.ok \in BOOLEAN
    BY ViewParts
  <2>2. w \in [Accounts -> [Assets -> Nat]]
    BY <1>3
  <2>3. [avail |-> w, rows |-> d.rows, log |-> d.log,
         released |-> d.released, ok |-> d.ok] \in View
    BY <2>1, <2>2, ViewBuilt
  <2> QED
    BY <1>4, <2>3
<1> QED
  BY <1>3, <1>4, <1>5 DEF v, Adds

(* Taking an amount from a reservation row: it succeeds only in a           *)
(* transaction that has not failed, and takes it from what the account has  *)
(* reserved.                                                                *)
LEMMA RowTaken ==
  ASSUME NEW d \in View, NEW a, NEW asset, NEW amount \in Nat,
         NEW r, r = TakeRow(d, a, asset, amount)
  PROVE  /\ r \in View
         /\ r.ok => Takes(d, r, a, asset, amount)
<1> DEFINE rows == d.rows
           covers(i) == /\ d.rows[i].account = a /\ d.rows[i].asset = asset
                        /\ d.rows[i].left > 0 /\ d.rows[i].left >= amount
           first(i)  == covers(i) /\ \A j \in 1..(i - 1) : ~covers(j)
           k == CHOOSE i \in 1..Len(d.rows) : first(i)
           none == ~d.ok \/ amount = 0 \/ ~\E i \in 1..Len(d.rows) : covers(i)
<1>1. r = IF none THEN Failed(d) ELSE [d EXCEPT !.rows[k].left = @ - amount]
  BY DEF TakeRow
<1>2. CASE none
  <2>1. r = Failed(d)
    BY <1>1, <1>2
  <2> QED
    BY <2>1, FailedView
<1>3. CASE ~none
  <2>1. d.ok /\ rows \in Seq(Row) /\ \E i \in 1..Len(rows) : covers(i)
    BY <1>3, ViewParts
  <2>2. \E i \in 1..Len(rows) : first(i)
    <3> DEFINE T == {i \in 1..Len(rows) : covers(i)}
    <3>1. T \subseteq Nat /\ T # {} /\ Len(rows) \in Nat
      BY <2>1
    <3>2. PICK m \in T : \A j \in T : m <= j
      <4> HIDE DEF T
      <4> QED
        BY <3>1, LeastElement
    <3>3. \A j \in 1..(m - 1) : j \in 1..Len(rows) /\ ~(m <= j)
      BY <3>1, <3>2
    <3>4. \A j \in 1..(m - 1) : ~covers(j)
      BY <3>2, <3>3
    <3> QED
      BY <3>2, <3>4
  <2>3. k \in 1..Len(rows) /\ first(k)
    <3> HIDE DEF first
    <3> QED
      BY <2>2
  <2> DEFINE later == [rows EXCEPT ![k].left = @ - amount]
  <2>4. r = [d EXCEPT !.rows = later]
    BY <1>1, <1>3
  <2>5. rows[k].account = a /\ rows[k].asset = asset /\ rows[k].left >= amount
    BY <2>3
  <2> HIDE DEF k, none
  <2>6. /\ later \in Seq(Row)
        /\ \A b, s : HeldIn(later, b, s) = HeldIn(rows, b, s)
             - Share(rows[k], b, s, amount)
    <3> HIDE DEF rows
    <3>1. k \in 1..Len(rows) /\ rows[k].left >= amount
      BY <2>3, <2>5
    <3>2. PICK l : RowLess(rows, k, amount, l)
      BY DEF RowLess
    <3>3. l \in Seq(Row) /\ \A b, s : HeldIn(l, b, s) = HeldIn(rows, b, s)
            - Share(rows[k], b, s, amount)
      <4>1. rows \in Seq(Row) /\ amount \in Nat
        BY <2>1
      <4>2. \A b, s : /\ l \in Seq(Row)
                      /\ HeldIn(l, b, s) = HeldIn(rows, b, s)
                          - Share(rows[k], b, s, amount)
        BY ONLY <3>1, <3>2, <4>1, HeldByTaken
      <4> QED
        BY <4>2
    <3> QED
      BY <3>2, <3>3 DEF RowLess
  <2> HIDE DEF later
  <2>7. r = [avail |-> d.avail, rows |-> later, log |-> d.log,
             released |-> d.released, ok |-> d.ok]
    BY <2>4, ViewChanged
  <2>8. r \in View
    BY <2>6, <2>7, ViewParts DEF View
  <2>9. \A b, s : HeldIn(r.rows, b, s) = HeldIn(d.rows, b, s)
                     - Portion(b, s, a, asset, amount)
    BY <2>5, <2>6, <2>7 DEF Share, Portion
  <2> QED
    BY <2>1, <2>7, <2>8, <2>9 DEF Takes
<1> QED
  BY <1>2, <1>3

---------------------------------------------------------------------------
(* The settlement of a trade.                                               *)

Owned(d, b, s) == d.avail[b][s] + HeldIn(d.rows, b, s)

(* No account has less available, of any asset.                             *)
NoLess(d, r) ==
  \A b \in Accounts, s \in Assets : r.avail[b][s] >= d.avail[b][s]

LEMMA OwnedTyped ==
  ASSUME NEW d \in View
  PROVE  \A b \in Accounts, s \in Assets :
           d.avail[b][s] \in Nat /\ HeldIn(d.rows, b, s) \in Nat
  BY ViewParts, HeldIsSum

(* r is the view d after an amount went from what one account has reserved  *)
(* to what another has available.                                           *)
Moves(d, r, from, to, asset, amount) ==
  /\ d.ok /\ r.log = d.log /\ r.released = d.released
  /\ NoLess(d, r)
  /\ \A b \in Accounts, s \in Assets :
       Owned(r, b, s) = Owned(d, b, s) + Portion(b, s, to, asset, amount)
                                       - Portion(b, s, from, asset, amount)

(* r is the view d after trade t was settled.                               *)
Settles(d, r, t) ==
  /\ d.ok /\ r.log = Append(d.log, t) /\ r.released = d.released
  /\ NoLess(d, r)
  /\ \A b \in Accounts, s \in Assets :
       Owned(r, b, s) = Owned(d, b, s) + Gain(t, b, s)

(* A transfer from what one account has reserved to what another has        *)
(* available.                                                               *)
LEMMA Transferred ==
  ASSUME NEW d \in View, NEW from \in Accounts, NEW to \in Accounts,
         NEW asset \in Assets, NEW amount \in Nat,
         NEW r, r = Transfer(d, from, to, asset, amount)
  PROVE  r \in View /\ (r.ok => Moves(d, r, from, to, asset, amount))
<1> DEFINE taken == TakeRow(d, from, asset, amount)
<1>1. r = IF taken.ok THEN [taken EXCEPT !.avail[to][asset] = @ + amount] ELSE taken
  BY DEF Transfer
<1>2. taken \in View /\ (taken.ok => Takes(d, taken, from, asset, amount))
  BY RowTaken, Zenon
<1> HIDE DEF taken
<1>3. CASE ~taken.ok
  BY <1>1, <1>2, <1>3
<1>4. CASE taken.ok
  <2>1. r \in View /\ Adds(taken, r, to, asset, amount)
    <3>1. r = [taken EXCEPT !.avail[to][asset] = @ + amount]
      BY <1>1, <1>4
    <3> QED
      BY <1>2, <3>1, FundsAdded
  <2>2. Takes(d, taken, from, asset, amount)
    BY <1>2, <1>4
  <2>3. ASSUME NEW b \in Accounts, NEW s \in Assets
        PROVE  /\ r.avail[b][s] >= d.avail[b][s]
               /\ Owned(r, b, s) = Owned(d, b, s)
                                      + Portion(b, s, to, asset, amount)
                                      - Portion(b, s, from, asset, amount)
    <3>1. /\ d.avail[b][s] \in Nat /\ HeldIn(d.rows, b, s) \in Nat
          /\ r.avail[b][s] = d.avail[b][s] + Portion(b, s, to, asset, amount)
          /\ HeldIn(r.rows, b, s)
               = HeldIn(d.rows, b, s) - Portion(b, s, from, asset, amount)
      BY <2>1, <2>2, OwnedTyped DEF Adds, Takes
    <3>2. /\ Portion(b, s, to, asset, amount) \in Nat
          /\ Portion(b, s, from, asset, amount) \in Nat
      BY DEF Portion
    <3> QED
      BY <3>1, <3>2 DEF Owned
  <2> QED
    BY <2>1, <2>2, <2>3 DEF NoLess, Moves, Adds, Takes
<1> QED
  BY <1>3, <1>4

(* The gains of a log with one trade more.                                  *)
LEMMA GainIsInteger ==
  ASSUME NEW t \in TradeExecuted, NEW a, NEW asset
  PROVE  Gain(t, a, asset) \in Int
<1>1. t.qty \in Nat /\ t.value \in Nat
  BY DEF TradeExecuted
<1> QED
  BY <1>1 DEF Gain

LEMMA GainedByNew ==
  ASSUME NEW log \in Seq(TradeExecuted), NEW t \in TradeExecuted, NEW a, NEW asset
  PROVE  /\ Gained(log, a, asset) \in Int
         /\ Gained(Append(log, t), a, asset) = Gained(log, a, asset) + Gain(t, a, asset)
<1> DEFINE later == Append(log, t)
           n == Len(log)
           f == [i \in 1..n |-> Gain(log[i], a, asset)]
           h == [i \in 1..(n + 1) |-> Gain(later[i], a, asset)]
<1>1. /\ n \in Nat /\ DOMAIN log = 1..n /\ DOMAIN later = 1..(n + 1)
      /\ \A i \in 1..n : i \in 1..(n + 1) /\ later[i] = log[i] /\ log[i] \in TradeExecuted
      /\ later[n + 1] = t /\ n + 1 \in 1..(n + 1)
      /\ 1..(n + 1) = (1..n) \cup {n + 1} /\ n + 1 \notin 1..n
  OBVIOUS
<1> HIDE DEF later, n
<1>2. Gained(log, a, asset) = SumFunctionOnSet(f, 1..n)
  BY <1>1 DEF Gained
<1>3. Gained(later, a, asset) = SumFunctionOnSet(h, 1..(n + 1))
  BY <1>1 DEF Gained
<1>4. IsFiniteSet(1..n)
  BY <1>1, FS_Interval
<1>5. /\ \A i \in 1..n : f[i] \in Int /\ h[i] = f[i]
      /\ h[n + 1] = Gain(t, a, asset) /\ h[n + 1] \in Int
  BY <1>1, GainIsInteger
<1> DEFINE S == 1..n
           x == n + 1
           T == 1..(n + 1)
<1>6. /\ IsFiniteSet(S) /\ x \notin S /\ T = S \cup {x} /\ h[x] \in Int
      /\ \A y \in S : f[y] \in Int /\ h[y] = f[y]
  BY <1>1, <1>4, <1>5
<1> HIDE DEF S, x, T, f, h
<1>7. SumFunctionOnSet(h, T) = SumFunctionOnSet(f, S) + h[x] /\ SumFunctionOnSet(f, S) \in Int
  BY <1>6, SumGrows, SumTyped
<1> QED
  BY <1>2, <1>3, <1>5, <1>7 DEF S, x, T, later

(* A trade is settled by both transfers and joins the log, and its gains    *)
(* are what its accounts own more or less of.                               *)
LEMMA TradeSettled ==
  ASSUME NEW d \in View, NEW t \in TradeExecuted, NEW r, r = Settle(d, t)
  PROVE  r \in View /\ (r.ok => Settles(d, r, t))
<1> DEFINE base  == Transfer(d, t.seller, t.buyer, "base", t.qty)
           quote == Transfer(base, t.buyer, t.seller, "quote", t.value)
<1>1. r = IF quote.ok THEN [quote EXCEPT !.log = Append(@, t)] ELSE quote
  BY DEF Settle
<1>2. /\ t.seller \in Accounts /\ t.buyer \in Accounts
      /\ t.qty \in Nat /\ t.value \in Nat
      /\ "base" \in Assets /\ "quote" \in Assets /\ Assets = {"base", "quote"}
  BY DEF TradeExecuted, Assets
<1>3. base \in View /\ (base.ok => Moves(d, base, t.seller, t.buyer, "base", t.qty))
  BY <1>2, Transferred, Zenon
<1> HIDE DEF base
<1>4. quote \in View /\ (quote.ok => Moves(base, quote, t.buyer, t.seller, "quote", t.value))
  BY <1>2, <1>3, Transferred, Zenon
<1> HIDE DEF quote
<1>5. CASE ~quote.ok
  BY <1>1, <1>4, <1>5
<1>6. CASE quote.ok
  <2> DEFINE u == Append(quote.log, t)
  <2>1. r = [quote EXCEPT !.log = u]
    BY <1>1, <1>6
  <2>2. /\ Moves(base, quote, t.buyer, t.seller, "quote", t.value)
        /\ Moves(d, base, t.seller, t.buyer, "base", t.qty)
        /\ quote.log = d.log /\ quote.released = d.released /\ d.ok
    BY <1>3, <1>4, <1>6 DEF Moves
  <2>3. u \in Seq(TradeExecuted) /\ u = Append(d.log, t)
    <3>1. quote.log \in Seq(TradeExecuted)
      BY <1>4, ViewParts
    <3> QED
      BY <2>2, <3>1
  <2> HIDE DEF u
  <2>4. r = [avail |-> quote.avail, rows |-> quote.rows, log |-> u,
             released |-> quote.released, ok |-> quote.ok]
    BY <1>4, <2>1, ViewChanged
  <2>5. r \in View
    <3>1. [avail |-> quote.avail, rows |-> quote.rows, log |-> u,
           released |-> quote.released, ok |-> quote.ok] \in View
      BY <1>4, <2>3, ViewParts, ViewBuilt
    <3> QED
      BY <2>4, <3>1
  <2>6. ASSUME NEW b \in Accounts, NEW s \in Assets
        PROVE  /\ r.avail[b][s] >= d.avail[b][s]
               /\ Owned(r, b, s) = Owned(d, b, s) + Gain(t, b, s)
    <3>1. /\ d.avail[b][s] \in Nat /\ HeldIn(d.rows, b, s) \in Nat
          /\ base.avail[b][s] \in Nat /\ quote.avail[b][s] \in Nat
      BY <1>3, <1>4, OwnedTyped
    <3>2. /\ base.avail[b][s] >= d.avail[b][s]
          /\ quote.avail[b][s] >= base.avail[b][s]
          /\ Owned(base, b, s) = Owned(d, b, s) + Portion(b, s, t.buyer, "base", t.qty)
                                                - Portion(b, s, t.seller, "base", t.qty)
          /\ Owned(quote, b, s) = Owned(base, b, s)
                                    + Portion(b, s, t.seller, "quote", t.value)
                                    - Portion(b, s, t.buyer, "quote", t.value)
      BY <2>2 DEF Moves, NoLess
    <3>3. Owned(r, b, s) = Owned(quote, b, s) /\ r.avail[b][s] = quote.avail[b][s]
      BY <2>4 DEF Owned
    <3>4. Owned(d, b, s) \in Int
      BY <3>1 DEF Owned
    <3>5. s = "base" \/ s = "quote"
      BY <1>2
    <3>6. Gain(t, b, s) = Portion(b, s, t.buyer, "base", t.qty)
                            - Portion(b, s, t.seller, "base", t.qty)
                            + Portion(b, s, t.seller, "quote", t.value)
                            - Portion(b, s, t.buyer, "quote", t.value)
      BY <1>2, <3>5 DEF Gain, Portion
    <3>7. /\ Portion(b, s, t.buyer, "base", t.qty) \in Nat
          /\ Portion(b, s, t.seller, "base", t.qty) \in Nat
          /\ Portion(b, s, t.seller, "quote", t.value) \in Nat
          /\ Portion(b, s, t.buyer, "quote", t.value) \in Nat
      BY <1>2 DEF Portion
    <3> QED
      BY <3>1, <3>2, <3>3, <3>4, <3>6, <3>7
  <2> QED
    <3>1. r.log = Append(d.log, t) /\ r.released = d.released
      BY <2>2, <2>3, <2>4
    <3>2. Settles(d, r, t)
      BY <2>2, <2>6, <3>1 DEF NoLess, Settles
    <3> QED
      BY <2>5, <3>2
<1> QED
  BY <1>5, <1>6

---------------------------------------------------------------------------
(* The trades of one command, settled in turn: FoldLeft takes the last one  *)
(* first, so its recursion is over the sets of trades still to settle.      *)
SettledBy(g, p, q, s) ==
  IF s = {} THEN p ELSE Settle(g[s \ {Max(s)}], q[Max(s)])

Settlements(g, p, q, U) == g = [s \in U |-> SettledBy(g, p, q, s)]

LEMMA SettlementIsChosen ==
  ASSUME NEW p, NEW q
  PROVE  FoldLeft(Settle, p, q) = (CHOOSE g : Settlements(g, p, q, SUBSET DOMAIN q))[DOMAIN q]
BY Zenon DEF FoldLeft, MapThenFoldSet, Settlements, SettledBy

(* The recursion has a solution.                                            *)
LEMMA SettlementsExist ==
  ASSUME NEW p, NEW q, NEW n \in Nat, DOMAIN q = 1..n
  PROVE  \E g : Settlements(g, p, q, SUBSET (1..n))
<1> DEFINE S == 1..n
           Solved(m) == \E g : Settlements(g, p, q, Upto(S, m))
           T == {m \in Nat : Solved(m)}
<1>1. IsFiniteSet(S) /\ Cardinality(S) \in Nat
  BY FS_Interval, FS_CardinalityType
<1>2. \A s \in SUBSET S : /\ IsFiniteSet(s) /\ Cardinality(s) \in Nat
                          /\ Cardinality(s) <= Cardinality(S)
                          /\ s # {} => Max(s) \in s
  <2>1. \A s \in SUBSET S : s # {} => Max(s) \in s
    BY MaxIsLast
  <2> HIDE DEF S
  <2> QED
    BY <1>1, <2>1, FS_Subset, FS_CardinalityType
<1> HIDE DEF S
<1>3. Solved(0)
  <2> DEFINE g == [s \in Upto(S, 0) |-> p]
  <2>1. \A s \in Upto(S, 0) : s = {}
    BY <1>2, FS_EmptySet DEF Upto
  <2>2. \A s \in Upto(S, 0) : SettledBy(g, p, q, s) = p
    BY <2>1 DEF SettledBy
  <2>3. Settlements(g, p, q, Upto(S, 0))
    BY <2>2 DEF Settlements
  <2> QED
    BY <2>3
<1>4. ASSUME NEW m \in Nat, Solved(m)
      PROVE  Solved(m + 1)
  <2>1. PICK g : Settlements(g, p, q, Upto(S, m))
    BY <1>4
  <2> DEFINE h == [s \in Upto(S, m + 1) |-> SettledBy(g, p, q, s)]
  <2>2. \A s \in Upto(S, m + 1) : s # {} => s \ {Max(s)} \in Upto(S, m)
    <3> SUFFICES ASSUME NEW s \in Upto(S, m + 1), s # {}
                 PROVE  s \ {Max(s)} \in Upto(S, m)
      OBVIOUS
    <3>1. /\ Max(s) \in s /\ s \in SUBSET S /\ IsFiniteSet(s)
          /\ Cardinality(s) \in Nat /\ Cardinality(s) <= m + 1
      BY <1>2 DEF Upto
    <3>2. Cardinality(s \ {Max(s)}) = Cardinality(s) - 1
      BY <3>1, FS_RemoveElement
    <3> QED
      BY <3>1, <3>2 DEF Upto
  <2>3. \A s \in Upto(S, m) : s \in Upto(S, m + 1)
    BY <1>2 DEF Upto
  <2>4. \A s \in Upto(S, m) : h[s] = g[s]
    BY <2>1, <2>3 DEF Settlements
  <2>5. \A s \in Upto(S, m + 1) : SettledBy(h, p, q, s) = SettledBy(g, p, q, s)
    <3> HIDE DEF h
    <3> SUFFICES ASSUME NEW s \in Upto(S, m + 1)
                 PROVE  SettledBy(h, p, q, s) = SettledBy(g, p, q, s)
      OBVIOUS
    <3>1. CASE s = {}
      BY <3>1 DEF SettledBy
    <3>2. CASE s # {}
      <4>1. h[s \ {Max(s)}] = g[s \ {Max(s)}]
        BY <2>2, <2>4, <3>2
      <4> QED
        BY <3>2, <4>1 DEF SettledBy
    <3> QED
      BY <3>1, <3>2
  <2>6. Settlements(h, p, q, Upto(S, m + 1))
    BY <2>5 DEF Settlements
  <2> QED
    BY <2>6
<1> DEFINE c == Cardinality(S)
<1>5. Solved(c)
  <2> HIDE DEF Solved, c
  <2>1. 0 \in T
    BY <1>3
  <2>2. \A k \in 1..c : k - 1 \in T => k \in T
    <3> SUFFICES ASSUME NEW k \in 1..c, k - 1 \in T PROVE k \in T
      OBVIOUS
    <3>1. k - 1 \in Nat /\ k \in Nat /\ (k - 1) + 1 = k
      OBVIOUS
    <3> QED
      BY <1>4, <3>1
  <2>3. c \in Nat
    BY <1>1 DEF c
  <2> HIDE DEF T
  <2>4. c \in T
    <3>1. \A k \in 0..c : k \in T
      BY <2>1, <2>2, <2>3, StepsInduction
    <3> QED
      BY <2>3, <3>1
  <2> QED
    BY <2>4 DEF T
<1>6. Upto(S, c) = SUBSET S
  BY <1>2 DEF Upto
<1> QED
  BY <1>5, <1>6 DEF S

(* The fold trade by trade.                                                 *)
LEMMA SettledInSteps ==
  ASSUME NEW p, NEW q, NEW n \in Nat, DOMAIN q = 1..n
  PROVE  \E st : /\ st[0] = p
                 /\ \A k \in 1..n : st[k] = Settle(st[k - 1], q[k])
                 /\ st[n] = FoldLeft(Settle, p, q)
<1> DEFINE g == CHOOSE g : Settlements(g, p, q, SUBSET (1..n))
           st == [k \in 0..n |-> g[1..k]]
<1>1. Settlements(g, p, q, SUBSET (1..n))
  BY SettlementsExist, Zenon
<1>2. FoldLeft(Settle, p, q) = g[1..n]
  BY SettlementIsChosen
<1> HIDE DEF g
<1>3. \A k \in 0..n : 1..k \in SUBSET (1..n)
  OBVIOUS
<1>4. st[0] = p
  <2>1. 1..0 = {} /\ 0 \in 0..n
    OBVIOUS
  <2>2. g[1..0] = SettledBy(g, p, q, 1..0)
    BY <1>1, <1>3, <2>1 DEF Settlements
  <2> QED
    BY <2>1, <2>2 DEF SettledBy
<1>5. ASSUME NEW k \in 1..n
      PROVE  st[k] = Settle(st[k - 1], q[k])
  <2>1. k \in 0..n /\ k - 1 \in 0..n /\ k \in 1..k /\ k \in Nat
    OBVIOUS
  <2>2. Max(1..k) = k
    <3>1. Max(1..k) \in 1..k /\ Max(1..k) >= k
      BY <2>1, MaxIsLast
    <3> QED
      BY <3>1
  <2>3. (1..k) \ {k} = 1..(k - 1)
    OBVIOUS
  <2>4. g[1..k] = SettledBy(g, p, q, 1..k)
    BY <1>1, <1>3, <2>1 DEF Settlements
  <2>5. 1..k # {}
    BY <2>1
  <2>6. g[1..k] = Settle(g[1..(k - 1)], q[k])
    BY <2>2, <2>3, <2>4, <2>5 DEF SettledBy
  <2> QED
    BY <2>1, <2>6
<1>6. st[n] = FoldLeft(Settle, p, q)
  BY <1>2
<1> HIDE DEF st
<1> QED
  BY <1>4, <1>5, <1>6

---------------------------------------------------------------------------
(* What settling trades in turn keeps.                                      *)

(* The accounts own what the log says.                                      *)
Balanced(d) ==
  \A a \in Accounts, s \in Assets : Owned(d, a, s) = Funds + Gained(d.log, a, s)

(* The log m is l and the first k of the trades.                            *)
Logs(l, m, trades, k) ==
  /\ Len(m) = Len(l) + k
  /\ \A i \in 1..Len(l) : m[i] = l[i]
  /\ \A i \in 1..k : m[Len(l) + i] = trades[i]

(* Unless it has failed, the view r is d with the first k trades settled.   *)
Settled(d, r, trades, k) ==
  /\ r \in View
  /\ r.ok => /\ d.ok /\ NoLess(d, r) /\ r.released = d.released
             /\ Logs(d.log, r.log, trades, k)
             /\ Balanced(d) => Balanced(r)

LEMMA NoneSettled ==
  ASSUME NEW d \in View, NEW trades
  PROVE  Settled(d, d, trades, 0)
<1>1. d.log \in Seq(TradeExecuted)
  BY ViewParts
<1>2. Logs(d.log, d.log, trades, 0)
  BY <1>1 DEF Logs
<1>3. NoLess(d, d)
  <2>1. \A b \in Accounts, s \in Assets : d.avail[b][s] \in Nat
    BY OwnedTyped
  <2> QED
    BY <2>1 DEF NoLess
<1> QED
  BY <1>2, <1>3 DEF Settled

(* A balanced view stays balanced when a trade is settled.                  *)
LEMMA SettlingBalances ==
  ASSUME NEW d \in View, NEW t \in TradeExecuted, NEW r, Settles(d, r, t), Balanced(d),
         RuntimeConstants
  PROVE  Balanced(r)
<1> SUFFICES ASSUME NEW a \in Accounts, NEW s \in Assets
             PROVE  Owned(r, a, s) = Funds + Gained(r.log, a, s)
  BY DEF Balanced
<1>1. Owned(r, a, s) = Owned(d, a, s) + Gain(t, a, s) /\ r.log = Append(d.log, t)
  BY DEF Settles
<1>2. /\ Gained(d.log, a, s) \in Int
      /\ Gained(r.log, a, s) = Gained(d.log, a, s) + Gain(t, a, s)
  <2>1. d.log \in Seq(TradeExecuted)
    BY ViewParts
  <2> QED
    BY <1>1, <2>1, GainedByNew
<1>3. Owned(d, a, s) = Funds + Gained(d.log, a, s)
  BY DEF Balanced
<1>4. Funds \in Nat /\ Gain(t, a, s) \in Int
  BY GainIsInteger DEF RuntimeConstants
<1> QED
  BY <1>1, <1>2, <1>3, <1>4

LEMMA OneMoreSettled ==
  ASSUME RuntimeConstants, NEW d \in View, NEW trades, NEW k \in Nat,
         trades[k + 1] \in TradeExecuted,
         NEW r, Settled(d, r, trades, k)
  PROVE  Settled(d, Settle(r, trades[k + 1]), trades, k + 1)
<1> DEFINE t == trades[k + 1]
           z == Settle(r, t)
<1>1. r \in View
  BY DEF Settled
<1>2. t \in TradeExecuted
  OBVIOUS
<1>3. z \in View /\ (z.ok => Settles(r, z, t))
  <2> HIDE DEF t
  <2> QED
    BY <1>1, <1>2, TradeSettled
<1> HIDE DEF z
<1>4. ASSUME z.ok
      PROVE  /\ d.ok /\ NoLess(d, z) /\ z.released = d.released
             /\ Logs(d.log, z.log, trades, k + 1)
             /\ Balanced(d) => Balanced(z)
  <2>1. Settles(r, z, t) /\ r.ok
    BY <1>3, <1>4 DEF Settles
  <2>2. /\ d.ok /\ NoLess(d, r) /\ r.released = d.released
        /\ Logs(d.log, r.log, trades, k) /\ (Balanced(d) => Balanced(r))
    BY <2>1 DEF Settled
  <2>3. NoLess(d, z)
    <3>1. \A b \in Accounts, s \in Assets :
            d.avail[b][s] \in Nat /\ r.avail[b][s] \in Nat /\ z.avail[b][s] \in Nat
      BY <1>1, <1>3, OwnedTyped
    <3>2. \A b \in Accounts, s \in Assets :
            r.avail[b][s] >= d.avail[b][s] /\ z.avail[b][s] >= r.avail[b][s]
      BY <2>1, <2>2 DEF NoLess, Settles
    <3> SUFFICES ASSUME NEW b \in Accounts, NEW s \in Assets
                 PROVE  z.avail[b][s] >= d.avail[b][s]
      BY DEF NoLess
    <3>3. PICK x, y, w : x = d.avail[b][s] /\ y = r.avail[b][s] /\ w = z.avail[b][s]
      OBVIOUS
    <3>4. x \in Nat /\ y \in Nat /\ w \in Nat /\ y >= x /\ w >= y
      BY <3>1, <3>2, <3>3
    <3>5. w >= x
      BY <3>4
    <3> QED
      BY <3>3, <3>5
  <2>4. Logs(d.log, z.log, trades, k + 1)
    <3>1. r.log \in Seq(TradeExecuted) /\ d.log \in Seq(TradeExecuted)
      BY <1>1, ViewParts
    <3>2. PICK l, m, u : l = d.log /\ m = r.log /\ u = z.log
      OBVIOUS
    <3>3. /\ l \in Seq(TradeExecuted) /\ m \in Seq(TradeExecuted) /\ u = Append(m, t)
          /\ Len(m) = Len(l) + k /\ Len(l) \in Nat /\ Len(m) \in Nat
          /\ \A i \in 1..Len(l) : m[i] = l[i]
          /\ \A i \in 1..k : m[Len(l) + i] = trades[i]
      BY <2>1, <2>2, <3>1, <3>2 DEF Logs, Settles
    <3> HIDE DEF t
    <3>4. /\ Len(u) = Len(l) + (k + 1) /\ u[Len(l) + (k + 1)] = t
          /\ \A i \in 1..Len(m) : u[i] = m[i]
      BY <3>3
    <3>5. \A i \in 1..Len(l) : i \in 1..Len(m)
      BY <3>3
    <3>6. \A i \in 1..Len(l) : u[i] = l[i]
      BY <3>3, <3>4, <3>5
    <3>7. ASSUME NEW i \in 1..(k + 1)
          PROVE  u[Len(l) + i] = trades[i]
      <4>1. CASE i = k + 1
        BY <3>4, <4>1 DEF t
      <4>2. CASE i # k + 1
        <5>1. i \in 1..k /\ Len(l) + i \in 1..Len(m)
          BY <3>3, <4>2
        <5> QED
          BY <3>3, <3>4, <5>1
      <4> QED
        BY <4>1, <4>2
    <3> QED
      BY <3>2, <3>4, <3>6, <3>7 DEF Logs
  <2>5. Balanced(d) => Balanced(z)
    BY <1>1, <1>2, <2>1, <2>2, SettlingBalances
  <2>6. z.released = d.released
    BY <2>1, <2>2 DEF Settles
  <2> QED
    BY <2>2, <2>3, <2>4, <2>5, <2>6
<1>5. Settled(d, z, trades, k + 1)
  BY <1>3, <1>4 DEF Settled
<1> QED
  BY <1>5 DEF z

(* All trades of a command.                                                 *)
LEMMA TradesSettled ==
  ASSUME RuntimeConstants, NEW d \in View, NEW n \in Nat,
         NEW trades \in [1..n -> TradeExecuted]
  PROVE  Settled(d, FoldLeft(Settle, d, trades), trades, n)
<1>1. DOMAIN trades = 1..n /\ \A k \in 1..n : trades[k] \in TradeExecuted
  OBVIOUS
<1>2. PICK st : /\ st[0] = d
                /\ \A k \in 1..n : st[k] = Settle(st[k - 1], trades[k])
                /\ st[n] = FoldLeft(Settle, d, trades)
  BY <1>1, SettledInSteps
<1> DEFINE T == {k \in 0..n : Settled(d, st[k], trades, k)}
<1>3. 0 \in T
  BY <1>2, NoneSettled
<1>4. \A k \in 1..n : k - 1 \in T => k \in T
  <2> SUFFICES ASSUME NEW k \in 1..n, k - 1 \in T PROVE k \in T
    OBVIOUS
  <2>1. PICK j \in Nat : j + 1 = k /\ j = k - 1
    OBVIOUS
  <2>2. Settled(d, st[j], trades, j) /\ trades[j + 1] \in TradeExecuted
    BY <1>1, <2>1
  <2>3. st[j + 1] = Settle(st[j], trades[j + 1])
    BY <1>2, <2>1
  <2>4. Settled(d, st[j + 1], trades, j + 1)
    BY <2>2, <2>3, OneMoreSettled
  <2> QED
    BY <2>1, <2>4
<1> HIDE DEF T
<1>5. \A k \in 0..n : k \in T
  BY <1>3, <1>4, StepsInduction
<1> QED
  BY <1>2, <1>5 DEF T

---------------------------------------------------------------------------
(* Reservations and releases.                                               *)

LEMMA ProductIsNatural ==
  ASSUME NEW x \in Nat, NEW y \in Nat
  PROVE  x * y \in Nat
  OBVIOUS

LEMMA OrderTyped ==
  ASSUME RuntimeConstants, NEW o \in Orders
  PROVE  /\ o.user \in Accounts /\ o.side \in Sides /\ o.price \in Prices
         /\ Incoming(o)
         /\ Committed(o) \in Assets /\ FullAmount(o) \in Nat
<1>1. /\ o.user \in Accounts /\ o.side \in Sides /\ o.price \in Prices
      /\ o.qty \in Quantities
  BY DEF Orders
<1>2. o.price \in Nat \cup {NoPrice} /\ o.qty \in Nat \ {0}
  BY <1>1 DEF RuntimeConstants
<1>3. Incoming(o)
  BY <1>1, <1>2 DEF Incoming
<1>4. Committed(o) \in Assets
  BY DEF Committed, Assets
<1>5. LimitOf(o) \in Nat /\ o.qty \in Nat
  BY <1>2 DEF LimitOf
<1>6. o.qty * LimitOf(o) \in Nat
  BY <1>5, ProductIsNatural
<1>7. FullAmount(o) \in Nat
  BY <1>5, <1>6 DEF FullAmount
<1> QED
  BY <1>1, <1>3, <1>4, <1>7

(* r is the view d after account u set some of its funds aside.             *)
SetsAside(d, r, u) ==
  /\ d.ok /\ r.log = d.log
  /\ \A b \in Accounts, s \in Assets :
       /\ Owned(r, b, s) = Owned(d, b, s)
       /\ b # u => r.avail[b][s] = d.avail[b][s]

Covered(d, id, u, asset, amount, r) ==
  r = [d EXCEPT !.avail[u][asset] = @ - amount,
                !.rows = Append(@, [order |-> id, account |-> u,
                                    asset |-> asset, left |-> amount])]

(* Funds that are set aside have a row of their own.                        *)
LEMMA FundsCovered ==
  ASSUME NEW d \in View, d.ok, NEW id \in OrderIds, NEW u \in Accounts,
         NEW asset \in Assets, NEW amount \in Nat, d.avail[u][asset] >= amount,
         NEW r, Covered(d, id, u, asset, amount, r)
  PROVE  r \in View /\ SetsAside(d, r, u)
<1> DEFINE v == d.avail
           w == [v EXCEPT ![u][asset] = @ - amount]
           row == [order |-> id, account |-> u, asset |-> asset, left |-> amount]
           later == Append(d.rows, row)
           e == [d EXCEPT !.avail = w]
<1>1. /\ v \in [Accounts -> [Assets -> Nat]] /\ d.rows \in Seq(Row)
      /\ d.log \in Seq(TradeExecuted) /\ d.released \in SUBSET OrderIds
      /\ d.ok \in BOOLEAN
  BY ViewParts
<1>2. r = [e EXCEPT !.rows = later]
  BY DEF Covered
<1>3. row \in Row /\ row.account = u /\ row.asset = asset /\ row.left = amount
  BY DEF Row
<1> HIDE DEF row
<1>4. later \in Seq(Row)
      /\ \A b, s : HeldIn(later, b, s) = HeldIn(d.rows, b, s) + Part(row, b, s)
  BY <1>1, <1>3, HeldByNew
<1> HIDE DEF later
<1>5. /\ w \in [Accounts -> [Assets -> Nat]]
      /\ \A b \in Accounts, s \in Assets :
           w[b][s] = v[b][s] - Portion(b, s, u, asset, amount)
  <2>1. v[u][asset] >= amount
    OBVIOUS
  <2> HIDE DEF v
  <2> QED
    BY <1>1, <2>1 DEF Portion
<1> HIDE DEF w
<1>6. e = [avail |-> w, rows |-> d.rows, log |-> d.log,
           released |-> d.released, ok |-> d.ok]
  BY ViewChanged
<1>7. e \in View
  <2>1. [avail |-> w, rows |-> d.rows, log |-> d.log,
         released |-> d.released, ok |-> d.ok] \in View
    BY <1>1, <1>5, ViewBuilt
  <2> QED
    BY <1>6, <2>1
<1> HIDE DEF e
<1>8. r = [avail |-> e.avail, rows |-> later, log |-> e.log,
           released |-> e.released, ok |-> e.ok]
  BY <1>2, <1>7, ViewChanged
<1>9. /\ r = [avail |-> w, rows |-> later, log |-> d.log,
              released |-> d.released, ok |-> d.ok]
      /\ r.avail = w /\ r.rows = later /\ r.log = d.log
  BY <1>6, <1>8
<1>10. r \in View
  <2>1. [avail |-> w, rows |-> later, log |-> d.log,
         released |-> d.released, ok |-> d.ok] \in View
    BY <1>1, <1>4, <1>5, ViewBuilt
  <2> QED
    BY <1>9, <2>1
<1>11. ASSUME NEW b \in Accounts, NEW s \in Assets
       PROVE  /\ Owned(r, b, s) = Owned(d, b, s)
              /\ b # u => r.avail[b][s] = d.avail[b][s]
  <2>1. d.avail[b][s] \in Nat /\ HeldIn(d.rows, b, s) \in Nat
    BY OwnedTyped
  <2>2. /\ r.avail[b][s] = d.avail[b][s] - Portion(b, s, u, asset, amount)
        /\ HeldIn(r.rows, b, s) = HeldIn(d.rows, b, s) + Part(row, b, s)
    BY <1>4, <1>5, <1>9 DEF v
  <2>3. Part(row, b, s) = Portion(b, s, u, asset, amount)
    BY <1>3 DEF Part, Portion
  <2>4. Portion(b, s, u, asset, amount) \in Nat
    BY DEF Portion
  <2>5. b # u => Portion(b, s, u, asset, amount) = 0
    BY DEF Portion
  <2> QED
    BY <2>1, <2>2, <2>3, <2>4, <2>5 DEF Owned
<1> QED
  BY <1>9, <1>10, <1>11 DEF SetsAside

(* A view is a view of itself with nothing set aside.                       *)
LEMMA NothingAside ==
  ASSUME NEW d \in View, d.ok, NEW u
  PROVE  SetsAside(d, d, u)
  BY DEF SetsAside

(* Reserving for an order.                                                  *)
LEMMA OrderReserved ==
  ASSUME RuntimeConstants, NEW d \in View, d.ok, NEW id \in OrderIds, NEW o \in Orders,
         NEW r, r = Reserve(d, id, o)
  PROVE  r \in View /\ (r.ok => SetsAside(d, r, o.user))
<1> DEFINE u == o.user
           asset == Committed(o)
           amount == FullAmount(o)
           known == id \in reserved \/ \E x \in ToSet(d.rows) : x.order = id
           covered == [d EXCEPT !.avail[u][asset] = @ - amount,
                                !.rows = Append(@, [order |-> id, account |-> u,
                                                    asset |-> asset, left |-> amount])]
<1>1. r = IF known THEN d
          ELSE IF ~Affordable(d, u, asset, amount) THEN Failed(d) ELSE covered
  BY DEF Reserve
<1>2. u \in Accounts /\ asset \in Assets /\ amount \in Nat
  BY OrderTyped
<1>3. Covered(d, id, u, asset, amount, covered)
  BY DEF Covered
<1> HIDE DEF u, asset, amount, known, covered
<1>4. CASE known
  BY <1>1, <1>4, NothingAside
<1>5. CASE ~known /\ ~Affordable(d, u, asset, amount)
  <2>1. r = Failed(d)
    BY <1>1, <1>5
  <2> QED
    BY <2>1, FailedView
<1>6. CASE ~known /\ Affordable(d, u, asset, amount)
  <2>1. r = covered /\ d.avail[u][asset] >= amount
    BY <1>1, <1>6 DEF Affordable
  <2>2. covered \in View /\ SetsAside(d, covered, u)
    BY <1>2, <1>3, <2>1, FundsCovered, Zenon
  <2> QED
    BY <2>1, <2>2 DEF u
<1> QED
  BY <1>4, <1>5, <1>6

(* r is the view d after something reserved was set free.                   *)
SetsFree(d, r) ==
  /\ d.ok /\ r.log = d.log /\ NoLess(d, r)
  /\ \A b \in Accounts, s \in Assets : Owned(r, b, s) = Owned(d, b, s)

(* Releasing the reservation of an order.                                   *)
LEMMA OrderReleased ==
  ASSUME RuntimeConstants, NEW d \in View, d.ok, NEW id \in OrderIds, NEW o \in Orders,
         NEW r, r = Release(d, id, o)
  PROVE  r \in View /\ (r.ok => SetsFree(d, r))
<1> DEFINE u == o.user
           asset == Committed(o)
           amount == FullAmount(o)
           taken == TakeRow(d, u, asset, amount)
           e == [taken EXCEPT !.avail[u][asset] = @ + amount]
           released == e.released \cup {id}
<1>1. r = IF id \in d.released THEN d
          ELSE IF taken.ok THEN [e EXCEPT !.released = @ \cup {id}] ELSE taken
  BY DEF Release
<1>2. u \in Accounts /\ asset \in Assets /\ amount \in Nat
  BY OrderTyped
<1> HIDE DEF u, asset, amount
<1>3. taken \in View /\ (taken.ok => Takes(d, taken, u, asset, amount))
  BY <1>2, RowTaken, Zenon
<1> HIDE DEF taken
<1>4. CASE id \in d.released
  <2>1. r = d
    BY <1>1, <1>4
  <2>2. \A b \in Accounts, s \in Assets : d.avail[b][s] \in Nat
    BY OwnedTyped
  <2>3. NoLess(d, d)
    BY <2>2 DEF NoLess
  <2> QED
    BY <2>1, <2>3 DEF SetsFree
<1>5. CASE id \notin d.released /\ ~taken.ok
  BY <1>1, <1>3, <1>5
<1>6. CASE id \notin d.released /\ taken.ok
  <2>1. Takes(d, taken, u, asset, amount)
    BY <1>3, <1>6
  <2>2. e \in View /\ Adds(taken, e, u, asset, amount)
    BY <1>2, <1>3, FundsAdded
  <2>3. r = [e EXCEPT !.released = released]
    BY <1>1, <1>6
  <2>4. released \in SUBSET OrderIds
    BY <2>2, ViewParts
  <2> HIDE DEF e, released
  <2>5. r = [avail |-> e.avail, rows |-> e.rows, log |-> e.log,
             released |-> released, ok |-> e.ok]
    BY <2>2, <2>3, ViewChanged
  <2>6. r \in View
    <3>1. [avail |-> e.avail, rows |-> e.rows, log |-> e.log,
           released |-> released, ok |-> e.ok] \in View
      BY <2>2, <2>4, ViewParts, ViewBuilt
    <3> QED
      BY <2>5, <3>1
  <2>7. r.avail = e.avail /\ r.rows = e.rows /\ r.log = e.log
    BY <2>5
  <2>8. ASSUME NEW b \in Accounts, NEW s \in Assets
        PROVE  /\ r.avail[b][s] >= d.avail[b][s]
               /\ Owned(r, b, s) = Owned(d, b, s)
    <3>1. d.avail[b][s] \in Nat /\ HeldIn(d.rows, b, s) \in Nat
      BY OwnedTyped
    <3>2. /\ r.avail[b][s] = d.avail[b][s] + Portion(b, s, u, asset, amount)
          /\ HeldIn(r.rows, b, s) = HeldIn(d.rows, b, s) - Portion(b, s, u, asset, amount)
      BY <2>1, <2>2, <2>7 DEF Adds, Takes
    <3>3. Portion(b, s, u, asset, amount) \in Nat
      BY <1>2 DEF Portion
    <3> QED
      BY <3>1, <3>2, <3>3 DEF Owned
  <2>9. d.ok /\ r.log = d.log
    BY <2>1, <2>2, <2>7 DEF Adds, Takes
  <2> QED
    BY <2>6, <2>8, <2>9 DEF SetsFree, NoLess
<1> QED
  BY <1>4, <1>5, <1>6

(* Neither changes what the accounts own.                                   *)
LEMMA BalanceKept ==
  ASSUME NEW d, NEW r, Balanced(d), r.log = d.log,
         \A b \in Accounts, s \in Assets : Owned(r, b, s) = Owned(d, b, s)
  PROVE  Balanced(r)
  BY DEF Balanced

---------------------------------------------------------------------------
(* The engine's side of a command.                                          *)

Inductive == RuntimeInv /\ Uncrossed(active)

LEMMA ActiveIsGood ==
  ASSUME RuntimeConstants, Inductive
  PROVE  GoodBook(active, sequence) /\ Book(active, sequence) /\ sequence \in Nat
<1>1. /\ \A id \in DOMAIN active : active[id] \in ActiveOrder
      /\ IsFiniteSet(DOMAIN active) /\ OwnSequences(active, sequence)
      /\ Uncrossed(active) /\ sequence \in Nat
  BY DEF Inductive, RuntimeInv, TypeOK
<1>2. Prices \subseteq Nat \cup {NoPrice}
  BY DEF RuntimeConstants
<1>3. \A r \in ActiveOrder : IsEntry(r)
  <2> SUFFICES ASSUME NEW r \in ActiveOrder PROVE IsEntry(r)
    OBVIOUS
  <2>1. r = [user |-> r.user, side |-> r.side, price |-> r.price,
             left |-> r.left, seq |-> r.seq]
    BY DEF ActiveOrder
  <2>2. /\ r.side \in Sides /\ r.price \in Prices
        /\ r.left \in Nat \ {0} /\ r.seq \in Nat \ {0}
    BY DEF ActiveOrder
  <2> QED
    BY <1>2, <2>1, <2>2 DEF IsEntry
<1> QED
  BY <1>1, <1>3 DEF GoodBook, Book

(* Trade a of a command is made with a maker of its own, whose order was    *)
(* accepted.                                                                *)
LEMMA TradesTyped ==
  ASSUME RuntimeConstants, Inductive, NEW id \in OrderIds, NEW o \in Orders,
         NEW outcome, outcome = Placed(active, id, o, sequence + 1)
  PROVE  LET trades == Trades(id, o, outcome)
         IN \E n \in Nat :
              /\ trades \in [1..n -> TradeExecuted]
              /\ \A a \in 1..n : trades[a].seq = sequence + 1
              /\ \A a, b \in 1..n : trades[a] = trades[b] => a = b
<1> DEFINE trades == Trades(id, o, outcome)
           fills == outcome.trades
           n == Len(fills)
           s == Sweep(active, o)
           q == Queue(active, o)
           m == Cardinality(Makers(active, o))
<1>1. Incoming(o) /\ o.user \in Accounts
  BY OrderTyped
<1>2. Book(active, sequence) /\ sequence \in Nat
  BY ActiveIsGood
<1>3. fills = << >> \/ fills = s.trades
  BY PlacedCases DEF Refuses, Passes, Rests
<1>4. Listed(q, active, o) /\ m \in Nat /\ m <= m /\ Loop(active, o, q, m, s)
  <2>1. Listed(q, active, o) /\ Loop(active, o, q, m, s)
    BY <1>1, <1>2, QueueLists, SweepLoops
  <2>2. m \in Nat
    BY <2>1 DEF Listed
  <2> QED
    BY <2>1, <2>2
<1> HIDE DEF s, q, m
<1>5. /\ s.trades \in Seq(FillOf(DOMAIN active))
      /\ \A a \in 1..Len(s.trades) :
           s.trades[a].maker = q[a] /\ q[a] \in Makers(active, o)
      /\ \A a, b \in 1..Len(s.trades) :
           s.trades[a].maker = s.trades[b].maker => a = b
  BY <1>1, <1>2, <1>4, TradesDistinct DEF m
<1>6. /\ fills \in Seq(FillOf(DOMAIN active)) /\ n \in Nat
      /\ \A a \in 1..n : fills[a].maker \in Makers(active, o)
      /\ \A a, b \in 1..n : fills[a].maker = fills[b].maker => a = b
  <2> HIDE DEF fills
  <2>1. CASE fills = << >>
    <3>1. fills \in Seq(FillOf(DOMAIN active)) /\ n = 0
      BY <2>1
    <3> QED
      BY <3>1
  <2>2. CASE fills = s.trades
    BY <1>5, <2>2
  <2> QED
    BY <1>3, <2>1, <2>2
<1> HIDE DEF fills
<1>7. trades = [a \in 1..n |-> Trade(id, o, fills[a], sequence + 1)]
  BY DEF Trades, fills
<1> HIDE DEF trades, n
<1>8. ASSUME NEW a \in 1..n
      PROVE  /\ trades[a] \in TradeExecuted
             /\ trades[a].seq = sequence + 1 /\ trades[a].maker = fills[a].maker
  <2> DEFINE f == fills[a]
             maker == states[f.maker].user
  <2>1. f \in FillOf(DOMAIN active) /\ f.maker \in Makers(active, o)
    BY <1>6 DEF n
  <2>2. f.price \in Nat /\ f.qty \in Nat
    BY <2>1 DEF FillOf
  <2> HIDE DEF f
  <2>3. f.maker \in DOMAIN active /\ active[f.maker].price # NoPrice
    BY <2>1 DEF Makers
  <2>4. f.maker \in DOMAIN states /\ f.maker \in OrderIds
    BY <2>3 DEF Inductive, RuntimeInv, TypeOK
  <2>5. maker \in Accounts
    BY <2>4, OrderTyped DEF Inductive, RuntimeInv, TypeOK
  <2> DEFINE value == f.qty * f.price
             seller == IF o.side = "BUY" THEN maker ELSE o.user
             buyer == IF o.side = "BUY" THEN o.user ELSE maker
             k == sequence + 1
  <2>6. value \in Nat
    BY <2>2, ProductIsNatural
  <2>7. seller \in Accounts /\ buyer \in Accounts /\ k \in Nat
    BY <1>1, <1>2, <2>5
  <2>8. trades[a] = [seq |-> k, maker |-> f.maker, taker |-> id,
                     seller |-> seller, buyer |-> buyer,
                     qty |-> f.qty, value |-> value]
    BY <1>7 DEF Trade, f
  <2> HIDE DEF value, seller, buyer, maker, k
  <2>9. trades[a] \in TradeExecuted
    BY <2>2, <2>4, <2>6, <2>7, <2>8 DEF TradeExecuted
  <2> QED
    BY <2>8, <2>9 DEF f, k
<1>9. trades \in [1..n -> TradeExecuted]
  BY <1>7, <1>8
<1>10. \A a, b \in 1..n : trades[a] = trades[b] => a = b
  BY <1>6, <1>8
<1> QED
  BY <1>6, <1>8, <1>9, <1>10 DEF trades

(* An order with a limit that the engine does not accept is not entered.    *)
LEMMA RefusedIsNotEntered ==
  ASSUME NEW book, NEW n, Book(book, n), NEW o, Incoming(o), NEW id, NEW seq,
         o.price # NoPrice, ~Accepts(Placed(book, id, o, seq).code)
  PROVE  LET new == Placed(book, id, o, seq).book
         IN \A i \in DOMAIN new : i \in DOMAIN book /\ SameOrder(new[i], book[i])
<1> DEFINE s == Sweep(book, o)
           after == AfterTrades(book, s.trades)
           rests == With(after, id, Resting(o, s.left, seq))
           r == Placed(book, id, o, seq)
           main == IF s.self THEN Outcome("SELF_TRADE", s.trades, s.left, after)
                   ELSE IF s.left = 0 THEN Outcome("FILLED", s.trades, 0, after)
                   ELSE IF o.tif # "GTC"
                        THEN Outcome("REMAINDER_CANCELLED", s.trades, s.left, after)
                   ELSE IF o.price = NoPrice
                        THEN Outcome("THROWN", s.trades, s.left, rests)
                   ELSE Outcome("RESTED", s.trades, s.left, rests)
<1>1. r = CASE id \in DOMAIN book -> Outcome("INVALID_ORDER", << >>, o.qty, book)
            [] id \notin DOMAIN book /\ o.tif = "FOK" /\ ~CanFillFully(book, o) ->
                 Outcome("FOK_NOT_FILLED", << >>, o.qty, book)
            [] OTHER -> main
  BY DEF Placed
<1>2. \A code, trades, left, b :
        LET x == Outcome(code, trades, left, b)
        IN x.code = code /\ x.book = b
  BY DEF Outcome
<1>3. /\ DOMAIN after \subseteq DOMAIN book
      /\ \A i \in DOMAIN after : SameOrder(after[i], book[i])
  BY SweepLeaves DEF BookAfter
<1>4. \A i \in DOMAIN book : SameOrder(book[i], book[i])
  BY DEF SameOrder
<1>5. ~Accepts(r.code)
  OBVIOUS
<1> HIDE DEF r, s, after, rests
<1>6. main.book = after \/ Accepts(main.code)
  <2> HIDE DEF main
  <2>1. \/ main = Outcome("SELF_TRADE", s.trades, s.left, after)
        \/ main = Outcome("FILLED", s.trades, 0, after)
        \/ main = Outcome("REMAINDER_CANCELLED", s.trades, s.left, after)
        \/ main = Outcome("RESTED", s.trades, s.left, rests)
    BY DEF main
  <2> QED
    BY <1>2, <2>1 DEF Accepts
<1> HIDE DEF main
<1>7. \/ r = Outcome("INVALID_ORDER", << >>, o.qty, book)
      \/ r = Outcome("FOK_NOT_FILLED", << >>, o.qty, book)
      \/ r = main
  BY <1>1
<1>8. r.book = book \/ r.book = after
  BY <1>2, <1>5, <1>6, <1>7
<1>9. \A i \in DOMAIN r.book : i \in DOMAIN book /\ SameOrder(r.book[i], book[i])
  BY <1>3, <1>4, <1>8
<1> QED
  BY <1>9 DEF r

(* What is known of the engine after a command.                             *)
EngineKeeps(book, n, accepted) ==
  /\ n \in Nat
  /\ IsFiniteSet(DOMAIN book) /\ OwnSequences(book, n) /\ Uncrossed(book)
  /\ DOMAIN book \subseteq OrderIds
  /\ \A i \in DOMAIN book : book[i] \in ActiveOrder
  /\ \A i \in DOMAIN book : book[i].price # NoPrice => i \in accepted

LEMMA EntryIsActive ==
  ASSUME NEW r, IsEntry(r), r.user \in Accounts, r.price \in Prices
  PROVE  r \in ActiveOrder
  BY DEF IsEntry, ActiveOrder

LEMMA PlacedKeeps ==
  ASSUME RuntimeConstants, Inductive, NEW id \in OrderIds, NEW o \in Orders,
         NEW outcome, outcome = Placed(active, id, o, sequence + 1),
         NEW accepted, DOMAIN states \subseteq accepted,
         Accepts(outcome.code) => id \in accepted
  PROVE  EngineKeeps(outcome.book, sequence + 1, accepted)
<1> DEFINE new == outcome.book
<1>1. Incoming(o) /\ o.user \in Accounts /\ o.price \in Prices
  BY OrderTyped
<1>2. GoodBook(active, sequence) /\ Book(active, sequence) /\ sequence \in Nat
  BY ActiveIsGood
<1>3. GoodBook(new, sequence + 1)
  BY <1>1, <1>2, PlacedIsGood
<1>4. \A i \in DOMAIN new :
        \/ i \in DOMAIN active /\ SameOrder(new[i], active[i])
        \/ i = id /\ new[i].user = o.user /\ new[i].price = o.price
  BY <1>1, <1>2, PlacedKeepsOrders
<1>5. ~Accepts(outcome.code) /\ o.price # NoPrice =>
        \A i \in DOMAIN new : i \in DOMAIN active /\ SameOrder(new[i], active[i])
  BY <1>1, <1>2, RefusedIsNotEntered
<1> HIDE DEF new
<1>6. \A i \in DOMAIN active :
        /\ i \in OrderIds /\ active[i].user \in Accounts /\ active[i].price \in Prices
        /\ active[i].price # NoPrice => i \in accepted
  BY DEF Inductive, RuntimeInv, TypeOK, ActiveOrder
<1>7. \A i \in DOMAIN new : new[i] \in ActiveOrder
  <2>1. \A i \in DOMAIN new : IsEntry(new[i])
    BY <1>3 DEF GoodBook, Book
  <2>2. \A i \in DOMAIN new : new[i].user \in Accounts /\ new[i].price \in Prices
    BY <1>1, <1>4, <1>6 DEF SameOrder
  <2> QED
    BY <2>1, <2>2, EntryIsActive
<1>8. DOMAIN new \subseteq OrderIds
  BY <1>4, <1>6
<1>9. \A i \in DOMAIN new : new[i].price # NoPrice => i \in accepted
  <2>1. CASE ~Accepts(outcome.code) /\ o.price # NoPrice
    BY <1>5, <1>6, <2>1 DEF SameOrder
  <2>2. CASE o.price = NoPrice
    BY <1>4, <1>6, <2>2 DEF SameOrder
  <2>3. CASE Accepts(outcome.code)
    BY <1>4, <1>6, <2>3 DEF SameOrder
  <2> QED
    BY <2>1, <2>2, <2>3
<1>10. sequence + 1 \in Nat
  BY <1>2
<1> QED
  BY <1>3, <1>7, <1>8, <1>9, <1>10 DEF GoodBook, Book, EngineKeeps, new

LEMMA CancelledKeeps ==
  ASSUME RuntimeConstants, Inductive, NEW id
  PROVE  EngineKeeps(Cancelled(active, id).book, sequence + 1, DOMAIN states)
<1> DEFINE new == Cancelled(active, id).book
<1>1. GoodBook(active, sequence) /\ sequence \in Nat
  BY ActiveIsGood
<1>2. GoodBook(new, sequence + 1)
  BY <1>1, CancelledIsGood
<1>3. DOMAIN new \subseteq DOMAIN active /\ \A i \in DOMAIN new : new[i] = active[i]
  BY CancelledIsLess
<1> HIDE DEF new
<1>4. /\ \A i \in DOMAIN active : active[i] \in ActiveOrder
      /\ DOMAIN active \subseteq OrderIds
      /\ \A i \in DOMAIN active : active[i].price # NoPrice => i \in DOMAIN states
  BY DEF Inductive, RuntimeInv, TypeOK
<1>5. sequence + 1 \in Nat
  BY <1>1
<1> QED
  BY <1>2, <1>3, <1>4, <1>5 DEF GoodBook, Book, EngineKeeps, new

---------------------------------------------------------------------------
(* The database's side of a command.                                        *)

(* A log of executed trades, each once.                                     *)
Once(l, made) ==
  /\ ToSet(l) \subseteq made
  /\ \A i, j \in 1..Len(l) : l[i] = l[j] => i = j

Dated(made, k) == \A t \in made : t.seq \in 0..k

(* The trades of a new sequence are new to the log.                         *)
LEMMA LogGrows ==
  ASSUME NEW l \in Seq(TradeExecuted), NEW m \in Seq(TradeExecuted),
         NEW n \in Nat, NEW trades \in [1..n -> TradeExecuted],
         Logs(l, m, trades, n),
         NEW made, NEW k \in Nat, Once(l, made), Dated(made, k),
         \A a \in 1..n : trades[a].seq = k + 1,
         \A a, b \in 1..n : trades[a] = trades[b] => a = b
  PROVE  Once(m, made \cup ToSet(trades))
<1>1. /\ Len(l) \in Nat /\ Len(m) = Len(l) + n
      /\ DOMAIN l = 1..Len(l) /\ DOMAIN m = 1..Len(m) /\ DOMAIN trades = 1..n
      /\ \A i \in 1..Len(l) : m[i] = l[i]
      /\ \A a \in 1..n : m[Len(l) + a] = trades[a]
  BY DEF Logs
<1>2. /\ \A i \in 1..Len(l) : l[i] \in made
      /\ \A i, j \in 1..Len(l) : l[i] = l[j] => i = j
  BY <1>1 DEF Once, ToSet
<1>3. \A i \in 1..Len(m) :
        \/ i \in 1..Len(l)
        \/ \E a \in 1..n : i = Len(l) + a
  <2> SUFFICES ASSUME NEW i \in 1..Len(m), i \notin 1..Len(l)
               PROVE  \E a \in 1..n : i = Len(l) + a
    OBVIOUS
  <2>1. i - Len(l) \in 1..n /\ i = Len(l) + (i - Len(l))
    BY <1>1
  <2> QED
    BY <2>1
<1>4. \A i \in 1..Len(m) :
        \/ i \in 1..Len(l) /\ m[i] = l[i]
        \/ \E a \in 1..n : i = Len(l) + a /\ m[i] = trades[a]
  <2> SUFFICES ASSUME NEW i \in 1..Len(m), i \notin 1..Len(l)
               PROVE  \E a \in 1..n : i = Len(l) + a /\ m[i] = trades[a]
    BY <1>1
  <2>1. PICK a \in 1..n : i = Len(l) + a
    BY <1>3
  <2>2. m[Len(l) + a] = trades[a]
    BY <1>1
  <2> QED
    BY <2>1, <2>2
<1>5. \A i \in 1..Len(l), a \in 1..n : l[i] # trades[a]
  <2>1. \A i \in 1..Len(l) : l[i].seq \in 0..k
    BY <1>2 DEF Dated
  <2>2. \A i \in 1..Len(l), a \in 1..n : l[i].seq # trades[a].seq
    BY <2>1
  <2> QED
    BY <2>2
<1>6. ASSUME NEW i \in 1..Len(m), NEW j \in 1..Len(m), m[i] = m[j]
      PROVE  i = j
  <2>1. CASE i \in 1..Len(l) /\ m[i] = l[i] /\ j \in 1..Len(l) /\ m[j] = l[j]
    <3>1. l[i] = l[j]
      BY <1>6, <2>1
    <3> QED
      BY <1>2, <2>1, <3>1
  <2>2. CASE \/ i \in 1..Len(l) /\ m[i] = l[i] /\ \E a \in 1..n : m[j] = trades[a]
             \/ j \in 1..Len(l) /\ m[j] = l[j] /\ \E a \in 1..n : m[i] = trades[a]
    BY <1>5, <1>6, <2>2
  <2>3. CASE /\ \E a \in 1..n : i = Len(l) + a /\ m[i] = trades[a]
             /\ \E a \in 1..n : j = Len(l) + a /\ m[j] = trades[a]
    <3>1. PICK a, b \in 1..n : /\ i = Len(l) + a /\ m[i] = trades[a]
                               /\ j = Len(l) + b /\ m[j] = trades[b]
      BY <2>3
    <3>2. trades[a] = trades[b]
      BY <1>6, <3>1
    <3>3. a = b
      BY <3>2
    <3> QED
      BY <3>1, <3>3
  <2> QED
    BY <1>4, <2>1, <2>2, <2>3
<1>7. \A i \in 1..Len(m) : m[i] \in made \cup ToSet(trades)
  <2>1. \A a \in 1..n : trades[a] \in ToSet(trades)
    BY <1>1 DEF ToSet
  <2> QED
    BY <1>2, <1>4, <2>1
<1>8. ToSet(m) \subseteq made \cup ToSet(trades)
  BY <1>1, <1>7 DEF ToSet
<1> QED
  BY <1>6, <1>8 DEF Once

LEMMA OnceAmongMore ==
  ASSUME NEW l, NEW made, NEW more, Once(l, made), made \subseteq more
  PROVE  Once(l, more)
  BY DEF Once

LEMMA DatedLater ==
  ASSUME NEW made, NEW k \in Nat, Dated(made, k), NEW n \in Nat,
         NEW trades \in [1..n -> TradeExecuted],
         \A a \in 1..n : trades[a].seq = k + 1
  PROVE  /\ Dated(made \cup ToSet(trades), k + 1)
         /\ Dated(made, k + 1)
<1>1. \A t \in ToSet(trades) : t.seq = k + 1
  BY DEF ToSet
<1> QED
  BY <1>1 DEF Dated

(* What the three kinds of state are known to be.                           *)
LedgerPart(d, made, k) ==
  /\ d \in View /\ d.ok /\ Balanced(d)
  /\ Once(d.log, made) /\ Dated(made, k)

MemoryPart ==
  /\ journal \subseteq Commands /\ results \subseteq Commands
  /\ reserved \subseteq OrderIds /\ DOMAIN states \subseteq OrderIds
  /\ \A id \in DOMAIN states : states[id] \in Orders

LEMMA Parts3 ==
  Inductive <=> /\ LedgerPart(db, executed, sequence) /\ MemoryPart
                /\ EngineKeeps(active, sequence, DOMAIN states)
BY DEF Inductive, RuntimeInv, TypeOK, TradesAccounted, TotalsFollowTrades,
       LoggedTradesExecutedOnce, Once, Dated, LedgerPart, MemoryPart, Balanced,
       Owned, Held, EngineKeeps

(* Initially every account owns its funds.                                  *)
LEMMA RuntimeInit ==
  ASSUME RuntimeConstants, Init
  PROVE  Inductive
<1> DEFINE avail == [a \in Accounts |-> [s \in Assets |-> Funds]]
<1>1. db = [avail |-> avail, rows |-> << >>, log |-> << >>, released |-> {}, ok |-> TRUE]
  BY DEF Init
<1>2. avail \in [Accounts -> [Assets -> Nat]] /\ \A a \in Accounts, s \in Assets : avail[a][s] = Funds
  BY DEF RuntimeConstants
<1> HIDE DEF avail
<1>3. db.avail = avail /\ db.rows = << >> /\ db.log = << >> /\ db.ok
  BY <1>1
<1>4. db \in View
  <2>1. << >> \in Seq(Row) /\ << >> \in Seq(TradeExecuted) /\ {} \in SUBSET OrderIds
        /\ TRUE \in BOOLEAN
    OBVIOUS
  <2> QED
    BY <1>1, <1>2, <2>1, ViewBuilt
<1>5. DOMAIN << >> = {} /\ Len(<< >>) = 0
  OBVIOUS
<1>6. \A a, s : HeldIn(<< >>, a, s) = 0 /\ Gained(<< >>, a, s) = 0
  BY <1>5, SumEmpty DEF HeldIn, Gained
<1>7. Balanced(db)
  <2>1. Funds \in Nat
    BY DEF RuntimeConstants
  <2> QED
    BY <1>2, <1>3, <1>6, <2>1 DEF Balanced, Owned
<1>8. Once(db.log, executed) /\ Dated(executed, sequence)
  BY <1>3, <1>5 DEF Once, Dated, Init, ToSet
<1>9. MemoryPart
  BY <1>5 DEF Init, MemoryPart
<1>10. EngineKeeps(active, sequence, DOMAIN states)
  BY <1>5, FS_EmptySet DEF Init, EngineKeeps, OwnSequences, Uncrossed
<1> QED
  BY <1>3, <1>4, <1>7, <1>8, <1>9, <1>10, Parts3 DEF LedgerPart

(* A command that is not placed leaves the ledger as it is, or as it is     *)
(* when the transaction has not failed.                                     *)
LEMMA LedgerLater ==
  ASSUME NEW d, NEW made, NEW k \in Nat, LedgerPart(d, made, k)
  PROVE  LedgerPart(d, made, k + 1)
<1>1. Dated(made, k + 1)
  BY DEF LedgerPart, Dated
<1> QED
  BY <1>1 DEF LedgerPart

(* A released order leaves the accounts what they own.                      *)
LEMMA LedgerReleased ==
  ASSUME RuntimeConstants, NEW d, NEW made, NEW k \in Nat, LedgerPart(d, made, k),
         NEW id \in OrderIds, NEW o \in Orders,
         NEW r, r = Release(d, id, o), r.ok
  PROVE  LedgerPart(r, made, k + 1) /\ NoLess(d, r)
<1>1. d \in View /\ d.ok /\ Balanced(d)
  BY DEF LedgerPart
<1>2. r \in View /\ SetsFree(d, r)
  BY <1>1, OrderReleased
<1>3. Balanced(r) /\ r.log = d.log /\ NoLess(d, r)
  BY <1>1, <1>2, BalanceKept DEF SetsFree
<1>4. LedgerPart(d, made, k + 1)
  BY LedgerLater
<1> QED
  BY <1>2, <1>3, <1>4 DEF LedgerPart

(* The trades of an accepted order, settled after its funds were set aside: *)
(* they are accounted for, and no other account has less available.         *)
LEMMA LedgerSettled ==
  ASSUME RuntimeConstants, Inductive, NEW id \in OrderIds, NEW o \in Orders,
         NEW outcome, outcome = Placed(active, id, o, sequence + 1),
         NEW aside, aside = Reserve(db, id, o), aside.ok,
         NEW trades, trades = Trades(id, o, outcome),
         NEW r, r = FoldLeft(Settle, aside, trades), r.ok
  PROVE  /\ LedgerPart(r, executed \cup ToSet(trades), sequence + 1)
         /\ \A b \in Accounts, s \in Assets :
              b # o.user => r.avail[b][s] >= db.avail[b][s]
<1>1. /\ db \in View /\ db.ok /\ Balanced(db)
      /\ Once(db.log, executed) /\ Dated(executed, sequence) /\ sequence \in Nat
  BY Parts3 DEF LedgerPart, EngineKeeps, Inductive, RuntimeInv, TypeOK
<1>2. aside \in View /\ SetsAside(db, aside, o.user)
  BY <1>1, OrderReserved
<1>3. Balanced(aside) /\ aside.log = db.log
  BY <1>1, <1>2, BalanceKept DEF SetsAside
<1>4. PICK n \in Nat :
        /\ trades \in [1..n -> TradeExecuted]
        /\ \A a \in 1..n : trades[a].seq = sequence + 1
        /\ \A a, b \in 1..n : trades[a] = trades[b] => a = b
  BY TradesTyped
<1>5. Settled(aside, r, trades, n)
  BY <1>2, <1>4, TradesSettled
<1>6. r \in View /\ Balanced(r) /\ NoLess(aside, r) /\ Logs(db.log, r.log, trades, n)
  BY <1>3, <1>5 DEF Settled
<1>7. Once(r.log, executed \cup ToSet(trades))
  <2>1. db.log \in Seq(TradeExecuted) /\ r.log \in Seq(TradeExecuted)
    BY <1>1, <1>6, ViewParts
  <2>2. PICK l, m, made, k :
          l = db.log /\ m = r.log /\ made = executed /\ k = sequence
    OBVIOUS
  <2>3. /\ l \in Seq(TradeExecuted) /\ m \in Seq(TradeExecuted) /\ k \in Nat
        /\ Logs(l, m, trades, n) /\ Once(l, made) /\ Dated(made, k)
        /\ \A a \in 1..n : trades[a].seq = k + 1
    BY <1>1, <1>4, <1>6, <2>1, <2>2
  <2>4. Once(m, made \cup ToSet(trades))
    BY ONLY <1>4, <2>3, LogGrows
  <2> QED
    BY <2>2, <2>4
<1>8. Dated(executed \cup ToSet(trades), sequence + 1)
  BY <1>1, <1>4, DatedLater
<1>9. \A b \in Accounts, s \in Assets : b # o.user => r.avail[b][s] >= db.avail[b][s]
  BY <1>2, <1>6 DEF NoLess, SetsAside
<1> QED
  BY <1>6, <1>7, <1>8, <1>9 DEF LedgerPart

(* So is a rejected order, of which only the trades are remembered.         *)
LEMMA LedgerKept ==
  ASSUME RuntimeConstants, Inductive, NEW id \in OrderIds, NEW o \in Orders,
         NEW outcome, outcome = Placed(active, id, o, sequence + 1),
         NEW trades, trades = Trades(id, o, outcome)
  PROVE  LedgerPart(db, executed \cup ToSet(trades), sequence + 1)
<1>1. /\ LedgerPart(db, executed, sequence)
      /\ Once(db.log, executed) /\ Dated(executed, sequence) /\ sequence \in Nat
  BY Parts3 DEF LedgerPart, EngineKeeps
<1>2. PICK n \in Nat :
        /\ trades \in [1..n -> TradeExecuted]
        /\ \A a \in 1..n : trades[a].seq = sequence + 1
  BY TradesTyped
<1>3. Dated(executed \cup ToSet(trades), sequence + 1)
  BY <1>1, <1>2, DatedLater
<1>4. Once(db.log, executed \cup ToSet(trades))
  BY <1>1, OnceAmongMore
<1> QED
  BY <1>1, <1>3, <1>4 DEF LedgerPart

---------------------------------------------------------------------------
(* Every step.                                                              *)

(* The formula of OnlyOwnFundsTaken.                                        *)
OwnFundsOnly ==
  \A a \in Accounts, asset \in Assets :
    db'.avail[a][asset] < db.avail[a][asset] =>
      \E c \in journal' \ journal :
        issued'[c].kind = "PLACE" /\ issued'[c].order.user = a

LEMMA NothingTaken ==
  ASSUME Inductive, \A a \in Accounts, s \in Assets : db'.avail[a][s] >= db.avail[a][s],
         db' \in View
  PROVE  OwnFundsOnly
<1>1. \A a \in Accounts, s \in Assets : db.avail[a][s] \in Nat /\ db'.avail[a][s] \in Nat
  BY OwnedTyped DEF Inductive, RuntimeInv, TypeOK
<1> SUFFICES ASSUME NEW a \in Accounts, NEW s \in Assets
             PROVE  ~(db'.avail[a][s] < db.avail[a][s])
  BY DEF OwnFundsOnly
<1>2. PICK x, y : x = db.avail[a][s] /\ y = db'.avail[a][s]
  OBVIOUS
<1>3. x \in Nat /\ y \in Nat /\ y >= x
  BY <1>1, <1>2
<1> QED
  BY <1>2, <1>3

LEMMA WithOrder ==
  ASSUME NEW id \in OrderIds, NEW o \in Orders,
         DOMAIN states \subseteq OrderIds,
         \A i \in DOMAIN states : states[i] \in Orders
  PROVE  LET new == With(states, id, o)
         IN /\ DOMAIN new = DOMAIN states \cup {id} /\ DOMAIN new \subseteq OrderIds
            /\ \A i \in DOMAIN new : new[i] \in Orders
BY DEF With

(* A rejected order changes what the engine remembers, and nothing else.    *)
LEMMA PlaceRejectedKeeps ==
  ASSUME RuntimeConstants, Inductive, NEW c \in Commands, NEW id \in OrderIds,
         NEW o \in Orders, PlaceRejected(c, id, o)
  PROVE  /\ LedgerPart(db', executed', sequence') /\ MemoryPart'
         /\ EngineKeeps(active', sequence', DOMAIN states')
         /\ OwnFundsOnly
<1>1. PICK outcome : outcome = Placed(active, id, o, sequence + 1)
  OBVIOUS
<1>2. PICK trades : trades = Trades(id, o, outcome)
  OBVIOUS
<1>3. /\ ~Accepts(outcome.code)
      /\ sequence' = sequence + 1 /\ active' = outcome.book
      /\ executed' = executed \cup ToSet(trades)
      /\ reserved' = reserved \cup {id}
      /\ db' = db /\ journal' = journal /\ states' = states /\ results' = results
  BY <1>1, <1>2 DEF PlaceRejected, EngineTakes
<1>4. LedgerPart(db, executed \cup ToSet(trades), sequence + 1)
  BY <1>1, <1>2, LedgerKept
<1>5. EngineKeeps(outcome.book, sequence + 1, DOMAIN states)
  BY <1>1, <1>3, PlacedKeeps
<1>6. MemoryPart
  BY Parts3
<1>7. MemoryPart'
  BY <1>3, <1>6 DEF MemoryPart
<1>8. db' \in View /\ \A a \in Accounts, s \in Assets : db'.avail[a][s] >= db.avail[a][s]
  <2>1. \A a \in Accounts, s \in Assets : db.avail[a][s] \in Nat
    BY OwnedTyped DEF Inductive, RuntimeInv, TypeOK
  <2>2. db \in View
    BY DEF Inductive, RuntimeInv, TypeOK
  <2> QED
    BY <1>3, <2>1, <2>2
<1> QED
  BY <1>3, <1>4, <1>5, <1>7, <1>8, NothingTaken

(* An accepted order settles its trades, or its transaction rolls back.     *)
LEMMA PlaceAcceptedKeeps ==
  ASSUME RuntimeConstants, Inductive, NEW c \in Commands, NEW id \in OrderIds,
         NEW o \in Orders, NEW failure, PlaceAccepted(c, id, o, failure)
  PROVE  /\ LedgerPart(db', executed', sequence') /\ MemoryPart'
         /\ EngineKeeps(active', sequence', DOMAIN states')
         /\ OwnFundsOnly
<1>1. PICK outcome : outcome = Placed(active, id, o, sequence + 1)
  OBVIOUS
<1>2. PICK trades : trades = Trades(id, o, outcome)
  OBVIOUS
<1>3. PICK aside : aside = Reserve(db, id, o)
  OBVIOUS
<1>4. PICK view : view = FoldLeft(Settle, aside, trades)
  OBVIOUS
<1>5. /\ aside.ok
      /\ sequence' = sequence + 1 /\ active' = outcome.book
      /\ executed' = executed \cup ToSet(trades)
      /\ reserved' = reserved \cup {id}
      /\ states' = With(states, id, o)
      /\ c \notin journal /\ issued' = With(issued, c, PlaceOf(id, o))
  BY <1>1, <1>2, <1>3 DEF PlaceAccepted, EngineTakes, Sent
<1>6. Ends(c, view, failure)
  BY <1>1, <1>2, <1>3, <1>4 DEF PlaceAccepted
<1>7. EngineKeeps(active', sequence', DOMAIN states') /\ MemoryPart'
  <2>1. MemoryPart
    BY Parts3
  <2>2. /\ DOMAIN states' = DOMAIN states \cup {id} /\ DOMAIN states' \subseteq OrderIds
        /\ \A i \in DOMAIN states' : states'[i] \in Orders
    BY <1>5, <2>1, WithOrder DEF MemoryPart
  <2>3. EngineKeeps(outcome.book, sequence + 1, DOMAIN states')
    BY <1>1, <2>2, PlacedKeeps
  <2>4. journal' \subseteq Commands /\ results' \subseteq Commands
    BY <1>6, <2>1 DEF Ends, MemoryPart
  <2> QED
    BY <1>5, <2>1, <2>2, <2>3, <2>4 DEF MemoryPart
<1>8. CASE view.ok /\ db' = view /\ journal' = journal \cup {c}
  <2>1. /\ LedgerPart(view, executed \cup ToSet(trades), sequence + 1)
        /\ \A b \in Accounts, s \in Assets :
             b # o.user => view.avail[b][s] >= db.avail[b][s]
    BY <1>1, <1>2, <1>3, <1>4, <1>5, <1>8, LedgerSettled
  <2>2. issued'[c].kind = "PLACE" /\ issued'[c].order = o
    <3>1. issued'[c] = PlaceOf(id, o)
      BY <1>5 DEF With
    <3> QED
      BY <3>1 DEF PlaceOf
  <2>3. \A b \in Accounts, s \in Assets :
          db.avail[b][s] \in Nat /\ view.avail[b][s] \in Nat
    BY <2>1, OwnedTyped DEF LedgerPart, Inductive, RuntimeInv, TypeOK
  <2>4. ASSUME NEW a \in Accounts, NEW s \in Assets,
               db'.avail[a][s] < db.avail[a][s]
        PROVE  a = o.user
    <3>1. PICK x, y : x = db.avail[a][s] /\ y = view.avail[a][s]
      OBVIOUS
    <3>2. x \in Nat /\ y \in Nat /\ y < x /\ (a # o.user => y >= x)
      BY <1>8, <2>1, <2>3, <2>4, <3>1
    <3> QED
      BY <3>2
  <2>5. c \in journal' \ journal
    BY <1>5, <1>8
  <2>6. OwnFundsOnly
    BY <2>2, <2>4, <2>5 DEF OwnFundsOnly
  <2> QED
    BY <1>5, <1>7, <1>8, <2>1, <2>6
<1>9. CASE db' = db
  <2>1. LedgerPart(db, executed \cup ToSet(trades), sequence + 1)
    BY <1>1, <1>2, LedgerKept
  <2>2. db' \in View /\ \A a \in Accounts, s \in Assets : db'.avail[a][s] >= db.avail[a][s]
    <3>1. \A a \in Accounts, s \in Assets : db.avail[a][s] \in Nat
      BY OwnedTyped DEF Inductive, RuntimeInv, TypeOK
    <3>2. db \in View
      BY DEF Inductive, RuntimeInv, TypeOK
    <3> QED
      BY <1>9, <3>1, <3>2
  <2> QED
    BY <1>5, <1>7, <1>9, <2>1, <2>2, NothingTaken
<1> QED
  BY <1>6, <1>8, <1>9 DEF Ends

(* A cancelled order releases its reservation, or its transaction rolls     *)
(* back.                                                                    *)
LEMMA CancelKeeps ==
  ASSUME RuntimeConstants, Inductive, NEW c \in Commands, NEW id \in OrderIds,
         NEW failure, Cancel(c, id, failure)
  PROVE  /\ LedgerPart(db', executed', sequence') /\ MemoryPart'
         /\ EngineKeeps(active', sequence', DOMAIN states')
         /\ OwnFundsOnly
<1>1. PICK view : view = IF id \in DOMAIN states THEN Release(db, id, states[id]) ELSE db
  OBVIOUS
<1>2. /\ sequence' = sequence + 1 /\ active' = Cancelled(active, id).book
      /\ executed' = executed /\ reserved' = reserved /\ states' = states
      /\ Ends(c, view, failure)
  BY <1>1 DEF Cancel, EngineTakes
<1>3. /\ LedgerPart(db, executed, sequence) /\ MemoryPart
      /\ sequence \in Nat /\ db \in View
  BY Parts3 DEF EngineKeeps, LedgerPart
<1>4. EngineKeeps(active', sequence', DOMAIN states')
  BY <1>2, CancelledKeeps
<1>5. MemoryPart'
  BY <1>2, <1>3 DEF MemoryPart, Ends
<1>6. LedgerPart(db, executed, sequence + 1) /\ NoLess(db, db)
  <2>1. \A a \in Accounts, s \in Assets : db.avail[a][s] \in Nat
    BY <1>3, OwnedTyped
  <2> QED
    BY <1>3, <2>1, LedgerLater DEF NoLess
<1>7. view.ok => LedgerPart(view, executed, sequence + 1) /\ NoLess(db, view)
  <2>1. CASE id \in DOMAIN states
    <3>1. PICK o \in Orders : o = states[id]
      BY <1>3, <2>1 DEF MemoryPart
    <3>2. view = Release(db, id, o)
      BY <1>1, <2>1, <3>1
    <3> QED
      BY <1>3, <3>2, LedgerReleased
  <2>2. CASE id \notin DOMAIN states
    BY <1>1, <1>6, <2>2
  <2> QED
    BY <2>1, <2>2
<1>8. LedgerPart(db', executed', sequence') /\ NoLess(db, db')
  <2>1. db' = db \/ (view.ok /\ db' = view)
    BY <1>2 DEF Ends
  <2> QED
    BY <1>2, <1>6, <1>7, <2>1
<1>9. OwnFundsOnly
  BY <1>8, NothingTaken DEF LedgerPart, NoLess
<1> QED
  BY <1>4, <1>5, <1>8, <1>9

(* Cancelling an order that is not active only counts.                      *)
LEMMA CancelRejectedKeeps ==
  ASSUME RuntimeConstants, Inductive, NEW c \in Commands, NEW id \in OrderIds,
         CancelRejected(c, id)
  PROVE  /\ LedgerPart(db', executed', sequence') /\ MemoryPart'
         /\ EngineKeeps(active', sequence', DOMAIN states')
         /\ OwnFundsOnly
<1>1. /\ sequence' = sequence + 1 /\ active' = Cancelled(active, id).book
      /\ db' = db /\ journal' = journal /\ reserved' = reserved
      /\ states' = states /\ results' = results /\ executed' = executed
  BY DEF CancelRejected, EngineTakes
<1>2. /\ LedgerPart(db, executed, sequence) /\ MemoryPart
      /\ sequence \in Nat /\ db \in View
  BY Parts3 DEF EngineKeeps, LedgerPart
<1>3. EngineKeeps(active', sequence', DOMAIN states')
  BY <1>1, CancelledKeeps
<1>4. LedgerPart(db', executed', sequence') /\ MemoryPart'
  BY <1>1, <1>2, LedgerLater DEF MemoryPart
<1>5. \A a \in Accounts, s \in Assets : db'.avail[a][s] >= db.avail[a][s]
  <2>1. \A a \in Accounts, s \in Assets : db.avail[a][s] \in Nat
    BY <1>2, OwnedTyped
  <2> QED
    BY <1>1, <2>1
<1> QED
  BY <1>1, <1>2, <1>3, <1>4, <1>5, NothingTaken

(* Neither a result that is answered again nor a step of others changes     *)
(* anything of this.                                                        *)
LEMMA IdleKeeps ==
  ASSUME Inductive, (\E c \in Commands : Replay(c)) \/ UNCHANGED vars
  PROVE  /\ LedgerPart(db', executed', sequence') /\ MemoryPart'
         /\ EngineKeeps(active', sequence', DOMAIN states')
         /\ OwnFundsOnly
<1>1. /\ db' = db /\ sequence' = sequence /\ active' = active /\ reserved' = reserved
      /\ states' = states /\ results' = results /\ executed' = executed
      /\ journal \subseteq Commands => journal' \subseteq Commands
  BY DEF Replay, vars
<1>2. /\ LedgerPart(db, executed, sequence) /\ MemoryPart
      /\ EngineKeeps(active, sequence, DOMAIN states) /\ db \in View
  BY Parts3 DEF LedgerPart
<1>3. MemoryPart'
  BY <1>1, <1>2 DEF MemoryPart
<1>4. \A a \in Accounts, s \in Assets : db'.avail[a][s] >= db.avail[a][s]
  <2>1. \A a \in Accounts, s \in Assets : db.avail[a][s] \in Nat
    BY <1>2, OwnedTyped
  <2> QED
    BY <1>1, <2>1
<1> QED
  BY <1>1, <1>2, <1>3, <1>4, NothingTaken

LEMMA RuntimeStep ==
  ASSUME RuntimeConstants, Inductive, [Next]_vars
  PROVE  Inductive' /\ OwnFundsOnly
<1>1. /\ LedgerPart(db', executed', sequence') /\ MemoryPart'
      /\ EngineKeeps(active', sequence', DOMAIN states')
      /\ OwnFundsOnly
  BY PlaceRejectedKeeps, PlaceAcceptedKeeps, CancelKeeps, CancelRejectedKeeps,
     IdleKeeps DEF Next
<1>2. Inductive'
  BY <1>1 DEF Inductive, RuntimeInv, TypeOK, TradesAccounted, TotalsFollowTrades,
       LoggedTradesExecutedOnce, Once, Dated, LedgerPart, MemoryPart, Balanced,
       Owned, Held, EngineKeeps
<1> QED
  BY <1>1, <1>2

LEMMA RuntimeIsInductive ==
  ASSUME RuntimeConstants
  PROVE  Spec => []Inductive
<1>1. Init => Inductive
  BY RuntimeInit
<1>2. Inductive /\ [Next]_vars => Inductive'
  BY RuntimeStep
<1> QED
  BY <1>1, <1>2, PTL DEF Spec

(* The balances, the log, the engine's memory and its book stay of a piece: *)
(* what RuntimeInv says, which the two theorems below rest on.              *)
THEOREM RuntimeInvariant ==
  ASSUME RuntimeConstants
  PROVE  Spec => []RuntimeInv
<1>1. Inductive => RuntimeInv
  BY DEF Inductive
<1> QED
  BY <1>1, RuntimeIsInductive, PTL

(* TradesAccounted: however commands fail, are retried or reuse an order    *)
(* id, what every account owns of every asset is what it started with plus  *)
(* the trades of the committed log, and that log holds trades the engine    *)
(* executed, each once (settleEvents, applyTrade, release).                 *)
THEOREM TradesAreAccounted ==
  ASSUME RuntimeConstants
  PROVE  Spec => []TradesAccounted
<1>1. RuntimeInv => TradesAccounted
  BY DEF RuntimeInv
<1> QED
  BY <1>1, RuntimeInvariant, PTL

(* OnlyOwnFundsTaken: a step that leaves an account with less available     *)
(* commits an order that this account's own user placed.                    *)
THEOREM FundsAreTakenByOwner ==
  ASSUME RuntimeConstants
  PROVE  Spec => OnlyOwnFundsTaken
<1>1. Inductive /\ [Next]_vars => [OwnFundsOnly]_vars
  BY RuntimeStep
<1>2. Spec => [][OwnFundsOnly]_vars
  BY <1>1, RuntimeIsInductive, PTL DEF Spec
<1> QED
  BY <1>2 DEF OnlyOwnFundsTaken, OwnFundsOnly
=============================================================================
