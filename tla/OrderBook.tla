----------------------------- MODULE OrderBook -----------------------------
(***************************************************************************)
(* The pure part of MatchingEngine: how one command changes the book of one *)
(* instrument.  A book maps the ids of the active orders to                 *)
(*   [user, side, price, left, seq]                                         *)
(* where `left' is the remaining quantity and `seq' the engine's sequence   *)
(* when the order was placed.  Prices and quantities are naturals.  The     *)
(* code keeps the active orders and, per side, the price levels; an order   *)
(* without price is active but in no level.                                 *)
(***************************************************************************)
EXTENDS Integers, SequencesExt

CONSTANTS NoPrice   \* price of a MARKET order

Sides == {"BUY", "SELL"}

(* Mutated forms, named for the bug they introduce, stand before the        *)
(* definition they mutate; no other definition uses them.                   *)
CrossesStrictly(o, m) ==
  \/ o.price = NoPrice
  \/ o.side = "BUY" /\ o.price > m.price
  \/ o.side = "SELL" /\ o.price < m.price

(* The limit of incoming order o accepts the price of maker m.              *)
Crosses(o, m) ==
  \/ o.price = NoPrice
  \/ o.side = "BUY" /\ o.price >= m.price
  \/ o.side = "SELL" /\ o.price <= m.price

LastInFirstOut(side, m, n) ==
  \/ side = "BUY" /\ m.price < n.price
  \/ side = "SELL" /\ m.price > n.price
  \/ m.price = n.price /\ m.seq > n.seq

(* Price-time priority: an order of `side' meets maker m before maker n.    *)
Before(side, m, n) ==
  \/ side = "BUY" /\ m.price < n.price
  \/ side = "SELL" /\ m.price > n.price
  \/ m.price = n.price /\ m.seq < n.seq

(* sortedOpposite: the makers that o crosses, the best one first.           *)
Queue(book, o) ==
  LET makers == {i \in DOMAIN book : /\ book[i].side # o.side
                                     /\ book[i].price # NoPrice
                                     /\ Crosses(o, book[i])}
  IN CHOOSE q \in [1..Cardinality(makers) -> makers] :
       \A a, b \in DOMAIN q : a < b => Before(o.side, book[q[a]], book[q[b]])

FillOwnOrders(book, o, s, i) ==
  LET q == IF s.left < book[i].left THEN s.left ELSE book[i].left
  IN IF s.left = 0 THEN s
     ELSE [left |-> s.left - q, self |-> FALSE,
           trades |-> Append(s.trades,
             [maker |-> i, price |-> book[i].price, qty |-> q])]

(* One turn of the matching loop: o trades with maker i at the maker's      *)
(* price, unless it is filled or has met an order of its own user.          *)
Fill(book, o, s, i) ==
  LET q == IF s.left < book[i].left THEN s.left ELSE book[i].left
  IN IF s.left = 0 \/ s.self THEN s
     ELSE IF book[i].user = o.user THEN [s EXCEPT !.self = TRUE]
     ELSE [left |-> s.left - q, self |-> FALSE,
           trades |-> Append(s.trades,
             [maker |-> i, price |-> book[i].price, qty |-> q])]

(* The matching loop.  A maker either is filled and leaves the book or      *)
(* fills o, so the queue of the start serves every turn.                    *)
Sweep(book, o) ==
  FoldLeft(LAMBDA s, i : Fill(book, o, s, i),
           [left |-> o.qty, self |-> FALSE, trades |-> << >>],
           Queue(book, o))

EnoughVolume(book, o) ==
  FoldLeft(LAMBDA n, i : n + book[i].left, 0, Queue(book, o)) >= o.qty

(* canFillFully: the other users' orders ahead of o's own cover o.          *)
CanFillFully(book, o) == Sweep(book, o).left = 0

(* The quantity that the trades took from maker i, and all that they took.  *)
TakenFrom(trades, i) ==
  SumFunctionOnSet([a \in DOMAIN trades |-> trades[a].qty],
                   {a \in DOMAIN trades : trades[a].maker = i})

Volume(trades) ==
  SumFunctionOnSet([a \in DOMAIN trades |-> trades[a].qty], DOMAIN trades)

FilledMakersStay(book, trades) ==
  [i \in DOMAIN book |->
     [book[i] EXCEPT !.left = @ - TakenFrom(trades, i)]]

FilledMakersGone(book, trades) ==
  [i \in DOMAIN book \ {t.maker : t \in ToSet(trades)} |-> book[i]]

(* The book without what the trades took; filled makers are removed.        *)
AfterTrades(book, trades) ==
  LET filled == {i \in DOMAIN book :
        \E t \in ToSet(trades) : t.maker = i /\ t.qty = book[i].left}
  IN [i \in DOMAIN book \ filled |->
        [book[i] EXCEPT !.left = @ - TakenFrom(trades, i)]]

Resting(o, left, seq) ==
  [user |-> o.user, side |-> o.side, price |-> o.price, left |-> left,
   seq |-> seq]

Without(book, id) == [i \in DOMAIN book \ {id} |-> book[i]]

With(book, id, order) ==
  [i \in DOMAIN book \cup {id} |-> IF i = id THEN order ELSE book[i]]

(* The orders of a book have sequences of their own, none later than n.     *)
OwnSequences(book, n) ==
  /\ \A i \in DOMAIN book : book[i].seq <= n
  /\ \A i, j \in DOMAIN book : i # j => book[i].seq # book[j].seq

(* What a command returns and leaves: the terminal event, the trades, the   *)
(* order's remaining quantity, and the book.                                *)
Outcome(code, trades, left, book) ==
  [code |-> code, trades |-> trades, left |-> left, book |-> book]

(* place.  SELF_TRADE returns in the middle of the loop, when the trades    *)
(* before it have changed the makers.  A MARKET GTC remainder is entered    *)
(* into activeOrders before addToBook fails on its missing price.           *)
Placed(book, id, o, seq) ==
  LET s     == Sweep(book, o)
      after == AfterTrades(book, s.trades)
      rests == With(after, id, Resting(o, s.left, seq))
  IN CASE id \in DOMAIN book -> Outcome("INVALID_ORDER", << >>, o.qty, book)
       [] id \notin DOMAIN book /\ o.tif = "FOK" /\ ~CanFillFully(book, o) ->
            Outcome("FOK_NOT_FILLED", << >>, o.qty, book)
       [] OTHER ->
            IF s.self THEN Outcome("SELF_TRADE", s.trades, s.left, after)
            ELSE IF s.left = 0 THEN Outcome("FILLED", s.trades, 0, after)
            ELSE IF o.tif # "GTC"
                 THEN Outcome("REMAINDER_CANCELLED", s.trades, s.left, after)
            ELSE IF o.price = NoPrice
                 THEN Outcome("THROWN", s.trades, s.left, rests)
            ELSE Outcome("RESTED", s.trades, s.left, rests)

(* cancel.                                                                  *)
Cancelled(book, id) ==
  IF id \in DOMAIN book
  THEN Outcome("CANCELLED", << >>, book[id].left, Without(book, id))
  ELSE Outcome("ORDER_NOT_FOUND", << >>, 0, book)

(* The outcomes without an ORDER_REJECTED event and without an exception.   *)
Accepts(code) == code \in {"FILLED", "REMAINDER_CANCELLED", "RESTED",
                           "CANCELLED"}
=============================================================================
