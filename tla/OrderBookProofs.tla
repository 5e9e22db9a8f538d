-------------------------- MODULE OrderBookProofs --------------------------
(***************************************************************************)
(* What OrderBook does to one book, for every book and every order: the     *)
(* queue of an incoming order lists the makers it crosses, each once and    *)
(* the best one first; the matching loop takes them in that order; and the  *)
(* book afterwards is the old one less what the trades took.  The engine    *)
(* (MatchingProofs) and the settlement of its trades (TradingRuntimeProofs) *)
(* rest on these lemmas.                                                    *)
(***************************************************************************)
EXTENDS OrderBook, FiniteSums, SequenceTheorems

---------------------------------------------------------------------------
(* Finite sets in a strict total order, given as the set of its pairs.      *)
StrictOrder(R, S) ==
  /\ \A x \in S : <<x, x>> \notin R
  /\ \A x, y, z \in S : <<x, y>> \in R /\ <<y, z>> \in R => <<x, z>> \in R
  /\ \A x, y \in S : x = y \/ <<x, y>> \in R \/ <<y, x>> \in R

Sorted(q, R) == \A a, b \in DOMAIN q : a < b => <<q[a], q[b]>> \in R

(* A finite set that is not empty has a last element.                       *)
LEMMA LastOfSet ==
  ASSUME NEW S, IsFiniteSet(S), NEW R, StrictOrder(R, S), S # {}
  PROVE  \E m \in S : \A x \in S \ {m} : <<x, m>> \in R
<1> DEFINE Good == {s \in SUBSET S :
                      s = {} \/ \E m \in s : \A x \in s \ {m} : <<x, m>> \in R}
<1>1. ASSUME NEW s \in SUBSET S,
             \A t \in SUBSET S : Cardinality(t) < Cardinality(s) => t \in Good
      PROVE  s \in Good
  <2>1. CASE s = {}
    BY <2>1
  <2>2. CASE s # {}
    <3>1. PICK x \in s : TRUE
      BY <2>2
    <3>2. s \ {x} \in SUBSET S /\ Cardinality(s \ {x}) < Cardinality(s)
      BY FS_Subset, SmallerWithout
    <3>3. s \ {x} \in Good
      BY <1>1, <3>2
    <3>4. CASE s \ {x} = {}
      <4>1. \A y \in s \ {x} : <<y, x>> \in R
        BY <3>4
      <4> QED
        BY <4>1
    <3>5. CASE s \ {x} # {}
      <4>1. PICK m \in s \ {x} : \A y \in (s \ {x}) \ {m} : <<y, m>> \in R
        BY <3>3, <3>5
      <4>2. CASE <<x, m>> \in R
        <5>1. \A y \in s \ {m} : <<y, m>> \in R
          BY <4>1, <4>2
        <5> QED
          BY <5>1
      <4>3. CASE <<m, x>> \in R
        <5>1. \A y \in s \ {x} : <<y, x>> \in R
          BY <4>1, <4>3 DEF StrictOrder
        <5> QED
          BY <5>1
      <4> QED
        BY <4>2, <4>3 DEF StrictOrder
    <3> QED
      BY <3>4, <3>5
  <2> QED
    BY <2>1, <2>2
<1>2. SUBSET S \subseteq Good
  <2> HIDE DEF Good
  <2> QED
    BY <1>1, PartsInduction
<1> QED
  BY <1>2

(* Its elements can be listed in their order.                               *)
LEMMA SortedListing ==
  ASSUME NEW S, IsFiniteSet(S), NEW R, StrictOrder(R, S)
  PROVE  \E q \in [1..Cardinality(S) -> S] : Sorted(q, R)
<1> DEFINE Good == {s \in SUBSET S :
                      \E q \in [1..Cardinality(s) -> s] : Sorted(q, R)}
<1>1. ASSUME NEW s \in SUBSET S,
             \A t \in SUBSET S : Cardinality(t) < Cardinality(s) => t \in Good
      PROVE  s \in Good
  <2>1. IsFiniteSet(s) /\ Cardinality(s) \in Nat
    BY FS_Subset, FS_CardinalityType
  <2>2. CASE s = {}
    <3> DEFINE q == [a \in 1..Cardinality(s) |-> a]
    <3>1. 1..Cardinality(s) = {}
      BY <2>2, FS_EmptySet
    <3>2. q \in [1..Cardinality(s) -> s] /\ Sorted(q, R)
      BY <3>1 DEF Sorted
    <3> QED
      BY <3>2
  <2>3. CASE s # {}
    <3>1. StrictOrder(R, s)
      BY DEF StrictOrder
    <3>2. PICK m \in s : \A x \in s \ {m} : <<x, m>> \in R
      BY <2>1, <2>3, <3>1, LastOfSet
    <3> DEFINE rest == s \ {m}
               n == Cardinality(rest)
    <3>3. /\ rest \in SUBSET S /\ n < Cardinality(s)
          /\ n \in Nat /\ Cardinality(s) = n + 1
      BY <2>1, SmallerWithout
    <3>4. PICK q \in [1..n -> rest] : Sorted(q, R)
      BY <1>1, <3>3
    <3> DEFINE p == [a \in 1..(n + 1) |-> IF a = n + 1 THEN m ELSE q[a]]
    <3> HIDE DEF n
    <3>5. \A a \in 1..n : a # n + 1 /\ a \in 1..(n + 1) /\ q[a] \in rest
      BY <3>3
    <3>6. \A a \in 1..(n + 1) : a = n + 1 \/ a \in 1..n
      BY <3>3
    <3>7. p \in [1..(n + 1) -> s]
      BY <3>5, <3>6
    <3>8. ASSUME NEW a \in 1..(n + 1), NEW b \in 1..(n + 1), a < b
          PROVE  <<p[a], p[b]>> \in R
      <4>1. a \in 1..n
        BY <3>3, <3>8
      <4>2. CASE b = n + 1
        BY <3>2, <3>5, <4>1, <4>2
      <4>3. CASE b \in 1..n
        BY <3>4, <3>5, <3>8, <4>1, <4>3 DEF Sorted
      <4> QED
        BY <3>6, <4>2, <4>3
    <3>9. Sorted(p, R)
      BY <3>8 DEF Sorted
    <3> QED
      BY <3>3, <3>7, <3>9
  <2> QED
    BY <2>2, <2>3
<1>2. SUBSET S \subseteq Good
  <2> HIDE DEF Good
  <2> QED
    BY <1>1, PartsInduction
<1> QED
  BY <1>2

(* A sorted list of as many elements lists all of them, each once.          *)
LEMMA SortedIsComplete ==
  ASSUME NEW S, IsFiniteSet(S), NEW R, StrictOrder(R, S),
         NEW q \in [1..Cardinality(S) -> S], Sorted(q, R)
  PROVE  /\ \A a, b \in 1..Cardinality(S) : q[a] = q[b] => a = b
         /\ \A x \in S : \E a \in 1..Cardinality(S) : q[a] = x
<1> DEFINE n == Cardinality(S)
<1>1. n \in Nat
  BY FS_CardinalityType
<1>2. \A a, b \in 1..n : q[a] = q[b] => a = b
  <2> HIDE DEF n
  <2> SUFFICES ASSUME NEW a \in 1..n, NEW b \in 1..n, q[a] = q[b], a < b
               PROVE  FALSE
    BY <1>1
  <2>1. DOMAIN q = 1..n /\ q[a] \in S
    BY DEF n
  <2> QED
    BY <2>1 DEF Sorted, StrictOrder
<1>3. q \in Injection(1..n, S)
  BY <1>2 DEF Injection, IsInjective
<1>4. IsFiniteSet(1..n) /\ Cardinality(1..n) = n
  <2> HIDE DEF n
  <2> QED
    BY <1>1, FS_Interval
<1>5. q \in Surjection(1..n, S)
  BY <1>3, <1>4, FS_Injection
<1>6. \A x \in S : \E a \in 1..n : q[a] = x
  BY <1>5 DEF Surjection
<1> QED
  BY <1>2, <1>6

---------------------------------------------------------------------------
(* The queue of an incoming order.                                          *)

Makers(book, o) ==
  {i \in DOMAIN book : /\ book[i].side # o.side
                       /\ book[i].price # NoPrice
                       /\ Crosses(o, book[i])}

Priority(book, o) ==
  {r \in Makers(book, o) \X Makers(book, o) :
     Before(o.side, book[r[1]], book[r[2]])}

(* An active order, and an incoming one, whoever its user is.               *)
IsEntry(r) ==
  /\ r = [user |-> r.user, side |-> r.side, price |-> r.price,
          left |-> r.left, seq |-> r.seq]
  /\ r.side \in Sides
  /\ r.price \in Nat \cup {NoPrice}
  /\ r.left \in Nat \ {0} /\ r.seq \in Nat \ {0}

Incoming(o) ==
  /\ o.side \in Sides
  /\ o.price \in Nat \cup {NoPrice}
  /\ o.qty \in Nat \ {0}

(* A book as the engine leaves it.                                          *)
Book(book, n) ==
  /\ IsFiniteSet(DOMAIN book)
  /\ \A i \in DOMAIN book : IsEntry(book[i])
  /\ OwnSequences(book, n)

(* q lists all makers that o crosses, each once, the best one first.        *)
Listed(q, book, o) ==
  /\ q \in [1..Cardinality(Makers(book, o)) -> Makers(book, o)]
  /\ Cardinality(Makers(book, o)) \in Nat
  /\ \A a, b \in DOMAIN q : a < b => Before(o.side, book[q[a]], book[q[b]])
  /\ \A a, b \in DOMAIN q : q[a] = q[b] => a = b
  /\ \A i \in Makers(book, o) : \E a \in DOMAIN q : q[a] = i

(* What is known of a maker.                                                *)
LEMMA MakerTyped ==
  ASSUME NEW book, NEW n, Book(book, n), NEW o, Incoming(o)
  PROVE  \A i \in Makers(book, o) :
           /\ i \in DOMAIN book
           /\ book[i].price \in Nat
           /\ book[i].seq \in Nat
           /\ book[i].left \in Nat /\ book[i].left > 0
           /\ book[i].side \in Sides /\ book[i].side # o.side
<1> SUFFICES ASSUME NEW i \in Makers(book, o)
             PROVE  /\ i \in DOMAIN book
                    /\ book[i].price \in Nat
                    /\ book[i].seq \in Nat
                    /\ book[i].left \in Nat /\ book[i].left > 0
                    /\ book[i].side \in Sides /\ book[i].side # o.side
  OBVIOUS
<1>1. /\ i \in DOMAIN book /\ IsEntry(book[i])
      /\ book[i].price # NoPrice /\ book[i].side # o.side
  BY DEF Makers, Book
<1>2. /\ book[i].price \in Nat \cup {NoPrice}
      /\ book[i].seq \in Nat \ {0} /\ book[i].left \in Nat \ {0}
      /\ book[i].side \in Sides
  BY <1>1 DEF IsEntry
<1>3. book[i].price \in Nat
  BY <1>1, <1>2
<1>4. book[i].left \in Nat /\ book[i].left > 0 /\ book[i].seq \in Nat
  BY <1>2
<1> QED
  BY <1>1, <1>2, <1>3, <1>4

(* Price-time priority is a strict total order of the makers.               *)
LEMMA PriorityIsStrict ==
  ASSUME NEW book, NEW n, Book(book, n), NEW o, Incoming(o)
  PROVE  StrictOrder(Priority(book, o), Makers(book, o))
<1> DEFINE M == Makers(book, o)
           P == [i \in M |-> book[i].price]
           T == [i \in M |-> book[i].seq]
           R == Priority(book, o)
<1>1. \A i \in M : P[i] \in Nat /\ T[i] \in Nat
  BY MakerTyped
<1>2. \A i, j \in M : i # j => T[i] # T[j]
  BY DEF Book, OwnSequences, Makers
<1>3. \A i, j \in M : <<i, j>> \in R <=>
        \/ o.side = "BUY" /\ P[i] < P[j]
        \/ o.side = "SELL" /\ P[i] > P[j]
        \/ (P[i] = P[j] /\ T[i] < T[j])
  BY DEF Priority, Before
<1>4. o.side = "BUY" \/ o.side = "SELL"
  BY DEF Incoming, Sides
<1> HIDE DEF M, P, T, R
<1>5. o.side = "BUY" =>
             \A i, j \in M : <<i, j>> \in R <=>
               P[i] < P[j] \/ (P[i] = P[j] /\ T[i] < T[j])
  BY <1>3
<1>6. o.side = "SELL" =>
             \A i, j \in M : <<i, j>> \in R <=>
               P[i] > P[j] \/ (P[i] = P[j] /\ T[i] < T[j])
  BY <1>3
<1>7. \A i \in M : <<i, i>> \notin R
  BY <1>1, <1>3
<1>8. \A i, j, k \in M : <<i, j>> \in R /\ <<j, k>> \in R => <<i, k>> \in R
  <2> SUFFICES ASSUME NEW i \in M, NEW j \in M, NEW k \in M,
                      <<i, j>> \in R, <<j, k>> \in R
               PROVE  <<i, k>> \in R
    OBVIOUS
  <2>1. CASE o.side = "BUY"
    <3>1. P[i] < P[j] \/ (P[i] = P[j] /\ T[i] < T[j])
      BY <1>5, <2>1
    <3>2. P[j] < P[k] \/ (P[j] = P[k] /\ T[j] < T[k])
      BY <1>5, <2>1
    <3>3. P[i] < P[k] \/ (P[i] = P[k] /\ T[i] < T[k])
      BY <1>1, <3>1, <3>2
    <3> QED
      BY <1>5, <2>1, <3>3
  <2>2. CASE o.side = "SELL"
    <3>1. P[i] > P[j] \/ (P[i] = P[j] /\ T[i] < T[j])
      BY <1>6, <2>2
    <3>2. P[j] > P[k] \/ (P[j] = P[k] /\ T[j] < T[k])
      BY <1>6, <2>2
    <3>3. P[i] > P[k] \/ (P[i] = P[k] /\ T[i] < T[k])
      BY <1>1, <3>1, <3>2
    <3> QED
      BY <1>6, <2>2, <3>3
  <2> QED
    BY <1>4, <2>1, <2>2
<1>9. \A i, j \in M : i = j \/ <<i, j>> \in R \/ <<j, i>> \in R
  <2> SUFFICES ASSUME NEW i \in M, NEW j \in M, i # j
               PROVE  <<i, j>> \in R \/ <<j, i>> \in R
    OBVIOUS
  <2>1. P[i] < P[j] \/ P[i] > P[j] \/ P[i] = P[j]
    BY <1>1
  <2>2. T[i] < T[j] \/ T[j] < T[i]
    BY <1>1, <1>2
  <2> QED
    BY <1>1, <1>3, <1>4, <2>1, <2>2
<1> QED
  BY <1>7, <1>8, <1>9 DEF StrictOrder, M, R

(* The makers are listed in the queue.                                      *)
LEMMA QueueLists ==
  ASSUME NEW book, NEW n, Book(book, n), NEW o, Incoming(o)
  PROVE  Listed(Queue(book, o), book, o)
<1> DEFINE M == Makers(book, o)
           R == Priority(book, o)
           m == Cardinality(M)
           Fits(q) == \A a, b \in DOMAIN q : a < b => Before(o.side, book[q[a]], book[q[b]])
<1>1. IsFiniteSet(M) /\ m \in Nat
  BY FS_Subset, FS_CardinalityType DEF Book, Makers
<1>2. StrictOrder(R, M)
  BY PriorityIsStrict
<1>3. \A q \in [1..m -> M] : Fits(q) <=> Sorted(q, R)
  BY DEF Sorted, Priority
<1>4. Queue(book, o) = CHOOSE q \in [1..m -> M] : Fits(q)
  BY DEF Queue, Makers
<1>5. \E q \in [1..m -> M] : Fits(q)
  <2>1. \E q \in [1..m -> M] : Sorted(q, R)
    <3> HIDE DEF M, R
    <3> QED
      BY <1>1, <1>2, SortedListing
  <2> QED
    BY <1>3, <2>1
<1> DEFINE q == Queue(book, o)
<1>6. q \in [1..m -> M] /\ Fits(q)
  <2> HIDE DEF M, Fits, m
  <2> QED
    BY <1>4, <1>5
<1>7. Sorted(q, R)
  BY <1>3, <1>6
<1>8. /\ \A a, b \in 1..m : q[a] = q[b] => a = b
      /\ \A x \in M : \E a \in 1..m : q[a] = x
  <2>1. q \in [1..m -> M]
    BY <1>6
  <2> HIDE DEF M, R, q
  <2> QED
    BY <1>1, <1>2, <1>7, <2>1, SortedIsComplete
<1>9. DOMAIN q = 1..m
  BY <1>6
<1> QED
  BY <1>1, <1>6, <1>8, <1>9 DEF Listed

---------------------------------------------------------------------------
(* The matching loop: FoldLeft takes the last turn first, so its recursion  *)
(* is over the sets of turns still to take.                                 *)

Begun(o) == [left |-> o.qty, self |-> FALSE, trades |-> << >>]

Turn(g, book, o, q, s) ==
  IF s = {} THEN Begun(o)
  ELSE Fill(book, o, g[s \ {Max(s)}], q[Max(s)])

Turns(g, book, o, q, U) == g = [s \in U |-> Turn(g, book, o, q, s)]

(* The loop is what the chosen solution of the recursion has at the whole   *)
(* queue.                                                                   *)
LEMMA SweepIsChosen ==
  ASSUME NEW book, NEW o
  PROVE  Sweep(book, o) =
           (CHOOSE g : Turns(g, book, o, Queue(book, o), SUBSET DOMAIN Queue(book, o)))
             [DOMAIN Queue(book, o)]
<1> DEFINE q == Queue(book, o)
<1>1. Sweep(book, o) = FoldLeft(LAMBDA s, i : Fill(book, o, s, i), Begun(o), q)
  BY DEF Sweep, Begun
<1> HIDE DEF q
<1>2. FoldLeft(LAMBDA s, i : Fill(book, o, s, i), Begun(o), q) =
        (CHOOSE g : Turns(g, book, o, q, SUBSET DOMAIN q))[DOMAIN q]
  BY Zenon DEF FoldLeft, MapThenFoldSet, Turns, Turn
<1> QED
  BY <1>1, <1>2 DEF q

(* The recursion has a solution.                                            *)
LEMMA TurnsExist ==
  ASSUME NEW book, NEW o, NEW q, NEW n \in Nat, DOMAIN q = 1..n
  PROVE  \E g : Turns(g, book, o, q, SUBSET (1..n))
<1> DEFINE S == 1..n
           Solved(m) == \E g : Turns(g, book, o, q, Upto(S, m))
           Fails == {m \in Nat : ~Solved(m)}
<1>1. IsFiniteSet(S) /\ Cardinality(S) \in Nat
  BY FS_Interval, FS_CardinalityType
<1>2. \A s \in SUBSET S : /\ IsFiniteSet(s) /\ Cardinality(s) \in Nat
                          /\ Cardinality(s) <= Cardinality(S)
                          /\ s # {} => Max(s) \in s
  <2>1. \A s \in SUBSET S : s # {} => Max(s) \in s
    BY MaxIsLast
  <2> HIDE DEF S
  <2> QED
    BY <1>1, <2>1, FS_Subset, FS_CardinalityType
<1> HIDE DEF S
<1>3. Solved(0)
  <2> DEFINE g == [s \in Upto(S, 0) |-> Begun(o)]
  <2>1. \A s \in Upto(S, 0) : s = {}
    BY <1>2, FS_EmptySet DEF Upto
  <2>2. \A s \in Upto(S, 0) : Turn(g, book, o, q, s) = Begun(o)
    BY <2>1 DEF Turn
  <2>3. Turns(g, book, o, q, Upto(S, 0))
    BY <2>2 DEF Turns
  <2> QED
    BY <2>3
<1>4. ASSUME NEW m \in Nat, Solved(m)
      PROVE  Solved(m + 1)
  <2>1. PICK g : Turns(g, book, o, q, Upto(S, m))
    BY <1>4
  <2> DEFINE h == [s \in Upto(S, m + 1) |-> Turn(g, book, o, q, s)]
  <2>2. \A s \in Upto(S, m + 1) : s # {} => s \ {Max(s)} \in Upto(S, m)
    <3> SUFFICES ASSUME NEW s \in Upto(S, m + 1), s # {}
                 PROVE  s \ {Max(s)} \in Upto(S, m)
      OBVIOUS
    <3>1. /\ Max(s) \in s /\ s \in SUBSET S /\ IsFiniteSet(s)
          /\ Cardinality(s) \in Nat /\ Cardinality(s) <= m + 1
      BY <1>2 DEF Upto
    <3>2. Cardinality(s \ {Max(s)}) = Cardinality(s) - 1
      BY <3>1, FS_RemoveElement
    <3> QED
      BY <3>1, <3>2 DEF Upto
  <2>3. \A s \in Upto(S, m) : s \in Upto(S, m + 1)
    BY <1>2 DEF Upto
  <2>4. \A s \in Upto(S, m) : h[s] = g[s]
    BY <2>1, <2>3 DEF Turns
  <2>5. \A s \in Upto(S, m + 1) : Turn(h, book, o, q, s) = Turn(g, book, o, q, s)
    <3> HIDE DEF h
    <3> SUFFICES ASSUME NEW s \in Upto(S, m + 1)
                 PROVE  Turn(h, book, o, q, s) = Turn(g, book, o, q, s)
      OBVIOUS
    <3>1. CASE s = {}
      BY <3>1 DEF Turn
    <3>2. CASE s # {}
      <4>1. h[s \ {Max(s)}] = g[s \ {Max(s)}]
        BY <2>2, <2>4, <3>2
      <4> QED
        BY <3>2, <4>1 DEF Turn
    <3> QED
      BY <3>1, <3>2
  <2>6. Turns(h, book, o, q, Upto(S, m + 1))
    BY <2>5 DEF Turns
  <2> QED
    BY <2>6
<1>5. \A m \in Nat : Solved(m)
  <2> HIDE DEF Solved
  <2> SUFFICES ASSUME Fails # {} PROVE FALSE
    OBVIOUS
  <2>1. PICK m \in Fails : \A k \in Fails : m <= k
    BY LeastElement
  <2>2. m # 0 /\ m \in Nat
    BY <1>3
  <2>3. m - 1 \in Nat /\ m - 1 \notin Fails
    BY <2>1, <2>2
  <2>4. Solved((m - 1) + 1)
    BY <1>4, <2>3
  <2> QED
    BY <2>2, <2>4
<1>6. Upto(S, Cardinality(S)) = SUBSET S
  BY <1>2 DEF Upto
<1>7. Solved(Cardinality(S))
  BY <1>1, <1>5
<1> QED
  BY <1>6, <1>7 DEF S

(* The loop turn by turn: the first turn starts from the whole quantity,    *)
(* each takes the next maker, and the last leaves the result.               *)
LEMMA SweepByTurns ==
  ASSUME NEW book, NEW o, NEW n \in Nat, DOMAIN Queue(book, o) = 1..n
  PROVE  \E st : /\ st[0] = Begun(o)
                 /\ \A k \in 1..n : st[k] = Fill(book, o, st[k - 1], Queue(book, o)[k])
                 /\ st[n] = Sweep(book, o)
<1> DEFINE q == Queue(book, o)
           g == CHOOSE g : Turns(g, book, o, q, SUBSET (1..n))
           st == [k \in 0..n |-> g[1..k]]
<1>1. Turns(g, book, o, q, SUBSET (1..n))
  <2> HIDE DEF q
  <2>1. DOMAIN q = 1..n
    BY DEF q
  <2> QED
    BY <2>1, TurnsExist, Zenon
<1>2. Sweep(book, o) = g[1..n]
  BY SweepIsChosen
<1> HIDE DEF g, q
<1>3. \A k \in 0..n : 1..k \in SUBSET (1..n)
  OBVIOUS
<1>4. st[0] = Begun(o)
  <2>1. 1..0 = {} /\ 0 \in 0..n
    OBVIOUS
  <2>2. g[1..0] = Turn(g, book, o, q, 1..0)
    BY <1>1, <1>3, <2>1 DEF Turns
  <2> QED
    BY <2>1, <2>2 DEF Turn
<1>5. ASSUME NEW k \in 1..n
      PROVE  st[k] = Fill(book, o, st[k - 1], q[k])
  <2>1. k \in 0..n /\ k - 1 \in 0..n /\ k \in 1..k /\ k \in Nat
    OBVIOUS
  <2>2. Max(1..k) = k
    <3>1. Max(1..k) \in 1..k /\ Max(1..k) >= k
      BY <2>1, MaxIsLast
    <3> QED
      BY <3>1
  <2>3. (1..k) \ {k} = 1..(k - 1)
    OBVIOUS
  <2>4. g[1..k] = Turn(g, book, o, q, 1..k)
    BY <1>1, <1>3, <2>1 DEF Turns
  <2>5. 1..k # {}
    BY <2>1
  <2>6. g[1..k] = Fill(book, o, g[1..(k - 1)], q[k])
    BY <2>2, <2>3, <2>4, <2>5 DEF Turn
  <2> QED
    BY <2>1, <2>6
<1>6. st[n] = Sweep(book, o)
  BY <1>2
<1> HIDE DEF st
<1> QED
  BY <1>4, <1>5, <1>6 DEF q

---------------------------------------------------------------------------
(* What trades take from the makers.                                        *)

FillOf(ids) == [maker : ids, price : Nat, qty : Nat \ {0}]

(* One trade more takes its quantity more.                                  *)
LEMMA VolumeGrows ==
  ASSUME NEW ids, NEW trades \in Seq(FillOf(ids)), NEW t \in FillOf(ids)
  PROVE  /\ Volume(trades) \in Nat
         /\ Volume(Append(trades, t)) = Volume(trades) + t.qty
<1> DEFINE n == Len(trades)
           later == Append(trades, t)
           f == [a \in 1..n |-> trades[a].qty]
           h == [a \in 1..(n + 1) |-> later[a].qty]
<1>1. /\ n \in Nat /\ DOMAIN trades = 1..n /\ DOMAIN later = 1..(n + 1)
      /\ \A a \in 1..n : trades[a] \in FillOf(ids) /\ later[a] = trades[a]
      /\ later[n + 1] = t
  OBVIOUS
<1>2. \A x \in FillOf(ids) : x.qty \in Nat
  BY DEF FillOf
<1>3. Volume(trades) = SumFunctionOnSet(f, 1..n)
  BY <1>1 DEF Volume
<1>4. Volume(later) = SumFunctionOnSet(h, 1..(n + 1))
  <2> HIDE DEF later
  <2> QED
    BY <1>1 DEF Volume
<1> HIDE DEF later, n
<1>5. \A a \in 1..n : a \in 1..(n + 1) /\ f[a] \in Nat /\ f[a] \in Int /\ h[a] = f[a]
  BY <1>1, <1>2
<1>6. h[n + 1] = t.qty /\ t.qty \in Nat /\ h[n + 1] \in Int
  BY <1>1, <1>2
<1>7. IsFiniteSet(1..n) /\ n + 1 \notin 1..n /\ 1..(n + 1) = (1..n) \cup {n + 1}
  <2>1. IsFiniteSet(1..n)
    BY <1>1, FS_Interval
  <2> QED
    BY <1>1, <2>1
<1> HIDE DEF f, h
<1>8. SumFunctionOnSet(f, 1..n) \in Nat
  BY <1>5, <1>7, SumNatural
<1>9. SumFunctionOnSet(h, 1..(n + 1)) = SumFunctionOnSet(f, 1..n) + h[n + 1]
  <2> DEFINE x == n + 1
             T == 1..x
             S == 1..n
  <2>1. /\ x \notin S /\ T = S \cup {x} /\ IsFiniteSet(S) /\ h[x] \in Int
        /\ \A y \in S : f[y] \in Int /\ h[y] = f[y]
    BY <1>5, <1>6, <1>7
  <2> HIDE DEF x, T, S
  <2>2. SumFunctionOnSet(h, T) = SumFunctionOnSet(f, S) + h[x]
    BY <2>1, SumGrows
  <2> QED
    BY <2>2 DEF x, T, S
<1> QED
  BY <1>3, <1>4, <1>6, <1>8, <1>9 DEF later

(* Without trades nothing is taken.                                         *)
LEMMA NoVolume == Volume(<< >>) = 0
<1>1. DOMAIN << >> = {}
  OBVIOUS
<1> QED
  BY <1>1, SumEmpty DEF Volume

(* When each maker trades once, its trade is what is taken from it.         *)
LEMMA TakenOnce ==
  ASSUME NEW ids, NEW trades \in Seq(FillOf(ids)),
         \A a, b \in 1..Len(trades) : trades[a].maker = trades[b].maker => a = b
  PROVE  /\ \A a \in 1..Len(trades) :
              TakenFrom(trades, trades[a].maker) = trades[a].qty
         /\ \A i : (\A a \in 1..Len(trades) : trades[a].maker # i)
                      => TakenFrom(trades, i) = 0
<1> DEFINE f == [a \in 1..Len(trades) |-> trades[a].qty]
           From(i) == {a \in 1..Len(trades) : trades[a].maker = i}
<1>1. /\ DOMAIN trades = 1..Len(trades)
      /\ \A a \in 1..Len(trades) : trades[a].qty \in Nat
  <2>1. \A t \in FillOf(ids) : t.qty \in Nat
    BY DEF FillOf
  <2> QED
    BY <2>1
<1>2. \A i : TakenFrom(trades, i) = SumFunctionOnSet(f, From(i))
  BY <1>1 DEF TakenFrom
<1>3. ASSUME NEW a \in 1..Len(trades)
      PROVE  TakenFrom(trades, trades[a].maker) = trades[a].qty
  <2>1. From(trades[a].maker) = {a}
    OBVIOUS
  <2>2. f[a] \in Int /\ f[a] = trades[a].qty
    BY <1>1
  <2> HIDE DEF f, From
  <2>3. IsFiniteSet({a}) /\ a \in {a} /\ \A y \in {a} \ {a} : f[y] = 0
    BY FS_Singleton
  <2>4. SumFunctionOnSet(f, {a}) = f[a]
    BY <2>2, <2>3, SumSingle
  <2> QED
    BY <1>2, <2>1, <2>2, <2>4
<1>4. ASSUME NEW i, \A a \in 1..Len(trades) : trades[a].maker # i
      PROVE  TakenFrom(trades, i) = 0
  <2>1. From(i) = {}
    BY <1>4
  <2> HIDE DEF f, From
  <2> QED
    BY <1>2, <2>1, SumEmpty
<1> QED
  BY <1>3, <1>4

---------------------------------------------------------------------------
(* The invariant of the matching loop after k turns.                        *)
LoopTyped(book, o, s) ==
  s \in [left : 0..o.qty, self : BOOLEAN, trades : Seq(FillOf(DOMAIN book))]

(* The trades are with the first makers of the queue, none of them o's own. *)
TradesInOrder(book, o, q, trades) ==
  \A a \in 1..Len(trades) :
    /\ trades[a].maker = q[a]
    /\ trades[a].price = book[q[a]].price
    /\ trades[a].qty <= book[q[a]].left
    /\ book[q[a]].user # o.user

(* Every trade but the one that fills o takes all of its maker.             *)
FilledBeforeLast(book, q, s) ==
  \A a \in 1..Len(s.trades) :
    a < Len(s.trades) \/ s.left > 0 => s.trades[a].qty = book[q[a]].left

Loop(book, o, q, k, s) ==
  /\ LoopTyped(book, o, s)
  /\ Len(s.trades) <= k
  /\ TradesInOrder(book, o, q, s.trades)
  /\ FilledBeforeLast(book, q, s)
  /\ s.left > 0 /\ ~s.self => Len(s.trades) = k
  /\ Volume(s.trades) + s.left = o.qty

(* Before the first turn.                                                   *)
LEMMA LoopBegins ==
  ASSUME NEW book, NEW o, Incoming(o), NEW q
  PROVE  Loop(book, o, q, 0, Begun(o))
<1>1. o.qty \in Nat
  BY DEF Incoming
<1>2. /\ Begun(o).left = o.qty /\ Begun(o).self = FALSE /\ Begun(o).trades = << >>
      /\ << >> \in Seq(FillOf(DOMAIN book)) /\ Len(<< >>) = 0
      /\ Begun(o) = [left |-> o.qty, self |-> FALSE, trades |-> << >>]
  BY DEF Begun
<1>3. LoopTyped(book, o, Begun(o))
  BY <1>1, <1>2 DEF LoopTyped
<1> QED
  BY <1>1, <1>2, <1>3, NoVolume DEF Loop, TradesInOrder, FilledBeforeLast

(* A turn that is skipped, and one that meets an own order.                 *)
LEMMA LoopSkips ==
  ASSUME NEW book, NEW o, NEW q, NEW k \in Nat, NEW s,
         Loop(book, o, q, k, s), s.left = 0 \/ s.self
  PROVE  Loop(book, o, q, k + 1, s)
<1>1. s.left \in Nat /\ s.self \in BOOLEAN /\ Len(s.trades) \in Nat
  BY DEF Loop, LoopTyped
<1>2. ~(s.left > 0 /\ ~s.self) /\ Len(s.trades) <= k + 1
  BY <1>1 DEF Loop
<1> QED
  BY <1>2 DEF Loop

(* A scan that met an own order is the same scan with its mark set.         *)
LEMMA MeetsOwn ==
  ASSUME NEW L, NEW T, NEW s \in [left : L, self : BOOLEAN, trades : T], NEW met
  PROVE  [s EXCEPT !.self = met] = [left |-> s.left, self |-> met, trades |-> s.trades]
  OBVIOUS

(* Skipping a maker of the same account keeps the loop invariant.           *)
LEMMA LoopMeetsOwn ==
  ASSUME NEW book, NEW o, NEW q, NEW k \in Nat, NEW s,
         Loop(book, o, q, k, s)
  PROVE  Loop(book, o, q, k + 1, [s EXCEPT !.self = TRUE])
<1> DEFINE z == [s EXCEPT !.self = TRUE]
<1>1. s.left \in 0..o.qty /\ s.self \in BOOLEAN /\ s.trades \in Seq(FillOf(DOMAIN book))
  BY DEF Loop, LoopTyped
<1>2. z = [left |-> s.left, self |-> TRUE, trades |-> s.trades]
  <2> DEFINE L == 0..o.qty
             T == Seq(FillOf(DOMAIN book))
  <2>1. s \in [left : L, self : BOOLEAN, trades : T]
    BY DEF Loop, LoopTyped
  <2> HIDE DEF L, T
  <2>2. \A met : [s EXCEPT !.self = met]
                    = [left |-> s.left, self |-> met, trades |-> s.trades]
    BY <2>1, MeetsOwn
  <2> QED
    BY <2>2, Zenon
<1> HIDE DEF z
<1>3. z.left = s.left /\ z.self = TRUE /\ z.trades = s.trades
  BY <1>2
<1>4. LoopTyped(book, o, z)
  BY <1>1, <1>2 DEF LoopTyped
<1>5. Len(s.trades) <= k + 1
  BY <1>1 DEF Loop
<1>6. FilledBeforeLast(book, q, z) <=> FilledBeforeLast(book, q, s)
  BY <1>3 DEF FilledBeforeLast
<1>7. Loop(book, o, q, k + 1, z)
  BY <1>3, <1>4, <1>5, <1>6 DEF Loop
<1> QED
  BY <1>7 DEF z

(* A turn that trades: a trade that leaves a remainder takes all of its     *)
(* maker.                                                                   *)
LEMMA LoopTrades ==
  ASSUME NEW book, NEW o, NEW q, NEW k \in Nat, NEW s, NEW take, NEW i,
         Loop(book, o, q, k, s), s.left > 0, ~s.self, o.qty \in Nat,
         i = q[k + 1], i \in DOMAIN book, book[i].price \in Nat,
         book[i].left \in Nat, book[i].left > 0, book[i].user # o.user,
         take = IF s.left < book[i].left THEN s.left ELSE book[i].left
  PROVE  Loop(book, o, q, k + 1,
           [left |-> s.left - take, self |-> FALSE,
            trades |-> Append(s.trades,
              [maker |-> i, price |-> book[i].price, qty |-> take])])
<1> DEFINE t == [maker |-> i, price |-> book[i].price, qty |-> take]
           later == Append(s.trades, t)
           z == [left |-> s.left - take, self |-> FALSE, trades |-> later]
           left == s.left
           l == book[i].left
<1>1. /\ left \in Nat /\ left <= o.qty /\ left > 0
      /\ s.trades \in Seq(FillOf(DOMAIN book))
      /\ Len(s.trades) = k
      /\ l \in Nat /\ l > 0
      /\ take = IF left < l THEN left ELSE l
  BY DEF Loop, LoopTyped
<1> HIDE DEF left, l
<1>2. /\ take \in Nat \ {0} /\ take \in Nat /\ take <= l /\ take <= left
      /\ left - take \in 0..o.qty
      /\ left - take > 0 => take = l
  <2>1. CASE left < l
    <3>1. take = left
      BY <1>1, <2>1
    <3> QED
      BY <1>1, <2>1, <3>1
  <2>2. CASE ~(left < l)
    <3>1. take = l
      BY <1>1, <2>2
    <3> QED
      BY <1>1, <2>2, <3>1, SMTT(30)
  <2> QED
    BY <2>1, <2>2
<1>3. t \in FillOf(DOMAIN book)
  BY <1>2 DEF FillOf
<1>4. t.maker = i /\ t.price = book[i].price /\ t.qty = take
  OBVIOUS
<1> HIDE DEF t
<1>5. /\ later \in Seq(FillOf(DOMAIN book)) /\ Len(later) = k + 1
      /\ later[k + 1] = t
      /\ \A a \in 1..k : later[a] = s.trades[a]
  BY <1>1, <1>3
<1>6. /\ Volume(s.trades) \in Nat
      /\ Volume(later) = Volume(s.trades) + take
  BY <1>1, <1>3, <1>4, VolumeGrows
<1> HIDE DEF later
<1>7. /\ z.left = left - take /\ z.self = FALSE /\ z.trades = later
      /\ LoopTyped(book, o, z)
  BY <1>2, <1>5 DEF LoopTyped, left
<1> HIDE DEF z
<1>8. \A a \in 1..(k + 1) : a = k + 1 \/ a \in 1..k
  OBVIOUS
<1>9. TradesInOrder(book, o, q, later)
  <2>1. \A a \in 1..k : /\ s.trades[a].maker = q[a]
                        /\ s.trades[a].price = book[q[a]].price
                        /\ s.trades[a].qty <= book[q[a]].left
                        /\ book[q[a]].user # o.user
    BY <1>1 DEF Loop, TradesInOrder
  <2>2. /\ t.maker = q[k + 1] /\ t.price = book[q[k + 1]].price
        /\ t.qty <= book[q[k + 1]].left /\ book[q[k + 1]].user # o.user
    BY <1>2, <1>4 DEF l
  <2> QED
    BY <1>5, <1>8, <2>1, <2>2 DEF TradesInOrder
<1>10. FilledBeforeLast(book, q, z)
  <2>1. \A a \in 1..k : s.trades[a].qty = book[q[a]].left
    BY <1>1 DEF Loop, FilledBeforeLast, left
  <2>2. z.left > 0 => t.qty = book[q[k + 1]].left
    BY <1>2, <1>4, <1>7 DEF l
  <2>3. \A a \in 1..(k + 1) : a < k + 1 => a \in 1..k
    OBVIOUS
  <2> QED
    BY <1>5, <1>7, <1>8, <2>1, <2>2, <2>3 DEF FilledBeforeLast
<1>11. Volume(later) + (left - take) = o.qty
  <2>1. Volume(s.trades) + left = o.qty
    BY DEF Loop, left
  <2> DEFINE v == Volume(s.trades)
             w == Volume(later)
  <2>2. v \in Nat /\ v + left = o.qty /\ w = v + take
    BY <1>6, <2>1
  <2> HIDE DEF v, w
  <2>3. w + (left - take) = v + left
    <3>1. left \in Nat
      BY <1>1
    <3>2. take \in Nat
      BY <1>2
    <3>3. v \in Nat /\ w = v + take
      BY <2>2
    <3> QED
      BY <3>1, <3>2, <3>3
  <2>4. w + (left - take) = o.qty
    BY <2>2, <2>3
  <2> QED
    BY <2>4 DEF w
<1>12. Loop(book, o, q, k + 1, z)
  BY <1>5, <1>7, <1>9, <1>10, <1>11 DEF Loop
<1> QED
  BY <1>12 DEF z, later, t

(* Every turn keeps the invariant.                                          *)
LEMMA LoopTurns ==
  ASSUME NEW book, NEW n, Book(book, n), NEW o, Incoming(o),
         NEW q, Listed(q, book, o), NEW k \in Nat, k + 1 \in DOMAIN q,
         NEW s, Loop(book, o, q, k, s)
  PROVE  Loop(book, o, q, k + 1, Fill(book, o, s, q[k + 1]))
<1> DEFINE i == q[k + 1]
           take == IF s.left < book[i].left THEN s.left ELSE book[i].left
<1>1. i \in Makers(book, o)
  BY DEF Listed
<1>2. /\ i \in DOMAIN book /\ book[i].price \in Nat
      /\ book[i].left \in Nat /\ book[i].left > 0
  BY <1>1, MakerTyped
<1>3. o.qty \in Nat /\ s.left \in Nat /\ s.self \in BOOLEAN
  <2>1. o.qty \in Nat
    BY DEF Incoming
  <2> QED
    BY <2>1 DEF Loop, LoopTyped
<1>4. CASE s.left = 0 \/ s.self
  <2>1. Fill(book, o, s, i) = s
    BY <1>4 DEF Fill
  <2> QED
    BY <1>4, <2>1, LoopSkips
<1>5. CASE ~(s.left = 0 \/ s.self) /\ book[i].user = o.user
  <2>1. Fill(book, o, s, i) = [s EXCEPT !.self = TRUE]
    BY <1>5 DEF Fill
  <2> QED
    BY <2>1, LoopMeetsOwn
<1>6. CASE ~(s.left = 0 \/ s.self) /\ book[i].user # o.user
  <2>1. Fill(book, o, s, i) =
          [left |-> s.left - take, self |-> FALSE,
           trades |-> Append(s.trades,
             [maker |-> i, price |-> book[i].price, qty |-> take])]
    BY <1>6 DEF Fill
  <2>2. s.left > 0 /\ ~s.self
    BY <1>3, <1>6
  <2>3. i = q[k + 1] /\ take = IF s.left < book[i].left THEN s.left ELSE book[i].left
    OBVIOUS
  <2> HIDE DEF i, take
  <2>4. Loop(book, o, q, k + 1,
          [left |-> s.left - take, self |-> FALSE,
           trades |-> Append(s.trades,
             [maker |-> i, price |-> book[i].price, qty |-> take])])
    BY <1>2, <1>3, <1>6, <2>2, <2>3, LoopTrades
  <2> QED
    BY <2>1, <2>3, <2>4
<1> QED
  BY <1>4, <1>5, <1>6

(* The result of the loop: what is left of o when it has met no own order   *)
(* has outlasted all makers.                                                *)
LEMMA SweepLoops ==
  ASSUME NEW book, NEW n, Book(book, n), NEW o, Incoming(o)
  PROVE  Loop(book, o, Queue(book, o), Cardinality(Makers(book, o)), Sweep(book, o))
<1> DEFINE q == Queue(book, o)
           m == Cardinality(Makers(book, o))
<1>1. Listed(q, book, o) /\ m \in Nat /\ DOMAIN q = 1..m
  <2>1. Listed(q, book, o)
    BY QueueLists
  <2> QED
    BY <2>1 DEF Listed
<1>2. PICK st : /\ st[0] = Begun(o)
                /\ \A k \in 1..m : st[k] = Fill(book, o, st[k - 1], q[k])
                /\ st[m] = Sweep(book, o)
  BY <1>1, SweepByTurns
<1> HIDE DEF q, m
<1> DEFINE Holds(k) == Loop(book, o, q, k, st[k])
           Fails == {k \in 0..m : ~Holds(k)}
<1>3. Holds(0)
  BY <1>2, LoopBegins
<1>4. ASSUME NEW k \in 0..m, k + 1 \in 0..m, Holds(k)
      PROVE  Holds(k + 1)
  <2>1. k \in Nat /\ k + 1 \in 1..m /\ k + 1 \in DOMAIN q /\ (k + 1) - 1 = k
    BY <1>1, <1>4
  <2>2. st[k + 1] = Fill(book, o, st[k], q[k + 1])
    BY <1>2, <2>1
  <2> QED
    BY <1>1, <1>4, <2>1, <2>2, LoopTurns
<1> HIDE DEF Holds
<1>5. Fails = {}
  <2> SUFFICES ASSUME Fails # {} PROVE FALSE
    OBVIOUS
  <2>1. PICK k \in Fails : \A j \in Fails : k <= j
    <3>1. Fails \subseteq Nat
      BY <1>1
    <3> HIDE DEF Fails
    <3> QED
      BY <3>1, LeastElement
  <2>2. k \in 0..m /\ k # 0 /\ ~Holds(k)
    BY <1>3, <2>1
  <2>3. k - 1 \in 0..m /\ (k - 1) + 1 = k /\ k - 1 \notin Fails
    BY <1>1, <2>1, <2>2
  <2> QED
    BY <1>4, <2>2, <2>3
<1>6. Holds(m)
  BY <1>1, <1>5
<1> QED
  BY <1>2, <1>6 DEF Holds, q, m

---------------------------------------------------------------------------
(* The book after the loop.                                                 *)

(* A maker with another remaining quantity.                                 *)
LEMMA OtherLeft ==
  ASSUME NEW r, IsEntry(r), NEW x
  PROVE  [r EXCEPT !.left = x] = [user |-> r.user, side |-> r.side,
                                  price |-> r.price, left |-> x, seq |-> r.seq]
  BY DEF IsEntry

(* The same order, whatever is left of it.                                  *)
SameOrder(r, b) ==
  r.user = b.user /\ r.side = b.side /\ r.price = b.price /\ r.seq = b.seq

(* Each order of the book has lost what the trades took from it; it is gone *)
(* exactly if that was all of it.                                           *)
BookAfter(book, trades, after) ==
  /\ DOMAIN after \subseteq DOMAIN book
  /\ \A i \in DOMAIN book :
       /\ TakenFrom(trades, i) \in Nat /\ TakenFrom(trades, i) <= book[i].left
       /\ i \in DOMAIN after <=> TakenFrom(trades, i) # book[i].left
  /\ \A i \in DOMAIN after :
       /\ IsEntry(after[i]) /\ SameOrder(after[i], book[i])
       /\ after[i].left = book[i].left - TakenFrom(trades, i)

(* The makers of the queue up to the last trade, and only they, have lost   *)
(* something, and those before the last trade everything.                   *)
TakenInOrder(book, q, s) ==
  /\ \A a \in 1..Len(s.trades) :
       /\ q[a] \in DOMAIN book
       /\ a < Len(s.trades) \/ s.left > 0 => TakenFrom(s.trades, q[a]) = book[q[a]].left
  /\ \A i \in DOMAIN book :
       (\A a \in 1..Len(s.trades) : q[a] # i) => TakenFrom(s.trades, i) = 0

(* The trades of a loop name the makers of its queue, each once.            *)
LEMMA TradesDistinct ==
  ASSUME NEW book, NEW n, Book(book, n), NEW o, Incoming(o),
         NEW q, Listed(q, book, o), NEW k \in Nat, k <= Cardinality(Makers(book, o)),
         NEW s, Loop(book, o, q, k, s)
  PROVE  /\ s.trades \in Seq(FillOf(DOMAIN book))
         /\ Len(s.trades) \in Nat
         /\ \A a \in 1..Len(s.trades) :
              /\ a \in DOMAIN q /\ q[a] \in Makers(book, o)
              /\ s.trades[a].maker = q[a]
              /\ s.trades[a].qty \in Nat /\ s.trades[a].qty > 0
              /\ s.trades[a].qty <= book[q[a]].left
         /\ \A a, b \in 1..Len(s.trades) :
              s.trades[a].maker = s.trades[b].maker => a = b
<1> DEFINE m == Cardinality(Makers(book, o))
           t == s.trades
<1>1. t \in Seq(FillOf(DOMAIN book)) /\ Len(t) \in Nat /\ Len(t) <= k
  BY DEF Loop, LoopTyped
<1>2. m \in Nat /\ DOMAIN q = 1..m /\ \A a \in 1..m : q[a] \in Makers(book, o)
  BY DEF Listed
<1>3. \A a \in 1..Len(t) : a \in 1..m
  BY <1>1, <1>2
<1>4. \A a \in 1..Len(t) : t[a].qty \in Nat /\ t[a].qty > 0
  <2>1. \A x \in FillOf(DOMAIN book) : x.qty \in Nat /\ x.qty > 0
    <3>1. \A x \in FillOf(DOMAIN book) : x.qty \in Nat \ {0}
      BY DEF FillOf
    <3> QED
      BY <3>1
  <2> QED
    BY <1>1, <2>1
<1>5. \A a \in 1..Len(t) : t[a].maker = q[a] /\ t[a].qty <= book[q[a]].left
  BY DEF Loop, TradesInOrder
<1>6. \A a, b \in 1..m : q[a] = q[b] => a = b
  BY <1>2 DEF Listed
<1> QED
  BY <1>1, <1>2, <1>3, <1>4, <1>5, <1>6

(* What was taken from each order of the book.                              *)
LEMMA LoopTakes ==
  ASSUME NEW book, NEW n, Book(book, n), NEW o, Incoming(o),
         NEW q, Listed(q, book, o), NEW k \in Nat, k <= Cardinality(Makers(book, o)),
         NEW s, Loop(book, o, q, k, s)
  PROVE  /\ TakenInOrder(book, q, s)
         /\ \A a \in 1..Len(s.trades) : TakenFrom(s.trades, q[a]) = s.trades[a].qty
<1> DEFINE t == s.trades
<1>1. /\ t \in Seq(FillOf(DOMAIN book))
      /\ \A a \in 1..Len(t) :
           q[a] \in Makers(book, o) /\ t[a].maker = q[a]
      /\ \A a, b \in 1..Len(t) : t[a].maker = t[b].maker => a = b
  BY TradesDistinct
<1>2. \A a \in 1..Len(t) : q[a] \in DOMAIN book
  BY <1>1 DEF Makers
<1>3. \A a \in 1..Len(t) : a < Len(t) \/ s.left > 0 => t[a].qty = book[q[a]].left
  BY DEF Loop, FilledBeforeLast
<1> HIDE DEF t
<1>4. /\ \A a \in 1..Len(t) : TakenFrom(t, t[a].maker) = t[a].qty
      /\ \A i : (\A a \in 1..Len(t) : t[a].maker # i) => TakenFrom(t, i) = 0
  BY <1>1, TakenOnce
<1>5. \A a \in 1..Len(t) : TakenFrom(t, q[a]) = t[a].qty
  BY <1>1, <1>4
<1>6. \A i \in DOMAIN book :
        (\A a \in 1..Len(t) : q[a] # i) => TakenFrom(t, i) = 0
  BY <1>1, <1>4
<1> QED
  BY <1>2, <1>3, <1>5, <1>6 DEF TakenInOrder, t

(* After any number of turns the book is the old one less what the trades   *)
(* took.                                                                    *)
LEMMA LoopLeaves ==
  ASSUME NEW book, NEW n, Book(book, n), NEW o, Incoming(o),
         NEW q, Listed(q, book, o), NEW k \in Nat, k <= Cardinality(Makers(book, o)),
         NEW s, Loop(book, o, q, k, s)
  PROVE  BookAfter(book, s.trades, AfterTrades(book, s.trades))
<1> DEFINE t == s.trades
           after == AfterTrades(book, t)
           filled == {i \in DOMAIN book :
                        \E x \in ToSet(t) : x.maker = i /\ x.qty = book[i].left}
<1>1. /\ t \in Seq(FillOf(DOMAIN book))
      /\ \A a \in 1..Len(t) :
           /\ t[a].maker = q[a] /\ q[a] \in Makers(book, o)
           /\ t[a].qty \in Nat /\ t[a].qty > 0 /\ t[a].qty <= book[q[a]].left
  BY TradesDistinct
<1>2. /\ \A i \in DOMAIN book :
           (\A a \in 1..Len(t) : q[a] # i) => TakenFrom(t, i) = 0
      /\ \A a \in 1..Len(t) : TakenFrom(t, q[a]) = t[a].qty
  BY LoopTakes DEF TakenInOrder
<1>3. ToSet(t) = {t[a] : a \in 1..Len(t)}
  BY <1>1 DEF ToSet
<1>4. after = [i \in DOMAIN book \ filled |-> [book[i] EXCEPT !.left = @ - TakenFrom(t, i)]]
  BY DEF AfterTrades
<1>5. \A i \in DOMAIN book : i \in filled <=>
        \E a \in 1..Len(t) : q[a] = i /\ t[a].qty = book[i].left
  BY <1>1, <1>3
<1> HIDE DEF filled, after, t
<1>6. \A i \in DOMAIN book : IsEntry(book[i]) /\ book[i].left \in Nat /\ book[i].left > 0
  <2>1. \A r : IsEntry(r) => r.left \in Nat \ {0}
    BY DEF IsEntry
  <2> QED
    BY <2>1 DEF Book
<1>7. ASSUME NEW i \in DOMAIN book
      PROVE  /\ TakenFrom(t, i) \in Nat /\ TakenFrom(t, i) <= book[i].left
             /\ i \in filled <=> TakenFrom(t, i) = book[i].left
  <2>1. CASE \A a \in 1..Len(t) : q[a] # i
    <3>1. TakenFrom(t, i) = 0 /\ i \notin filled
      BY <1>2, <1>5, <2>1
    <3> QED
      BY <1>6, <3>1
  <2>2. CASE \E a \in 1..Len(t) : q[a] = i
    <3>1. PICK a \in 1..Len(t) : q[a] = i
      BY <2>2
    <3>2. TakenFrom(t, i) = t[a].qty /\ t[a].qty \in Nat /\ t[a].qty <= book[i].left
      BY <1>1, <1>2, <3>1
    <3>3. \A b \in 1..Len(t) : q[b] = i => TakenFrom(t, i) = t[b].qty
      BY <1>2
    <3>4. i \in filled <=> TakenFrom(t, i) = book[i].left
      BY <1>5, <3>1, <3>2, <3>3
    <3> QED
      BY <3>2, <3>4
  <2> QED
    BY <2>1, <2>2
<1>8. DOMAIN after = DOMAIN book \ filled
  BY <1>4
<1>9. ASSUME NEW i \in DOMAIN after
      PROVE  /\ IsEntry(after[i]) /\ SameOrder(after[i], book[i])
             /\ after[i].left = book[i].left - TakenFrom(t, i)
  <2> DEFINE r == book[i]
             x == r.left - TakenFrom(t, i)
  <2>1. i \in DOMAIN book /\ i \notin filled
    BY <1>8
  <2>2. IsEntry(r) /\ x \in Nat \ {0}
    BY <1>6, <1>7, <2>1
  <2>3. after[i] = [r EXCEPT !.left = x]
    BY <1>4, <2>1
  <2> HIDE DEF r, x
  <2>4. after[i] = [user |-> r.user, side |-> r.side,
                    price |-> r.price, left |-> x, seq |-> r.seq]
    BY <2>2, <2>3, OtherLeft
  <2>5. IsEntry(after[i])
    BY <2>2, <2>4 DEF IsEntry
  <2>6. SameOrder(after[i], r) /\ after[i].left = x
    BY <2>4 DEF SameOrder
  <2> QED
    BY <2>5, <2>6 DEF r, x
<1>10. BookAfter(book, t, after)
  BY <1>7, <1>8, <1>9 DEF BookAfter
<1> QED
  BY <1>10 DEF after, t

---------------------------------------------------------------------------
(* One command.                                                             *)

(* A refused order changes nothing.                                         *)
Refuses(book, o, r) ==
  r.book = book /\ r.trades = << >> /\ r.left = o.qty

(* An order that does not rest leaves what the loop leaves.                 *)
Passes(book, o, r) ==
  LET s == Sweep(book, o)
  IN r.book = AfterTrades(book, s.trades) /\ r.trades = s.trades /\ r.left = s.left

(* An order rests when something is left and no own order was met.          *)
Rests(book, id, o, seq, r) ==
  LET s == Sweep(book, o)
  IN /\ id \notin DOMAIN book /\ ~s.self /\ s.left # 0
     /\ r.book = With(AfterTrades(book, s.trades), id, Resting(o, s.left, seq))
     /\ r.trades = s.trades /\ r.left = s.left

(* The three things that placing an order can do.                           *)
LEMMA PlacedCases ==
  ASSUME NEW book, NEW id, NEW o, NEW seq
  PROVE  LET r == Placed(book, id, o, seq)
         IN Refuses(book, o, r) \/ Passes(book, o, r) \/ Rests(book, id, o, seq, r)
<1> DEFINE s == Sweep(book, o)
           after == AfterTrades(book, s.trades)
           rests == With(after, id, Resting(o, s.left, seq))
           r == Placed(book, id, o, seq)
           unmet == o.tif = "FOK" /\ ~CanFillFully(book, o)
           main == IF s.self THEN Outcome("SELF_TRADE", s.trades, s.left, after)
                   ELSE IF s.left = 0 THEN Outcome("FILLED", s.trades, 0, after)
                   ELSE IF o.tif # "GTC"
                        THEN Outcome("REMAINDER_CANCELLED", s.trades, s.left, after)
                   ELSE IF o.price = NoPrice
                        THEN Outcome("THROWN", s.trades, s.left, rests)
                   ELSE Outcome("RESTED", s.trades, s.left, rests)
<1>1. r = CASE id \in DOMAIN book -> Outcome("INVALID_ORDER", << >>, o.qty, book)
            [] id \notin DOMAIN book /\ o.tif = "FOK" /\ ~CanFillFully(book, o) ->
                 Outcome("FOK_NOT_FILLED", << >>, o.qty, book)
            [] OTHER -> main
  BY DEF Placed
<1>2. \A code, trades, left, b :
        LET x == Outcome(code, trades, left, b)
        IN x.trades = trades /\ x.left = left /\ x.book = b
  BY DEF Outcome
<1> HIDE DEF r, s, after, rests, main
<1>3. CASE id \in DOMAIN book
  <2>1. r = Outcome("INVALID_ORDER", << >>, o.qty, book)
    BY <1>1, <1>3
  <2> QED
    BY <1>2, <2>1 DEF Refuses, r
<1>4. CASE id \notin DOMAIN book /\ unmet
  <2>1. r = Outcome("FOK_NOT_FILLED", << >>, o.qty, book)
    BY <1>1, <1>4
  <2> QED
    BY <1>2, <2>1 DEF Refuses, r
<1>5. CASE id \notin DOMAIN book /\ ~unmet
  <2>1. r = main
    BY <1>1, <1>5
  <2>2. CASE s.self
    <3>1. r = Outcome("SELF_TRADE", s.trades, s.left, after)
      BY <2>1, <2>2 DEF main
    <3>2. r.trades = s.trades /\ r.left = s.left /\ r.book = after
      BY <1>2, <3>1
    <3> QED
      BY <3>2 DEF Passes, r, s, after
  <2>3. CASE ~s.self /\ s.left = 0
    <3>1. r = Outcome("FILLED", s.trades, 0, after)
      BY <2>1, <2>3 DEF main
    <3>2. r.trades = s.trades /\ r.left = s.left /\ r.book = after
      BY <1>2, <2>3, <3>1
    <3> QED
      BY <3>2 DEF Passes, r, s, after
  <2>4. CASE ~s.self /\ s.left # 0 /\ o.tif # "GTC"
    <3>1. r = Outcome("REMAINDER_CANCELLED", s.trades, s.left, after)
      BY <2>1, <2>4 DEF main
    <3>2. r.trades = s.trades /\ r.left = s.left /\ r.book = after
      BY <1>2, <3>1
    <3> QED
      BY <3>2 DEF Passes, r, s, after
  <2>5. CASE ~s.self /\ s.left # 0 /\ o.tif = "GTC"
    <3>1. \/ r = Outcome("THROWN", s.trades, s.left, rests)
          \/ r = Outcome("RESTED", s.trades, s.left, rests)
      BY <2>1, <2>5 DEF main
    <3>2. r.trades = s.trades /\ r.left = s.left /\ r.book = rests
      BY <1>2, <3>1
    <3> QED
      BY <1>5, <2>5, <3>2 DEF Rests, r, s, after, rests
  <2> QED
    BY <2>2, <2>3, <2>4, <2>5
<1> QED
  BY <1>3, <1>4, <1>5 DEF r

(* No resting BUY of the book meets a resting SELL.                         *)
Uncrossed(book) ==
  \A b, s \in DOMAIN book :
    /\ book[b].side = "BUY" /\ book[b].price # NoPrice
    /\ book[s].side = "SELL" /\ book[s].price # NoPrice
    => book[b].price < book[s].price

GoodBook(book, n) ==
  Book(book, n) /\ Uncrossed(book)

(* A book of some of the orders, with less left of them.                    *)
LEMMA LessIsGood ==
  ASSUME NEW book, NEW n \in Nat, GoodBook(book, n), NEW after,
         DOMAIN after \subseteq DOMAIN book,
         \A i \in DOMAIN after :
           IsEntry(after[i]) /\ SameOrder(after[i], book[i])
  PROVE  GoodBook(after, n + 1)
<1>1. IsFiniteSet(DOMAIN after)
  BY FS_Subset DEF GoodBook, Book
<1>2. OwnSequences(after, n + 1)
  <2>1. \A i \in DOMAIN book : book[i].seq \in Nat /\ book[i].seq <= n
    <3>1. \A r : IsEntry(r) => r.seq \in Nat
      BY DEF IsEntry
    <3> QED
      BY <3>1 DEF GoodBook, Book, OwnSequences
  <2>2. \A i \in DOMAIN after : after[i].seq = book[i].seq
    BY DEF SameOrder
  <2>3. \A i \in DOMAIN after : after[i].seq <= n + 1
    BY <2>1, <2>2
  <2>4. \A i, j \in DOMAIN after : i # j => after[i].seq # after[j].seq
    BY <2>2 DEF GoodBook, Book, OwnSequences
  <2> QED
    BY <2>3, <2>4 DEF OwnSequences
<1>3. Uncrossed(after)
  BY DEF Uncrossed, GoodBook, SameOrder
<1> QED
  BY <1>1, <1>2, <1>3 DEF GoodBook, Book

(* Every maker of a resting order's queue is gone from the book.            *)
LEMMA RestingMeetsNone ==
  ASSUME NEW book, NEW n, Book(book, n), NEW o, Incoming(o),
         ~Sweep(book, o).self, Sweep(book, o).left # 0
  PROVE  \A i \in Makers(book, o) :
           i \notin DOMAIN AfterTrades(book, Sweep(book, o).trades)
<1> DEFINE q == Queue(book, o)
           s == Sweep(book, o)
           m == Cardinality(Makers(book, o))
           after == AfterTrades(book, s.trades)
<1>1. Listed(q, book, o) /\ m \in Nat /\ Loop(book, o, q, m, s)
  BY QueueLists, SweepLoops DEF Listed
<1> HIDE DEF q, s, m
<1>2. s.left > 0 /\ Len(s.trades) = m
  <2>1. s.left \in 0..o.qty /\ o.qty \in Nat
    BY <1>1 DEF Loop, LoopTyped, Incoming
  <2>2. s.left > 0
    BY <2>1 DEF s
  <2> QED
    BY <1>1, <2>2 DEF Loop, s
<1>3. TakenInOrder(book, q, s) /\ BookAfter(book, s.trades, after)
  <2>1. m <= m
    BY <1>1
  <2> QED
    BY <1>1, <2>1, LoopTakes, LoopLeaves DEF m
<1> HIDE DEF after
<1>4. DOMAIN q = 1..m
  BY <1>1 DEF Listed, m
<1> SUFFICES ASSUME NEW i \in Makers(book, o) PROVE i \notin DOMAIN after
  BY DEF after, s
<1>5. PICK a \in 1..m : q[a] = i
  BY <1>1, <1>4 DEF Listed
<1>6. i \in DOMAIN book /\ TakenFrom(s.trades, i) = book[i].left
  BY <1>2, <1>3, <1>5 DEF TakenInOrder
<1> QED
  BY <1>3, <1>6 DEF BookAfter

(* What the matching loop leaves of a good book.                            *)
LEMMA SweepLeaves ==
  ASSUME NEW book, NEW n, Book(book, n), NEW o, Incoming(o)
  PROVE  /\ BookAfter(book, Sweep(book, o).trades,
                      AfterTrades(book, Sweep(book, o).trades))
         /\ TakenInOrder(book, Queue(book, o), Sweep(book, o))
         /\ Listed(Queue(book, o), book, o)
         /\ Sweep(book, o).left \in 0..o.qty
         /\ Volume(Sweep(book, o).trades) + Sweep(book, o).left = o.qty
<1> DEFINE q == Queue(book, o)
           s == Sweep(book, o)
           m == Cardinality(Makers(book, o))
<1>1. Listed(q, book, o) /\ m \in Nat /\ Loop(book, o, q, m, s)
  BY QueueLists, SweepLoops DEF Listed
<1> HIDE DEF q, s
<1>2. m <= m
  BY <1>1
<1>3. BookAfter(book, s.trades, AfterTrades(book, s.trades)) /\ TakenInOrder(book, q, s)
  BY <1>1, <1>2, LoopTakes, LoopLeaves
<1>4. s.left \in 0..o.qty /\ Volume(s.trades) + s.left = o.qty
  BY <1>1 DEF Loop, LoopTyped
<1> QED
  BY <1>1, <1>3, <1>4 DEF q, s

(* An order enters a good book from whose other side nothing crosses it.    *)
LEMMA RestingIsGood ==
  ASSUME NEW book, NEW n \in Nat, GoodBook(book, n),
         NEW o, Incoming(o), NEW id, id \notin DOMAIN book,
         ~Sweep(book, o).self, Sweep(book, o).left # 0,
         NEW after, after = AfterTrades(book, Sweep(book, o).trades)
  PROVE  GoodBook(With(after, id, Resting(o, Sweep(book, o).left, n + 1)), n + 1)
<1> DEFINE left == Sweep(book, o).left
           x == Resting(o, left, n + 1)
           new == With(after, id, x)
<1>1. Book(book, n)
  BY DEF GoodBook
<1>2. /\ DOMAIN after \subseteq DOMAIN book
      /\ \A i \in DOMAIN after : IsEntry(after[i]) /\ SameOrder(after[i], book[i])
      /\ left \in Nat \ {0}
  <2>1. left \in 0..o.qty /\ o.qty \in Nat
    BY <1>1, SweepLeaves DEF Incoming
  <2>2. left \in Nat \ {0}
    BY <2>1
  <2> QED
    BY <1>1, <2>2, SweepLeaves DEF BookAfter
<1>3. GoodBook(after, n + 1)
  BY <1>2, LessIsGood
<1>4. x.side = o.side /\ x.price = o.price /\ x.seq = n + 1 /\ IsEntry(x)
  <2>1. /\ x = [user |-> o.user, side |-> o.side, price |-> o.price,
                left |-> left, seq |-> n + 1]
    BY DEF Resting
  <2>2. /\ o.side \in Sides /\ o.price \in Nat \cup {NoPrice}
        /\ n + 1 \in Nat \ {0}
    BY DEF Incoming
  <2> HIDE DEF x, left
  <2> QED
    BY <1>2, <2>1, <2>2 DEF IsEntry
<1> HIDE DEF x, left
<1>5. /\ DOMAIN new = DOMAIN after \cup {id} /\ id \notin DOMAIN after
      /\ new[id] = x /\ \A i \in DOMAIN after : new[i] = after[i]
  BY <1>2 DEF With
<1> HIDE DEF new
<1>6. IsFiniteSet(DOMAIN new)
  <2>1. IsFiniteSet(DOMAIN after)
    BY <1>3 DEF GoodBook, Book
  <2> QED
    BY <1>5, <2>1, FS_AddElement
<1>7. \A i \in DOMAIN new : IsEntry(new[i])
  BY <1>2, <1>4, <1>5
<1>8. OwnSequences(new, n + 1)
  <2>1. \A i \in DOMAIN after : after[i].seq \in Nat /\ after[i].seq <= n
    <3>1. \A r : IsEntry(r) => r.seq \in Nat
      BY DEF IsEntry
    <3>2. \A i \in DOMAIN after : after[i].seq = book[i].seq
      BY <1>2 DEF SameOrder
    <3> QED
      BY <1>1, <1>2, <3>1, <3>2 DEF Book, OwnSequences
  <2>2. \A i, j \in DOMAIN after : i # j => after[i].seq # after[j].seq
    BY <1>3 DEF GoodBook, Book, OwnSequences
  <2>3. \A i \in DOMAIN new : new[i].seq <= n + 1
    BY <1>4, <1>5, <2>1
  <2>4. \A i \in DOMAIN after : after[i].seq # n + 1
    BY <2>1
  <2>5. \A i, j \in DOMAIN new : i # j => new[i].seq # new[j].seq
    BY <1>4, <1>5, <2>2, <2>4
  <2> QED
    BY <2>3, <2>5 DEF OwnSequences
<1>9. \A i \in DOMAIN after : after[i].price # NoPrice /\ after[i].side # o.side =>
        ~Crosses(o, after[i])
  <2>1. \A i \in DOMAIN after : i \notin Makers(book, o)
    BY <1>1, RestingMeetsNone
  <2> QED
    BY <1>2, <2>1 DEF Makers, SameOrder, Crosses
<1>10. \A i \in DOMAIN after : after[i].price # NoPrice => after[i].price \in Nat
  BY <1>2 DEF IsEntry
<1>11. o.price # NoPrice => o.price \in Nat
  BY DEF Incoming
<1>12. Uncrossed(new)
  <2> SUFFICES ASSUME NEW b \in DOMAIN new, NEW s \in DOMAIN new,
                      new[b].side = "BUY", new[b].price # NoPrice,
                      new[s].side = "SELL", new[s].price # NoPrice
               PROVE  new[b].price < new[s].price
    BY DEF Uncrossed
  <2>1. CASE b \in DOMAIN after /\ s \in DOMAIN after
    BY <1>3, <1>5, <2>1 DEF GoodBook, Uncrossed
  <2>2. CASE b = id /\ s \in DOMAIN after
    <3>1. o.side = "BUY" /\ o.price \in Nat /\ after[s].price \in Nat
      BY <1>4, <1>5, <1>10, <1>11, <2>2
    <3>2. ~(o.price >= after[s].price)
      BY <1>5, <1>9, <2>2, <3>1 DEF Crosses
    <3>3. o.price < after[s].price
      BY <3>1, <3>2
    <3> QED
      BY <1>4, <1>5, <2>2, <3>3
  <2>3. CASE b \in DOMAIN after /\ s = id
    <3>1. o.side = "SELL" /\ o.price \in Nat /\ after[b].price \in Nat
      BY <1>4, <1>5, <1>10, <1>11, <2>3
    <3>2. ~(o.price <= after[b].price)
      BY <1>5, <1>9, <2>3, <3>1 DEF Crosses
    <3>3. after[b].price < o.price
      BY <3>1, <3>2
    <3> QED
      BY <1>4, <1>5, <2>3, <3>3
  <2>4. ~(b = id /\ s = id)
    OBVIOUS
  <2> QED
    BY <1>5, <2>1, <2>2, <2>3, <2>4
<1>13. GoodBook(new, n + 1)
  BY <1>6, <1>7, <1>8, <1>12 DEF GoodBook, Book
<1> QED
  BY <1>13 DEF new, x, left

(* Placing an order leaves a good book.                                     *)
LEMMA PlacedIsGood ==
  ASSUME NEW book, NEW n \in Nat, GoodBook(book, n),
         NEW o, Incoming(o), NEW id
  PROVE  GoodBook(Placed(book, id, o, n + 1).book, n + 1)
<1> DEFINE r == Placed(book, id, o, n + 1)
           s == Sweep(book, o)
           after == AfterTrades(book, s.trades)
<1>1. Refuses(book, o, r) \/ Passes(book, o, r) \/ Rests(book, id, o, n + 1, r)
  BY PlacedCases
<1>2. /\ DOMAIN after \subseteq DOMAIN book
      /\ \A i \in DOMAIN after : IsEntry(after[i]) /\ SameOrder(after[i], book[i])
  BY SweepLeaves DEF GoodBook, BookAfter
<1> HIDE DEF r
<1>3. CASE Refuses(book, o, r)
  <2>1. \A i \in DOMAIN book : IsEntry(book[i]) /\ SameOrder(book[i], book[i])
    BY DEF GoodBook, Book, SameOrder
  <2>2. GoodBook(book, n + 1)
    BY <2>1, LessIsGood
  <2> QED
    BY <1>3, <2>2 DEF Refuses, r
<1>4. CASE Passes(book, o, r)
  <2> HIDE DEF after
  <2>1. GoodBook(after, n + 1)
    BY <1>2, LessIsGood
  <2> QED
    BY <1>4, <2>1 DEF Passes, r, after
<1>5. CASE Rests(book, id, o, n + 1, r)
  <2>1. GoodBook(With(after, id, Resting(o, s.left, n + 1)), n + 1)
    BY <1>5, RestingIsGood DEF Rests
  <2> QED
    BY <1>5, <2>1 DEF Rests, r
<1> QED
  BY <1>1, <1>3, <1>4, <1>5

(* The orders of the book afterwards were in the book before, or are the    *)
(* incoming one.                                                            *)
LEMMA PlacedKeepsOrders ==
  ASSUME NEW book, NEW n, Book(book, n), NEW o, Incoming(o), NEW id, NEW seq
  PROVE  LET new == Placed(book, id, o, seq).book
         IN \A i \in DOMAIN new :
              \/ i \in DOMAIN book /\ SameOrder(new[i], book[i])
              \/ i = id /\ new[i].user = o.user /\ new[i].price = o.price
<1> DEFINE r == Placed(book, id, o, seq)
           s == Sweep(book, o)
           after == AfterTrades(book, s.trades)
           x == Resting(o, s.left, seq)
<1>1. Refuses(book, o, r) \/ Passes(book, o, r) \/ Rests(book, id, o, seq, r)
  BY PlacedCases
<1>2. /\ DOMAIN after \subseteq DOMAIN book
      /\ \A i \in DOMAIN after : SameOrder(after[i], book[i])
  BY SweepLeaves DEF BookAfter
<1>3. \/ r.book = book \/ r.book = after \/ r.book = With(after, id, x)
  BY <1>1 DEF Refuses, Passes, Rests
<1>4. x.user = o.user /\ x.price = o.price
  BY DEF Resting
<1> HIDE DEF r, after, x
<1>5. \A i \in DOMAIN r.book :
        \/ i \in DOMAIN book /\ SameOrder(r.book[i], book[i])
        \/ i = id /\ r.book[i].user = o.user /\ r.book[i].price = o.price
  BY <1>2, <1>3, <1>4 DEF With, SameOrder
<1> QED
  BY <1>5 DEF r

(* Cancelling only takes an order out.                                      *)
LEMMA CancelledIsLess ==
  ASSUME NEW book, NEW id
  PROVE  LET new == Cancelled(book, id).book
         IN DOMAIN new \subseteq DOMAIN book /\ \A i \in DOMAIN new : new[i] = book[i]
<1> DEFINE new == Cancelled(book, id).book
<1>1. new = book \/ new = Without(book, id)
  BY DEF Cancelled, Outcome
<1> HIDE DEF new
<1>2. DOMAIN new \subseteq DOMAIN book /\ \A i \in DOMAIN new : new[i] = book[i]
  BY <1>1 DEF Without
<1> QED
  BY <1>2 DEF new

(* So does cancelling one.                                                  *)
LEMMA CancelledIsGood ==
  ASSUME NEW book, NEW n \in Nat, GoodBook(book, n), NEW id
  PROVE  GoodBook(Cancelled(book, id).book, n + 1)
<1> DEFINE new == Cancelled(book, id).book
<1>2. /\ DOMAIN new \subseteq DOMAIN book
      /\ \A i \in DOMAIN new : new[i] = book[i]
  BY CancelledIsLess
<1> HIDE DEF new
<1>3. \A i \in DOMAIN new : IsEntry(new[i]) /\ SameOrder(new[i], book[i])
  BY <1>2 DEF GoodBook, Book, SameOrder
<1>4. GoodBook(new, n + 1)
  BY <1>2, <1>3, LessIsGood
<1> QED
  BY <1>4 DEF new
=============================================================================
