--------------------------- MODULE MatchingProofs ---------------------------
(***************************************************************************)
(* Proofs about one instrument's commands: the partition that admits them   *)
(* in the order of its log (InstrumentPartitions), the matching engine that *)
(* executes them (MatchingEngine over OrderBook), and the read models       *)
(* folded from the events they produce (Projections), for every number of   *)
(* instruments, owners, orders, users, prices, quantities, commands, events *)
(* and rebuilds.                                                            *)
(***************************************************************************)
EXTENDS MatchingEngine, InstrumentPartitions, Projections, OrderBookProofs,
        FiniteSums, SequenceTheorems

---------------------------------------------------------------------------
(* The partitions.                                                          *)

(* The parts of the invariant for one instrument.                           *)
PartitionInv(i, m, places) ==
  /\ Remembers(i, m)
  /\ Increasing(places)
  /\ \A a \in 1..Len(places) : places[a] <= m.sequence

(* Without commands a machine remembers the commands up to sequence 0.      *)
LEMMA NewRemembers ==
  ASSUME PartitionAssumption, NEW i \in Instruments
  PROVE  Remembers(i, NewMachine)
  BY DEF Remembers, NewMachine, PartitionAssumption

(* The empty partitions meet the inductive invariant.                       *)
LEMMA PartitionsInitInv ==
  ASSUME PartitionAssumption, PartitionsInit
  PROVE  PartitionsInv
<1>1. \A i \in Instruments : Remembers(i, NewMachine)
  BY NewRemembers
<1>2. << >> \in Seq(Nat) /\ Len(<< >>) = 0 /\ Increasing(<< >>)
  BY DEF Increasing
<1>3. NoSnapshot.payload = NewMachine
  BY DEF NoSnapshot
<1> QED
  BY <1>1, <1>2, <1>3 DEF PartitionsInit, PartitionsInv

(* The command at the next place of the log joins the ones remembered, and  *)
(* its place comes after every place run before.                            *)
LEMMA SubmitAdvances ==
  ASSUME PartitionAssumption, NEW i \in Instruments, NEW m, NEW k,
         NEW places \in Seq(Nat), PartitionInv(i, m, places),
         NEW n \in 1..Len(CommandLog[i]), n = m.sequence + 1,
         k = [m EXCEPT !.sequence = n,
                       !.processed = @ \cup {CommandLog[i][n]}]
  PROVE  PartitionInv(i, k, Append(places, n)) /\ Append(places, n) \in Seq(Nat)
<1> DEFINE ids == {CommandLog[i][a] : a \in 1..Len(CommandLog[i])}
           later == Append(places, n)
<1>1. Len(CommandLog[i]) \in Nat /\ n \in Nat
  BY DEF PartitionAssumption
<1>2. /\ m.sequence \in 0..Len(CommandLog[i])
      /\ m = [sequence |-> m.sequence, status |-> m.status, processed |-> m.processed]
      /\ m.status \in {"ACTIVE", "PAUSED"} /\ m.processed \subseteq ids
      /\ m.processed = {CommandLog[i][a] : a \in 1..m.sequence}
  BY DEF PartitionInv, Remembers
<1>3. /\ k.sequence = n /\ k.status = m.status
      /\ k.processed = m.processed \cup {CommandLog[i][n]}
      /\ k = [sequence |-> k.sequence, status |-> k.status, processed |-> k.processed]
  BY <1>2
<1>4. 1..n = (1..m.sequence) \cup {n}
  BY <1>1, <1>2
<1>5. k.processed = {CommandLog[i][a] : a \in 1..n}
  BY <1>2, <1>3, <1>4
<1>6. Remembers(i, k)
  <2>1. k.processed \subseteq ids /\ k.sequence \in 0..Len(CommandLog[i])
    BY <1>1, <1>2, <1>3
  <2> QED
    BY <1>2, <1>3, <1>5, <2>1 DEF Remembers
<1>7. /\ later \in Seq(Nat) /\ Len(later) = Len(places) + 1
      /\ later[Len(places) + 1] = n
      /\ \A a \in 1..Len(places) : later[a] = places[a] /\ places[a] < n
      /\ \A a \in 1..Len(places) : places[a] \in Nat
      /\ Len(places) \in Nat
  <2>1. \A a \in 1..Len(places) : places[a] \in Nat /\ places[a] <= m.sequence
    BY DEF PartitionInv
  <2> QED
    BY <1>1, <1>2, <2>1
<1>8. /\ Increasing(later)
      /\ \A a \in 1..Len(later) : later[a] <= k.sequence
  <2>1. \A a, b \in 1..Len(places) : a < b => places[a] < places[b]
    BY DEF PartitionInv, Increasing
  <2> HIDE DEF later
  <2>2. \A a \in 1..Len(later) : a \in 1..Len(places) \/ a = Len(places) + 1
    BY <1>7
  <2>3. \A a, b \in 1..Len(later) : a < b => later[a] < later[b]
    BY <1>1, <1>7, <2>1, <2>2, SMTT(30)
  <2>4. \A a \in 1..Len(later) : later[a] <= n
    BY <1>1, <1>7, <2>2, SMTT(30)
  <2> QED
    BY <1>3, <2>3, <2>4 DEF Increasing
<1> QED
  BY <1>6, <1>7, <1>8 DEF PartitionInv

(* Every step of the sequencer and of the store keeps the invariant.        *)
LEMMA PartitionsStep ==
  ASSUME PartitionAssumption, PartitionsInv, [PartitionsNext]_partitionVars
  PROVE  PartitionsInv'
<1> USE DEF PartitionsInv
<1>1. CASE UNCHANGED <<machines, snapshots, ran>>
  BY <1>1
<1>2. CASE createSequencer
  <2>1. \A i \in Instruments : Remembers(i, NewMachine)
    BY NewRemembers
  <2>2. << >> \in Seq(Nat) /\ Len(<< >>) = 0 /\ Increasing(<< >>)
    BY DEF Increasing
  <2> QED
    BY <1>2, <2>1, <2>2 DEF createSequencer
<1>3. ASSUME NEW i \in Instruments, NEW o \in Owners, pause(i, o) \/ resume(i, o)
      PROVE  PartitionsInv'
  <2>1. PICK s \in {"ACTIVE", "PAUSED"} :
          machines' = [machines EXCEPT ![i].status = s]
    BY <1>3 DEF pause, resume
  <2>2. UNCHANGED <<snapshots, ran>>
    BY <1>3 DEF pause, resume
  <2>3. /\ machines' = [j \in Instruments |-> machines'[j]]
        /\ machines'[i] = [machines[i] EXCEPT !.status = s]
        /\ \A j \in Instruments \ {i} : machines'[j] = machines[j]
    BY <2>1
  <2>4. Remembers(i, machines'[i]) /\ machines'[i].sequence = machines[i].sequence
    BY <2>3, ZenonT(60) DEF Remembers
  <2> QED
    BY <2>2, <2>3, <2>4
<1>4. ASSUME NEW i \in Instruments, NEW o \in Owners,
             NEW n \in 1..Len(CommandLog[i]), submit(i, o, n)
      PROVE  PartitionsInv'
  <2>1. /\ n = machines[i].sequence + 1
        /\ UNCHANGED snapshots
        /\ machines' = [machines EXCEPT ![i].sequence = n,
                          ![i].processed = @ \cup {CommandLog[i][n]}]
        /\ ran' = [ran EXCEPT ![i] = Append(@, n)]
    BY <1>4 DEF submit, Admits
  <2>2. /\ machines' = [j \in Instruments |-> machines'[j]]
        /\ machines'[i] = [machines[i] EXCEPT !.sequence = n,
                             !.processed = @ \cup {CommandLog[i][n]}]
        /\ \A j \in Instruments \ {i} : machines'[j] = machines[j]
        /\ ran'[i] = Append(ran[i], n)
        /\ \A j \in Instruments \ {i} : ran'[j] = ran[j]
    BY <2>1
  <2>3. PartitionInv(i, machines[i], ran[i]) /\ ran[i] \in Seq(Nat)
    BY DEF PartitionInv
  <2>4. PartitionInv(i, machines'[i], ran'[i]) /\ ran'[i] \in Seq(Nat)
    BY <2>1, <2>2, <2>3, SubmitAdvances
  <2>5. ran' \in [Instruments -> Seq(Nat)]
    BY <2>1, <2>2, <2>4
  <2> QED
    BY <2>1, <2>2, <2>4, <2>5, ZenonT(60) DEF PartitionInv
<1>5. ASSUME NEW i \in Instruments, NEW o \in Owners, saveSnapshot(i, o)
      PROVE  PartitionsInv'
  <2>1. /\ snapshots' = [j \in Instruments |-> snapshots'[j]]
        /\ snapshots'[i].payload = machines[i]
        /\ \A j \in Instruments \ {i} : snapshots'[j] = snapshots[j]
        /\ UNCHANGED <<machines, ran>>
    BY <1>5 DEF saveSnapshot
  <2> QED
    BY <2>1
<1>6. ASSUME NEW i \in Instruments, NEW o \in Owners, recover(i, o)
      PROVE  PartitionsInv'
  <2>1. /\ machines' = [j \in Instruments |-> machines'[j]]
        /\ machines'[i] = snapshots[i].payload
        /\ \A j \in Instruments \ {i} : machines'[j] = machines[j]
        /\ snapshots[i].payload.sequence >= machines[i].sequence
        /\ UNCHANGED <<snapshots, ran>>
    BY <1>6 DEF recover, Restores
  <2>2. \A a \in 1..Len(ran[i]) : ran[i][a] <= machines'[i].sequence
    <3> DEFINE was == machines[i].sequence
               now == snapshots[i].payload.sequence
    <3>1. was \in Nat /\ now \in Nat /\ was <= now
      BY <2>1 DEF Remembers, PartitionAssumption
    <3>2. \A a \in 1..Len(ran[i]) : ran[i][a] \in Nat /\ ran[i][a] <= was
      OBVIOUS
    <3>3. machines'[i].sequence = now
      BY <2>1
    <3> HIDE DEF was, now
    <3> QED
      BY <3>1, <3>2, <3>3
  <2> QED
    BY <2>1, <2>2
<1>7. ASSUME NEW i \in Instruments, NEW o \in Owners,
             \/ assignOwner(i, o) \/ acquire(i, o) \/ reserveSequence(i, o)
             \/ gracefulShutdown(i, o)
      PROVE  PartitionsInv'
  <2>1. UNCHANGED <<machines, snapshots, ran>>
    BY <1>7 DEF assignOwner, acquire, reserveSequence, gracefulShutdown
  <2> QED
    BY <1>1, <2>1
<1> QED
  BY <1>1, <1>2, <1>3, <1>4, <1>5, <1>6, <1>7 DEF PartitionsNext, partitionVars

(* Machines and snapshots know exactly the commands up to their sequence,   *)
(* and engines have run places of the log in order, none behind its         *)
(* machine.                                                                 *)
THEOREM PartitionsInvariant ==
  ASSUME PartitionAssumption
  PROVE  PartitionsSpec => []PartitionsInv
<1>1. PartitionsInit => PartitionsInv
  BY PartitionsInitInv
<1>2. PartitionsInv /\ [PartitionsNext]_partitionVars => PartitionsInv'
  BY PartitionsStep
<1> QED
  BY <1>1, <1>2, PTL DEF PartitionsSpec

(* An engine executes the commands of its log in their order and none of    *)
(* them twice, and its machine remembers exactly the commands up to its     *)
(* sequence, for any number of instruments, owners, redeliveries, rebuilt   *)
(* machines and restored snapshots.                                         *)
THEOREM InOrderOnce ==
  ASSUME PartitionAssumption
  PROVE  PartitionsSpec => []RunsInOrder
<1>1. PartitionsInv => RunsInOrder
  BY DEF PartitionsInv, RunsInOrder, Remembers, Increasing
<1> QED
  BY <1>1, PartitionsInvariant, PTL

---------------------------------------------------------------------------
(* The engine.                                                              *)

(* The types of a book's orders, and of the commands.                       *)
BookTyped(book) ==
  /\ DOMAIN book \subseteq OrderIds
  /\ \A i \in DOMAIN book : book[i] \in ActiveOrder

LEMMA OrdersAreIncoming ==
  ASSUME EngineConstants
  PROVE  \A o \in Orders : Incoming(o)
  BY DEF EngineConstants, Orders, Incoming

LEMMA ActiveAreEntries ==
  ASSUME EngineConstants
  PROVE  \A r \in ActiveOrder : IsEntry(r)
<1> SUFFICES ASSUME NEW r \in ActiveOrder PROVE IsEntry(r)
  OBVIOUS
<1>1. /\ r.user \in Users /\ r.side \in Sides
      /\ r.price \in Prices \cup {NoPrice}
      /\ r.left \in Nat \ {0} /\ r.seq \in Nat \ {0}
      /\ r = [user |-> r.user, side |-> r.side, price |-> r.price,
              left |-> r.left, seq |-> r.seq]
  BY DEF ActiveOrder
<1>2. r.price \in Nat \cup {NoPrice}
  BY <1>1 DEF EngineConstants
<1> QED
  BY <1>1, <1>2 DEF IsEntry

(* The engine's invariant is that of its book, and its types.               *)
LEMMA EngineInvIsGood ==
  ASSUME EngineConstants
  PROVE  EngineInv <=> /\ sequence \in 0..MaxCommands /\ BookTyped(active)
                       /\ GoodBook(active, sequence)
  BY ActiveAreEntries
     DEF EngineInv, TypeOK, BookTyped, GoodBook, Book, Uncrossed, NotCrossed

(* The orders that a command leaves are those of before, less of them, and  *)
(* the one that it placed.                                                  *)
LEMMA PlacedIsTyped ==
  ASSUME EngineConstants, NEW book, NEW n \in Nat, GoodBook(book, n),
         BookTyped(book), NEW o \in Orders, NEW id \in OrderIds
  PROVE  BookTyped(Placed(book, id, o, n + 1).book)
<1> DEFINE new == Placed(book, id, o, n + 1).book
<1>1. Incoming(o)
  BY OrdersAreIncoming
<1>2. /\ GoodBook(new, n + 1)
      /\ \A i \in DOMAIN new :
           \/ i \in DOMAIN book /\ SameOrder(new[i], book[i])
           \/ i = id /\ new[i].user = o.user /\ new[i].price = o.price
  <2>1. GoodBook(new, n + 1)
    BY <1>1, PlacedIsGood
  <2>2. Book(book, n)
    BY DEF GoodBook
  <2> QED
    BY <1>1, <2>1, <2>2, PlacedKeepsOrders
<1> HIDE DEF new
<1> SUFFICES ASSUME NEW i \in DOMAIN new
             PROVE  i \in OrderIds /\ new[i] \in ActiveOrder
  BY DEF BookTyped, new
<1>3. IsEntry(new[i])
  BY <1>2 DEF GoodBook, Book
<1>4. i \in OrderIds /\ new[i].user \in Users /\ new[i].price \in Prices \cup {NoPrice}
  <2>1. CASE i \in DOMAIN book /\ SameOrder(new[i], book[i])
    BY <2>1 DEF BookTyped, ActiveOrder, SameOrder
  <2>2. CASE i = id /\ new[i].user = o.user /\ new[i].price = o.price
    BY <2>2 DEF Orders
  <2> QED
    BY <1>2, <2>1, <2>2
<1> QED
  BY <1>3, <1>4 DEF IsEntry, ActiveOrder

(* The empty book meets the inductive invariant.                            *)
LEMMA EngineInitInv ==
  ASSUME EngineConstants, Init
  PROVE  EngineInv
<1>1. sequence = 0 /\ sequence \in 0..MaxCommands /\ DOMAIN active = {}
  <2>1. sequence = 0 /\ active = << >> /\ MaxCommands \in Nat
    BY DEF Init, EngineConstants
  <2>2. DOMAIN << >> = {}
    OBVIOUS
  <2> QED
    BY <2>1, <2>2
<1>2. IsFiniteSet(DOMAIN active)
  BY <1>1, FS_EmptySet
<1>3. GoodBook(active, sequence)
  BY <1>1, <1>2 DEF GoodBook, Book, OwnSequences, Uncrossed
<1>4. BookTyped(active)
  BY <1>1 DEF BookTyped
<1> QED
  BY <1>1, <1>3, <1>4, EngineInvIsGood

(* A command keeps the invariant.                                           *)
LEMMA EngineStep ==
  ASSUME EngineConstants, EngineInv, [Next]_vars
  PROVE  EngineInv'
<1>1. /\ sequence \in 0..MaxCommands /\ sequence \in Nat
      /\ BookTyped(active) /\ GoodBook(active, sequence)
  BY EngineInvIsGood DEF EngineConstants
<1> DEFINE Kept == /\ sequence' \in 0..MaxCommands
                   /\ BookTyped(active') /\ GoodBook(active', sequence')
<1>2. Kept
  <2>1. ASSUME NEW id \in OrderIds, NEW o \in Orders, Place(id, o)
        PROVE  Kept
    <3>1. /\ sequence < MaxCommands /\ sequence' = sequence + 1
          /\ active' = Placed(active, id, o, sequence + 1).book
      BY <2>1 DEF Place, Apply
    <3>2. GoodBook(active', sequence') /\ BookTyped(active')
      BY <1>1, <3>1, OrdersAreIncoming, PlacedIsGood, PlacedIsTyped
    <3> QED
      BY <1>1, <3>1, <3>2 DEF EngineConstants
  <2>2. ASSUME NEW id \in OrderIds, Cancel(id)
        PROVE  Kept
    <3>1. /\ sequence < MaxCommands /\ sequence' = sequence + 1
          /\ active' = Cancelled(active, id).book
      BY <2>2 DEF Cancel, Apply
    <3>2. GoodBook(active', sequence')
      BY <1>1, <3>1, CancelledIsGood
    <3>3. BookTyped(active')
      BY <1>1, <3>1, CancelledIsLess DEF BookTyped
    <3> QED
      BY <1>1, <3>1, <3>2, <3>3 DEF EngineConstants
  <2>3. CASE UNCHANGED vars
    BY <1>1, <2>3 DEF vars
  <2> QED
    BY <2>1, <2>2, <2>3 DEF Next
<1> QED
  BY <1>2 DEF EngineInv, TypeOK, BookTyped, GoodBook, Book, Uncrossed, NotCrossed

(* Active orders are typed, have sequences of their own and do not cross.   *)
THEOREM EngineInvariant ==
  ASSUME EngineConstants
  PROVE  Spec => []EngineInv
<1>1. Init => EngineInv
  BY EngineInitInv
<1>2. EngineInv /\ [Next]_vars => EngineInv'
  BY EngineStep
<1> QED
  BY <1>1, <1>2, PTL DEF Spec

(* The engine's variables keep their types, and no active order is filled.  *)
THEOREM EngineTypeCorrect ==
  ASSUME EngineConstants
  PROVE  Spec => []TypeOK
<1>1. EngineInv => TypeOK
  BY DEF EngineInv
<1> QED
  BY <1>1, EngineInvariant, PTL

(* No sequence of partial fills, rejected self-trades, market orders and    *)
(* cancels leaves a resting BUY that meets a resting SELL.                  *)
THEOREM BookNeverCrossed ==
  ASSUME EngineConstants
  PROVE  Spec => []NotCrossed
<1>1. EngineInv => NotCrossed
  BY DEF EngineInv
<1> QED
  BY <1>1, EngineInvariant, PTL

---------------------------------------------------------------------------
(* What a placed order does to the book, for the action properties.         *)

(* Whatever of the three it does, each order of the book loses exactly what *)
(* the trades took from it, in the order of the queue, and nothing but a    *)
(* remainder enters.                                                        *)
LEMMA PlacedTakes ==
  ASSUME NEW book, NEW n \in Nat, Book(book, n),
         NEW o, Incoming(o), NEW id, NEW seq, NEW r, r = Placed(book, id, o, seq)
  PROVE  /\ \A i \in DOMAIN book :
              /\ TakenFrom(r.trades, i) \in Nat
              /\ book[i].left \in Nat /\ book[i].left > 0
              /\ LeftIn(r.book, i) = book[i].left - TakenFrom(r.trades, i)
              /\ i \in DOMAIN r.book <=> TakenFrom(r.trades, i) # book[i].left
         /\ \A i \in DOMAIN r.book \ DOMAIN book :
              i = id /\ r.book[i].left = r.left
         /\ Volume(r.trades) + r.left = o.qty
<1> DEFINE s == Sweep(book, o)
           after == AfterTrades(book, s.trades)
<1>1. BookAfter(book, s.trades, after) /\ Volume(s.trades) + s.left = o.qty
  BY SweepLeaves
<1>2. Refuses(book, o, r) \/ Passes(book, o, r) \/ Rests(book, id, o, seq, r)
  BY PlacedCases
<1>3. \A i \in DOMAIN book : book[i].left \in Nat /\ book[i].left > 0
  BY DEF Book, IsEntry
<1>4. o.qty \in Nat
  BY DEF Incoming
<1>5. CASE Refuses(book, o, r)
  <2>1. r.book = book /\ r.trades = << >> /\ r.left = o.qty
    BY <1>5 DEF Refuses
  <2>2. \A i : TakenFrom(<< >>, i) = 0
    <3>1. DOMAIN << >> = {}
      OBVIOUS
    <3>2. \A i : {a \in DOMAIN << >> : << >>[a].maker = i} = {}
      BY <3>1
    <3> QED
      BY <3>2, SumEmpty DEF TakenFrom
  <2>3. Volume(r.trades) + r.left = o.qty
    BY <1>4, <2>1, NoVolume
  <2>4. \A i \in DOMAIN book : TakenFrom(r.trades, i) = 0
    BY <2>1, <2>2
  <2>5. \A i \in DOMAIN book : LeftIn(r.book, i) = book[i].left
    BY <2>1 DEF LeftIn
  <2> QED
    BY <1>3, <2>1, <2>3, <2>4, <2>5
<1>6. \A i \in DOMAIN book : LeftIn(after, i) = book[i].left - TakenFrom(s.trades, i)
  <2> SUFFICES ASSUME NEW i \in DOMAIN book
               PROVE  LeftIn(after, i) = book[i].left - TakenFrom(s.trades, i)
    OBVIOUS
  <2> DEFINE took == TakenFrom(s.trades, i)
             l == book[i].left
  <2>1. took \in Nat /\ l \in Nat /\ (i \in DOMAIN after <=> took # l)
    BY <1>1, <1>3 DEF BookAfter
  <2>2. i \in DOMAIN after => after[i].left = l - took
    BY <1>1 DEF BookAfter
  <2> HIDE DEF took, l, after
  <2>3. LeftIn(after, i) = l - took
    <3>1. CASE i \in DOMAIN after
      BY <2>2, <3>1 DEF LeftIn
    <3>2. CASE i \notin DOMAIN after
      BY <2>1, <3>2 DEF LeftIn
    <3> QED
      BY <3>1, <3>2
  <2> QED
    BY <2>3 DEF took, l
<1>7. CASE Passes(book, o, r)
  <2>1. r.book = after /\ r.trades = s.trades /\ r.left = s.left
    BY <1>7 DEF Passes
  <2> HIDE DEF after, s
  <2> QED
    BY <1>1, <1>3, <1>6, <2>1 DEF BookAfter
<1>8. CASE Rests(book, id, o, seq, r)
  <2> DEFINE x == Resting(o, s.left, seq)
  <2>1. /\ r.book = With(after, id, x) /\ r.trades = s.trades /\ r.left = s.left
        /\ id \notin DOMAIN book
    BY <1>8 DEF Rests
  <2>2. x.left = s.left
    BY DEF Resting
  <2> HIDE DEF after, s, x
  <2>3. /\ DOMAIN r.book = DOMAIN after \cup {id}
        /\ r.book[id] = x
        /\ \A i \in DOMAIN book : i \in DOMAIN r.book <=> i \in DOMAIN after
        /\ \A i \in DOMAIN book : i \in DOMAIN after => r.book[i] = after[i]
    BY <2>1 DEF With
  <2>4. \A i \in DOMAIN book : LeftIn(r.book, i) = LeftIn(after, i)
    BY <2>3 DEF LeftIn
  <2>5. \A i \in DOMAIN r.book \ DOMAIN book : i = id /\ r.book[i].left = r.left
    BY <1>1, <2>1, <2>2, <2>3 DEF BookAfter
  <2> QED
    BY <1>1, <1>3, <1>6, <2>1, <2>3, <2>4, <2>5 DEF BookAfter
<1> QED
  BY <1>2, <1>5, <1>7, <1>8

(* A step that places an order applies what Placed returns for it.          *)
LEMMA PlacingApplies ==
  ASSUME EngineConstants, [Next]_vars, Placing
  PROVE  \E id \in OrderIds, o \in Orders :
           LET r == Placed(active, id, o, sequence + 1)
           IN /\ active' = r.book /\ last'.trades = r.trades /\ last'.left = r.left
              /\ last'.id = id /\ last'.order = o
<1>1. ~UNCHANGED vars
  BY DEF Placing, vars
<1>2. ASSUME NEW id \in OrderIds, Cancel(id) PROVE FALSE
  <2>1. last'.order = NoOrder
    BY <1>2 DEF Cancel, Apply, Result
  <2> QED
    BY <2>1 DEF Placing
<1>3. PICK id \in OrderIds, o \in Orders : Place(id, o)
  BY <1>1, <1>2 DEF Next
<1> DEFINE r == Placed(active, id, o, sequence + 1)
<1>4. active' = r.book /\ last' = Result(id, o, r)
  BY <1>3 DEF Place, Apply
<1> HIDE DEF r
<1>5. /\ last'.trades = r.trades /\ last'.left = r.left
      /\ last'.id = id /\ last'.order = o
  BY <1>4 DEF Result
<1> QED
  BY <1>4, <1>5 DEF r

(* QuantityConserved of one step.                                           *)
Conserves ==
  Placing =>
    /\ \A i \in DOMAIN active :
         active[i].left - LeftIn(active', i) = TakenFrom(last'.trades, i)
    /\ Volume(last'.trades) + last'.left = last'.order.qty
    /\ \A i \in DOMAIN active' \ DOMAIN active :
         i = last'.id /\ active'[i].left = last'.left

(* Every step meets the conservation property: PlacedTakes says where the   *)
(* quantity went.                                                           *)
LEMMA StepConserves ==
  ASSUME EngineConstants, EngineInv, [Next]_vars
  PROVE  Conserves
<1> SUFFICES ASSUME Placing PROVE Conserves
  BY DEF Conserves
<1>1. PICK id \in OrderIds, o \in Orders :
        LET r == Placed(active, id, o, sequence + 1)
        IN /\ active' = r.book /\ last'.trades = r.trades /\ last'.left = r.left
           /\ last'.id = id /\ last'.order = o
  BY PlacingApplies
<1> DEFINE r == Placed(active, id, o, sequence + 1)
<1>2. sequence \in Nat /\ Book(active, sequence) /\ Incoming(o)
  BY OrdersAreIncoming, EngineInvIsGood DEF EngineConstants, GoodBook
<1>3. /\ \A i \in DOMAIN active :
           /\ TakenFrom(r.trades, i) \in Nat
           /\ active[i].left \in Nat
           /\ LeftIn(r.book, i) = active[i].left - TakenFrom(r.trades, i)
      /\ \A i \in DOMAIN r.book \ DOMAIN active :
           i = id /\ r.book[i].left = r.left
      /\ Volume(r.trades) + r.left = o.qty
  BY <1>2, PlacedTakes
<1>4. /\ active' = r.book /\ last'.trades = r.trades /\ last'.left = r.left
      /\ last'.id = id /\ last'.order = o
  BY <1>1
<1> HIDE DEF r
<1>5. \A i \in DOMAIN active : active[i].left - LeftIn(r.book, i) = TakenFrom(r.trades, i)
  BY <1>3
<1> QED
  BY <1>3, <1>4, <1>5 DEF Conserves

(* No quantity appears or vanishes when an order is placed: what each maker *)
(* loses is what its trade took, what the order loses is the sum of its     *)
(* trades, and the rest rests or is returned.                               *)
THEOREM NothingLostInMatching ==
  ASSUME EngineConstants
  PROVE  Spec => QuantityConserved
<1>1. EngineInv /\ [Next]_vars => [Conserves]_vars
  BY StepConserves
<1>2. Spec => [][Conserves]_vars
  BY <1>1, EngineInvariant, PTL DEF Spec
<1> QED
  BY <1>2 DEF QuantityConserved, Conserves

(* Order i of the book is to be served before order j of its side.          *)
Ahead(book, i, j) ==
  /\ book[i].side = book[j].side
  /\ book[i].price # NoPrice /\ book[j].price # NoPrice
  /\ \/ book[j].side = "SELL" /\ book[i].price < book[j].price
     \/ book[j].side = "BUY" /\ book[i].price > book[j].price
     \/ /\ book[i].price = book[j].price
        /\ book[i].seq < book[j].seq

(* An order ahead of one that o crosses is crossed by o too, and comes      *)
(* before it in the queue.                                                  *)
LEMMA AheadIsQueued ==
  ASSUME NEW book, NEW n \in Nat, Book(book, n),
         NEW o, Incoming(o), NEW i \in DOMAIN book, NEW j \in Makers(book, o),
         Ahead(book, i, j)
  PROVE  /\ i \in Makers(book, o)
         /\ Before(o.side, book[i], book[j])
         /\ ~Before(o.side, book[j], book[i])
         /\ i # j
<1> DEFINE p == book[i].price
           r == book[j].price
           u == book[i].seq
           v == book[j].seq
           lim == o.price
<1>1. /\ j \in DOMAIN book /\ book[j].side # o.side /\ book[i].side # o.side
      /\ book[i].side = book[j].side
      /\ p # NoPrice /\ Crosses(o, book[j])
  BY DEF Makers, Ahead
<1>2. p \in Nat /\ r \in Nat /\ u \in Nat /\ v \in Nat
  BY <1>1 DEF Book, Ahead, IsEntry
<1>3. lim = NoPrice \/ lim \in Nat
  BY DEF Incoming
<1>4. \/ o.side = "BUY" /\ book[j].side = "SELL"
      \/ o.side = "SELL" /\ book[j].side = "BUY"
  <2>1. o.side \in Sides /\ book[j].side \in Sides
    BY <1>1 DEF Book, Incoming, IsEntry
  <2> QED
    BY <1>1, <2>1 DEF Sides
<1>5. \/ book[j].side = "SELL" /\ p < r
      \/ book[j].side = "BUY" /\ p > r
      \/ p = r /\ u < v
  BY DEF Ahead
<1>6. /\ lim = NoPrice \/ (o.side = "BUY" /\ lim >= r) \/ (o.side = "SELL" /\ lim <= r)
  BY <1>1 DEF Crosses
<1>7. CASE o.side = "BUY" /\ book[j].side = "SELL"
  <2>1. p < r \/ (p = r /\ u < v)
    BY <1>5, <1>7
  <2>2. lim = NoPrice \/ lim >= r
    BY <1>6, <1>7
  <2> HIDE DEF p, r, u, v, lim
  <2>3. lim = NoPrice \/ lim >= p
    BY <1>2, <1>3, <2>1, <2>2
  <2>4. ~(r < p) /\ ~(r = p /\ v < u)
    BY <1>2, <2>1
  <2>5. o.side # "SELL"
    BY <1>7
  <2>6. Crosses(o, book[i])
    BY <1>7, <2>3 DEF Crosses, p, lim
  <2>7. Before(o.side, book[i], book[j])
    BY <1>7, <2>1 DEF Before, p, r, u, v
  <2>8. ~Before(o.side, book[j], book[i])
    BY <2>4, <2>5 DEF Before, p, r, u, v
  <2>9. i # j
    BY <2>7, <2>8
  <2> QED
    BY <1>1, <2>6, <2>7, <2>8, <2>9 DEF Makers, p
<1>8. CASE o.side = "SELL" /\ book[j].side = "BUY"
  <2>1. p > r \/ (p = r /\ u < v)
    BY <1>5, <1>8
  <2>2. lim = NoPrice \/ lim <= r
    BY <1>6, <1>8
  <2> HIDE DEF p, r, u, v, lim
  <2>3. lim = NoPrice \/ lim <= p
    BY <1>2, <1>3, <2>1, <2>2
  <2>4. ~(r > p) /\ ~(r = p /\ v < u)
    BY <1>2, <2>1
  <2>5. o.side # "BUY"
    BY <1>8
  <2>6. Crosses(o, book[i])
    BY <1>8, <2>3 DEF Crosses, p, lim
  <2>7. Before(o.side, book[i], book[j])
    BY <1>8, <2>1 DEF Before, p, r, u, v
  <2>8. ~Before(o.side, book[j], book[i])
    BY <2>4, <2>5 DEF Before, p, r, u, v
  <2>9. i # j
    BY <2>7, <2>8
  <2> QED
    BY <1>1, <2>6, <2>7, <2>8, <2>9 DEF Makers, p
<1> QED
  BY <1>4, <1>7, <1>8

(* Whoever loses anything does so after all ahead of it lost everything.    *)
LEMMA SweepKeepsPriority ==
  ASSUME NEW book, NEW n \in Nat, Book(book, n),
         NEW o, Incoming(o),
         NEW i \in DOMAIN book, NEW j \in DOMAIN book, Ahead(book, i, j),
         TakenFrom(Sweep(book, o).trades, j) # 0
  PROVE  TakenFrom(Sweep(book, o).trades, i) = book[i].left
<1> DEFINE q == Queue(book, o)
           s == Sweep(book, o)
           m == Cardinality(Makers(book, o))
<1>1. Listed(q, book, o) /\ TakenInOrder(book, q, s) /\ Loop(book, o, q, m, s)
  BY SweepLeaves, SweepLoops
<1> HIDE DEF q, s
<1>2. /\ m \in Nat /\ DOMAIN q = 1..m /\ Len(s.trades) \in Nat /\ Len(s.trades) <= m
      /\ \A a \in 1..m : q[a] \in Makers(book, o)
  BY <1>1 DEF Listed, Loop, LoopTyped
<1>3. PICK b \in 1..Len(s.trades) : q[b] = j
  BY <1>1 DEF TakenInOrder, s
<1>4. b \in 1..m /\ j \in Makers(book, o)
  BY <1>2, <1>3
<1>5. /\ i \in Makers(book, o) /\ i # j
      /\ ~Before(o.side, book[j], book[i])
  BY <1>4, AheadIsQueued
<1>6. PICK a \in 1..m : q[a] = i
  BY <1>1, <1>2, <1>5 DEF Listed
<1>7. ~(b < a)
  BY <1>1, <1>2, <1>3, <1>4, <1>5, <1>6 DEF Listed
<1>8. a < b /\ a \in 1..Len(s.trades) /\ a < Len(s.trades)
  <2>1. a # b
    BY <1>3, <1>5, <1>6
  <2> QED
    BY <1>2, <1>4, <1>6, <1>7, <2>1
<1>9. TakenFrom(s.trades, q[a]) = book[q[a]].left
  BY <1>1, <1>8 DEF TakenInOrder
<1> QED
  BY <1>6, <1>9 DEF s

(* PriceTimePriority of one step.                                           *)
Prioritises ==
  Placing =>
    \A i, j \in DOMAIN active :
      (/\ active[i].side = active[j].side
       /\ active[i].price # NoPrice /\ active[j].price # NoPrice
       /\ \/ active[j].side = "SELL" /\ active[i].price < active[j].price
          \/ active[j].side = "BUY" /\ active[i].price > active[j].price
          \/ /\ active[i].price = active[j].price
             /\ active[i].seq < active[j].seq
       /\ LeftIn(active', j) < active[j].left)
      => i \notin DOMAIN active'

(* Every step meets the priority property: SweepKeepsPriority says who      *)
(* was left behind.                                                         *)
LEMMA StepPrioritises ==
  ASSUME EngineConstants, EngineInv, [Next]_vars
  PROVE  Prioritises
<1> SUFFICES ASSUME Placing, NEW i \in DOMAIN active, NEW j \in DOMAIN active,
                    Ahead(active, i, j), LeftIn(active', j) < active[j].left
             PROVE  i \notin DOMAIN active'
  BY DEF Prioritises, Ahead
<1>1. PICK id \in OrderIds, o \in Orders :
        LET r == Placed(active, id, o, sequence + 1)
        IN /\ active' = r.book /\ last'.trades = r.trades /\ last'.left = r.left
           /\ last'.id = id /\ last'.order = o
  BY PlacingApplies
<1> DEFINE r == Placed(active, id, o, sequence + 1)
           s == Sweep(active, o)
<1>2. sequence \in Nat /\ Book(active, sequence) /\ Incoming(o)
  BY OrdersAreIncoming, EngineInvIsGood DEF EngineConstants, GoodBook
<1>3. \A k \in DOMAIN active :
        /\ TakenFrom(r.trades, k) \in Nat
        /\ active[k].left \in Nat
        /\ LeftIn(r.book, k) = active[k].left - TakenFrom(r.trades, k)
        /\ k \in DOMAIN r.book <=> TakenFrom(r.trades, k) # active[k].left
  BY <1>2, PlacedTakes
<1>4. (r.trades = << >> /\ r.book = active) \/ r.trades = s.trades
  BY PlacedCases DEF Refuses, Passes, Rests
<1>5. active' = r.book
  BY <1>1
<1> HIDE DEF r
<1>6. TakenFrom(r.trades, j) # 0
  <2> DEFINE took == TakenFrom(r.trades, j)
             l == active[j].left
             now == LeftIn(r.book, j)
  <2>1. took \in Nat /\ l \in Nat /\ now = l - took /\ now < l
    BY <1>3, <1>5
  <2> HIDE DEF took, l, now
  <2>2. took # 0
    BY <2>1
  <2> QED
    BY <2>2 DEF took
<1>7. r.trades = s.trades
  <2>1. CASE r.trades = << >> /\ r.book = active
    <3>1. LeftIn(r.book, j) = active[j].left /\ active[j].left \in Nat
      BY <1>3, <2>1 DEF LeftIn
    <3> QED
      BY <1>5, <3>1
  <2> QED
    BY <1>4, <2>1
<1>8. TakenFrom(s.trades, i) = active[i].left
  <2>1. TakenFrom(s.trades, j) # 0
    BY <1>6, <1>7
  <2> QED
    BY <1>2, <2>1, SweepKeepsPriority
<1> QED
  BY <1>3, <1>5, <1>7, <1>8

(* A maker trades only after every maker ahead of it, by price and then by  *)
(* time of arrival, has been filled, in every command of every history.     *)
THEOREM PriorityRespected ==
  ASSUME EngineConstants
  PROVE  Spec => PriceTimePriority
<1>1. EngineInv /\ [Next]_vars => [Prioritises]_vars
  BY StepPrioritises
<1>2. Spec => [][Prioritises]_vars
  BY <1>1, EngineInvariant, PTL DEF Spec
<1> QED
  BY <1>2 DEF PriceTimePriority, Prioritises

(* A FOK order that is not refused is filled.                               *)
LEMMA FokIsFilled ==
  ASSUME NEW book, NEW id, NEW o, NEW seq, o.tif = "FOK"
  PROVE  \/ Refuses(book, o, Placed(book, id, o, seq))
         \/ Sweep(book, o).left = 0
<1>1. CASE id \in DOMAIN book
  <2>1. Placed(book, id, o, seq) = Outcome("INVALID_ORDER", << >>, o.qty, book)
    BY <1>1 DEF Placed
  <2> QED
    BY <2>1 DEF Refuses, Outcome
<1>2. CASE id \notin DOMAIN book /\ ~CanFillFully(book, o)
  <2>1. Placed(book, id, o, seq) = Outcome("FOK_NOT_FILLED", << >>, o.qty, book)
    BY <1>2 DEF Placed
  <2> QED
    BY <2>1 DEF Refuses, Outcome
<1> QED
  BY <1>1, <1>2 DEF CanFillFully

(* FokAllOrNothing of one step.                                             *)
FillsOrKills ==
  Placing /\ last'.order.tif = "FOK" =>
    IF last'.left = 0 THEN Volume(last'.trades) = last'.order.qty
    ELSE last'.trades = << >> /\ active' = active

(* Every step meets the FOK property.                                       *)
LEMMA StepFillsOrKills ==
  ASSUME EngineConstants, EngineInv, [Next]_vars
  PROVE  FillsOrKills
<1> SUFFICES ASSUME Placing, last'.order.tif = "FOK" PROVE FillsOrKills
  BY DEF FillsOrKills
<1>1. PICK id \in OrderIds, o \in Orders :
        LET r == Placed(active, id, o, sequence + 1)
        IN /\ active' = r.book /\ last'.trades = r.trades /\ last'.left = r.left
           /\ last'.id = id /\ last'.order = o
  BY PlacingApplies
<1> DEFINE r == Placed(active, id, o, sequence + 1)
           s == Sweep(active, o)
<1>2. sequence \in Nat /\ Book(active, sequence) /\ Incoming(o) /\ o.tif = "FOK"
  BY <1>1, OrdersAreIncoming, EngineInvIsGood DEF EngineConstants, GoodBook
<1>3. Volume(r.trades) + r.left = o.qty /\ o.qty \in Nat
  <2>1. o.qty \in Nat
    BY DEF Orders, EngineConstants
  <2> QED
    BY <1>2, <2>1, PlacedTakes
<1>4. Refuses(active, o, r) \/ (r.left = s.left /\ s.left = 0 /\ Volume(r.trades) = o.qty)
  <2>1. Refuses(active, o, r) \/ s.left = 0
    BY <1>2, FokIsFilled
  <2>2. Refuses(active, o, r) \/ (r.left = s.left /\ r.trades = s.trades)
    BY PlacedCases DEF Passes, Rests
  <2>3. s.left = 0 => Volume(s.trades) = o.qty
    <3> DEFINE v == Volume(s.trades)
    <3>1. v \in Nat /\ v + s.left = o.qty
      <4> DEFINE q == Queue(active, o)
                 m == Cardinality(Makers(active, o))
      <4>1. Loop(active, o, q, m, s)
        BY <1>2, SweepLoops
      <4>2. s.trades \in Seq(FillOf(DOMAIN active)) /\ v + s.left = o.qty
        BY <4>1 DEF Loop, LoopTyped
      <4>3. v = SumFunctionOnSet([a \in DOMAIN s.trades |-> s.trades[a].qty], DOMAIN s.trades)
        BY DEF Volume
      <4>4. /\ IsFiniteSet(DOMAIN s.trades)
            /\ \A a \in DOMAIN s.trades : s.trades[a].qty \in Nat
        <5>1. DOMAIN s.trades = 1..Len(s.trades) /\ Len(s.trades) \in Nat
          BY <4>2
        <5>2. IsFiniteSet(1..Len(s.trades))
          <6>1. \A k \in Nat : IsFiniteSet(1..k)
            BY FS_Interval
          <6> QED
            BY <5>1, <6>1
        <5>3. \A x \in FillOf(DOMAIN active) : x.qty \in Nat
          BY DEF FillOf
        <5>4. \A a \in DOMAIN s.trades : s.trades[a] \in FillOf(DOMAIN active)
          BY <4>2
        <5> QED
          BY <5>1, <5>2, <5>3, <5>4
      <4> DEFINE f == [a \in DOMAIN s.trades |-> s.trades[a].qty]
                 D == DOMAIN s.trades
      <4>5. IsFiniteSet(D) /\ \A a \in D : f[a] \in Nat
        BY <4>4
      <4>6. v = SumFunctionOnSet(f, D)
        BY <4>3
      <4> HIDE DEF f, D, v
      <4>7. SumFunctionOnSet(f, D) \in Nat
        BY <4>5, SumNatural
      <4> QED
        BY <4>2, <4>6, <4>7
    <3> HIDE DEF v
    <3>2. s.left = 0 => v = o.qty
      BY <3>1
    <3> QED
      BY <3>2 DEF v
  <2> QED
    BY <2>1, <2>2, <2>3
<1>5. /\ active' = r.book /\ last'.trades = r.trades /\ last'.left = r.left
      /\ last'.order = o
  BY <1>1
<1> HIDE DEF r, s
<1>6. CASE Refuses(active, o, r)
  <2>1. active' = active /\ last'.trades = << >> /\ last'.left = o.qty
    BY <1>5, <1>6 DEF Refuses
  <2>2. last'.left # 0
    <3>1. o.qty \in Quantities
      BY DEF Orders
    <3>2. o.qty # 0
      BY <3>1 DEF EngineConstants
    <3> QED
      BY <2>1, <3>2
  <2> QED
    BY <2>1, <2>2 DEF FillsOrKills
<1>7. CASE r.left = s.left /\ s.left = 0 /\ Volume(r.trades) = o.qty
  <2>1. last'.left = 0 /\ Volume(last'.trades) = last'.order.qty
    BY <1>5, <1>7
  <2> QED
    BY <2>1 DEF FillsOrKills
<1> QED
  BY <1>4, <1>6, <1>7

(* FOK is all or nothing, own orders in the way included.                   *)
THEOREM FokFillsOrKills ==
  ASSUME EngineConstants
  PROVE  Spec => FokAllOrNothing
<1>1. EngineInv /\ [Next]_vars => [FillsOrKills]_vars
  BY StepFillsOrKills
<1>2. Spec => [][FillsOrKills]_vars
  BY <1>1, EngineInvariant, PTL DEF Spec
<1> QED
  BY <1>2 DEF FokAllOrNothing, FillsOrKills

(* TradesAdmissible of one step.                                            *)
AdmitsTrades ==
  Placing =>
    \A t \in ToSet(last'.trades) :
      /\ active[t.maker].user # last'.order.user
      /\ \/ last'.order.price = NoPrice
         \/ last'.order.side = "BUY" /\ t.price <= last'.order.price
         \/ last'.order.side = "SELL" /\ t.price >= last'.order.price

(* Every step makes trades within the taker's and the makers' prices.       *)
LEMMA StepAdmitsTrades ==
  ASSUME EngineConstants, EngineInv, [Next]_vars
  PROVE  AdmitsTrades
<1> SUFFICES ASSUME Placing PROVE AdmitsTrades
  BY DEF AdmitsTrades
<1>1. PICK id \in OrderIds, o \in Orders :
        LET r == Placed(active, id, o, sequence + 1)
        IN /\ active' = r.book /\ last'.trades = r.trades /\ last'.left = r.left
           /\ last'.id = id /\ last'.order = o
  BY PlacingApplies
<1> DEFINE r == Placed(active, id, o, sequence + 1)
           s == Sweep(active, o)
           q == Queue(active, o)
           m == Cardinality(Makers(active, o))
<1>2. sequence \in Nat /\ Book(active, sequence) /\ Incoming(o)
  BY OrdersAreIncoming, EngineInvIsGood DEF EngineConstants, GoodBook
<1>3. r.trades = << >> \/ r.trades = s.trades
  BY PlacedCases DEF Refuses, Passes, Rests
<1>4. Listed(q, active, o) /\ m \in Nat /\ Loop(active, o, q, m, s)
  BY <1>2, QueueLists, SweepLoops DEF Listed
<1>5. \A a \in 1..Len(s.trades) :
        /\ s.trades[a].maker = q[a] /\ q[a] \in Makers(active, o)
  <2> HIDE DEF q, s
  <2>1. m <= m
    BY <1>4
  <2> QED
    BY <1>2, <1>4, <2>1, TradesDistinct
<1>6. \A a \in 1..Len(s.trades) :
        /\ s.trades[a].price = active[q[a]].price
        /\ active[q[a]].user # o.user
  BY <1>4 DEF Loop, TradesInOrder
<1>7. \A t \in ToSet(s.trades) :
        \E i \in Makers(active, o) :
          t.maker = i /\ t.price = active[i].price /\ active[i].user # o.user
  <2>1. DOMAIN s.trades = 1..Len(s.trades)
    BY <1>4 DEF Loop, LoopTyped
  <2> HIDE DEF s, q
  <2> QED
    BY <1>5, <1>6, <2>1 DEF ToSet
<1>8. \A t \in ToSet(r.trades) :
        \E i \in Makers(active, o) :
          t.maker = i /\ t.price = active[i].price /\ active[i].user # o.user
  <2>1. ToSet(<< >>) = {}
    BY DEF ToSet
  <2> QED
    BY <1>3, <1>7, <2>1
<1>9. last'.trades = r.trades /\ last'.order = o
  BY <1>1
<1> HIDE DEF r, s, q
<1> SUFFICES ASSUME NEW t \in ToSet(r.trades)
             PROVE  /\ active[t.maker].user # o.user
                    /\ \/ o.price = NoPrice
                       \/ o.side = "BUY" /\ t.price <= o.price
                       \/ o.side = "SELL" /\ t.price >= o.price
  BY <1>9 DEF AdmitsTrades
<1>10. PICK i \in Makers(active, o) :
         t.maker = i /\ t.price = active[i].price /\ active[i].user # o.user
  BY <1>8
<1>11. Crosses(o, active[i]) /\ active[i].price \in Nat
  BY <1>2, MakerTyped DEF Makers
<1>12. o.price = NoPrice \/ o.price \in Nat
  <2>1. o.price \in Prices \cup {NoPrice}
    BY DEF Orders
  <2> QED
    BY <2>1 DEF EngineConstants
<1> QED
  BY <1>10, <1>11, <1>12 DEF Crosses

(* No trade joins two orders of one user, and none is worse for the taker   *)
(* than its limit.                                                          *)
THEOREM TradesAreAdmissible ==
  ASSUME EngineConstants
  PROVE  Spec => TradesAdmissible
<1>1. EngineInv /\ [Next]_vars => [AdmitsTrades]_vars
  BY StepAdmitsTrades
<1>2. Spec => [][AdmitsTrades]_vars
  BY <1>1, EngineInvariant, PTL DEF Spec
<1> QED
  BY <1>2 DEF TradesAdmissible, AdmitsTrades

----------------------------------------------------------------------------
(* The read models.  A model is the fold of a sequence of events when its    *)
(* rows, balances and identifiers are those of the sequence: the relation   *)
(* that every delivery keeps and that the recursion of the folds gives.     *)

(* t is s and one event more.                                               *)
Extended(t, s, e) ==
  /\ Len(s) \in Nat /\ Len(t) = Len(s) + 1
  /\ t[Len(s) + 1] = e
  /\ \A i \in 1..Len(s) : t[i] = s[i]

EventRow(s, n) == RowOf(s[n], n)
Reports(s, n, kind, key) == s[n].kind = kind /\ s[n].key = key
Reported(s, kind) == {s[n].key : n \in {j \in 1..Len(s) : s[j].kind = kind}}

LastRows(rows, s) ==
  /\ DOMAIN rows = Reported(s, "order")
  /\ \A k \in DOMAIN rows : \E n \in 1..Len(s) :
       /\ Reports(s, n, "order", k) /\ rows[k] = EventRow(s, n)
       /\ \A j \in 1..Len(s) : Reports(s, j, "order", k) => j <= n

FirstRows(rows, s) ==
  /\ DOMAIN rows = Reported(s, "trade")
  /\ \A k \in DOMAIN rows : \E n \in 1..Len(s) :
       /\ Reports(s, n, "trade", k) /\ rows[k] = EventRow(s, n)
       /\ \A j \in 1..Len(s) : Reports(s, j, "trade", k) => n <= j

DeltasAt(s, a) == [n \in 1..Len(s) |-> Delta(s[n], a)]
Sums(b, s) ==
  b \in [Accounts -> Int] /\ \A a \in Accounts : b[a] = SumFunctionOnSet(DeltasAt(s, a), 1..Len(s))

IdsOf(s) == {s[n].id : n \in 1..Len(s)}
Distinct(s) == \A i, j \in 1..Len(s) : s[i].id = s[j].id => i = j

Shaped(m) ==
  m = [status |-> m.status, applied |-> m.applied, processed |-> m.processed,
       orders |-> m.orders, trades |-> m.trades, balances |-> m.balances]

(* The model m is the reference fold of the events s.                       *)
IsModel(m, s) ==
  /\ Shaped(m)
  /\ m.applied = Len(s) /\ m.processed = IdsOf(s)
  /\ LastRows(m.orders, s) /\ FirstRows(m.trades, s) /\ Sums(m.balances, s)

(* An event has a kind and a delta for every account.                       *)
LEMMA EventFacts ==
  ASSUME NEW e \in Events
  PROVE  /\ e.kind \in {"order", "trade", "settlement"} /\ e.id \in Ids
         /\ \A a : Delta(e, a) \in Int /\ (e.kind # "settlement" => Delta(e, a) = 0)
<1>1. PICK c \in Commands : e \in Range(Produces[c])
  BY DEF Events
<1>2. /\ e.kind \in {"order", "trade", "settlement"} /\ e.deltas \in [DOMAIN e.deltas -> Int]
      /\ e.kind # "settlement" => DOMAIN e.deltas = {}
  BY <1>1, EventsAssumption
<1>3. \A a : Delta(e, a) \in Int /\ (e.kind # "settlement" => Delta(e, a) = 0)
  BY <1>2 DEF Delta
<1> QED
  BY <1>2, <1>3 DEF Ids

(* Append adds one event.                                                   *)
LEMMA AppendExtends ==
  ASSUME NEW S, NEW s \in Seq(S), NEW e \in S
  PROVE  Append(s, e) \in Seq(S) /\ Extended(Append(s, e), s, e)
BY AppendProperties DEF Extended

(* One event more reports its key.                                          *)
LEMMA ReportedGrows ==
  ASSUME NEW s, NEW t, NEW e, Extended(t, s, e), NEW kind
  PROVE  Reported(t, kind) = IF e.kind = kind THEN Reported(s, kind) \cup {e.key} ELSE Reported(s, kind)
<1>1. /\ Len(s) \in Nat /\ Len(t) = Len(s) + 1 /\ t[Len(s) + 1] = e
      /\ \A i \in 1..Len(s) : t[i] = s[i]
  BY DEF Extended
<1>2. 1..Len(t) = 1..Len(s) \cup {Len(s) + 1}
  BY <1>1
<1>3. \A i \in 1..Len(t) : i \in 1..Len(s) \/ i = Len(s) + 1
  BY <1>2
<1>4. \A i \in 1..Len(s) : i \in 1..Len(t)
  BY <1>2
<1>5. Len(s) + 1 \in 1..Len(t)
  BY <1>2
<1> QED
  BY <1>1, <1>3, <1>4, <1>5, Zenon DEF Reported

(* The order rows after one event more.                                     *)
LEMMA OrdersGrow ==
  ASSUME NEW s, NEW t, NEW e, Extended(t, s, e), NEW rows, LastRows(rows, s), NEW seq, seq = Len(t)
  PROVE  LastRows(IF e.kind = "order"
                    THEN RowStored(rows, e.key, RowOf(e, seq))
                    ELSE rows, t)
<1> DEFINE row == RowOf(e, seq)
           new == RowStored(rows, e.key, row)
<1>1. /\ Len(s) \in Nat /\ Len(t) = Len(s) + 1 /\ t[Len(s) + 1] = e
      /\ \A i \in 1..Len(s) : t[i] = s[i]
  BY DEF Extended
<1>2. /\ \A i \in 1..Len(t) : i \in 1..Len(s) \/ i = Len(t)
      /\ \A i \in 1..Len(s) : i \in 1..Len(t) /\ i <= Len(t) /\ i # Len(t)
      /\ Len(t) \in 1..Len(t) /\ Len(t) <= Len(t)
  BY <1>1
<1>3. /\ DOMAIN rows = Reported(s, "order")
      /\ \A k \in DOMAIN rows : \E n \in 1..Len(s) :
           /\ Reports(s, n, "order", k) /\ rows[k] = EventRow(s, n)
           /\ \A j \in 1..Len(s) : Reports(s, j, "order", k) => j <= n
  BY DEF LastRows
<1>4. \A n \in 1..Len(s) : EventRow(t, n) = EventRow(s, n) /\ \A k : Reports(t, n, "order", k) <=> Reports(s, n, "order", k)
  BY <1>1 DEF EventRow, Reports
<1>5. t[Len(t)] = e
  BY <1>1
<1>6. CASE e.kind = "order"
  <2>1. DOMAIN new = DOMAIN rows \cup {e.key}
    BY DEF RowStored
  <2>2. new[e.key] = row /\ \A k \in DOMAIN rows : k # e.key => new[k] = rows[k]
    BY DEF RowStored
  <2>3. row = EventRow(t, Len(t)) /\ Reports(t, Len(t), "order", e.key)
    BY <1>5, <1>6 DEF EventRow, Reports
  <2>4. DOMAIN new = Reported(t, "order")
    BY <1>3, <1>6, <2>1, ReportedGrows
  <2> HIDE DEF new, row
  <2>5. ASSUME NEW k \in DOMAIN new
        PROVE  \E n \in 1..Len(t) :
                 /\ Reports(t, n, "order", k) /\ new[k] = EventRow(t, n)
                 /\ \A j \in 1..Len(t) : Reports(t, j, "order", k) => j <= n
    <3>1. CASE k = e.key
      BY <1>2, <2>2, <2>3, <3>1
    <3>2. CASE k # e.key
      <4>1. k \in DOMAIN rows /\ new[k] = rows[k]
        BY <2>1, <2>2, <3>2
      <4>2. PICK n \in 1..Len(s) :
              /\ Reports(s, n, "order", k) /\ rows[k] = EventRow(s, n)
              /\ \A j \in 1..Len(s) : Reports(s, j, "order", k) => j <= n
        BY <1>3, <4>1
      <4>3. ~Reports(t, Len(t), "order", k)
        BY <1>5, <3>2 DEF Reports
      <4>4. \A j \in 1..Len(t) : Reports(t, j, "order", k) => j <= n
        BY <1>2, <1>4, <4>2, <4>3
      <4> QED
        BY <1>2, <1>4, <4>1, <4>2, <4>4
    <3> QED
      BY <3>1, <3>2
  <2> QED
    BY <1>6, <2>4, <2>5 DEF LastRows, new, row
<1>7. CASE e.kind # "order"
  <2>1. DOMAIN rows = Reported(t, "order")
    BY <1>3, <1>7, ReportedGrows
  <2>2. ASSUME NEW k \in DOMAIN rows
        PROVE  \E n \in 1..Len(t) :
                 /\ Reports(t, n, "order", k) /\ rows[k] = EventRow(t, n)
                 /\ \A j \in 1..Len(t) : Reports(t, j, "order", k) => j <= n
    <3>1. PICK n \in 1..Len(s) :
            /\ Reports(s, n, "order", k) /\ rows[k] = EventRow(s, n)
            /\ \A j \in 1..Len(s) : Reports(s, j, "order", k) => j <= n
      BY <1>3
    <3>2. ~Reports(t, Len(t), "order", k)
      BY <1>5, <1>7 DEF Reports
    <3> QED
      BY <1>2, <1>4, <3>1, <3>2
  <2> QED
    BY <1>7, <2>1, <2>2 DEF LastRows
<1> QED
  BY <1>6, <1>7

(* The trade rows after one event more.                                     *)
LEMMA TradesGrow ==
  ASSUME NEW s, NEW t, NEW e, Extended(t, s, e), NEW rows, FirstRows(rows, s), NEW seq, seq = Len(t)
  PROVE  FirstRows(IF e.kind = "trade" /\ e.key \notin DOMAIN rows
                     THEN RowStored(rows, e.key, RowOf(e, seq))
                     ELSE rows, t)
<1> DEFINE row == RowOf(e, seq)
           new == RowStored(rows, e.key, row)
<1>1. /\ Len(s) \in Nat /\ Len(t) = Len(s) + 1 /\ t[Len(s) + 1] = e
      /\ \A i \in 1..Len(s) : t[i] = s[i]
  BY DEF Extended
<1>2. /\ \A i \in 1..Len(t) : i \in 1..Len(s) \/ i = Len(t)
      /\ \A i \in 1..Len(s) : i \in 1..Len(t) /\ i <= Len(t) /\ i # Len(t)
      /\ Len(t) \in 1..Len(t) /\ Len(t) <= Len(t)
  BY <1>1
<1>3. /\ DOMAIN rows = Reported(s, "trade")
      /\ \A k \in DOMAIN rows : \E n \in 1..Len(s) :
           /\ Reports(s, n, "trade", k) /\ rows[k] = EventRow(s, n)
           /\ \A j \in 1..Len(s) : Reports(s, j, "trade", k) => n <= j
  BY DEF FirstRows
<1>4. \A n \in 1..Len(s) : EventRow(t, n) = EventRow(s, n) /\ \A k : Reports(t, n, "trade", k) <=> Reports(s, n, "trade", k)
  BY <1>1 DEF EventRow, Reports
<1>5. t[Len(t)] = e
  BY <1>1
<1>6. ASSUME NEW k \in DOMAIN rows
      PROVE  \E n \in 1..Len(t) :
               /\ Reports(t, n, "trade", k) /\ rows[k] = EventRow(t, n)
               /\ \A j \in 1..Len(t) : Reports(t, j, "trade", k) => n <= j
  <2>1. PICK n \in 1..Len(s) :
          /\ Reports(s, n, "trade", k) /\ rows[k] = EventRow(s, n)
          /\ \A j \in 1..Len(s) : Reports(s, j, "trade", k) => n <= j
    BY <1>3
  <2>2. \A j \in 1..Len(t) : Reports(t, j, "trade", k) => n <= j
    BY <1>2, <1>4, <2>1
  <2> QED
    BY <1>2, <1>4, <2>1, <2>2
<1>7. CASE e.kind = "trade" /\ e.key \notin DOMAIN rows
  <2>1. DOMAIN new = DOMAIN rows \cup {e.key}
    BY DEF RowStored
  <2>2. new[e.key] = row /\ \A k \in DOMAIN rows : new[k] = rows[k]
    BY <1>7 DEF RowStored
  <2>3. row = EventRow(t, Len(t)) /\ Reports(t, Len(t), "trade", e.key)
    BY <1>5, <1>7 DEF EventRow, Reports
  <2>4. DOMAIN new = Reported(t, "trade")
    BY <1>3, <1>7, <2>1, ReportedGrows
  <2> HIDE DEF new, row
  <2>5. ASSUME NEW k \in DOMAIN new
        PROVE  \E n \in 1..Len(t) :
                 /\ Reports(t, n, "trade", k) /\ new[k] = EventRow(t, n)
                 /\ \A j \in 1..Len(t) : Reports(t, j, "trade", k) => n <= j
    <3>1. CASE k \in DOMAIN rows
      BY <1>6, <2>2, <3>1
    <3>2. CASE k \notin DOMAIN rows
      <4>1. k = e.key /\ new[k] = row
        BY <2>1, <2>2, <3>2
      <4>2. \A j \in 1..Len(s) : ~Reports(s, j, "trade", k)
        BY <1>3, <3>2 DEF Reports, Reported
      <4>3. \A j \in 1..Len(t) : Reports(t, j, "trade", k) => Len(t) <= j
        BY <1>2, <1>4, <4>2
      <4> QED
        BY <1>2, <2>3, <4>1, <4>3
    <3> QED
      BY <3>1, <3>2
  <2> QED
    BY <1>7, <2>4, <2>5 DEF FirstRows, new, row
<1>8. CASE ~(e.kind = "trade" /\ e.key \notin DOMAIN rows)
  <2>1. DOMAIN rows = Reported(t, "trade")
    <3>1. Reported(t, "trade") = IF e.kind = "trade" THEN Reported(s, "trade") \cup {e.key} ELSE Reported(s, "trade")
      BY ReportedGrows
    <3> QED
      BY <1>3, <1>8, <3>1
  <2> QED
    BY <1>6, <1>8, <2>1 DEF FirstRows
<1> QED
  BY <1>7, <1>8

(* The balances after one event more.                                       *)
LEMMA BalancesGrow ==
  ASSUME NEW s \in Seq(Events), NEW t, NEW e \in Events, Extended(t, s, e), NEW b, Sums(b, s)
  PROVE  /\ Sums([a \in Accounts |-> b[a] + Delta(e, a)], t)
         /\ e.kind # "settlement" => Sums(b, t)
<1> DEFINE n == Len(s)
           more == [a \in Accounts |-> b[a] + Delta(e, a)]
<1>1. /\ n \in Nat /\ Len(t) = n + 1 /\ t[n + 1] = e
      /\ \A i \in 1..n : t[i] = s[i] /\ s[i] \in Events
  BY DEF Extended
<1>2. b \in [Accounts -> Int] /\ \A a \in Accounts : b[a] = SumFunctionOnSet(DeltasAt(s, a), 1..n)
  BY DEF Sums
<1>3. \A a : Delta(e, a) \in Int /\ (e.kind # "settlement" => Delta(e, a) = 0)
  BY EventFacts
<1>4. ASSUME NEW a \in Accounts
      PROVE  SumFunctionOnSet(DeltasAt(t, a), 1..Len(t)) = b[a] + Delta(e, a)
  <2> DEFINE f == DeltasAt(t, a)
             h == DeltasAt(s, a)
             S == 1..n
  <2>1. 1..Len(t) = S \cup {n + 1} /\ n + 1 \notin S /\ \A i \in S : i \in 1..Len(t)
    BY <1>1
  <2>2. \A i \in S : f[i] = h[i]
    BY <1>1, <2>1 DEF DeltasAt
  <2>3. f[n + 1] = Delta(e, a) /\ \A i \in S : f[i] \in Int
    <3>1. \A i \in S : Delta(s[i], a) \in Int
      BY <1>1, EventFacts
    <3> QED
      BY <1>1, <2>1, <3>1 DEF DeltasAt
  <2>4. IsFiniteSet(S)
    BY <1>1, FS_Interval
  <2> HIDE DEF f, h, S, n
  <2>5. SumFunctionOnSet(f, S) = SumFunctionOnSet(h, S)
    BY <2>2, <2>4, SumCongruent
  <2>6. \A i \in S \cup {n + 1} : f[i] \in Int
    BY <1>3, <2>3
  <2>7. SumFunctionOnSet(f, S \cup {n + 1}) = SumFunctionOnSet(f, S) + f[n + 1]
    BY <2>1, <2>4, <2>6, SumAdds
  <2>8. b[a] = SumFunctionOnSet(h, S)
    BY <1>2 DEF h, S, n
  <2> QED
    BY <2>1, <2>3, <2>5, <2>7, <2>8 DEF f
<1>5. \A a \in Accounts : more[a] \in Int
  BY <1>2, <1>3
<1>6. Sums(more, t)
  BY <1>4, <1>5 DEF Sums
<1>7. e.kind # "settlement" => \A a \in Accounts : b[a] + Delta(e, a) = b[a]
  BY <1>2, <1>3
<1>8. e.kind # "settlement" => Sums(b, t)
  BY <1>2, <1>4, <1>7 DEF Sums
<1> QED
  BY <1>6, <1>8

(* A model with its live events.                                            *)
Faithful(p, status) ==
  /\ p = [model |-> p.model, live |-> p.live]
  /\ p.live \in Seq(Events) /\ Distinct(p.live)
  /\ IsModel(p.model, p.live) /\ p.model.status = status

(* What recording an event makes of a model, field by field.                *)
LEMMA RecordedFields ==
  ASSUME NEW st, NEW ap, NEW pr, NEW o, NEW t, NEW b, NEW e, NEW seq
  PROVE  Recorded([status |-> st, applied |-> ap, processed |-> pr, orders |-> o, trades |-> t, balances |-> b], e, seq) =
           [status |-> st, applied |-> seq, processed |-> pr \cup {e.id}, orders |-> o, trades |-> t, balances |-> b]
<1> DEFINE m == [status |-> st, applied |-> ap, processed |-> pr, orders |-> o, trades |-> t, balances |-> b]
           ids == m.processed \cup {e.id}
<1>1. Recorded(m, e, seq) = [m EXCEPT !.processed = ids, !.applied = seq]
  BY Zenon DEF Recorded
<1>2. ids = pr \cup {e.id}
  OBVIOUS
<1> HIDE DEF ids
<1>3. [m EXCEPT !.processed = ids, !.applied = seq] = [[m EXCEPT !.processed = ids] EXCEPT !.applied = seq]
  OBVIOUS
<1>4. [m EXCEPT !.processed = ids] =
        [status |-> st, applied |-> ap, processed |-> ids, orders |-> o, trades |-> t, balances |-> b]
  OBVIOUS
<1>5. [[m EXCEPT !.processed = ids] EXCEPT !.applied = seq] =
        [status |-> st, applied |-> seq, processed |-> ids, orders |-> o, trades |-> t, balances |-> b]
  <2> DEFINE k == [status |-> st, applied |-> ap, processed |-> ids, orders |-> o, trades |-> t, balances |-> b]
  <2>1. [k EXCEPT !.applied = seq] =
          [status |-> st, applied |-> seq, processed |-> ids, orders |-> o, trades |-> t, balances |-> b]
    OBVIOUS
  <2>2. [m EXCEPT !.processed = ids] = k
    BY <1>4
  <2> HIDE DEF k, m
  <2> QED
    BY <2>1, <2>2
<1> QED
  BY <1>1, <1>2, <1>3, <1>5

(* What an event makes of a model, field by field.                          *)
LEMMA AppliedFields ==
  ASSUME NEW m, Shaped(m), NEW e, e.kind \in {"order", "trade", "settlement"}
  PROVE  LET seq == m.applied + 1 IN
         Applied(m, e) =
           [status |-> m.status, applied |-> seq, processed |-> m.processed \cup {e.id},
            orders |-> IF e.kind = "order" THEN RowStored(m.orders, e.key, RowOf(e, seq)) ELSE m.orders,
            trades |-> IF e.kind = "trade" /\ e.key \notin DOMAIN m.trades
                         THEN RowStored(m.trades, e.key, RowOf(e, seq)) ELSE m.trades,
            balances |-> IF e.kind = "settlement"
                           THEN [x \in Accounts |-> m.balances[x] + Delta(e, x)] ELSE m.balances]
<1> DEFINE seq == m.applied + 1
           stored == RowStored(m.trades, e.key, RowOf(e, seq))
           o1 == RowStored(m.orders, e.key, RowOf(e, seq))
           b1 == [x \in Accounts |-> m.balances[x] + Delta(e, x)]
<1>1. Applied(m, e) = Recorded(Mutated(m, e, seq), e, seq)
  BY DEF Applied
<1>2. /\ e.kind = "order" => Mutated(m, e, seq) = [m EXCEPT !.orders = o1]
      /\ e.kind = "trade" => Mutated(m, e, seq) =
           IF e.key \in DOMAIN m.trades THEN m ELSE [m EXCEPT !.trades = stored]
      /\ e.kind = "settlement" => Mutated(m, e, seq) = [m EXCEPT !.balances = b1]
  <2>1. Upserted(m, e, seq) = [m EXCEPT !.orders = o1]
    BY Zenon DEF Upserted
  <2>2. Inserted(m, e, seq) = IF e.key \in DOMAIN m.trades THEN m ELSE [m EXCEPT !.trades = stored]
    BY Zenon DEF Inserted
  <2>3. Posted(m, e) = [m EXCEPT !.balances = b1]
    BY Zenon DEF Posted
  <2> HIDE DEF seq, o1, stored, b1
  <2> QED
    BY <2>1, <2>2, <2>3 DEF Mutated
<1>3. PICK st, ap, pr, o, t, b :
        m = [status |-> st, applied |-> ap, processed |-> pr, orders |-> o, trades |-> t, balances |-> b]
  BY Zenon DEF Shaped
<1>4. m.status = st /\ m.processed = pr /\ m.orders = o /\ m.trades = t /\ m.balances = b
  BY <1>3
<1> HIDE DEF seq, o1, stored, b1
<1>5. CASE e.kind = "order"
  <2>1. Mutated(m, e, seq) = [status |-> st, applied |-> ap, processed |-> pr, orders |-> o1, trades |-> t, balances |-> b]
    <3>1. Mutated(m, e, seq) = [m EXCEPT !.orders = o1]
      BY <1>2, <1>5
    <3> QED
      BY <1>3, <3>1
  <2>2. Recorded(Mutated(m, e, seq), e, seq) =
          [status |-> st, applied |-> seq, processed |-> pr \cup {e.id}, orders |-> o1, trades |-> t, balances |-> b]
    BY <2>1, RecordedFields
  <2> QED
    BY <1>1, <1>4, <1>5, <2>2 DEF o1, seq
<1>6. CASE e.kind = "trade" /\ e.key \notin DOMAIN m.trades
  <2>1. Mutated(m, e, seq) = [status |-> st, applied |-> ap, processed |-> pr, orders |-> o, trades |-> stored, balances |-> b]
    <3>1. Mutated(m, e, seq) = [m EXCEPT !.trades = stored]
      BY <1>2, <1>6
    <3> QED
      BY <1>3, <3>1
  <2>2. Recorded(Mutated(m, e, seq), e, seq) =
          [status |-> st, applied |-> seq, processed |-> pr \cup {e.id}, orders |-> o, trades |-> stored, balances |-> b]
    BY <2>1, RecordedFields
  <2> QED
    BY <1>1, <1>4, <1>6, <2>2 DEF stored, seq
<1>7. CASE e.kind = "trade" /\ e.key \in DOMAIN m.trades
  <2>1. Mutated(m, e, seq) = [status |-> st, applied |-> ap, processed |-> pr, orders |-> o, trades |-> t, balances |-> b]
    BY <1>2, <1>3, <1>7
  <2>2. Recorded(Mutated(m, e, seq), e, seq) =
          [status |-> st, applied |-> seq, processed |-> pr \cup {e.id}, orders |-> o, trades |-> t, balances |-> b]
    BY <2>1, RecordedFields
  <2> QED
    BY <1>1, <1>4, <1>7, <2>2 DEF seq
<1>8. CASE e.kind = "settlement"
  <2>1. Mutated(m, e, seq) = [status |-> st, applied |-> ap, processed |-> pr, orders |-> o, trades |-> t, balances |-> b1]
    <3>1. Mutated(m, e, seq) = [m EXCEPT !.balances = b1]
      BY <1>2, <1>8
    <3> QED
      BY <1>3, <3>1
  <2>2. Recorded(Mutated(m, e, seq), e, seq) =
          [status |-> st, applied |-> seq, processed |-> pr \cup {e.id}, orders |-> o, trades |-> t, balances |-> b1]
    BY <2>1, RecordedFields
  <2> QED
    BY <1>1, <1>4, <1>8, <2>2 DEF b1, seq
<1> QED
  BY <1>5, <1>6, <1>7, <1>8

(* One event extends the model and its live events, or neither.             *)
LEMMA DeliveredIsFaithful ==
  ASSUME NEW p, NEW status, Faithful(p, status), NEW e \in Events
  PROVE  /\ Faithful(Delivered(p, e), status)
         /\ e.id \in IdsOf(p.live) => Delivered(p, e) = p
         /\ e.id \notin IdsOf(p.live) => Delivered(p, e).live = Append(p.live, e)
<1> DEFINE m == p.model
           s == p.live
           t == Append(s, e)
           seq == m.applied + 1
           a == Applied(m, e)
<1>1. /\ p = [model |-> m, live |-> s]
      /\ s \in Seq(Events) /\ Distinct(s)
      /\ IsModel(m, s) /\ m.status = status
  BY DEF Faithful
<1>2. t \in Seq(Events) /\ Extended(t, s, e)
  BY <1>1, AppendExtends
<1>3. /\ Len(s) \in Nat /\ Len(t) = Len(s) + 1 /\ t[Len(s) + 1] = e
      /\ \A i \in 1..Len(s) : t[i] = s[i]
  BY <1>2 DEF Extended
<1>4. /\ Shaped(m)
      /\ m.applied = Len(s) /\ m.processed = IdsOf(s)
      /\ LastRows(m.orders, s) /\ FirstRows(m.trades, s) /\ Sums(m.balances, s)
  BY <1>1 DEF IsModel
<1>5. e.kind \in {"order", "trade", "settlement"}
  BY EventFacts
<1>6. CASE e.id \in m.processed
  BY <1>1, <1>4, <1>6 DEF Delivered
<1>7. CASE e.id \notin m.processed
  <2>1. Delivered(p, e) = [model |-> a, live |-> t]
    BY <1>7 DEF Delivered
  <2>2. seq = Len(t)
    BY <1>3, <1>4
  <2>3. IdsOf(t) = IdsOf(s) \cup {e.id}
    <3>1. 1..Len(t) = 1..Len(s) \cup {Len(s) + 1}
      BY <1>3
    <3>2. \A i \in 1..Len(t) : i \in 1..Len(s) \/ i = Len(s) + 1
      BY <3>1
    <3>3. \A i \in 1..Len(s) : i \in 1..Len(t)
      BY <3>1
    <3>4. Len(s) + 1 \in 1..Len(t)
      BY <3>1
    <3> QED
      BY <1>3, <3>2, <3>3, <3>4, Zenon DEF IdsOf
  <2>4. Distinct(t)
    <3>1. \A i \in 1..Len(t) : i \in 1..Len(s) \/ i = Len(s) + 1
      BY <1>3
    <3>2. \A i \in 1..Len(s) : t[i].id # e.id
      BY <1>3, <1>4, <1>7 DEF IdsOf
    <3>3. \A i, j \in 1..Len(s) : t[i].id = t[j].id => i = j
      BY <1>1, <1>3 DEF Distinct
    <3> QED
      BY <1>3, <3>1, <3>2, <3>3 DEF Distinct
  <2> DEFINE orders == IF e.kind = "order" THEN RowStored(m.orders, e.key, RowOf(e, seq)) ELSE m.orders
             trades == IF e.kind = "trade" /\ e.key \notin DOMAIN m.trades
                         THEN RowStored(m.trades, e.key, RowOf(e, seq)) ELSE m.trades
             balances == IF e.kind = "settlement" THEN [x \in Accounts |-> m.balances[x] + Delta(e, x)] ELSE m.balances
  <2>5. LastRows(orders, t)
    <3> HIDE DEF m, s, t, seq
    <3> QED
      BY <1>2, <1>4, <2>2, OrdersGrow
  <2>6. FirstRows(trades, t)
    <3> HIDE DEF m, s, t, seq
    <3> QED
      BY <1>2, <1>4, <2>2, TradesGrow
  <2>7. Sums(balances, t)
    <3>1. /\ Sums([x \in Accounts |-> m.balances[x] + Delta(e, x)], t)
          /\ e.kind # "settlement" => Sums(m.balances, t)
      <4> HIDE DEF m, s, t
      <4> QED
        BY <1>1, <1>2, <1>4, BalancesGrow
    <3> QED
      BY <3>1
  <2>8. a = [status |-> m.status, applied |-> seq, processed |-> m.processed \cup {e.id},
             orders |-> orders, trades |-> trades, balances |-> balances]
    <3>1. Shaped(m)
      BY <1>4
    <3> HIDE DEF m, s, t
    <3> QED
      BY <1>5, <3>1, AppliedFields
  <2> HIDE DEF orders, trades, balances
  <2>9. IsModel(a, t) /\ a.status = status
    <3>1. Shaped(a)
      BY <2>8 DEF Shaped
    <3>2. /\ a.applied = Len(t) /\ a.processed = IdsOf(t) /\ a.status = status
          /\ a.orders = orders /\ a.trades = trades /\ a.balances = balances
      BY <1>1, <1>4, <2>2, <2>3, <2>8
    <3> QED
      BY <2>5, <2>6, <2>7, <3>1, <3>2 DEF IsModel
  <2> HIDE DEF a, t
  <2>10. Faithful([model |-> a, live |-> t], status)
    BY <1>2, <2>4, <2>9 DEF Faithful
  <2> QED
    BY <1>4, <1>7, <2>1, <2>10 DEF t
<1> QED
  BY <1>6, <1>7

---------------------------------------------------------------------------
(* The fold takes the last event first.                                     *)

TakenIn(g, p, q, s) ==
  IF s = {} THEN p ELSE Delivered(g[s \ {Max(s)}], q[Max(s)])

Takings(g, p, q, U) == g = [s \in U |-> TakenIn(g, p, q, s)]

(* The fold is what the chosen solution has at the whole sequence.          *)
LEMMA DeliveryIsChosen ==
  ASSUME NEW p, NEW q
  PROVE  FoldLeft(Delivered, p, q) =
           (CHOOSE g : Takings(g, p, q, SUBSET DOMAIN q))[DOMAIN q]
BY Zenon DEF FoldLeft, MapThenFoldSet, Takings, TakenIn

(* The recursion has a solution.                                            *)
LEMMA TakingsExist ==
  ASSUME NEW p, NEW q, NEW n \in Nat, DOMAIN q = 1..n
  PROVE  \E g : Takings(g, p, q, SUBSET (1..n))
<1> DEFINE S == 1..n
           Solved(m) == \E g : Takings(g, p, q, Upto(S, m))
           T == {m \in Nat : Solved(m)}
<1>1. IsFiniteSet(S) /\ Cardinality(S) \in Nat
  BY FS_Interval, FS_CardinalityType
<1>2. \A s \in SUBSET S : /\ IsFiniteSet(s) /\ Cardinality(s) \in Nat
                          /\ Cardinality(s) <= Cardinality(S)
                          /\ s # {} => Max(s) \in s
  <2>1. \A s \in SUBSET S : s # {} => Max(s) \in s
    BY MaxIsLast
  <2> HIDE DEF S
  <2> QED
    BY <1>1, <2>1, FS_Subset, FS_CardinalityType
<1> HIDE DEF S
<1>3. Solved(0)
  <2> DEFINE g == [s \in Upto(S, 0) |-> p]
  <2>1. \A s \in Upto(S, 0) : s = {}
    BY <1>2, FS_EmptySet DEF Upto
  <2>2. \A s \in Upto(S, 0) : TakenIn(g, p, q, s) = p
    BY <2>1 DEF TakenIn
  <2>3. Takings(g, p, q, Upto(S, 0))
    BY <2>2 DEF Takings
  <2> QED
    BY <2>3
<1>4. ASSUME NEW m \in Nat, Solved(m)
      PROVE  Solved(m + 1)
  <2>1. PICK g : Takings(g, p, q, Upto(S, m))
    BY <1>4
  <2> DEFINE h == [s \in Upto(S, m + 1) |-> TakenIn(g, p, q, s)]
  <2>2. \A s \in Upto(S, m + 1) : s # {} => s \ {Max(s)} \in Upto(S, m)
    <3> SUFFICES ASSUME NEW s \in Upto(S, m + 1), s # {}
                 PROVE  s \ {Max(s)} \in Upto(S, m)
      OBVIOUS
    <3>1. /\ Max(s) \in s /\ s \in SUBSET S /\ IsFiniteSet(s)
          /\ Cardinality(s) \in Nat /\ Cardinality(s) <= m + 1
      BY <1>2 DEF Upto
    <3>2. Cardinality(s \ {Max(s)}) = Cardinality(s) - 1
      BY <3>1, FS_RemoveElement
    <3> QED
      BY <3>1, <3>2 DEF Upto
  <2>3. \A s \in Upto(S, m) : s \in Upto(S, m + 1)
    BY <1>2 DEF Upto
  <2>4. \A s \in Upto(S, m) : h[s] = g[s]
    BY <2>1, <2>3 DEF Takings
  <2>5. \A s \in Upto(S, m + 1) : TakenIn(h, p, q, s) = TakenIn(g, p, q, s)
    <3> HIDE DEF h
    <3> SUFFICES ASSUME NEW s \in Upto(S, m + 1)
                 PROVE  TakenIn(h, p, q, s) = TakenIn(g, p, q, s)
      OBVIOUS
    <3>1. CASE s = {}
      BY <3>1 DEF TakenIn
    <3>2. CASE s # {}
      <4>1. h[s \ {Max(s)}] = g[s \ {Max(s)}]
        BY <2>2, <2>4, <3>2
      <4> QED
        BY <3>2, <4>1 DEF TakenIn
    <3> QED
      BY <3>1, <3>2
  <2>6. Takings(h, p, q, Upto(S, m + 1))
    BY <2>5 DEF Takings
  <2> QED
    BY <2>6
<1> DEFINE c == Cardinality(S)
<1>5. Solved(c)
  <2> HIDE DEF Solved, c
  <2>1. 0 \in T
    BY <1>3
  <2>2. \A k \in 1..c : k - 1 \in T => k \in T
    <3> SUFFICES ASSUME NEW k \in 1..c, k - 1 \in T PROVE k \in T
      OBVIOUS
    <3>1. k - 1 \in Nat /\ k \in Nat /\ (k - 1) + 1 = k
      OBVIOUS
    <3> QED
      BY <1>4, <3>1
  <2>3. c \in Nat
    BY <1>1 DEF c
  <2> HIDE DEF T
  <2>4. c \in T
    <3>1. \A k \in 0..c : k \in T
      BY <2>1, <2>2, <2>3, StepsInduction
    <3> QED
      BY <2>3, <3>1
  <2> QED
    BY <2>4 DEF T
<1>6. Upto(S, c) = SUBSET S
  BY <1>2 DEF Upto
<1> QED
  BY <1>5, <1>6 DEF S

(* The fold event by event.                                                 *)
LEMMA DeliveredInSteps ==
  ASSUME NEW p, NEW q, NEW n \in Nat, DOMAIN q = 1..n
  PROVE  \E st : /\ st[0] = p
                 /\ \A k \in 1..n : st[k] = Delivered(st[k - 1], q[k])
                 /\ st[n] = FoldLeft(Delivered, p, q)
<1> DEFINE g == CHOOSE g : Takings(g, p, q, SUBSET (1..n))
           st == [k \in 0..n |-> g[1..k]]
<1>1. Takings(g, p, q, SUBSET (1..n))
  BY TakingsExist, Zenon
<1>2. FoldLeft(Delivered, p, q) = g[1..n]
  BY DeliveryIsChosen
<1> HIDE DEF g
<1>3. \A k \in 0..n : 1..k \in SUBSET (1..n)
  OBVIOUS
<1>4. st[0] = p
  <2>1. 1..0 = {} /\ 0 \in 0..n
    OBVIOUS
  <2>2. g[1..0] = TakenIn(g, p, q, 1..0)
    BY <1>1, <1>3, <2>1 DEF Takings
  <2> QED
    BY <2>1, <2>2 DEF TakenIn
<1>5. ASSUME NEW k \in 1..n
      PROVE  st[k] = Delivered(st[k - 1], q[k])
  <2>1. k \in 0..n /\ k - 1 \in 0..n /\ k \in 1..k /\ k \in Nat
    OBVIOUS
  <2>2. Max(1..k) = k
    <3>1. Max(1..k) \in 1..k /\ Max(1..k) >= k
      BY <2>1, MaxIsLast
    <3> QED
      BY <3>1
  <2>3. (1..k) \ {k} = 1..(k - 1)
    OBVIOUS
  <2>4. g[1..k] = TakenIn(g, p, q, 1..k)
    BY <1>1, <1>3, <2>1 DEF Takings
  <2>5. 1..k # {}
    BY <2>1
  <2>6. g[1..k] = Delivered(g[1..(k - 1)], q[k])
    BY <2>2, <2>3, <2>4, <2>5 DEF TakenIn
  <2> QED
    BY <2>1, <2>6
<1>6. st[n] = FoldLeft(Delivered, p, q)
  BY <1>2
<1> HIDE DEF st
<1> QED
  BY <1>4, <1>5, <1>6

(* s is the beginning of t.                                                 *)
Prefix(s, t) == Len(s) <= Len(t) /\ \A i \in 1..Len(s) : t[i] = s[i]

(* Events delivered to a faithful model leave it faithful, with the old     *)
(* events and the delivered ones, the old ones first.                       *)
LEMMA DeliveryIsFaithful ==
  ASSUME NEW m, NEW s, NEW status, Faithful([model |-> m, live |-> s], status),
         NEW q \in Seq(Events)
  PROVE  LET r == DeliveredAll(m, s, q) IN
         /\ Faithful(r, status)
         /\ IdsOf(r.live) = IdsOf(s) \cup IdsOf(q)
         /\ Prefix(s, r.live)
<1> DEFINE p == [model |-> m, live |-> s]
           n == Len(q)
           r == DeliveredAll(m, s, q)
<1>1. n \in Nat /\ DOMAIN q = 1..n /\ \A k \in 1..n : q[k] \in Events
  OBVIOUS
<1>2. PICK st : /\ st[0] = p
                /\ \A k \in 1..n : st[k] = Delivered(st[k - 1], q[k])
                /\ st[n] = FoldLeft(Delivered, p, q)
  <2> HIDE DEF p, n
  <2> QED
    BY <1>1, DeliveredInSteps
<1>3. r = st[n]
  BY <1>2 DEF DeliveredAll
<1>4. p.live = s /\ s \in Seq(Events) /\ Len(s) \in Nat
  BY DEF Faithful
<1> DEFINE Good(k) == /\ Faithful(st[k], status)
                      /\ IdsOf(st[k].live) = IdsOf(s) \cup {q[i].id : i \in 1..k}
                      /\ Prefix(s, st[k].live)
           T == {k \in 0..n : Good(k)}
<1>5. Good(0)
  <2>1. Faithful(st[0], status)
    BY <1>2
  <2>2. {q[i].id : i \in 1..0} = {}
    OBVIOUS
  <2>3. st[0].live = s
    BY <1>2
  <2>4. Prefix(s, s)
    BY <1>4 DEF Prefix
  <2> QED
    BY <2>1, <2>2, <2>3, <2>4
<1>6. ASSUME NEW k \in 1..n, Good(k - 1)
      PROVE  Good(k)
  <2> DEFINE o == st[k - 1]
             e == q[k]
  <2>1. Faithful(o, status) /\ e \in Events /\ st[k] = Delivered(o, e)
    BY <1>1, <1>2, <1>6
  <2>2. /\ Faithful(st[k], status)
        /\ e.id \in IdsOf(o.live) => st[k] = o
        /\ e.id \notin IdsOf(o.live) => st[k].live = Append(o.live, e)
    <3> HIDE DEF o, e
    <3> QED
      BY <2>1, DeliveredIsFaithful
  <2>3. {q[i].id : i \in 1..k} = {q[i].id : i \in 1..(k - 1)} \cup {e.id}
    <3>1. \A i \in 1..k : i \in 1..(k - 1) \/ i = k
      OBVIOUS
    <3>2. \A i \in 1..(k - 1) : i \in 1..k
      OBVIOUS
    <3>3. k \in 1..k
      OBVIOUS
    <3> QED
      BY <3>1, <3>2, <3>3, Zenon
  <2>4. CASE e.id \in IdsOf(o.live)
    BY <1>6, <2>2, <2>3, <2>4
  <2>5. CASE e.id \notin IdsOf(o.live)
    <3>1. st[k].live = Append(o.live, e) /\ o.live \in Seq(Events)
      BY <2>1, <2>2, <2>5 DEF Faithful
    <3>2. Extended(st[k].live, o.live, e)
      BY <2>1, <3>1, AppendExtends
    <3>3. IdsOf(st[k].live) = IdsOf(o.live) \cup {e.id}
      <4> DEFINE t == st[k].live
                 l == o.live
      <4>1. /\ Len(l) \in Nat /\ Len(t) = Len(l) + 1 /\ t[Len(l) + 1] = e
            /\ \A i \in 1..Len(l) : t[i] = l[i]
        BY <3>2 DEF Extended
      <4> HIDE DEF t, l
      <4>2. \A i \in 1..Len(t) : i \in 1..Len(l) \/ i = Len(l) + 1
        BY <4>1
      <4>3. \A i \in 1..Len(l) : i \in 1..Len(t)
        BY <4>1
      <4>4. Len(l) + 1 \in 1..Len(t)
        BY <4>1
      <4>5. IdsOf(t) = IdsOf(l) \cup {e.id}
        BY <4>1, <4>2, <4>3, <4>4, Zenon DEF IdsOf
      <4> QED
        BY <4>5 DEF t, l
    <3>4. Prefix(s, st[k].live)
      BY <1>4, <1>6, <3>2 DEF Prefix, Extended
    <3> QED
      BY <1>6, <2>2, <2>3, <3>3, <3>4
  <2> QED
    BY <2>4, <2>5
<1>7. n \in T
  <2> HIDE DEF Good
  <2>1. 0 \in T
    BY <1>1, <1>5
  <2>2. \A k \in 1..n : k - 1 \in T => k \in T
    BY <1>6
  <2>3. \A k \in 0..n : k \in T
    <3> HIDE DEF T, n
    <3> QED
      BY <1>1, <2>1, <2>2, StepsInduction
  <2> QED
    BY <1>1, <2>3
<1>8. Good(n)
  BY <1>7
<1>9. {q[i].id : i \in 1..n} = IdsOf(q)
  BY DEF IdsOf
<1> QED
  BY <1>3, <1>8, <1>9, Zenon

(* A new version is the fold of no event.                                   *)
LEMMA EmptyIsFaithful ==
  ASSUME NEW status
  PROVE  Faithful([model |-> [Empty EXCEPT !.status = status], live |-> << >>], status)
<1> DEFINE m == [Empty EXCEPT !.status = status]
           zero == [a \in Accounts |-> 0]
<1>1. m = [status |-> status, applied |-> 0, processed |-> {}, orders |-> << >>, trades |-> << >>, balances |-> zero]
  <2> DEFINE k == [status |-> "none", applied |-> 0, processed |-> {}, orders |-> << >>, trades |-> << >>, balances |-> zero]
  <2>1. Empty = k
    BY DEF Empty
  <2> HIDE DEF zero
  <2>2. [k EXCEPT !.status = status] =
          [status |-> status, applied |-> 0, processed |-> {}, orders |-> << >>, trades |-> << >>, balances |-> zero]
    OBVIOUS
  <2> HIDE DEF k
  <2> QED
    BY <2>1, <2>2
<1>2. Shaped(m) /\ m.status = status /\ m.applied = 0 /\ m.processed = {}
      /\ m.orders = << >> /\ m.trades = << >> /\ m.balances = zero
  BY <1>1 DEF Shaped
<1>3. Len(<< >>) = 0 /\ 1..0 = {} /\ DOMAIN << >> = {}
  OBVIOUS
<1>4. LastRows(<< >>, << >>) /\ FirstRows(<< >>, << >>)
  BY <1>3 DEF LastRows, FirstRows, Reported
<1>5. Sums(zero, << >>)
  BY <1>3, SumEmpty DEF Sums
<1>6. IdsOf(<< >>) = {} /\ Distinct(<< >>) /\ << >> \in Seq(Events)
  BY <1>3 DEF IdsOf, Distinct
<1> HIDE DEF m, zero
<1>7. IsModel(m, << >>)
  BY <1>2, <1>3, <1>4, <1>5, <1>6 DEF IsModel
<1>8. Faithful([model |-> m, live |-> << >>], status)
  BY <1>2, <1>6, <1>7 DEF Faithful
<1> QED
  BY <1>8 DEF m

(* A rebuild from events that are told apart is the fold of these events.   *)
LEMMA RebuiltIsModel ==
  ASSUME NEW q \in Seq(Events), Distinct(q), NEW status
  PROVE  IsModel(Rebuilt(q, status), q) /\ Rebuilt(q, status).status = status
<1> DEFINE p == [model |-> [Empty EXCEPT !.status = status], live |-> << >>]
           n == Len(q)
<1>1. n \in Nat /\ DOMAIN q = 1..n /\ \A k \in 1..n : q[k] \in Events
  OBVIOUS
<1>2. PICK st : /\ st[0] = p
                /\ \A k \in 1..n : st[k] = Delivered(st[k - 1], q[k])
                /\ st[n] = FoldLeft(Delivered, p, q)
  <2> HIDE DEF p, n
  <2> QED
    BY <1>1, DeliveredInSteps
<1>3. Rebuilt(q, status) = st[n].model
  BY <1>2 DEF Rebuilt, DeliveredAll
<1> DEFINE Good(k) == /\ Faithful(st[k], status)
                      /\ Len(st[k].live) = k
                      /\ \A i \in 1..k : st[k].live[i] = q[i]
           T == {k \in 0..n : Good(k)}
<1>4. Good(0)
  BY <1>2, EmptyIsFaithful
<1>5. ASSUME NEW k \in 1..n, Good(k - 1)
      PROVE  Good(k)
  <2> DEFINE o == st[k - 1]
             e == q[k]
  <2>1. Faithful(o, status) /\ e \in Events /\ st[k] = Delivered(o, e)
    BY <1>1, <1>2, <1>5
  <2>2. /\ Faithful(st[k], status)
        /\ e.id \notin IdsOf(o.live) => st[k].live = Append(o.live, e)
    <3> HIDE DEF o, e
    <3> QED
      BY <2>1, DeliveredIsFaithful
  <2>3. Len(o.live) = k - 1 /\ \A i \in 1..(k - 1) : o.live[i] = q[i]
    BY <1>5
  <2>4. e.id \notin IdsOf(o.live)
    <3>1. \A i \in 1..(k - 1) : i \in 1..n /\ i # k
      BY <1>1
    <3>2. \A i \in 1..(k - 1) : q[i].id # e.id
      BY <3>1 DEF Distinct
    <3> QED
      BY <2>3, <3>2 DEF IdsOf
  <2>5. o.live \in Seq(Events) /\ st[k].live = Append(o.live, e)
    BY <2>1, <2>2, <2>4 DEF Faithful
  <2>6. Extended(st[k].live, o.live, e)
    BY <2>1, <2>5, AppendExtends
  <2>7. Len(st[k].live) = k /\ \A i \in 1..k : st[k].live[i] = q[i]
    <3>1. Len(st[k].live) = (k - 1) + 1 /\ st[k].live[(k - 1) + 1] = e
          /\ \A i \in 1..(k - 1) : st[k].live[i] = o.live[i]
      BY <2>3, <2>6 DEF Extended
    <3>2. (k - 1) + 1 = k /\ \A i \in 1..k : i \in 1..(k - 1) \/ i = k
      BY <1>1
    <3> QED
      BY <2>3, <3>1, <3>2
  <2> QED
    BY <2>2, <2>7
<1>6. n \in T
  <2> HIDE DEF Good
  <2>1. 0 \in T
    BY <1>1, <1>4
  <2>2. \A k \in 1..n : k - 1 \in T => k \in T
    BY <1>5
  <2>3. \A k \in 0..n : k \in T
    <3> HIDE DEF T, n
    <3> QED
      BY <1>1, <2>1, <2>2, StepsInduction
  <2> QED
    BY <1>1, <2>3
<1>7. Good(n)
  BY <1>6
<1>8. st[n].live = q
  <2>1. st[n].live \in Seq(Events) /\ Len(st[n].live) = Len(q) /\ \A i \in 1..Len(q) : st[n].live[i] = q[i]
    BY <1>7 DEF Faithful
  <2> HIDE DEF n
  <2> QED
    BY <2>1
<1> QED
  BY <1>3, <1>7, <1>8 DEF Faithful

---------------------------------------------------------------------------
(* The inductive invariant.                                                 *)

CommandOf == [at : {"idle", "waits", "locked", "numbered", "done", "refused"}, version : Nat, applied : Nat]
RebuildOf == [at : {"idle", "building", "built", "swaps", "stale", "done", "refused"},
              stream : Seq(Events), active : VersionIds, next : VersionIds]

(* The row locked by a transaction is the ACTIVE one.                       *)
Tables ==
  /\ DOMAIN versions = VersionIds
  /\ \A v \in VersionIds :
       /\ versions[v].status \in {"none", "BUILDING", "ACTIVE", "RETIRED"}
       /\ versions[v].applied \in Nat /\ versions[v].processed \subseteq Ids
  /\ command \in [Commands -> CommandOf]
  /\ \A c \in Commands : command[c].applied \in 0..Len(Produces[c])
  /\ rebuilding \in [Rebuilds -> RebuildOf]
  /\ durable \in BOOLEAN /\ holder \in Commands \cup {Free}
  /\ DOMAIN page = {"at", "list", "version", "seen", "first"}
  /\ page.at \in {"idle", "asks", "reads", "ended"} /\ page.version \in VersionIds

Live ==
  /\ stream \in Seq(Events) /\ Distinct(stream)
  /\ \E a \in VersionIds :
       /\ \A v \in VersionIds : versions[v].status = "ACTIVE" <=> v = a
       /\ IsModel(versions[a], stream)

(* The component profile has version 1 and no rebuild under way; in the     *)
(* durable one the holder's version is ACTIVE.                              *)
Holding ==
  /\ ~durable => /\ versions[1].status = "ACTIVE"
                 /\ \A r \in Rebuilds : rebuilding[r].at \in {"idle", "done"}
                 /\ \A c \in Commands : command[c].at \in {"idle", "numbered", "done", "refused"}
  /\ durable => \A c \in Commands : command[c].at # "numbered"
  /\ \A c \in Commands :
       /\ command[c].at = "locked" <=> holder = c
       /\ command[c].at \in {"waits", "locked"} => command[c].version \in VersionIds
       /\ command[c].at = "locked" => versions[command[c].version].status = "ACTIVE"
       /\ command[c].at = "numbered" => command[c].applied < Len(Produces[c])

(* What a rebuild captured is the beginning of the stream, and its shadow   *)
(* version is the fold of it and nobody else's.                             *)
Built(r) == rebuilding[r].at \in {"built", "swaps", "stale"}
Shadows ==
  /\ \A r \in Rebuilds : Prefix(rebuilding[r].stream, stream)
  /\ \A r \in Rebuilds : Built(r) =>
       /\ versions[rebuilding[r].next].status = "BUILDING"
       /\ IsModel(versions[rebuilding[r].next], rebuilding[r].stream)
  /\ \A r, q \in Rebuilds : Built(r) /\ Built(q) /\ r # q => rebuilding[r].next # rebuilding[q].next

IdsFrom(c) == IdsOf(Produces[c])
Whole ==
  durable => \A c \in Commands :
    /\ IdsFrom(c) \subseteq IdsOf(stream) \/ IdsFrom(c) \cap IdsOf(stream) = {}
    /\ command[c].at = "done" => IdsFrom(c) \subseteq IdsOf(stream)

ProjectionsInv == Tables /\ Live /\ Holding /\ Shadows /\ Whole

(* The model the API reads, by the choice of the ACTIVE row.                *)
LEMMA ActiveIsLive ==
  ASSUME Live
  PROVE  /\ Active \in VersionIds
         /\ \A v \in VersionIds : versions[v].status = "ACTIVE" <=> v = Active
         /\ IsModel(versions[Active], stream)
<1>1. PICK a \in VersionIds :
        /\ \A v \in VersionIds : versions[v].status = "ACTIVE" <=> v = a
        /\ IsModel(versions[a], stream)
  BY DEF Live
<1>2. Active = a
  BY <1>1 DEF Active
<1> QED
  BY <1>1, <1>2

(* Versions are numbered from 1.                                            *)
LEMMA VersionIdsAre == VersionIds \subseteq Nat /\ 1 \in VersionIds
BY ProjectionsAssumption DEF VersionIds

(* Steps that leave the versions, the stream and the commands alone.        *)
LEMMA StreamStays ==
  ASSUME ProjectionsInv, UNCHANGED <<durable, versions, stream>>
  PROVE  Live'
BY DEF ProjectionsInv, Live

(* Steps that leave the commands alone.                                     *)
LEMMA CommandsStay ==
  ASSUME ProjectionsInv, UNCHANGED <<durable, holder, command, stream>>,
         \A c \in Commands : holder = c =>
           versions'[command[c].version].status = versions[command[c].version].status,
         ~durable => /\ versions'[1].status = "ACTIVE"
                     /\ \A r \in Rebuilds : rebuilding'[r].at \in {"idle", "done"}
  PROVE  Holding' /\ Whole'
BY DEF ProjectionsInv, Holding, Whole, IdsFrom

(* Steps that leave the rebuilds alone.                                     *)
LEMMA ShadowsStay ==
  ASSUME ProjectionsInv, UNCHANGED <<versions, rebuilding, stream>>
  PROVE  Shadows'
BY DEF ProjectionsInv, Shadows, Built

---------------------------------------------------------------------------
(* A command finds the ACTIVE row.                                          *)
LEMMA FindActiveKeeps ==
  ASSUME ProjectionsInv, NEW c \in Commands, FindActive(c)
  PROVE  ProjectionsInv'
<1>1. /\ durable /\ command[c].at = "idle"
      /\ command' = [command EXCEPT ![c] = [at |-> "waits", version |-> Active, applied |-> 0]]
      /\ UNCHANGED <<durable, versions, holder, rebuilding, page, faults, stream>>
  BY DEF FindActive
<1>2. Active \in VersionIds /\ Active \in Nat
  BY ActiveIsLive, VersionIdsAre DEF ProjectionsInv
<1>3. command \in [Commands -> CommandOf] /\ Len(Produces[c]) \in Nat
  BY EventsAssumption DEF ProjectionsInv, Tables
<1>4. /\ command'[c].at = "waits" /\ command'[c].version = Active /\ command'[c].applied = 0
      /\ \A d \in Commands : d # c => command'[d] = command[d]
      /\ command' \in [Commands -> CommandOf]
  BY <1>1, <1>2, <1>3 DEF CommandOf
<1>5. Tables'
  BY <1>1, <1>3, <1>4 DEF ProjectionsInv, Tables
<1>6. Holding'
  BY <1>1, <1>2, <1>4 DEF ProjectionsInv, Holding
<1>7. Whole'
  BY <1>1, <1>4 DEF ProjectionsInv, Whole, IdsFrom
<1>8. Live' /\ Shadows'
  BY <1>1, StreamStays, ShadowsStay
<1> QED
  BY <1>5, <1>6, <1>7, <1>8 DEF ProjectionsInv

(* The row is locked, or is ACTIVE no more.                                 *)
LEMMA LockActiveKeeps ==
  ASSUME ProjectionsInv, NEW c \in Commands, LockActive(c)
  PROVE  ProjectionsInv'
<1>1. /\ command[c].at = "waits" /\ holder = Free
      /\ UNCHANGED <<durable, versions, rebuilding, page, faults, stream>>
  BY DEF LockActive
<1>2. command \in [Commands -> CommandOf] /\ holder \notin Commands
  BY <1>1, EventsAssumption DEF ProjectionsInv, Tables
<1>3. \A d \in Commands : command[d].at # "locked"
  BY <1>2 DEF ProjectionsInv, Holding
<1>4. \/ /\ versions[command[c].version].status = "ACTIVE"
         /\ holder' = c /\ command' = [command EXCEPT ![c].at = "locked"]
      \/ /\ holder' = holder /\ command' = [command EXCEPT ![c].at = "refused"]
  BY DEF LockActive
<1>5. /\ \A d \in Commands : d # c => command'[d] = command[d]
      /\ command'[c].version = command[c].version /\ command'[c].applied = command[c].applied
      /\ \/ /\ versions[command[c].version].status = "ACTIVE"
            /\ holder' = c /\ command'[c].at = "locked"
         \/ holder' = holder /\ command'[c].at = "refused"
      /\ command' \in [Commands -> CommandOf]
  BY <1>2, <1>4 DEF CommandOf
<1>6. Tables'
  BY <1>1, <1>5 DEF ProjectionsInv, Tables
<1>7. Holding'
  <2>1. durable
    BY <1>1 DEF ProjectionsInv, Holding, Tables
  <2> QED
    BY <1>1, <1>2, <1>3, <1>5, <2>1 DEF ProjectionsInv, Holding
<1>8. Whole'
  BY <1>1, <1>5 DEF ProjectionsInv, Whole, IdsFrom
<1>9. Live' /\ Shadows'
  BY <1>1, StreamStays, ShadowsStay
<1> QED
  BY <1>6, <1>7, <1>8, <1>9 DEF ProjectionsInv

(* A transaction is rolled back.                                            *)
LEMMA AbortKeeps ==
  ASSUME ProjectionsInv, NEW c \in Commands, NEW n, Abort(c, n)
  PROVE  ProjectionsInv'
<1>1. /\ holder = c /\ holder' = Free
      /\ command' = [command EXCEPT ![c] = [at |-> "idle", version |-> 1, applied |-> 0]]
      /\ UNCHANGED <<durable, versions, rebuilding, page, stream>>
  BY DEF Abort, RolledBack
<1>2. command \in [Commands -> CommandOf] /\ Free \notin Commands /\ Len(Produces[c]) \in Nat
  BY EventsAssumption DEF ProjectionsInv, Tables
<1>3. /\ command'[c].at = "idle" /\ command'[c].applied = 0
      /\ \A d \in Commands : d # c => command'[d] = command[d]
      /\ command' \in [Commands -> CommandOf]
  BY <1>1, <1>2 DEF CommandOf
<1>4. Tables'
  BY <1>1, <1>2, <1>3 DEF ProjectionsInv, Tables
<1>5. Holding'
  BY <1>1, <1>2, <1>3 DEF ProjectionsInv, Holding
<1>6. Whole'
  BY <1>1, <1>3 DEF ProjectionsInv, Whole, IdsFrom
<1>7. Live' /\ Shadows'
  BY <1>1, StreamStays, ShadowsStay
<1> QED
  BY <1>4, <1>5, <1>6, <1>7 DEF ProjectionsInv

(* A command is sent again.                                                 *)
LEMMA RepeatKeeps ==
  ASSUME ProjectionsInv, NEW c \in Commands, Repeat(c)
  PROVE  ProjectionsInv'
<1>1. /\ command[c].at = "done"
      /\ command' = [command EXCEPT ![c] = [at |-> "idle", version |-> 1, applied |-> 0]]
      /\ UNCHANGED <<durable, versions, holder, rebuilding, page, stream>>
  BY DEF Repeat
<1>2. command \in [Commands -> CommandOf] /\ Len(Produces[c]) \in Nat
  BY EventsAssumption DEF ProjectionsInv, Tables
<1>3. /\ command'[c].at = "idle" /\ command'[c].applied = 0
      /\ \A d \in Commands : d # c => command'[d] = command[d]
      /\ command' \in [Commands -> CommandOf]
  BY <1>1, <1>2 DEF CommandOf
<1>4. Tables'
  BY <1>1, <1>2, <1>3 DEF ProjectionsInv, Tables
<1>5. Holding'
  BY <1>1, <1>3 DEF ProjectionsInv, Holding
<1>6. Whole'
  BY <1>1, <1>3 DEF ProjectionsInv, Whole, IdsFrom
<1>7. Live' /\ Shadows'
  BY <1>1, StreamStays, ShadowsStay
<1> QED
  BY <1>4, <1>5, <1>6, <1>7 DEF ProjectionsInv

(* The component profile numbers an event.                                  *)
LEMMA NextSequenceKeeps ==
  ASSUME ProjectionsInv, NEW c \in Commands, nextSequence(c)
  PROVE  ProjectionsInv'
<1>1. /\ ~durable /\ command[c].at = "idle"
      /\ \/ command' = [command EXCEPT ![c].at = "done"]
         \/ /\ command[c].applied # Len(Produces[c])
            /\ command' = [command EXCEPT ![c] =
                 [at |-> "numbered", version |-> versions[1].applied + 1, applied |-> command[c].applied]]
      /\ UNCHANGED <<durable, versions, holder, rebuilding, page, stream>>
  BY DEF nextSequence
<1>2. /\ command \in [Commands -> CommandOf] /\ Len(Produces[c]) \in Nat
      /\ command[c].applied \in 0..Len(Produces[c]) /\ versions[1].applied \in Nat
  BY EventsAssumption, VersionIdsAre DEF ProjectionsInv, Tables
<1>3. /\ command'[c].at \in {"done", "numbered"} /\ command'[c].applied = command[c].applied
      /\ command'[c].at = "numbered" => command[c].applied < Len(Produces[c])
      /\ \A d \in Commands : d # c => command'[d] = command[d]
      /\ command' \in [Commands -> CommandOf]
  <2>1. CASE command' = [command EXCEPT ![c].at = "done"]
    BY <1>2, <2>1 DEF CommandOf
  <2>2. CASE /\ command[c].applied # Len(Produces[c])
             /\ command' = [command EXCEPT ![c] =
                  [at |-> "numbered", version |-> versions[1].applied + 1, applied |-> command[c].applied]]
    <3>1. PICK x \in Nat, y \in Nat : x = versions[1].applied + 1 /\ y = command[c].applied
      BY <1>2 DEF CommandOf
    <3>2. [at |-> "numbered", version |-> x, applied |-> y] \in CommandOf
      BY <3>1 DEF CommandOf
    <3>3. command' = [command EXCEPT ![c] = [at |-> "numbered", version |-> x, applied |-> y]]
      BY <2>2, <3>1
    <3>4. command'[c] = [at |-> "numbered", version |-> x, applied |-> y]
          /\ \A d \in Commands : d # c => command'[d] = command[d]
      BY <1>2, <3>3
    <3>5. command' \in [Commands -> CommandOf]
      BY <1>2, <3>2, <3>3
    <3>6. command[c].applied < Len(Produces[c])
      BY <1>2, <2>2
    <3> QED
      BY <3>1, <3>4, <3>5, <3>6
  <2> QED
    BY <1>1, <2>1, <2>2
<1>4. Tables'
  BY <1>1, <1>2, <1>3 DEF ProjectionsInv, Tables
<1>5. Holding'
  BY <1>1, <1>3 DEF ProjectionsInv, Holding
<1>6. Whole'
  BY <1>1 DEF Whole
<1>7. Live' /\ Shadows'
  BY <1>1, StreamStays, ShadowsStay
<1> QED
  BY <1>4, <1>5, <1>6, <1>7 DEF ProjectionsInv

(* The client's steps.                                                      *)
LEMMA PageKeeps ==
  ASSUME ProjectionsInv, PageVersion \/ PageRows \/ \E list \in Lists : StartListing(list)
  PROVE  ProjectionsInv'
<1>1. UNCHANGED <<durable, versions, holder, command, rebuilding, stream>>
  BY DEF PageVersion, PageRows, StartListing
<1>2. Active \in VersionIds
  BY ActiveIsLive DEF ProjectionsInv
<1>3. DOMAIN page = {"at", "list", "version", "seen", "first"} /\ page.version \in VersionIds
  BY DEF ProjectionsInv, Tables
<1>4. /\ DOMAIN page' = {"at", "list", "version", "seen", "first"}
      /\ page'.at \in {"idle", "asks", "reads", "ended"} /\ page'.version \in VersionIds
  <2>1. CASE PageVersion
    BY <1>2, <1>3, <2>1 DEF PageVersion
  <2>2. CASE PageRows
    <3>1. PICK x, y : page' = [page EXCEPT !.seen = x, !.at = y] /\ y \in {"asks", "ended"}
      BY <2>2, Zenon DEF PageRows
    <3> QED
      BY <1>3, <3>1
  <2>3. ASSUME NEW list \in Lists, StartListing(list)
        PROVE  /\ DOMAIN page' = {"at", "list", "version", "seen", "first"}
               /\ page'.at \in {"idle", "asks", "reads", "ended"} /\ page'.version \in VersionIds
    BY <1>2, <2>3 DEF StartListing
  <2> QED
    BY <2>1, <2>2, <2>3
<1>5. Tables'
  BY <1>1, <1>4 DEF ProjectionsInv, Tables
<1>6. Live' /\ Shadows'
  BY <1>1, StreamStays, ShadowsStay
<1>7. Holding' /\ Whole'
  BY <1>1 DEF ProjectionsInv, Holding, Whole, IdsFrom
<1> QED
  BY <1>5, <1>6, <1>7 DEF ProjectionsInv

(* A beginning of a beginning is a beginning.                               *)
LEMMA PrefixIsTransitive ==
  ASSUME NEW s \in Seq(Events), NEW t \in Seq(Events), NEW u \in Seq(Events), Prefix(s, t), Prefix(t, u)
  PROVE  Prefix(s, u)
<1>1. Len(s) \in Nat /\ Len(t) \in Nat /\ Len(u) \in Nat
  OBVIOUS
<1>2. \A i \in 1..Len(s) : i \in 1..Len(t)
  BY <1>1 DEF Prefix
<1> QED
  BY <1>1, <1>2 DEF Prefix

(* The identifiers of events are identifiers.                               *)
LEMMA IdsAreKnown ==
  ASSUME NEW s \in Seq(Events)
  PROVE  IdsOf(s) \subseteq Ids
<1>1. \A i \in 1..Len(s) : s[i] \in Events
  OBVIOUS
<1> QED
  BY <1>1, EventFacts DEF IdsOf

(* A command produces events with identifiers of its own.                   *)
LEMMA ProducedEvents ==
  ASSUME NEW c \in Commands
  PROVE  /\ Produces[c] \in Seq(Events) /\ Len(Produces[c]) \in Nat
         /\ SubSeq(Produces[c], 1, Len(Produces[c])) = Produces[c]
         /\ \A d \in Commands : d # c => IdsFrom(d) \cap IdsFrom(c) = {}
<1> DEFINE q == Produces[c]
<1>1. q \in Seq(Range(q))
  BY EventsAssumption
<1>2. Range(q) \subseteq Events
  BY DEF Events
<1>3. q \in Seq(Events) /\ Len(q) \in Nat /\ DOMAIN q = 1..Len(q)
  BY <1>1, <1>2
<1>4. SubSeq(q, 1, Len(q)) = q
  <2> HIDE DEF q
  <2> QED
    BY <1>3
<1>5. \A d \in Commands : d # c => IdsFrom(d) \cap IdsFrom(c) = {}
  <2>1. \A d \in Commands : DOMAIN Produces[d] = 1..Len(Produces[d])
    BY EventsAssumption
  <2>2. \A d \in Commands : \A i \in DOMAIN Produces[d] : \A j \in DOMAIN Produces[c] :
          Produces[d][i].id = Produces[c][j].id => d = c
    BY EventsAssumption, Zenon
  <2> QED
    BY <2>1, <2>2 DEF IdsFrom, IdsOf
<1> QED
  BY <1>3, <1>4, <1>5

(* A command commits all its events.                                        *)
LEMMA CommitCommandKeeps ==
  ASSUME ProjectionsInv, NEW c \in Commands, CommitCommand(c)
  PROVE  ProjectionsInv'
<1> DEFINE a == Active
           m == versions[a]
           q == Produces[c]
           r == DeliveredAll(m, stream, q)
<1>1. /\ holder = c /\ holder' = Free /\ command' = [command EXCEPT ![c].at = "done"]
      /\ versions' = [versions EXCEPT ![command[c].version] = After(c, Len(q)).model]
      /\ stream' = After(c, Len(q)).live
      /\ UNCHANGED <<durable, rebuilding, page>>
  BY DEF CommitCommand
<1>2. /\ a \in VersionIds
      /\ \A v \in VersionIds : versions[v].status = "ACTIVE" <=> v = a
      /\ IsModel(m, stream) /\ stream \in Seq(Events) /\ Distinct(stream)
  BY ActiveIsLive DEF ProjectionsInv, Live
<1>3. command[c].at = "locked" /\ command[c].version = a
  BY <1>1, <1>2 DEF ProjectionsInv, Holding
<1>4. durable
  BY <1>3 DEF ProjectionsInv, Holding, Tables
<1>5. q \in Seq(Events) /\ Len(q) \in Nat /\ SubSeq(q, 1, Len(q)) = q
  BY ProducedEvents
<1>6. versions' = [versions EXCEPT ![a] = r.model] /\ stream' = r.live
  BY <1>1, <1>3, <1>5 DEF After
<1>7. /\ Faithful(r, "ACTIVE")
      /\ IdsOf(r.live) = IdsOf(stream) \cup IdsOf(q)
      /\ Prefix(stream, r.live)
  <2>1. m.status = "ACTIVE"
    BY <1>2
  <2> HIDE DEF m, q
  <2>2. Faithful([model |-> m, live |-> stream], "ACTIVE")
    BY <1>2, <2>1 DEF Faithful
  <2> QED
    BY <1>5, <2>2, DeliveryIsFaithful
<1> HIDE DEF r, a
<1>8. /\ r.live \in Seq(Events) /\ Distinct(r.live) /\ IsModel(r.model, r.live)
      /\ r.model.status = "ACTIVE" /\ r.model.applied = Len(r.live) /\ r.model.processed = IdsOf(r.live)
  BY <1>7 DEF Faithful, IsModel
<1>9. DOMAIN versions = VersionIds /\ command \in [Commands -> CommandOf]
  BY DEF ProjectionsInv, Tables
<1>10. /\ DOMAIN versions' = VersionIds /\ versions'[a] = r.model
       /\ \A v \in VersionIds : v # a => versions'[v] = versions[v]
  BY <1>2, <1>6, <1>9
<1>11. /\ command'[c].at = "done" /\ command'[c].applied = command[c].applied
       /\ \A d \in Commands : d # c => command'[d] = command[d]
       /\ command' \in [Commands -> CommandOf]
  BY <1>1, <1>9 DEF CommandOf
<1>12. Tables'
  <2>1. r.model.applied \in Nat /\ r.model.processed \subseteq Ids
    BY <1>8, IdsAreKnown
  <2>2. \A v \in VersionIds :
          /\ versions'[v].status \in {"none", "BUILDING", "ACTIVE", "RETIRED"}
          /\ versions'[v].applied \in Nat /\ versions'[v].processed \subseteq Ids
    BY <1>8, <1>10, <2>1 DEF ProjectionsInv, Tables
  <2> QED
    BY <1>1, <1>10, <1>11, <2>2 DEF ProjectionsInv, Tables
<1>13. Live'
  <2>1. \A v \in VersionIds : versions'[v].status = "ACTIVE" <=> v = a
    BY <1>2, <1>8, <1>10
  <2> QED
    BY <1>2, <1>6, <1>8, <1>10, <2>1 DEF Live
<1>14. Holding'
  <2>1. \A d \in Commands : d # c => command[d].at # "locked"
    BY <1>1 DEF ProjectionsInv, Holding
  <2>2. Free \notin Commands
    BY EventsAssumption
  <2> QED
    BY <1>1, <1>4, <1>11, <2>1, <2>2 DEF ProjectionsInv, Holding
<1>15. Shadows'
  <2>1. \A x \in Rebuilds : Prefix(rebuilding[x].stream, r.live)
    <3> SUFFICES ASSUME NEW x \in Rebuilds PROVE Prefix(rebuilding[x].stream, r.live)
      OBVIOUS
    <3>1. rebuilding[x].stream \in Seq(Events) /\ Prefix(rebuilding[x].stream, stream)
      BY DEF ProjectionsInv, Tables, Shadows, RebuildOf
    <3> QED
      BY <1>2, <1>7, <1>8, <3>1, PrefixIsTransitive
  <2>2. \A x \in Rebuilds : Built(x) => versions'[rebuilding[x].next] = versions[rebuilding[x].next]
    BY <1>2, <1>10 DEF ProjectionsInv, Shadows, Tables, RebuildOf
  <2> QED
    BY <1>1, <1>6, <2>1, <2>2 DEF ProjectionsInv, Shadows, Built
<1>16. Whole'
  <2>1. IdsOf(stream') = IdsOf(stream) \cup IdsFrom(c)
    BY <1>6, <1>7 DEF IdsFrom
  <2>2. \A d \in Commands : d # c => IdsFrom(d) \cap IdsFrom(c) = {}
    BY ProducedEvents
  <2>3. \A d \in Commands :
          /\ IdsFrom(d) \subseteq IdsOf(stream) \/ IdsFrom(d) \cap IdsOf(stream) = {}
          /\ command[d].at = "done" => IdsFrom(d) \subseteq IdsOf(stream)
    BY <1>4 DEF ProjectionsInv, Whole
  <2>4. \A d \in Commands :
          /\ IdsFrom(d) \subseteq IdsOf(stream') \/ IdsFrom(d) \cap IdsOf(stream') = {}
          /\ command'[d].at = "done" => IdsFrom(d) \subseteq IdsOf(stream')
    <3> HIDE DEF IdsFrom
    <3> QED
      BY <1>11, <2>1, <2>2, <2>3
  <2> QED
    BY <2>4 DEF Whole, IdsFrom
<1> QED
  BY <1>12, <1>13, <1>14, <1>15, <1>16 DEF ProjectionsInv

(* The component profile applies one event.                                 *)
LEMMA ApplyKeeps ==
  ASSUME ProjectionsInv, NEW c \in Commands, apply(c)
  PROVE  ProjectionsInv'
<1> DEFINE m == versions[1]
           e == Produces[c][command[c].applied + 1]
           p == [model |-> m, live |-> stream]
           r == Delivered(p, e)
<1>1. /\ command[c].at = "numbered"
      /\ \/ /\ command' = [command EXCEPT ![c].at = "refused"]
            /\ UNCHANGED <<versions, stream>>
         \/ /\ versions' = [versions EXCEPT ![1] = r.model] /\ stream' = r.live
            /\ command' = [command EXCEPT ![c] =
                 [at |-> "idle", version |-> 1, applied |-> command[c].applied + 1]]
      /\ UNCHANGED <<durable, holder, rebuilding, page>>
  BY DEF apply
<1>2. /\ ~durable /\ versions[1].status = "ACTIVE" /\ 1 \in VersionIds
      /\ command[c].applied \in Nat /\ command[c].applied < Len(Produces[c])
      /\ Produces[c] \in Seq(Events) /\ Len(Produces[c]) \in Nat
  BY <1>1, ProducedEvents, VersionIdsAre DEF ProjectionsInv, Holding, Tables, CommandOf
<1>3. e \in Events
  BY <1>2
<1>4. /\ \A v \in VersionIds : versions[v].status = "ACTIVE" <=> v = 1
      /\ IsModel(m, stream) /\ stream \in Seq(Events) /\ Distinct(stream) /\ m.status = "ACTIVE"
  BY <1>2 DEF ProjectionsInv, Live
<1>5. /\ Faithful(r, "ACTIVE")
      /\ r = p \/ r.live = Append(stream, e)
  <2> HIDE DEF m, e
  <2>1. Faithful(p, "ACTIVE") /\ p.live = stream
    BY <1>4 DEF Faithful
  <2> HIDE DEF p
  <2>2. /\ Faithful(r, "ACTIVE")
        /\ e.id \in IdsOf(p.live) => r = p
        /\ e.id \notin IdsOf(p.live) => r.live = Append(p.live, e)
    BY <1>3, <2>1, DeliveredIsFaithful
  <2> QED
    BY <2>1, <2>2
<1>6. Prefix(stream, r.live)
  <2>1. CASE r = p
    BY <1>4, <2>1 DEF Prefix
  <2>2. CASE r.live = Append(stream, e)
    <3> HIDE DEF e, r
    <3>1. Extended(r.live, stream, e)
      BY <1>3, <1>4, <2>2, AppendExtends
    <3> QED
      BY <3>1 DEF Extended, Prefix
  <2> QED
    BY <1>5, <2>1, <2>2
<1> HIDE DEF r
<1>7. /\ r.live \in Seq(Events) /\ Distinct(r.live) /\ IsModel(r.model, r.live)
      /\ r.model.status = "ACTIVE" /\ r.model.applied = Len(r.live) /\ r.model.processed = IdsOf(r.live)
  BY <1>5 DEF Faithful, IsModel
<1>8. DOMAIN versions = VersionIds /\ command \in [Commands -> CommandOf]
  BY DEF ProjectionsInv, Tables
<1>9. /\ command'[c].at \in {"idle", "refused"} /\ command'[c].applied \in 0..Len(Produces[c])
      /\ \A d \in Commands : d # c => command'[d] = command[d]
      /\ command' \in [Commands -> CommandOf]
  <2>1. CASE command' = [command EXCEPT ![c].at = "refused"]
    <3>1. command[c].applied \in 0..Len(Produces[c])
      BY <1>2
    <3>2. command'[c].at = "refused" /\ command'[c].applied = command[c].applied
          /\ \A d \in Commands : d # c => command'[d] = command[d]
      BY <1>8, <2>1 DEF CommandOf
    <3>3. command' \in [Commands -> CommandOf]
      BY <1>8, <2>1 DEF CommandOf
    <3> QED
      BY <3>1, <3>2, <3>3
  <2>2. CASE command' = [command EXCEPT ![c] = [at |-> "idle", version |-> 1, applied |-> command[c].applied + 1]]
    <3>1. PICK x \in Nat : x = command[c].applied + 1
      BY <1>2
    <3>2. [at |-> "idle", version |-> 1, applied |-> x] \in CommandOf /\ x \in 0..Len(Produces[c])
      BY <1>2, <3>1 DEF CommandOf
    <3>3. command' = [command EXCEPT ![c] = [at |-> "idle", version |-> 1, applied |-> x]]
      BY <2>2, <3>1
    <3>4. command'[c] = [at |-> "idle", version |-> 1, applied |-> x]
          /\ \A d \in Commands : d # c => command'[d] = command[d]
      BY <1>8, <3>3
    <3>5. command' \in [Commands -> CommandOf]
      BY <1>8, <3>2, <3>3
    <3> QED
      BY <3>2, <3>4, <3>5
  <2> QED
    BY <1>1, <2>1, <2>2
<1>10. CASE UNCHANGED <<versions, stream>>
  <2>1. Tables'
    BY <1>1, <1>9, <1>10 DEF ProjectionsInv, Tables
  <2>2. Live' /\ Shadows'
    BY <1>1, <1>10, StreamStays, ShadowsStay
  <2>3. Holding'
    BY <1>1, <1>2, <1>9, <1>10 DEF ProjectionsInv, Holding
  <2>4. Whole'
    BY <1>1, <1>2 DEF Whole
  <2> QED
    BY <2>1, <2>2, <2>3, <2>4 DEF ProjectionsInv
<1>11. CASE versions' = [versions EXCEPT ![1] = r.model] /\ stream' = r.live
  <2>1. /\ DOMAIN versions' = VersionIds /\ versions'[1] = r.model
        /\ \A v \in VersionIds : v # 1 => versions'[v] = versions[v]
    BY <1>2, <1>8, <1>11
  <2>2. Tables'
    <3>1. r.model.applied \in Nat /\ r.model.processed \subseteq Ids
      BY <1>7, IdsAreKnown
    <3>2. \A v \in VersionIds :
            /\ versions'[v].status \in {"none", "BUILDING", "ACTIVE", "RETIRED"}
            /\ versions'[v].applied \in Nat /\ versions'[v].processed \subseteq Ids
      BY <1>7, <2>1, <3>1 DEF ProjectionsInv, Tables
    <3> QED
      BY <1>1, <1>9, <2>1, <3>2 DEF ProjectionsInv, Tables
  <2>3. Live'
    <3>1. \A v \in VersionIds : versions'[v].status = "ACTIVE" <=> v = 1
      BY <1>4, <1>7, <2>1
    <3> QED
      BY <1>2, <1>7, <1>11, <2>1, <3>1 DEF Live
  <2>4. Holding'
    BY <1>1, <1>2, <1>7, <1>9, <2>1 DEF ProjectionsInv, Holding
  <2>5. Shadows'
    <3>1. \A x \in Rebuilds : Prefix(rebuilding[x].stream, r.live)
      <4> SUFFICES ASSUME NEW x \in Rebuilds PROVE Prefix(rebuilding[x].stream, r.live)
        OBVIOUS
      <4>1. rebuilding[x].stream \in Seq(Events) /\ Prefix(rebuilding[x].stream, stream)
        BY DEF ProjectionsInv, Tables, Shadows, RebuildOf
      <4> QED
        BY <1>4, <1>6, <1>7, <4>1, PrefixIsTransitive
    <3>2. \A x \in Rebuilds : ~Built(x)
      BY <1>2 DEF ProjectionsInv, Holding, Built
    <3> QED
      BY <1>1, <1>11, <3>1, <3>2 DEF Shadows, Built
  <2>6. Whole'
    BY <1>1, <1>2 DEF Whole
  <2> QED
    BY <2>2, <2>3, <2>4, <2>5, <2>6 DEF ProjectionsInv
<1> QED
  BY <1>1, <1>10, <1>11

(* The beginning of a sequence without repetition has none.                 *)
LEMMA PrefixIsDistinct ==
  ASSUME NEW s \in Seq(Events), NEW t \in Seq(Events), Prefix(s, t), Distinct(t)
  PROVE  Distinct(s)
<1>1. Len(s) \in Nat /\ Len(t) \in Nat
  OBVIOUS
<1>2. \A i \in 1..Len(s) : i \in 1..Len(t) /\ t[i] = s[i]
  BY <1>1 DEF Prefix
<1> QED
  BY <1>2 DEF Distinct

(* The status is not part of the fold.                                      *)
LEMMA StatusAside ==
  ASSUME NEW m, NEW s, IsModel(m, s), NEW status
  PROVE  /\ IsModel([m EXCEPT !.status = status], s)
         /\ [m EXCEPT !.status = status].status = status
         /\ [m EXCEPT !.status = status].applied = m.applied
         /\ [m EXCEPT !.status = status].processed = m.processed
<1> DEFINE k == [m EXCEPT !.status = status]
<1>1. PICK st, ap, pr, o, t, b :
        m = [status |-> st, applied |-> ap, processed |-> pr, orders |-> o, trades |-> t, balances |-> b]
  BY Zenon DEF IsModel, Shaped
<1>2. k = [status |-> status, applied |-> ap, processed |-> pr, orders |-> o, trades |-> t, balances |-> b]
  BY <1>1
<1> HIDE DEF k
<1>3. /\ Shaped(k) /\ k.status = status /\ k.applied = m.applied /\ k.processed = m.processed
      /\ k.orders = m.orders /\ k.trades = m.trades /\ k.balances = m.balances
  BY <1>1, <1>2 DEF Shaped
<1>4. IsModel(k, s)
  BY <1>3 DEF IsModel
<1> QED
  BY <1>3, <1>4 DEF k

(* What a rebuild's step finds.                                             *)
LEMMA RebuildFacts ==
  ASSUME ProjectionsInv, NEW r \in Rebuilds
  PROVE  /\ rebuilding \in [Rebuilds -> RebuildOf]
         /\ rebuilding[r].stream \in Seq(Events) /\ stream \in Seq(Events)
         /\ Prefix(rebuilding[r].stream, stream) /\ Distinct(rebuilding[r].stream)
         /\ rebuilding[r].active \in VersionIds /\ rebuilding[r].next \in VersionIds
         /\ DOMAIN versions = VersionIds
         /\ rebuilding[r].at \notin {"idle", "done"} => durable
<1>1. /\ rebuilding \in [Rebuilds -> RebuildOf] /\ DOMAIN versions = VersionIds
      /\ stream \in Seq(Events) /\ Distinct(stream) /\ durable \in BOOLEAN
      /\ Prefix(rebuilding[r].stream, stream)
      /\ ~durable => rebuilding[r].at \in {"idle", "done"}
  BY DEF ProjectionsInv, Tables, Live, Shadows, Holding
<1>2. /\ rebuilding[r].stream \in Seq(Events)
      /\ rebuilding[r].active \in VersionIds /\ rebuilding[r].next \in VersionIds
  BY <1>1 DEF RebuildOf
<1> QED
  BY <1>1, <1>2, PrefixIsDistinct

(* A rebuild captures the stream.                                           *)
LEMMA BeginRebuildKeeps ==
  ASSUME ProjectionsInv, NEW r \in Rebuilds, BeginRebuild(r)
  PROVE  ProjectionsInv'
<1>1. /\ durable /\ UNCHANGED <<durable, versions, holder, command, page, stream>>
      /\ \E v \in VersionIds : rebuilding' =
           [rebuilding EXCEPT ![r] = [at |-> "building", stream |-> stream, active |-> Active, next |-> v]]
  BY DEF BeginRebuild
<1>2. PICK v \in VersionIds : rebuilding' =
        [rebuilding EXCEPT ![r] = [at |-> "building", stream |-> stream, active |-> Active, next |-> v]]
  BY <1>1
<1>3. /\ Active \in VersionIds /\ rebuilding \in [Rebuilds -> RebuildOf] /\ stream \in Seq(Events)
  BY ActiveIsLive, RebuildFacts DEF ProjectionsInv
<1>4. [at |-> "building", stream |-> stream, active |-> Active, next |-> v] \in RebuildOf
  BY <1>3 DEF RebuildOf
<1>5. /\ rebuilding'[r].at = "building" /\ rebuilding'[r].stream = stream
      /\ \A x \in Rebuilds : x # r => rebuilding'[x] = rebuilding[x]
      /\ rebuilding' \in [Rebuilds -> RebuildOf]
  BY <1>2, <1>3, <1>4
<1>6. Tables'
  BY <1>1, <1>5 DEF ProjectionsInv, Tables
<1>7. Live' /\ Holding' /\ Whole'
  BY <1>1, StreamStays, CommandsStay
<1>8. Prefix(stream, stream)
  BY <1>3 DEF Prefix
<1>9. Shadows'
  BY <1>1, <1>5, <1>8 DEF ProjectionsInv, Shadows, Built
<1> QED
  BY <1>6, <1>7, <1>9 DEF ProjectionsInv

(* A rebuild commits its version, unless its number is taken.               *)
LEMMA CommitShadowKeeps ==
  ASSUME ProjectionsInv, NEW r \in Rebuilds, CommitShadow(r)
  PROVE  ProjectionsInv'
<1> DEFINE n == rebuilding[r].next
           s == rebuilding[r].stream
           m == Rebuilt(s, "BUILDING")
<1>1. /\ rebuilding[r].at = "building" /\ UNCHANGED <<durable, holder, command, page, stream>>
      /\ \/ /\ versions[n].status = "none"
            /\ versions' = [versions EXCEPT ![n] = m]
            /\ rebuilding' = [rebuilding EXCEPT ![r].at = "built"]
         \/ /\ rebuilding' = [rebuilding EXCEPT ![r].at = "refused"]
            /\ UNCHANGED versions
  BY DEF CommitShadow
<1>2. /\ rebuilding \in [Rebuilds -> RebuildOf] /\ s \in Seq(Events) /\ Distinct(s) /\ Prefix(s, stream)
      /\ stream \in Seq(Events) /\ n \in VersionIds /\ DOMAIN versions = VersionIds /\ durable
  BY <1>1, RebuildFacts
<1>3. IsModel(m, s) /\ m.status = "BUILDING"
  <2> HIDE DEF s
  <2> QED
    BY <1>2, RebuiltIsModel
<1>4. m.applied \in Nat /\ m.processed \subseteq Ids
  BY <1>2, <1>3, IdsAreKnown DEF IsModel
<1> HIDE DEF m
<1>5. /\ \A x \in Rebuilds : x # r => rebuilding'[x] = rebuilding[x]
      /\ rebuilding'[r].stream = s /\ rebuilding'[r].next = n
      /\ rebuilding' \in [Rebuilds -> RebuildOf]
      /\ \/ /\ versions[n].status = "none" /\ rebuilding'[r].at = "built"
            /\ DOMAIN versions' = VersionIds /\ versions'[n] = m
            /\ \A v \in VersionIds : v # n => versions'[v] = versions[v]
         \/ rebuilding'[r].at = "refused" /\ UNCHANGED versions
  <2>1. CASE rebuilding' = [rebuilding EXCEPT ![r].at = "refused"] /\ UNCHANGED versions
    BY <1>2, <2>1 DEF RebuildOf
  <2>2. CASE /\ versions[n].status = "none"
             /\ versions' = [versions EXCEPT ![n] = m]
             /\ rebuilding' = [rebuilding EXCEPT ![r].at = "built"]
    <3>1. /\ \A x \in Rebuilds : x # r => rebuilding'[x] = rebuilding[x]
          /\ rebuilding'[r].stream = s /\ rebuilding'[r].next = n /\ rebuilding'[r].at = "built"
          /\ rebuilding' \in [Rebuilds -> RebuildOf]
      BY <1>2, <2>2 DEF RebuildOf
    <3>2. /\ DOMAIN versions' = VersionIds /\ versions'[n] = m
          /\ \A v \in VersionIds : v # n => versions'[v] = versions[v]
      BY <1>2, <2>2
    <3> QED
      BY <2>2, <3>1, <3>2
  <2> QED
    BY <1>1, <2>1, <2>2
<1> HIDE DEF n, s
<1>6. CASE rebuilding'[r].at = "refused" /\ UNCHANGED versions
  <2>1. Tables'
    BY <1>1, <1>5, <1>6 DEF ProjectionsInv, Tables
  <2>2. Live' /\ Holding' /\ Whole'
    BY <1>1, <1>2, <1>6, StreamStays, CommandsStay
  <2>3. Shadows'
    BY <1>1, <1>2, <1>5, <1>6 DEF ProjectionsInv, Shadows, Built
  <2> QED
    BY <2>1, <2>2, <2>3 DEF ProjectionsInv
<1>7. CASE /\ versions[n].status = "none" /\ rebuilding'[r].at = "built"
           /\ DOMAIN versions' = VersionIds /\ versions'[n] = m
           /\ \A v \in VersionIds : v # n => versions'[v] = versions[v]
  <2>1. Tables'
    <3>1. \A v \in VersionIds :
            /\ versions'[v].status \in {"none", "BUILDING", "ACTIVE", "RETIRED"}
            /\ versions'[v].applied \in Nat /\ versions'[v].processed \subseteq Ids
      BY <1>3, <1>4, <1>7 DEF ProjectionsInv, Tables
    <3> QED
      BY <1>1, <1>5, <1>7, <3>1 DEF ProjectionsInv, Tables
  <2>2. Live'
    <3>1. PICK a \in VersionIds :
            /\ \A v \in VersionIds : versions[v].status = "ACTIVE" <=> v = a
            /\ IsModel(versions[a], stream)
      BY DEF ProjectionsInv, Live
    <3>2. a # n
      BY <1>7, <3>1
    <3>3. \A v \in VersionIds : versions'[v].status = "ACTIVE" <=> v = a
      BY <1>3, <1>7, <3>1, <3>2
    <3>4. IsModel(versions'[a], stream')
      BY <1>1, <1>7, <3>1, <3>2
    <3> QED
      BY <1>1, <3>3, <3>4 DEF ProjectionsInv, Live
  <2>3. Holding' /\ Whole'
    <3>1. \A c \in Commands : holder = c =>
            versions'[command[c].version].status = versions[command[c].version].status
      <4> SUFFICES ASSUME NEW c \in Commands, holder = c
                   PROVE  versions'[command[c].version].status = versions[command[c].version].status
        OBVIOUS
      <4>1. command[c].version \in VersionIds /\ versions[command[c].version].status = "ACTIVE"
        BY DEF ProjectionsInv, Holding
      <4> QED
        BY <1>7, <4>1
    <3> QED
      BY <1>1, <1>2, <3>1, CommandsStay
  <2>4. Shadows'
    <3>1. \A x \in Rebuilds : Prefix(rebuilding'[x].stream, stream')
      BY <1>1, <1>2, <1>5 DEF ProjectionsInv, Shadows
    <3>2. \A x \in Rebuilds : Built(x) => rebuilding[x].next \in VersionIds /\ rebuilding[x].next # n
      <4>1. \A x \in Rebuilds : rebuilding[x].next \in VersionIds
        BY RebuildFacts
      <4> QED
        BY <1>7, <4>1 DEF ProjectionsInv, Shadows
    <3>3. \A x \in Rebuilds : x # r => (Built(x)' <=> Built(x))
      BY <1>5 DEF Built
    <3>4. \A x \in Rebuilds : Built(x)' =>
            /\ versions'[rebuilding'[x].next].status = "BUILDING"
            /\ IsModel(versions'[rebuilding'[x].next], rebuilding'[x].stream)
      <4> SUFFICES ASSUME NEW x \in Rebuilds, Built(x)'
                   PROVE  /\ versions'[rebuilding'[x].next].status = "BUILDING"
                          /\ IsModel(versions'[rebuilding'[x].next], rebuilding'[x].stream)
        OBVIOUS
      <4>1. CASE x = r
        BY <1>3, <1>5, <1>7, <4>1
      <4>2. CASE x # r
        BY <1>5, <1>7, <3>2, <3>3, <4>2 DEF ProjectionsInv, Shadows
      <4> QED
        BY <4>1, <4>2
    <3>5. \A x, y \in Rebuilds : Built(x)' /\ Built(y)' /\ x # y => rebuilding'[x].next # rebuilding'[y].next
      BY <1>5, <3>2, <3>3 DEF ProjectionsInv, Shadows
    <3> QED
      BY <3>1, <3>4, <3>5 DEF Shadows
  <2> QED
    BY <2>1, <2>2, <2>3, <2>4 DEF ProjectionsInv
<1> QED
  BY <1>5, <1>6, <1>7

(* A rebuild that goes on, or is abandoned, with its version as it is.      *)
LEMMA RebuildMovesKeep ==
  ASSUME ProjectionsInv, NEW r \in Rebuilds, Built(r),
         UNCHANGED <<durable, versions, holder, command, page, stream>>,
         NEW at \in {"swaps", "stale", "refused"},
         rebuilding' = [rebuilding EXCEPT ![r].at = at]
  PROVE  ProjectionsInv'
<1>1. rebuilding \in [Rebuilds -> RebuildOf] /\ durable
  BY RebuildFacts DEF Built
<1>2. /\ \A x \in Rebuilds : x # r => rebuilding'[x] = rebuilding[x]
      /\ rebuilding'[r].stream = rebuilding[r].stream /\ rebuilding'[r].next = rebuilding[r].next
      /\ rebuilding'[r].at = at
      /\ rebuilding' \in [Rebuilds -> RebuildOf]
  BY <1>1 DEF RebuildOf
<1>3. Tables'
  BY <1>2 DEF ProjectionsInv, Tables
<1>4. Live' /\ Holding' /\ Whole'
  BY <1>1, StreamStays, CommandsStay
<1>5. Shadows'
  <2>1. /\ \A x \in Rebuilds : rebuilding'[x].stream = rebuilding[x].stream /\ rebuilding'[x].next = rebuilding[x].next
        /\ \A x \in Rebuilds : Built(x)' => Built(x)
    BY <1>2 DEF Built
  <2> QED
    BY <2>1 DEF ProjectionsInv, Shadows
<1> QED
  BY <1>3, <1>4, <1>5 DEF ProjectionsInv

(* The versions are swapped when the captured stream is the whole stream.   *)
LEMMA SwapKeeps ==
  ASSUME ProjectionsInv, NEW r \in Rebuilds, swapBuildingToActive(r)
  PROVE  ProjectionsInv'
<1> DEFINE n == rebuilding[r].next
           a == rebuilding[r].active
           s == rebuilding[r].stream
<1>1. /\ rebuilding[r].at = "swaps" /\ holder = Free
      /\ UNCHANGED <<durable, holder, command, page, stream>>
      /\ \/ /\ Expected(r)
            /\ versions' = [versions EXCEPT ![a].status = "RETIRED", ![n].status = "ACTIVE"]
            /\ rebuilding' = [rebuilding EXCEPT ![r].at = "done"]
         \/ /\ rebuilding' = [rebuilding EXCEPT ![r].at = "stale"]
            /\ UNCHANGED versions
  BY DEF swapBuildingToActive
<1>2. /\ rebuilding \in [Rebuilds -> RebuildOf] /\ s \in Seq(Events) /\ Prefix(s, stream)
      /\ stream \in Seq(Events) /\ n \in VersionIds /\ a \in VersionIds /\ DOMAIN versions = VersionIds /\ durable
  BY <1>1, RebuildFacts
<1>3. Built(r)
  BY <1>1 DEF Built
<1>4. versions[n].status = "BUILDING" /\ IsModel(versions[n], s)
  BY <1>3 DEF ProjectionsInv, Shadows
<1>5. CASE rebuilding' = [rebuilding EXCEPT ![r].at = "stale"] /\ UNCHANGED versions
  BY <1>1, <1>3, <1>5, RebuildMovesKeep
<1>6. CASE /\ Expected(r)
           /\ versions' = [versions EXCEPT ![a].status = "RETIRED", ![n].status = "ACTIVE"]
           /\ rebuilding' = [rebuilding EXCEPT ![r].at = "done"]
  <2> DEFINE old == [versions[a] EXCEPT !.status = "RETIRED"]
             new == [versions[n] EXCEPT !.status = "ACTIVE"]
  <2>1. /\ \A v \in VersionIds : versions[v].status = "ACTIVE" <=> v = a
        /\ IsModel(versions[a], stream) /\ a # n
    <3>1. versions[a].status = "ACTIVE"
      BY <1>6 DEF Expected
    <3> QED
      BY <1>2, <1>4, <3>1 DEF ProjectionsInv, Live
  <2>2. s = stream
    <3>1. Len(s) = Len(stream)
      BY <1>6, <2>1 DEF Expected, IsModel
    <3>2. \A i \in 1..Len(s) : s[i] = stream[i]
      BY <1>2 DEF Prefix
    <3> HIDE DEF s
    <3> QED
      BY <1>2, <3>1, <3>2
  <2>3. /\ old.status = "RETIRED" /\ old.applied = versions[a].applied /\ old.processed = versions[a].processed
        /\ new.status = "ACTIVE" /\ new.applied = versions[n].applied /\ new.processed = versions[n].processed
        /\ IsModel(new, stream)
    <3> HIDE DEF a, n, s
    <3> QED
      BY <1>4, <2>1, <2>2, StatusAside
  <2>4. versions' = [[versions EXCEPT ![a] = old] EXCEPT ![n] = new]
    <3>1. versions' = [[versions EXCEPT ![a].status = "RETIRED"] EXCEPT ![n].status = "ACTIVE"]
      BY <1>6
    <3>2. [versions EXCEPT ![a].status = "RETIRED"] = [versions EXCEPT ![a] = old]
      OBVIOUS
    <3> DEFINE w == [versions EXCEPT ![a] = old]
    <3>3. w[n] = versions[n]
      BY <1>2, <2>1
    <3>4. [w EXCEPT ![n].status = "ACTIVE"] = [w EXCEPT ![n] = [w[n] EXCEPT !.status = "ACTIVE"]]
      <4> HIDE DEF w
      <4> QED
        OBVIOUS
    <3> QED
      BY <3>1, <3>2, <3>3, <3>4
  <2> HIDE DEF old, new
  <2>5. /\ DOMAIN versions' = VersionIds /\ versions'[a] = old /\ versions'[n] = new
        /\ \A v \in VersionIds : v # a /\ v # n => versions'[v] = versions[v]
    BY <1>2, <2>1, <2>4
  <2>6. /\ \A x \in Rebuilds : x # r => rebuilding'[x] = rebuilding[x]
        /\ rebuilding'[r].stream = s /\ rebuilding'[r].at = "done"
        /\ rebuilding' \in [Rebuilds -> RebuildOf]
    BY <1>2, <1>6 DEF RebuildOf
  <2> HIDE DEF a, n, s
  <2>7. Tables'
    <3>1. \A v \in VersionIds :
            /\ versions'[v].status \in {"none", "BUILDING", "ACTIVE", "RETIRED"}
            /\ versions'[v].applied \in Nat /\ versions'[v].processed \subseteq Ids
      BY <1>2, <2>3, <2>5 DEF ProjectionsInv, Tables
    <3> QED
      BY <1>1, <2>5, <2>6, <3>1 DEF ProjectionsInv, Tables
  <2>8. Live'
    <3>1. \A v \in VersionIds : versions'[v].status = "ACTIVE" <=> v = n
      BY <2>1, <2>3, <2>5
    <3> QED
      BY <1>1, <1>2, <2>3, <2>5, <3>1 DEF ProjectionsInv, Live
  <2>9. Holding' /\ Whole'
    <3>1. \A c \in Commands : holder # c
      BY <1>1, EventsAssumption
    <3> QED
      BY <1>1, <1>2, <3>1, CommandsStay
  <2>10. Shadows'
    <3>1. \A x \in Rebuilds : Prefix(rebuilding'[x].stream, stream')
      BY <1>1, <1>2, <2>6 DEF ProjectionsInv, Shadows
    <3>2. \A x \in Rebuilds : Built(x)' => x # r /\ Built(x)
      BY <2>6 DEF Built
    <3>3. \A x \in Rebuilds : x # r /\ Built(x) =>
            rebuilding[x].next \in VersionIds /\ rebuilding[x].next # n /\ rebuilding[x].next # a
      <4>1. \A x \in Rebuilds : rebuilding[x].next \in VersionIds
        BY RebuildFacts
      <4>2. \A x \in Rebuilds : x # r /\ Built(x) => rebuilding[x].next # n
        BY <1>3 DEF ProjectionsInv, Shadows, n
      <4>3. \A x \in Rebuilds : Built(x) => versions[rebuilding[x].next].status = "BUILDING"
        BY DEF ProjectionsInv, Shadows
      <4>4. versions[a].status = "ACTIVE"
        BY <1>2, <2>1
      <4> QED
        BY <4>1, <4>2, <4>3, <4>4
    <3>4. \A x \in Rebuilds : Built(x)' =>
            /\ versions'[rebuilding'[x].next].status = "BUILDING"
            /\ IsModel(versions'[rebuilding'[x].next], rebuilding'[x].stream)
      BY <2>5, <2>6, <3>2, <3>3 DEF ProjectionsInv, Shadows
    <3>5. \A x, y \in Rebuilds : Built(x)' /\ Built(y)' /\ x # y => rebuilding'[x].next # rebuilding'[y].next
      BY <2>6, <3>2 DEF ProjectionsInv, Shadows
    <3> QED
      BY <3>1, <3>4, <3>5 DEF Shadows
  <2> QED
    BY <2>7, <2>8, <2>9, <2>10 DEF ProjectionsInv
<1> QED
  BY <1>1, <1>5, <1>6

(* A stale version is deleted.                                              *)
LEMMA DeleteBuildingKeeps ==
  ASSUME ProjectionsInv, NEW r \in Rebuilds, deleteBuilding(r)
  PROVE  ProjectionsInv'
<1> DEFINE n == rebuilding[r].next
           s == rebuilding[r].stream
<1>1. /\ rebuilding[r].at = "stale"
      /\ UNCHANGED <<durable, holder, command, page, stream>>
      /\ versions' = [versions EXCEPT ![n] = IF versions[n].status = "BUILDING" THEN Empty ELSE versions[n]]
      /\ rebuilding' = [rebuilding EXCEPT ![r].at = "refused"]
  BY DEF deleteBuilding
<1>2. /\ rebuilding \in [Rebuilds -> RebuildOf] /\ Prefix(s, stream)
      /\ n \in VersionIds /\ DOMAIN versions = VersionIds /\ durable
  BY <1>1, RebuildFacts
<1>3. Built(r)
  BY <1>1 DEF Built
<1>4. versions[n].status = "BUILDING"
  BY <1>3 DEF ProjectionsInv, Shadows
<1>5. /\ DOMAIN versions' = VersionIds /\ versions'[n] = Empty
      /\ \A v \in VersionIds : v # n => versions'[v] = versions[v]
  BY <1>1, <1>2, <1>4
<1>6. Empty.status = "none" /\ Empty.applied = 0 /\ Empty.processed = {}
  BY DEF Empty
<1>7. /\ \A x \in Rebuilds : x # r => rebuilding'[x] = rebuilding[x]
      /\ rebuilding'[r].stream = s /\ rebuilding'[r].at = "refused"
      /\ rebuilding' \in [Rebuilds -> RebuildOf]
  BY <1>1, <1>2 DEF RebuildOf
<1> HIDE DEF n, s
<1>8. Tables'
  <2>1. \A v \in VersionIds :
          /\ versions'[v].status \in {"none", "BUILDING", "ACTIVE", "RETIRED"}
          /\ versions'[v].applied \in Nat /\ versions'[v].processed \subseteq Ids
    BY <1>5, <1>6 DEF ProjectionsInv, Tables
  <2> QED
    BY <1>1, <1>5, <1>7, <2>1 DEF ProjectionsInv, Tables
<1>9. Live'
  <2>1. PICK a \in VersionIds :
          /\ \A v \in VersionIds : versions[v].status = "ACTIVE" <=> v = a
          /\ IsModel(versions[a], stream)
    BY DEF ProjectionsInv, Live
  <2>2. a # n
    BY <1>4, <2>1
  <2>3. \A v \in VersionIds : versions'[v].status = "ACTIVE" <=> v = a
    BY <1>5, <1>6, <2>1, <2>2
  <2>4. IsModel(versions'[a], stream')
    BY <1>1, <1>5, <2>1, <2>2
  <2> QED
    BY <1>1, <2>3, <2>4 DEF ProjectionsInv, Live
<1>10. Holding' /\ Whole'
  <2>1. \A c \in Commands : holder = c =>
          versions'[command[c].version].status = versions[command[c].version].status
    <3> SUFFICES ASSUME NEW c \in Commands, holder = c
                 PROVE  versions'[command[c].version].status = versions[command[c].version].status
      OBVIOUS
    <3>1. command[c].version \in VersionIds /\ versions[command[c].version].status = "ACTIVE"
      BY DEF ProjectionsInv, Holding
    <3> QED
      BY <1>4, <1>5, <3>1
  <2> QED
    BY <1>1, <1>2, <2>1, CommandsStay
<1>11. Shadows'
  <2>1. \A x \in Rebuilds : Prefix(rebuilding'[x].stream, stream')
    BY <1>1, <1>2, <1>7 DEF ProjectionsInv, Shadows
  <2>2. \A x \in Rebuilds : Built(x)' => x # r /\ Built(x)
    BY <1>7 DEF Built
  <2>3. \A x \in Rebuilds : x # r /\ Built(x) => rebuilding[x].next \in VersionIds /\ rebuilding[x].next # n
    <3>1. \A x \in Rebuilds : rebuilding[x].next \in VersionIds
      BY RebuildFacts
    <3> QED
      BY <1>3, <3>1 DEF ProjectionsInv, Shadows, n
  <2>4. \A x \in Rebuilds : Built(x)' =>
          /\ versions'[rebuilding'[x].next].status = "BUILDING"
          /\ IsModel(versions'[rebuilding'[x].next], rebuilding'[x].stream)
    BY <1>5, <1>7, <2>2, <2>3 DEF ProjectionsInv, Shadows
  <2>5. \A x, y \in Rebuilds : Built(x)' /\ Built(y)' /\ x # y => rebuilding'[x].next # rebuilding'[y].next
    BY <1>7, <2>2 DEF ProjectionsInv, Shadows
  <2> QED
    BY <2>1, <2>4, <2>5 DEF Shadows
<1> QED
  BY <1>8, <1>9, <1>10, <1>11 DEF ProjectionsInv

(* The component profile rebuilds in one turn.                              *)
LEMMA InMemoryRebuildKeeps ==
  ASSUME ProjectionsInv, NEW r \in Rebuilds, rebuild(r)
  PROVE  ProjectionsInv'
<1> DEFINE m == Rebuilt(stream, "ACTIVE")
<1>1. /\ ~durable /\ UNCHANGED <<durable, holder, command, page, stream>>
      /\ versions' = [versions EXCEPT ![1] = m]
      /\ rebuilding' = [rebuilding EXCEPT ![r].at = "done"]
  BY DEF rebuild
<1>2. /\ rebuilding \in [Rebuilds -> RebuildOf] /\ DOMAIN versions = VersionIds
      /\ stream \in Seq(Events) /\ Distinct(stream) /\ 1 \in VersionIds
  BY RebuildFacts, VersionIdsAre DEF ProjectionsInv, Live
<1>3. IsModel(m, stream) /\ m.status = "ACTIVE"
  BY <1>2, RebuiltIsModel
<1>4. m.applied \in Nat /\ m.processed \subseteq Ids
  BY <1>2, <1>3, IdsAreKnown DEF IsModel
<1> HIDE DEF m
<1>5. versions[1].status = "ACTIVE" /\ \A v \in VersionIds : versions[v].status = "ACTIVE" <=> v = 1
  BY <1>1, <1>2 DEF ProjectionsInv, Holding, Live
<1>6. /\ DOMAIN versions' = VersionIds /\ versions'[1] = m
      /\ \A v \in VersionIds : v # 1 => versions'[v] = versions[v]
  BY <1>1, <1>2
<1>7. /\ \A x \in Rebuilds : x # r => rebuilding'[x] = rebuilding[x]
      /\ rebuilding'[r].stream = rebuilding[r].stream /\ rebuilding'[r].at = "done"
      /\ rebuilding' \in [Rebuilds -> RebuildOf]
  BY <1>1, <1>2 DEF RebuildOf
<1>8. \A x \in Rebuilds : rebuilding'[x].at \in {"idle", "done"}
  BY <1>1, <1>7 DEF ProjectionsInv, Holding
<1>9. Tables'
  <2>1. \A v \in VersionIds :
          /\ versions'[v].status \in {"none", "BUILDING", "ACTIVE", "RETIRED"}
          /\ versions'[v].applied \in Nat /\ versions'[v].processed \subseteq Ids
    BY <1>3, <1>4, <1>6 DEF ProjectionsInv, Tables
  <2> QED
    BY <1>1, <1>6, <1>7, <2>1 DEF ProjectionsInv, Tables
<1>10. Live'
  <2>1. \A v \in VersionIds : versions'[v].status = "ACTIVE" <=> v = 1
    BY <1>3, <1>5, <1>6
  <2> QED
    BY <1>1, <1>2, <1>3, <1>6, <2>1 DEF Live
<1>11. Holding' /\ Whole'
  <2>1. \A c \in Commands : holder = c => FALSE
    BY <1>1 DEF ProjectionsInv, Holding
  <2> QED
    BY <1>1, <1>3, <1>6, <1>8, <2>1, CommandsStay
<1>12. Shadows'
  <2>1. \A x \in Rebuilds : rebuilding'[x].stream = rebuilding[x].stream
    BY <1>7
  <2>2. \A x \in Rebuilds : ~(Built(x)')
    BY <1>8 DEF Built
  <2> QED
    BY <1>1, <2>1, <2>2 DEF ProjectionsInv, Shadows
<1> QED
  BY <1>9, <1>10, <1>11, <1>12 DEF ProjectionsInv

---------------------------------------------------------------------------
(* The first version meets the invariant.                                   *)
LEMMA ProjectionsStart ==
  ASSUME ProjectionsInit
  PROVE  ProjectionsInv
<1> DEFINE m == [Empty EXCEPT !.status = "ACTIVE"]
<1>1. /\ durable \in BOOLEAN /\ holder = Free
      /\ versions = [v \in VersionIds |-> IF v = 1 THEN m ELSE Empty]
      /\ command = [c \in Commands |-> [at |-> "idle", version |-> 1, applied |-> 0]]
      /\ rebuilding = [r \in Rebuilds |-> [at |-> "idle", stream |-> << >>, active |-> 1, next |-> 1]]
      /\ page = [at |-> "idle", list |-> "trades", version |-> 1, seen |-> << >>, first |-> {}]
      /\ stream = << >>
  BY DEF ProjectionsInit
<1>2. 1 \in VersionIds /\ Free \notin Commands /\ \A c \in Commands : Len(Produces[c]) \in Nat
  BY VersionIdsAre, EventsAssumption
<1>3. /\ IsModel(m, << >>) /\ m.status = "ACTIVE" /\ Distinct(<< >>) /\ << >> \in Seq(Events)
  <2> HIDE DEF m
  <2>1. Faithful([model |-> m, live |-> << >>], "ACTIVE")
    BY EmptyIsFaithful DEF m
  <2> QED
    BY <2>1 DEF Faithful
<1>4. IdsOf(<< >>) = {} /\ Len(<< >>) = 0
  BY DEF IdsOf
<1>5. m.applied = 0 /\ m.processed = {}
  BY <1>3, <1>4 DEF IsModel
<1>6. Empty.status = "none" /\ Empty.applied = 0 /\ Empty.processed = {}
  BY DEF Empty
<1> HIDE DEF m
<1>7. /\ DOMAIN versions = VersionIds /\ versions[1] = m
      /\ \A v \in VersionIds : v # 1 => versions[v] = Empty
  BY <1>1, <1>2
<1>8. Tables
  <2>1. \A v \in VersionIds :
          /\ versions[v].status \in {"none", "BUILDING", "ACTIVE", "RETIRED"}
          /\ versions[v].applied \in Nat /\ versions[v].processed \subseteq Ids
    BY <1>3, <1>5, <1>6, <1>7
  <2>2. command \in [Commands -> CommandOf] /\ \A c \in Commands : command[c].applied = 0
    BY <1>1 DEF CommandOf
  <2>3. rebuilding \in [Rebuilds -> RebuildOf]
    BY <1>1, <1>2, <1>3 DEF RebuildOf
  <2>4. /\ DOMAIN page = {"at", "list", "version", "seen", "first"}
        /\ page.at \in {"idle", "asks", "reads", "ended"} /\ page.version \in VersionIds
    BY <1>1, <1>2
  <2> QED
    BY <1>1, <1>2, <1>7, <2>1, <2>2, <2>3, <2>4 DEF Tables
<1>9. Live
  <2>1. \A v \in VersionIds : versions[v].status = "ACTIVE" <=> v = 1
    BY <1>3, <1>6, <1>7
  <2> QED
    BY <1>1, <1>2, <1>3, <1>7, <2>1 DEF Live
<1>10. Holding
  BY <1>1, <1>2, <1>3, <1>7 DEF Holding
<1>11. Shadows
  BY <1>1, <1>4 DEF Shadows, Prefix, Built
<1>12. Whole
  BY <1>1, <1>4 DEF Whole
<1> QED
  BY <1>8, <1>9, <1>10, <1>11, <1>12 DEF ProjectionsInv

(* Every step keeps the invariant.                                          *)
LEMMA ProjectionsKeep ==
  ASSUME ProjectionsInv, [ProjectionsNext]_projectionVars
  PROVE  ProjectionsInv'
<1>1. CASE UNCHANGED projectionVars
  <2>1. UNCHANGED <<durable, versions, holder, command, rebuilding, page, stream>>
    BY <1>1 DEF projectionVars
  <2>2. Live' /\ Shadows'
    BY <2>1, StreamStays, ShadowsStay
  <2>3. Tables' /\ Holding' /\ Whole'
    BY <2>1 DEF ProjectionsInv, Tables, Holding, Whole, IdsFrom
  <2> QED
    BY <2>2, <2>3 DEF ProjectionsInv
<1>2. ASSUME NEW c \in Commands,
             \/ FindActive(c) \/ LockActive(c) \/ CommitCommand(c)
             \/ \E n \in 0..Len(Produces[c]) : Abort(c, n)
             \/ Repeat(c) \/ nextSequence(c) \/ apply(c)
      PROVE  ProjectionsInv'
  BY <1>2, FindActiveKeeps, LockActiveKeeps, CommitCommandKeeps, AbortKeeps, RepeatKeeps, NextSequenceKeeps,
     ApplyKeeps
<1>3. ASSUME NEW r \in Rebuilds,
             \/ BeginRebuild(r) \/ CommitShadow(r) \/ FindForSwap(r) \/ swapBuildingToActive(r)
             \/ deleteBuilding(r) \/ CrashRebuild(r) \/ rebuild(r)
      PROVE  ProjectionsInv'
  <2>1. CASE FindForSwap(r)
    <3>1. /\ Built(r) /\ UNCHANGED <<durable, versions, holder, command, page, stream>>
          /\ \E at \in {"swaps", "stale", "refused"} : rebuilding' = [rebuilding EXCEPT ![r].at = at]
      BY <2>1 DEF FindForSwap, Built
    <3> QED
      BY <3>1, RebuildMovesKeep
  <2>2. CASE CrashRebuild(r)
    <3>1. /\ Built(r) /\ UNCHANGED <<durable, versions, holder, command, page, stream>>
          /\ rebuilding' = [rebuilding EXCEPT ![r].at = "refused"]
      BY <2>2 DEF CrashRebuild, Built
    <3> QED
      BY <3>1, RebuildMovesKeep
  <2> QED
    BY <1>3, <2>1, <2>2, BeginRebuildKeeps, CommitShadowKeeps, SwapKeeps, DeleteBuildingKeeps, InMemoryRebuildKeeps
<1>4. CASE PageVersion \/ PageRows \/ \E list \in Lists : StartListing(list)
  BY <1>4, PageKeeps
<1> QED
  BY <1>1, <1>2, <1>3, <1>4 DEF ProjectionsNext

(* The invariant of the read models in every reachable state.               *)
THEOREM ProjectionsInvariant == ProjectionsSpec => []ProjectionsInv
<1>1. ProjectionsInit => ProjectionsInv
  BY ProjectionsStart
<1>2. ProjectionsInv /\ [ProjectionsNext]_projectionVars => ProjectionsInv'
  BY ProjectionsKeep
<1> QED
  BY <1>1, <1>2, PTL DEF ProjectionsSpec

(* The invariant gives the reference fold.                                  *)
LEMMA InvGivesStream ==
  ASSUME ProjectionsInv
  PROVE  ActiveIsStream
<1> DEFINE m == versions[Active]
           n == Len(stream)
<1>1. IsModel(m, stream) /\ stream \in Seq(Events)
  BY ActiveIsLive DEF ProjectionsInv, Live
<1>2. n \in Nat /\ DOMAIN stream = 1..n
  BY <1>1
<1>3. /\ m.applied = n
      /\ LastRows(m.orders, stream) /\ FirstRows(m.trades, stream) /\ Sums(m.balances, stream)
  BY <1>1 DEF IsModel
<1>4. KeysOf("order") = Reported(stream, "order") /\ KeysOf("trade") = Reported(stream, "trade")
  BY <1>2 DEF KeysOf, Reported
<1>5. \A kind, k, i : i \in PositionsOf(kind, k) <=> i \in 1..n /\ Reports(stream, i, kind, k)
  BY <1>2 DEF PositionsOf, Reports
<1> HIDE DEF m
<1>6. ASSUME NEW k \in DOMAIN m.orders
      PROVE  m.orders[k] = RowAt(Max(PositionsOf("order", k)))
  <2> DEFINE P == PositionsOf("order", k)
  <2>1. PICK i \in 1..n : /\ Reports(stream, i, "order", k) /\ m.orders[k] = EventRow(stream, i)
                          /\ \A j \in 1..n : Reports(stream, j, "order", k) => j <= i
    BY <1>3 DEF LastRows
  <2>2. i \in P /\ i \in Nat /\ \A j \in P : j \in Nat /\ j <= i
    BY <1>2, <1>5, <2>1
  <2> HIDE DEF P
  <2>3. Max(P) = i
    <3>1. \A x \in P : (\A y \in P : x >= y) => x = i
      BY <2>2
    <3>2. \A y \in P : i >= y
      BY <2>2
    <3> QED
      BY <2>2, <3>1, <3>2 DEF Max
  <2> QED
    BY <2>1, <2>3 DEF EventRow, RowAt, P
<1>7. ASSUME NEW k \in DOMAIN m.trades
      PROVE  m.trades[k] = RowAt(Min(PositionsOf("trade", k)))
  <2> DEFINE P == PositionsOf("trade", k)
  <2>1. PICK i \in 1..n : /\ Reports(stream, i, "trade", k) /\ m.trades[k] = EventRow(stream, i)
                          /\ \A j \in 1..n : Reports(stream, j, "trade", k) => i <= j
    BY <1>3 DEF FirstRows
  <2>2. i \in P /\ i \in Nat /\ \A j \in P : j \in Nat /\ i <= j
    BY <1>2, <1>5, <2>1
  <2> HIDE DEF P
  <2>3. Min(P) = i
    <3>1. \A x \in P : (\A y \in P : x <= y) => x = i
      BY <2>2
    <3> QED
      BY <2>2, <3>1 DEF Min
  <2> QED
    BY <2>1, <2>3 DEF EventRow, RowAt, P
<1>8. \A a \in Accounts : m.balances[a] = SumOf(a)
  BY <1>2, <1>3 DEF Sums, SumOf, DeltasAt
<1> QED
  BY <1>3, <1>4, <1>6, <1>7, <1>8 DEF ActiveIsStream, LastRows, FirstRows, m

(* Whatever rebuilds are built, swapped, refused or abandoned and however   *)
(* often a command is sent, the model the API reads is the fold of the live *)
(* events, each counted once.                                               *)
THEOREM ReadsAreTheStream == ProjectionsSpec => []ActiveIsStream
<1>1. ProjectionsInv => ActiveIsStream
  BY InvGivesStream
<1> QED
  BY <1>1, ProjectionsInvariant, PTL

(* In the durable profile a command's events are in the model all or none.  *)
THEOREM CommandsAreWhole == ProjectionsSpec => []CommandsProjectedWhole
<1>1. ASSUME ProjectionsInv, durable, NEW c \in Commands
      PROVE  LET ids == {e.id : e \in Range(Produces[c])}
                 there == ids \cap versions[Active].processed IN
             there \in {{}, ids} /\ (command[c].at = "done" => there = ids)
  <2>1. {e.id : e \in Range(Produces[c])} = IdsFrom(c)
    <3>1. DOMAIN Produces[c] = 1..Len(Produces[c])
      BY ProducedEvents
    <3> QED
      BY <3>1 DEF Range, IdsFrom, IdsOf
  <2>2. versions[Active].processed = IdsOf(stream)
    BY <1>1, ActiveIsLive DEF ProjectionsInv, IsModel
  <2>3. /\ IdsFrom(c) \subseteq IdsOf(stream) \/ IdsFrom(c) \cap IdsOf(stream) = {}
        /\ command[c].at = "done" => IdsFrom(c) \subseteq IdsOf(stream)
    BY <1>1 DEF ProjectionsInv, Whole
  <2> HIDE DEF IdsFrom
  <2> QED
    BY <2>1, <2>2, <2>3
<1>2. ProjectionsInv => CommandsProjectedWhole
  BY <1>1 DEF CommandsProjectedWhole
<1> QED
  BY <1>2, ProjectionsInvariant, PTL

(* Every table has the columns and values of its type.                      *)
THEOREM ProjectionsTyped == ProjectionsSpec => []ProjectionsTypeOK
<1>1. ProjectionsInv => ProjectionsTypeOK
  BY DEF ProjectionsInv, Tables, ProjectionsTypeOK, CommandOf, RebuildOf
<1> QED
  BY <1>1, ProjectionsInvariant, PTL
============================================================================
