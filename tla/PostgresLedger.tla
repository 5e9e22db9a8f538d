--------------------------- MODULE PostgresLedger ---------------------------
(***************************************************************************)
(* PostgresLedgerAdapter: balances, reservations, and the immutable         *)
(* operations with their pair of postings.                                  *)
(*                                                                         *)
(* Each operation is one database transaction.  It takes the operation id's *)
(* advisory lock, updates the balance rows under their row locks, and only  *)
(* then touches a reservation, whose account's balance row it already       *)
(* holds; two transactions on one (account, asset) are therefore serial,    *)
(* SKIP LOCKED never skips a candidate, and one operation is one step.  A   *)
(* failed predicate aborts the transaction: the step is not enabled.        *)
(* Amounts are exact decimals in the code; here they are naturals.          *)
(***************************************************************************)
EXTENDS Integers, Sequences, FiniteSets, Functions

CONSTANTS Accounts,  \* accounts other than `system'
          System,    \* the system account, opposite side of marker postings
          Assets,
          OpIds,     \* operation ids chosen by the callers
          Amounts,   \* amounts the callers ask for
          NoOp       \* operation id not used yet, or no compensated operation

MutationTypes == {"CREDIT", "DEBIT", "RESERVE", "RELEASE"}
TransferTypes == {"TRANSFER_AVAILABLE", "SETTLE_RESERVED_TRANSFER"}

(* A row of ledger_operations with its posting pair.                        *)
OperationRow == [type : MutationTypes \cup TransferTypes,
                 debit : Accounts \cup {System},
                 credit : Accounts \cup {System},
                 asset : Assets, amount : Amounts, for : OpIds \cup {NoOp}]

ASSUME LedgerConstants ==
  /\ System \notin Accounts
  /\ NoOp \notin OpIds /\ NoOp \notin OperationRow
  /\ Amounts \subseteq Nat \ {0}

VARIABLES
  balances,      \* rows of balances, by (account, asset) opened so far
  operations,    \* rows of ledger_operations with their posting pair
  reservations   \* rows of reservations, oldest first

ledgerVars == <<balances, operations, reservations>>

Opened(a, s) == <<a, s>> \in DOMAIN balances

(* Mutated forms, named for the bug they introduce, stand before the        *)
(* definition they mutate; no other definition uses them.                   *)
AlwaysFresh(id) == TRUE

(* lockExisting: an operation applied before returns its stored result.     *)
Fresh(id) == operations[id] = NoOp

AlwaysEnough(a, s, column, amount) == TRUE

(* The predicate of the UPDATE of a balance row.                            *)
Enough(a, s, column, amount) == balances[<<a, s>>][column] >= amount

OnlyCreditCredits(type) == type = "CREDIT"

(* The direction of the account's posting; `system' has the opposite one.   *)
CreditsAccount(type) == type \in {"CREDIT", "RELEASE"}

LedgerInit ==
  /\ balances = << >>
  /\ operations = [id \in OpIds |-> NoOp]
  /\ reservations = << >>

(* openBalance: a zero row, unless it exists.                               *)
OpenBalance(a, s) ==
  /\ ~Opened(a, s)
  /\ balances' = [k \in DOMAIN balances \cup {<<a, s>>} |->
                    IF k = <<a, s>> THEN [available |-> 0, reserved |-> 0]
                    ELSE balances[k]]
  /\ UNCHANGED <<operations, reservations>>

(* The row of (a, s) in b moved by the two signed amounts.                  *)
Moved(b, a, s, available, reserved) ==
  [b EXCEPT ![<<a, s>>] = [available |-> @.available + available,
                           reserved |-> @.reserved + reserved]]

ReservationOnlyFound(a, s, amount) ==
  /\ \E i \in 1..Len(reservations) :
       /\ reservations[i].account = a /\ reservations[i].asset = s
       /\ reservations[i].remaining >= amount
  /\ UNCHANGED reservations

(* The oldest active reservation of (a, s) that covers the whole amount is  *)
(* reduced; without one the transaction fails.                              *)
TakeReservation(a, s, amount) ==
  LET covers(i) == /\ reservations[i].account = a
                   /\ reservations[i].asset = s
                   /\ reservations[i].remaining >= amount
  IN \E i \in 1..Len(reservations) :
       /\ covers(i)
       /\ \A j \in 1..(i - 1) : ~covers(j)
       /\ reservations' = [reservations EXCEPT ![i].remaining = @ - amount]

(* ledger_operations row and posting pair: who is debited, who is credited. *)
Record(id, type, debit, credit, s, amount, for) ==
  operations' = [operations EXCEPT ![id] =
    [type |-> type, debit |-> debit, credit |-> credit, asset |-> s,
     amount |-> amount, for |-> for]]

(* mutate: the balance row, the postings against `system', the operation,   *)
(* and the reservation that a RESERVE creates or a RELEASE reduces.         *)
Mutate(id, type, a, s, amount, for) ==
  /\ Fresh(id)
  /\ Opened(a, s)
  /\ CASE type = "CREDIT" ->
            /\ balances' = Moved(balances, a, s, amount, 0)
            /\ UNCHANGED reservations
       [] type = "DEBIT" ->
            /\ Enough(a, s, "available", amount)
            /\ balances' = Moved(balances, a, s, -amount, 0)
            /\ UNCHANGED reservations
       [] type = "RESERVE" ->
            /\ Enough(a, s, "available", amount)
            /\ balances' = Moved(balances, a, s, -amount, amount)
            /\ reservations' = Append(reservations,
                 [op |-> id, account |-> a, asset |-> s, remaining |-> amount])
       [] type = "RELEASE" ->
            /\ Enough(a, s, "reserved", amount)
            /\ balances' = Moved(balances, a, s, amount, -amount)
            /\ TakeReservation(a, s, amount)
  /\ IF CreditsAccount(type)
     THEN Record(id, type, System, a, s, amount, for)
     ELSE Record(id, type, a, System, s, amount, for)

TransferFromStale(id, debit, credit, s, amount) ==
  /\ Fresh(id)
  /\ Opened(debit, s) /\ Opened(credit, s)
  /\ Enough(debit, s, "available", amount)
  /\ balances' = [balances EXCEPT
       ![<<debit, s>>].available = balances[<<debit, s>>].available - amount,
       ![<<credit, s>>].available = balances[<<credit, s>>].available + amount]
  /\ Record(id, "TRANSFER_AVAILABLE", debit, credit, s, amount, NoOp)
  /\ UNCHANGED reservations

(* transferAvailable: two UPDATEs in sequence on the locked rows.           *)
TransferAvailable(id, debit, credit, s, amount) ==
  /\ Fresh(id)
  /\ Opened(debit, s) /\ Opened(credit, s)
  /\ Enough(debit, s, "available", amount)
  /\ balances' = Moved(Moved(balances, debit, s, -amount, 0),
                       credit, s, amount, 0)
  /\ Record(id, "TRANSFER_AVAILABLE", debit, credit, s, amount, NoOp)
  /\ UNCHANGED reservations

(* settleReservedTransfer: reserved of one account to available of another. *)
SettleReservedTransfer(id, debit, credit, s, amount) ==
  /\ Fresh(id)
  /\ Opened(debit, s) /\ Opened(credit, s)
  /\ Enough(debit, s, "reserved", amount)
  /\ balances' = Moved(Moved(balances, debit, s, 0, -amount),
                       credit, s, amount, 0)
  /\ Record(id, "SETTLE_RESERVED_TRANSFER", debit, credit, s, amount, NoOp)
  /\ TakeReservation(debit, s, amount)

(* compensate: the type that undoes a mutation; transfers have none.        *)
Undo(type) == CASE type = "CREDIT"  -> "DEBIT"
                   [] type = "DEBIT"   -> "CREDIT"
                   [] type = "RESERVE" -> "RELEASE"
                   [] type = "RELEASE" -> "RESERVE"

(* compensate: a new operation applies the inverse mutation to the account  *)
(* of the original.  An operation may be compensated again under a new id.  *)
Compensate(id, original) ==
  LET o == operations[original]
      account == IF o.debit = System THEN o.credit ELSE o.debit
  IN /\ o # NoOp
     /\ o.type \in MutationTypes
     /\ Mutate(id, Undo(o.type), account, o.asset, o.amount, original)

LedgerNext ==
  \/ \E a \in Accounts, s \in Assets : OpenBalance(a, s)
  \/ \E id \in OpIds, type \in MutationTypes, a \in Accounts, s \in Assets,
        n \in Amounts : Mutate(id, type, a, s, n, NoOp)
  \/ \E id \in OpIds, d, c \in Accounts, s \in Assets, n \in Amounts :
        TransferAvailable(id, d, c, s, n)
  \/ \E id \in OpIds, d, c \in Accounts, s \in Assets, n \in Amounts :
        SettleReservedTransfer(id, d, c, s, n)
  \/ \E id, original \in OpIds : Compensate(id, original)

LedgerSpec == LedgerInit /\ [][LedgerNext]_ledgerVars
---------------------------------------------------------------------------
BalanceRow == [available : Nat, reserved : Nat]
ReservationRow == [op : OpIds, account : Accounts, asset : Assets,
                   remaining : Nat]

(* Balances are never negative (a CHECK constraint would abort the          *)
(* transaction), and the rows have their types.                             *)
LedgerTypeOK ==
  /\ DOMAIN balances \subseteq Accounts \X Assets
  /\ \A k \in DOMAIN balances : balances[k] \in BalanceRow
  /\ operations \in [OpIds -> OperationRow \cup {NoOp}]
  /\ reservations \in Seq(ReservationRow)

Applied == {id \in OpIds : operations[id] # NoOp}

(* Does operation o touch the balance row k, and from which side?           *)
Credited(o, k) == o.credit = k[1] /\ o.asset = k[2]
Debited(o, k)  == o.debit = k[1] /\ o.asset = k[2]

AmountIf(o, condition) == IF condition THEN o.amount ELSE 0

(* What operation o adds to the two columns of the balance row k.  A        *)
(* settlement debits the reserved column, every other debit the available   *)
(* one; a reservation moves its amount into the reserved column.            *)
PostedAvailable(o, k) ==
  AmountIf(o, Credited(o, k))
    - AmountIf(o, Debited(o, k) /\ o.type # "SETTLE_RESERVED_TRANSFER")

PostedReserved(o, k) ==
  AmountIf(o, Debited(o, k) /\ o.type = "RESERVE")
    - AmountIf(o, Credited(o, k) /\ o.type = "RELEASE")
    - AmountIf(o, Debited(o, k) /\ o.type = "SETTLE_RESERVED_TRANSFER")

(* The reserved column is backed, unit by unit, by active reservations: no  *)
(* release, settlement or compensation separates the two.                   *)
RemainingFor(rows, k) ==
  [i \in 1..Len(rows) |->
     IF <<rows[i].account, rows[i].asset>> = k THEN rows[i].remaining ELSE 0]

ReservedBacked ==
  \A k \in DOMAIN balances :
    balances[k].reserved = SumFunctionOnSet(RemainingFor(reservations, k),
                                            1..Len(reservations))

(* Every balance can be rebuilt from the immutable operations: both columns *)
(* are what the operations on the account add up to.                        *)
AvailablePostings(ops, ids, k) == [id \in ids |-> PostedAvailable(ops[id], k)]
ReservedPostings(ops, ids, k)  == [id \in ids |-> PostedReserved(ops[id], k)]

BalancesExplained ==
  \A k \in DOMAIN balances :
    /\ balances[k].available =
         SumFunctionOnSet(AvailablePostings(operations, Applied, k), Applied)
    /\ balances[k].reserved =
         SumFunctionOnSet(ReservedPostings(operations, Applied, k), Applied)

(* Value is conserved: what the accounts hold of an asset is what CREDIT    *)
(* brought in minus what DEBIT took out, compensations included.            *)
HeldOf(b, s) ==
  [k \in DOMAIN b |->
     IF k[2] = s THEN b[k].available + b[k].reserved ELSE 0]

Inflow(o, s) == AmountIf(o, o.type = "CREDIT" /\ o.asset = s)
                  - AmountIf(o, o.type = "DEBIT" /\ o.asset = s)

InflowsOf(ops, ids, s) == [id \in ids |-> Inflow(ops[id], s)]

SupplyConserved ==
  \A s \in Assets :
    SumFunctionOnSet(HeldOf(balances, s), DOMAIN balances)
      = SumFunctionOnSet(InflowsOf(operations, Applied, s), Applied)

(* An applied operation is never rewritten or applied twice: one step       *)
(* applies at most one operation, balances move only together with a new    *)
(* operation, and only by its amount.                                       *)
AppliedOnce ==
  [][/\ \A id \in Applied : operations'[id] = operations[id]
     /\ \A k \in DOMAIN balances : balances'[k] # balances[k] =>
          \E id \in OpIds \ Applied :
            /\ operations'[id] # NoOp
            /\ k[1] \in {operations'[id].debit, operations'[id].credit}
            /\ \A other \in OpIds \ (Applied \cup {id}) :
                 operations'[other] = NoOp]_ledgerVars

(* The books read as ADR-0003 states them: an account's balance (its        *)
(* available part, or its total) is the net of its postings.                *)
BalanceIsNetOfPostings ==
  \A k \in DOMAIN balances :
    SumFunctionOnSet([id \in Applied |->
          AmountIf(operations[id], Credited(operations[id], k))
            - AmountIf(operations[id], Debited(operations[id], k))], Applied)
      \in {balances[k].available, balances[k].available + balances[k].reserved}

---------------------------------------------------------------------------
(* What the two sums rest on: an operation or a reservation only names      *)
(* balance rows that have been opened.                                      *)
PostingsOpened ==
  \A id \in Applied : \A a \in {operations[id].debit, operations[id].credit} :
    a \in Accounts => Opened(a, operations[id].asset)

ReservationsOpened ==
  \A i \in 1..Len(reservations) :
    Opened(reservations[i].account, reservations[i].asset)

BooksInv ==
  /\ LedgerTypeOK
  /\ IsFiniteSet(Applied)
  /\ PostingsOpened
  /\ ReservationsOpened
  /\ ReservedBacked
  /\ BalancesExplained
=============================================================================
