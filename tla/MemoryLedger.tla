---------------------------- MODULE MemoryLedger ----------------------------
(***************************************************************************)
(* The in-memory Ledger of the component profile as operators on a record   *)
(*   [bal, operations, postings, ok]                                        *)
(* where bal[a][s] is account a's available and reserved amount of asset s  *)
(* and `ok' falls when an operation throws.  An operation id that has been  *)
(* applied answers with its old result and changes nothing.  Nothing here   *)
(* rolls back: an operation that throws leaves what earlier ones have done. *)
(* Mutated forms, named for the bug they introduce, stand before the        *)
(* definition they mutate; no other definition uses them.                   *)
(***************************************************************************)
EXTENDS Integers, FiniteSets

Empty == [available |-> 0, reserved |-> 0]

Thrown(l) == [l EXCEPT !.ok = FALSE]

(* The value objects of Balance; an amount is positive and no part negative.*)
Credited(b, n) == [b EXCEPT !.available = @ + n]
Debited(b, n)  == [b EXCEPT !.available = @ - n]
Held(b, n)     == [available |-> b.available - n, reserved |-> b.reserved + n]
Freed(b, n)    == [available |-> b.available + n, reserved |-> b.reserved - n]
Taken(b, n)    == [b EXCEPT !.reserved = @ - n]

Fits(b) == b.available >= 0 /\ b.reserved >= 0

Posting(op, a, s, n, direction) ==
  [op |-> op, account |-> a, asset |-> s, amount |-> n, direction |-> direction]

Opposite(direction) == IF direction = "DEBIT" THEN "CREDIT" ELSE "DEBIT"

ChangeAgain(l, op, a, s, n, balance, direction) ==
  IF ~l.ok THEN l
  ELSE IF n <= 0 \/ ~Fits(balance) THEN Thrown(l)
  ELSE [l EXCEPT !.bal[a][s] = balance, !.operations = @ \cup {op}]

(* credit, debit, reserve, release: the new balance and two postings, the   *)
(* account's and the system account's (recordBalancedMarker).               *)
Change(l, op, a, s, n, balance, direction) ==
  IF ~l.ok \/ op \in l.operations THEN l
  ELSE IF n <= 0 \/ ~Fits(balance) THEN Thrown(l)
  ELSE [l EXCEPT !.bal[a][s] = balance,
                 !.operations = @ \cup {op},
                 !.postings = @ \cup
                   {Posting(op, a, s, n, direction),
                    Posting(op, "system", s, n, Opposite(direction))}]

Credit(l, op, a, s, n) ==
  Change(l, op, a, s, n, Credited(l.bal[a][s], n), "CREDIT")

Debit(l, op, a, s, n) ==
  Change(l, op, a, s, n, Debited(l.bal[a][s], n), "DEBIT")

Reserve(l, op, a, s, n) ==
  Change(l, op, a, s, n, Held(l.bal[a][s], n), "DEBIT")

Release(l, op, a, s, n) ==
  Change(l, op, a, s, n, Freed(l.bal[a][s], n), "CREDIT")

(* settleReservedTransfer: both balances are computed before either is      *)
(* written, so the second write wins where the two accounts are one.        *)
SettleReserved(l, op, from, to, s, n) ==
  LET debit  == Taken(l.bal[from][s], n)
      credit == Credited(l.bal[to][s], n)
  IN IF ~l.ok \/ op \in l.operations THEN l
     ELSE IF n <= 0 \/ ~Fits(debit) THEN Thrown(l)
     ELSE [l EXCEPT !.bal = [[@ EXCEPT ![from][s] = debit]
                                EXCEPT ![to][s] = credit],
                    !.operations = @ \cup {op},
                    !.postings = @ \cup {Posting(op, from, s, n, "DEBIT"),
                                         Posting(op, to, s, n, "CREDIT")}]
=============================================================================
