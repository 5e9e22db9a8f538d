--------------------------- MODULE SettlementLog ---------------------------
(***************************************************************************)
(* Log-first settlement over the in-memory event log: a trade is appended   *)
(* before it is settled, and whatever the caller did not get to settle is   *)
(* settled by the consumer of the log, with retries and dead letters; the   *)
(* log can be archived, trimmed and restored from the archive.              *)
(*                                                                         *)
(* Every await of the path resolves in the same turn of the event loop, so  *)
(* an event is handled, with all of its attempts, in one step.  A trade has *)
(* fees here (the processor of the trading runtime passes none).            *)
(* Mutated forms, named for the bug they introduce, stand before the        *)
(* definition they mutate; no other definition uses them.                   *)
(***************************************************************************)
EXTENDS Integers, SequencesExt

Ledger == INSTANCE MemoryLedger

CONSTANTS
  Deals,       \* trade ids
  Terms,       \* the TradeExecuted event of each
  Holders,     \* the accounts of the traders; "fees" is the account of fees
  Reserves,    \* what each of them has reserved of each asset at first
  MaxRetries,  \* attempts at an event, and at an append
  Outages,     \* numbers of appends that time out in a row
  MaxEvents    \* bound on the length of the log

(* The engine matches no order with one of the same user.                   *)
ASSUME SettlementAssumption ==
  /\ IsFiniteSet(Deals) /\ "fees" \notin Holders
  /\ \A d \in Deals : Terms[d].buyer # Terms[d].seller
  /\ Reserves \in [Holders -> [{"base", "quote"} -> Nat]]
  /\ MaxRetries \in Nat \ {0} /\ MaxEvents \in Nat
  /\ Outages \subseteq Nat \ {0}
  /\ Terms \in [Deals -> [buyer : Holders, seller : Holders, quantity : Nat \ {0},
                          value : Nat \ {0}, buyerFee : Nat, sellerFee : Nat]]

VARIABLES
  book,         \* the Ledger aggregate
  feeAccount,   \* the fee account is provisioned
  events,       \* EventLog.events
  offset,       \* the consumer's offset
  deadLetters,  \* the trades among EventLog.deadLetters
  failures,     \* failuresBeforeSuccess: appends that will time out
  settled,      \* SettlementService.applied
  archive,      \* the archive last made
  poisoned      \* history: trades that have ever been dead-lettered

settlementVars == <<book, feeAccount, events, offset, deadLetters, failures,
                    settled, archive, poisoned>>

Event(type, d) == [type |-> type, deal |-> d]
NoArchive == [events |-> << >>, offset |-> -1]

TransferOf(from, to, asset, amount) ==
  [from |-> from, to |-> to, asset |-> asset, amount |-> amount]

(* SettlementPostingPolicy and settleTradeObserved: what each leg moves.    *)
Leg(d) ==
  LET t == Terms[d] IN
  [base      |-> TransferOf(t.seller, t.buyer, "base", t.quantity),
   quote     |-> TransferOf(t.buyer, t.seller, "quote", t.value),
   buyerFee  |-> TransferOf(t.buyer, "fees", "quote", t.buyerFee),
   sellerFee |-> TransferOf(t.seller, "fees", "quote", t.sellerFee)]

LegNames == {"base", "quote", "buyerFee", "sellerFee"}

(* A fee has a leg where it is not zero.                                    *)
Legs(d) == {name \in LegNames : Leg(d)[name].to = "fees" => Leg(d)[name].amount # 0}

MoveLeg(d, l, name) ==
  LET leg == Leg(d)[name] IN
  IF name \notin Legs(d) THEN l
  ELSE IF leg.to = "fees" /\ ~feeAccount THEN Ledger!Thrown(l)
  ELSE Ledger!SettleReserved(l, <<d, name>>, leg.from, leg.to, leg.asset, leg.amount)

(* In this order; what follows a leg that throws finds ok fallen.           *)
MoveLegs(l, d) ==
  LET traded == MoveLeg(d, MoveLeg(d, l, "base"), "quote")
  IN MoveLeg(d, MoveLeg(d, traded, "buyerFee"), "sellerFee")

---------------------------------------------------------------------------
(* What the calls below work on; `ok' falls when one throws.                *)
Working == [book |-> book, events |-> events, failures |-> failures,
            settled |-> settled, ok |-> TRUE]

(* EventLog.append: a simulated outage times out, and wears off.            *)
AppendEvent(s, e) ==
  IF s.failures > 0 THEN [s EXCEPT !.failures = @ - 1, !.ok = FALSE]
  ELSE [s EXCEPT !.events = Append(@, e)]

(* settleTrade: a trade that is remembered is not touched again; a trade    *)
(* whose legs have moved is settled, and remembered, only when its          *)
(* SettlementApplied is in the log.                                         *)
SettleTrade(s, d) ==
  LET l     == MoveLegs(s.book, d)
      moved == [s EXCEPT !.book = [l EXCEPT !.ok = TRUE], !.ok = l.ok]
      said  == AppendEvent(moved, Event("SettlementApplied", d))
  IN CASE d \in s.settled -> s
       [] d \notin s.settled /\ ~l.ok -> moved
       [] d \notin s.settled /\ l.ok ->
            IF said.ok THEN [said EXCEPT !.settled = @ \cup {d}] ELSE said

(* consumeTrades: only trades mean anything to this consumer.               *)
HandleEvent(s, e) == IF e.type = "TradeExecuted" THEN SettleTrade(s, e.deal) ELSE s

(* consume's attempts at one event, until one does not throw.               *)
Attempt(s, e) == IF s.ok THEN s ELSE HandleEvent([s EXCEPT !.ok = TRUE], e)

Attempted(s, e) ==
  FoldLeft(Attempt, [s EXCEPT !.ok = FALSE], [n \in 1..MaxRetries |-> e])

Becomes(s) ==
  /\ book' = s.book /\ events' = s.events /\ failures' = s.failures
  /\ settled' = s.settled
---------------------------------------------------------------------------
SettlementInit ==
  /\ book = [bal |-> [a \in Holders \cup {"fees"} |-> [s \in {"base", "quote"} |->
                [Ledger!Empty EXCEPT !.reserved = IF a = "fees" THEN 0 ELSE Reserves[a][s]]]],
             operations |-> {}, postings |-> {}, ok |-> TRUE]
  /\ feeAccount = FALSE
  /\ events = << >> /\ offset = 0 /\ deadLetters = {} /\ failures = 0
  /\ settled = {} /\ archive = NoArchive /\ poisoned = {}

(* appendTrade: as many attempts as an event has.                           *)
appendTrade(d) ==
  /\ Len(events) < MaxEvents
  /\ IF failures >= MaxRetries
     THEN failures' = failures - MaxRetries /\ UNCHANGED events
     ELSE failures' = 0 /\ events' = Append(events, Event("TradeExecuted", d))
  /\ UNCHANGED <<book, feeAccount, offset, deadLetters, settled, archive, poisoned>>

(* settleTrade called by the writer of the trade, who may not have come so  *)
(* far before, or may come again.                                           *)
settleTrade(d) ==
  /\ \E n \in 1..Len(events) : events[n] = Event("TradeExecuted", d)
  /\ Len(events) < MaxEvents
  /\ Becomes(SettleTrade(Working, d))
  /\ UNCHANGED <<feeAccount, offset, deadLetters, archive, poisoned>>

(* One turn of consume: the offset moves on whether the event is handled or *)
(* has become a dead letter.                                                *)
consume ==
  /\ offset < Len(events)
  /\ LET e == events[offset + 1]
         s == Attempted(Working, e)
     IN /\ Becomes(s)
        /\ deadLetters' = IF s.ok THEN deadLetters ELSE deadLetters \cup {e.deal}
        /\ poisoned' = IF s.ok THEN poisoned ELSE poisoned \cup {e.deal}
  /\ offset' = offset + 1
  /\ UNCHANGED <<feeAccount, archive>>

failNext(n) ==
  /\ failures = 0
  /\ failures' = n
  /\ UNCHANGED <<book, feeAccount, events, offset, deadLetters, settled, archive, poisoned>>

(* An operator provisions the fee account.                                  *)
ProvisionFees ==
  /\ ~feeAccount
  /\ feeAccount' = TRUE
  /\ UNCHANGED <<book, events, offset, deadLetters, failures, settled, archive, poisoned>>

(* Bound: one archive is made.                                              *)
createArchive ==
  /\ archive = NoArchive
  /\ archive' = [events |-> events, offset |-> offset]
  /\ UNCHANGED <<book, feeAccount, events, offset, deadLetters, failures, settled, poisoned>>

OffsetKept(removed) == offset

(* The offset counts from the first event that is left.                     *)
OffsetAfter(removed) == IF removed > offset THEN 0 ELSE offset - removed

(* retainLatest, which the runbook allows only after an archive.            *)
retainLatest(n) ==
  LET removed == Len(events) - n IN
  /\ archive # NoArchive
  /\ removed > 0
  /\ events' = SubSeq(events, removed + 1, Len(events))
  /\ offset' = OffsetAfter(removed)
  /\ UNCHANGED <<book, feeAccount, deadLetters, failures, settled, archive, poisoned>>

(* restore: a new log from an archive, and a new SettlementService over the *)
(* ledger.  The dead letters are not in the archive.                        *)
restore ==
  /\ archive # NoArchive
  /\ events' = archive.events /\ offset' = archive.offset
  /\ deadLetters' = {} /\ failures' = 0 /\ settled' = {}
  /\ UNCHANGED <<book, feeAccount, archive, poisoned>>

SettlementNext ==
  \/ \E d \in Deals : appendTrade(d) \/ settleTrade(d)
  \/ consume \/ ProvisionFees \/ createArchive \/ restore
  \/ \E n \in Outages : failNext(n)
  \/ \E n \in 0..MaxEvents : retainLatest(n)
SettlementSpec == SettlementInit /\ [][SettlementNext]_settlementVars
---------------------------------------------------------------------------
TradeMoved(d) == \A name \in Legs(d) : <<d, name>> \in book.operations

(* What a leg that has moved has brought an account, less what it has taken *)
(* from it.                                                                 *)
NetOfLeg(m, a, s) ==
  LET leg == Leg(m[1])[m[2]] IN
  IF leg.asset # s THEN 0
  ELSE (IF leg.to = a THEN leg.amount ELSE 0) - (IF leg.from = a THEN leg.amount ELSE 0)

NetOf(a, s) ==
  SumFunctionOnSet([m \in book.operations |-> NetOfLeg(m, a, s)], book.operations)

(* The consumer stands within the log; a trade it has passed is settled     *)
(* with every leg of it, or was a dead letter; a trade the log calls        *)
(* settled is; and each leg has moved its amount once - whatever outages,   *)
(* direct settlements, redeliveries, trimmed and restored logs come         *)
(* together (docs/settlement.md: redelivery has exactly-once business       *)
(* effect).                                                                 *)
ConsumedIsSettled ==
  /\ offset <= Len(events)
  /\ \A n \in 1..offset : TradeMoved(events[n].deal) \/ events[n].deal \in poisoned
  /\ \A n \in 1..Len(events) : events[n].type = "SettlementApplied" => TradeMoved(events[n].deal)
  /\ \A a \in Holders \cup {"fees"}, s \in {"base", "quote"} :
       book.bal[a][s].available + book.bal[a][s].reserved =
         (IF a = "fees" THEN 0 ELSE Reserves[a][s]) + NetOf(a, s)

(* Every trade has one SettlementApplied (docs/settlement.md).              *)
SettledOnce ==
  \A n, m \in 1..Len(events) :
    events[n].type = "SettlementApplied" /\ events[n] = events[m] => n = m
=============================================================================
