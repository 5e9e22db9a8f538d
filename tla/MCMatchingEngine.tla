------------------------- MODULE MCMatchingEngine -------------------------
(***************************************************************************)
(* Bounded instances of MatchingEngine, of the in-process partitions that   *)
(* can stand before it and of the log-first settlement that can stand       *)
(* behind it.  They share no state, so one run explores them side by side:  *)
(* part says which of them a behaviour is about.  Order ids and users are   *)
(* interchangeable.  `last' never decides what happens next, and only its   *)
(* new value appears in a property: states that differ in it are one state. *)
(***************************************************************************)
EXTENDS MatchingEngine, InstrumentPartitions, SettlementLog, TLC

VARIABLE part

MCCommandLog == [i \in Instruments |-> <<"a", "b", "c">>]

(* The first trade has a buyer's fee, the second a seller's.                *)
MCTerms ==
  [d \in Deals |->
     IF d = "d1"
     THEN [buyer |-> "ann", seller |-> "bea", quantity |-> 1, value |-> 2,
           buyerFee |-> 1, sellerFee |-> 0]
     ELSE [buyer |-> "bea", seller |-> "ann", quantity |-> 1, value |-> 1,
           buyerFee |-> 0, sellerFee |-> 1]]

(* What reserveBeforePlace has reserved for the orders of both trades.      *)
MCReserves ==
  [a \in Holders |-> IF a = "ann" THEN [base |-> 1, quote |-> 4]
                     ELSE [base |-> 1, quote |-> 1]]

MCInit ==
  /\ part \in {"engine", "partitions", "log"}
  /\ Init /\ PartitionsInit /\ SettlementInit

EngineSteps == part = "engine" /\ Next /\ UNCHANGED <<part, partitionVars, settlementVars>>
PartitionSteps == part = "partitions" /\ PartitionsNext /\ UNCHANGED <<part, vars, settlementVars>>
LogSteps == part = "log" /\ SettlementNext /\ UNCHANGED <<part, vars, partitionVars>>

MCSpec ==
  MCInit /\ [][EngineSteps \/ PartitionSteps \/ LogSteps]_<<part, vars, partitionVars, settlementVars>>

View == <<part, sequence, active, partitionVars, settlementVars>>

Symmetry == Permutations(OrderIds) \cup Permutations(Users)
=============================================================================
