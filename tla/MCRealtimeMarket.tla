------------------------- MODULE MCRealtimeMarket -------------------------
(* The ways into and out of the quote store share nothing but what         *)
(* QuoteFeed keeps of the store, so one run explores them side by side:    *)
(* part says which of them a behaviour is about.                           *)
EXTENDS QuoteIngest, QuoteFeed, RealtimeExecution, TLC
CONSTANTS k1, k2, o1, o2
VARIABLE part
vars == <<part, ingestVars, feedVars, executionVars>>

Init ==
  /\ part \in {"ingest", "feed", "execution"}
  /\ IngestInit /\ FeedInit /\ ExecutionInit /\ (part # "execution" => durable)
Ingesting == part = "ingest" /\ IngestNext /\ UNCHANGED <<part, feedVars, executionVars>>
Feeding == part = "feed" /\ FeedNext /\ UNCHANGED <<part, ingestVars, executionVars>>
Executing == part = "execution" /\ ExecutionNext /\ UNCHANGED <<part, ingestVars, feedVars>>
Next == Ingesting \/ Feeding \/ Executing
Spec == Init /\ [][Next]_vars

\* The polling interval, and Redis that delivers.
Deliveries == part = "feed" /\ Deliver /\ UNCHANGED <<part, ingestVars, executionVars>>
Polling == part = "feed" /\ quoteSnapshots /\ UNCHANGED <<part, ingestVars, executionVars>>
Merging == part = "feed" /\ (\E a \in polls : loadQuotes(a)) /\ UNCHANGED <<part, ingestVars, executionVars>>
FairSpec == Spec /\ WF_vars(Deliveries) /\ WF_vars(Polling) /\ WF_vars(Merging)

TypeOK == IngestTypeOK /\ FeedTypeOK /\ ExecutionTypeOK

MCBodies == {[key |-> k1, order |-> o1, side |-> "BUY", quantity |-> 1, expects |-> 1, mine |-> TRUE],
             [key |-> k2, order |-> o1, side |-> "SELL", quantity |-> 2, expects |-> 1, mine |-> TRUE],
             [key |-> k2, order |-> o2, side |-> "BUY", quantity |-> 1, expects |-> 2, mine |-> TRUE],
             [key |-> k1, order |-> o2, side |-> "BUY", quantity |-> 1, expects |-> 2, mine |-> FALSE]}
MCPrice == <<2, 4>>
MCUserFunds == [base |-> 2, quote |-> 7]
MCSystemFunds == [base |-> 2, quote |-> 4]
============================================================================
