---------------------------- MODULE MCPublicFeed ----------------------------
(* What a committed command shows to clients: the read models of the query *)
(* API and the market data stream.  They share no state, so one run        *)
(* explores them side by side: feed says which a behaviour is about.       *)
EXTENDS Projections, MarketData
CONSTANTS c1, c2, c3
VARIABLE feed
vars == <<feed, projectionVars, marketVars>>

Init ==
  /\ feed \in {"projections", "market"}
  /\ ProjectionsInit /\ MarketInit /\ (feed = "market" => durable)
Projecting == feed = "projections" /\ ProjectionsNext /\ UNCHANGED <<feed, marketVars>>
Streaming == feed = "market" /\ MarketNext /\ UNCHANGED <<feed, projectionVars>>
Next == Projecting \/ Streaming
Spec == Init /\ [][Next]_vars

\* The credential timers are intervals.
Rechecks(s) == feed = "market" /\ revalidateConnection(s) /\ UNCHANGED <<feed, projectionVars>>
FairSpec == Spec /\ \A s \in Clients : WF_vars(Rechecks(s))

TypeOK == ProjectionsTypeOK /\ MarketTypeOK

\* An order that takes two others, an immediate-or-cancel order that is
\* filled in part, and a cancel.  Of the trades one settlement moves a
\* balance, as the consumers of the port may send it.
Event(id, kind, key, users, status, deltas) ==
  [id |-> id, kind |-> kind, key |-> key, users |-> users, status |-> status, deltas |-> deltas]
Moves == [a \in {"u", "w"} |-> IF a = "u" THEN -1 ELSE 1]
MCProduces ==
  [c \in Commands |->
    CASE c = c1 -> <<Event("a1", "order", "o1", {"u"}, "OPEN", <<>>),
                     Event("t1", "trade", "t1", {"u", "w"}, "", <<>>),
                     Event("t3", "trade", "t3", {"u"}, "", <<>>)>>
      [] c = c2 -> <<Event("a2", "order", "o2", {"u"}, "OPEN", <<>>),
                     Event("t2", "trade", "t2", {"u", "w"}, "", <<>>),
                     Event("s2", "settlement", "t2", {}, "", Moves),
                     Event("x2", "order", "o2", {"u"}, "CANCELLED", <<>>)>>
      [] c = c3 -> <<Event("x1", "order", "o1", {"u"}, "CANCELLED", <<>>)>>]
=============================================================================
