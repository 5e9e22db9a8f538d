------------------------------ MODULE MCAccess ------------------------------
(* The idempotent gateway with its keys, and administration.  They share no  *)
(* state, so one run explores them side by side: boundary says which of      *)
(* them a behaviour is about.                                                *)
EXTENDS CommandGateway, AdminControl, TLC
CONSTANTS r1, r2, i1, i2, ada, bob, rita
VARIABLE boundary
vars == <<boundary, gatewayVars, adminVars>>

Init ==
  /\ boundary \in {"gateway", "admin"}
  /\ GatewayInit /\ AdminInit
  /\ boundary = "admin" => gateProfile = "durable"
  /\ boundary = "gateway" => Durable
GatewaySteps == boundary = "gateway" /\ GatewayNext /\ UNCHANGED <<boundary, adminVars>>
AdminSteps == boundary = "admin" /\ AdminNext /\ UNCHANGED <<boundary, gatewayVars>>
Next == GatewaySteps \/ AdminSteps
Spec == Init /\ [][Next]_vars

Symmetry == Permutations(GateCalls) \cup Permutations(Idems)

\* Histories no action reads.
View == <<boundary, gatewayVars, profile, db, chainLock, results, known, pending, catalog, order>>

\* Two administrators and a risk manager: a freeze by one actor, a stop by
\* two, a policy the administrators may not touch.
MCRole == [a \in Actors |-> IF a = rita THEN "RISK_MANAGER" ELSE "ADMIN"]
MCAdminCommands == {[id |-> 1, type |-> "FREEZE_USER", target |-> "u", at |-> 0],
                    [id |-> 2, type |-> "EMERGENCY_STOP", target |-> "i", at |-> 0],
                    [id |-> 3, type |-> "CHANGE_RISK_POLICY", target |-> "i", at |-> 1]}

\* A command id used for an order and a cancel, and the three key
\* operations.  Administrators trade too; the instance leaves their orders
\* out, a trader's attempt at key administration in.
MCCommands == {[op |-> "order", id |-> 1, body |-> 1], [op |-> "cancel", id |-> 1, body |-> 2],
               [op |-> "issue", id |-> 0, body |-> 0], [op |-> "rotate", id |-> 0, body |-> 0],
               [op |-> "revoke", id |-> 0, body |-> 0]}
MCUses == [k \in Keys |-> IF k = Admin THEN {"issue", "rotate", "revoke"}
                          ELSE {"order", "cancel", "revoke"}]
=============================================================================
