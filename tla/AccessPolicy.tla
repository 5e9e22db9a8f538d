---------------------------- MODULE AccessPolicy ----------------------------
(* Who may do what: the principal the guard makes of an API key or of a     *)
(* browser session, and the checks of the handlers.  A principal is a       *)
(* record [via, roles, role, scopes, user].                                 *)
EXTENDS FiniteSets

(* AUTHORIZATION_POLICY.                                                    *)
Policy(action) ==
  CASE action = "trading.read"  -> [scope |-> <<"trading", "read">>, roles |-> {"trader", "admin"}]
    [] action = "trading.write" -> [scope |-> <<"trading", "write">>, roles |-> {"trader", "admin"}]
    [] action = "admin.read"    -> [scope |-> <<"admin", "read">>,
                                    roles |-> {"admin", "risk_manager", "auditor", "support"}]
    [] action = "admin.write"   -> [scope |-> <<"admin", "*">>, roles |-> {"admin", "risk_manager"}]
    [] action = "ledger.admin"  -> [scope |-> <<"admin", "*">>, roles |-> {"admin"}]

(* A registry key without scopes of its own.                                *)
defaultScopes(role) ==
  CASE role = "admin"        -> {<<"admin", "*">>, <<"trading", "*">>}
    [] role = "trader"       -> {<<"trading", "read">>, <<"trading", "write">>}
    [] role = "risk_manager" -> {<<"admin", "*">>}
    [] OTHER                 -> {<<"admin", "read">>}

MachinePrincipal(role, user) ==
  [via |-> "key", role |-> role, scopes |-> defaultScopes(role), user |-> user]

(* A person must have exactly one role that maps to a role of the API.      *)
mapHumanRole(roles) ==
  {CASE r = "USER" -> "trader" [] r = "ADMIN" -> "admin" [] r = "SUPPORT" -> "support"
     [] r = "RISK_MANAGER" -> "risk_manager" [] r = "AUDITOR" -> "auditor" : r \in roles}

HumanPrincipals(roles, scopes, user) ==
  {[via |-> "session", role |-> m, scopes |-> scopes, user |-> user] :
     m \in IF Cardinality(mapHumanRole(roles)) = 1 THEN mapHumanRole(roles) ELSE {}}

HoldsScope(p, scope) ==
  p.scopes \cap {scope, <<scope[1], "*">>, <<"admin", "*">>} # {}

AuthorizedAction(p, action) ==
  p.role \in Policy(action).roles /\ HoldsScope(p, Policy(action).scope)

ObjectAccess(p, owner) == p.role = "admin" \/ p.user = owner
AdminAccess(p) == p.role = "admin"
AdministrativeAccess(p) == p.role # "trader"
=============================================================================
