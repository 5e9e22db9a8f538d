------------------------- MODULE MCBackendProcess -------------------------
(***************************************************************************)
(* A bounded instance of BackendProcess.  The operator rolls out the        *)
(* development and the production template and single mistakes in them.     *)
(***************************************************************************)
EXTENDS BackendProcess, TLC

Secret == [AUTH_PASSWORD_PEPPER |-> "ok", AUTH_TOKEN_HASH_SECRET |-> "another",
           AUTH_DUMMY_PASSWORD_HASH |-> "ok", SERVICE_NAME |-> "ok"]

Component == [NODE_ENV |-> "development", RUNTIME_PROFILE |-> "component"] @@ Secret

Production ==
  [NODE_ENV |-> "production", RUNTIME_PROFILE |-> "production", INSTANCE_ID |-> "ok",
   POSTGRES_URL |-> "ok", APPLICATION_PUBLIC_URL |-> "ok", HTTP_ALLOWED_ORIGINS |-> "ok",
   WEBSOCKET_ALLOWED_ORIGINS |-> "ok", TRUSTED_PROXY_CIDRS |-> "ok", AUTH_REDIS_URL |-> "ok",
   AUTH_RECOVERY_DELIVERY_URL |-> "ok", AUTH_RECOVERY_DELIVERY_SECRET |-> "ok",
   AUTH_RECOVERY_DECOY_EMAIL |-> "ok", AUTH_COOKIE_SECURE |-> "true",
   AUTH_COOKIE_NAME |-> "ok", AUTH_CSRF_COOKIE_NAME |-> "ok", AUTH_COOKIE_SAME_SITE |-> "ok",
   AUTH_USER_STORE_ADAPTER |-> "postgres", AUTH_SESSION_STORE_ADAPTER |-> "redis",
   AUTH_API_KEY_STORE_ADAPTER |-> "postgres"]
  @@ [k \in AdapterKeys |-> "postgres"] @@ Secret

With(c, k, v) == (k :> v) @@ c
Without(c, k) == [x \in DOMAIN c \ {k} |-> c[x]]

(* The development template with reference-price execution on, and its      *)
(* profile left to the default.                                             *)
Unprofiled ==
  [TWELVE_DATA_ENABLED |-> "true", TWELVE_DATA_API_KEY |-> "ok",
   TWELVE_DATA_REST_URL |-> "ok", TWELVE_DATA_WS_URL |-> "ok",
   TWELVE_DATA_REDIS_URL |-> "ok", REALTIME_EXECUTION_ENABLED |-> "true",
   REALTIME_LIQUIDITY_ACCOUNT_ID |-> "ok"] @@ Without(Component, "RUNTIME_PROFILE")

RolledOut ==
  {Component, Production,
   With(Component, "LEDGER_STORE_ADAPTER", "postgres"),
   With(Production, "LEDGER_STORE_ADAPTER", "memory"),
   With(Production, "EVENT_LOG_ADAPTER", "memory"),
   Without(Production, "EVENT_LOG_ADAPTER"),
   With(Production, "RUNTIME_PROFILE", "component"),
   With(Production, "WORKERS_ENABLED", "false"),
   With(Unprofiled, "RUNTIME_PROFILE", "component"), Unprofiled}

Symmetry == Permutations(Workers) \cup Permutations(Commands)
=============================================================================
