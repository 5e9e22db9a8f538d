--------------------------- MODULE Configuration ---------------------------
(***************************************************************************)
(* What the backend accepts as its environment before it builds anything    *)
(* (validateEnvironment and the validators it calls), and the adapters it   *)
(* builds from it.  An environment is a function from the variables that    *)
(* are set to the class of their value: "ok", "malformed", a switch "true"  *)
(* or "false", a "low" or a "high" number, or one of the names the code     *)
(* compares with.  A variable outside its domain is not set.                *)
(* Mutated forms, named for the bug they introduce, stand before the        *)
(* definition they mutate; no other definition uses them.                   *)
(***************************************************************************)
EXTENDS Integers

CONSTANT AdapterKeys  \* DURABLE_ADAPTER_KEYS, or the part of it of interest

Value(c, k) == IF k \in DOMAIN c THEN c[k] ELSE "unset"
Defaulted(c, k, default) == IF k \in DOMAIN c THEN c[k] ELSE default

Optional(c, keys) == \A k \in keys : Value(c, k) # "malformed"
Required(c, keys) == \A k \in keys : Value(c, k) \notin {"unset", "malformed"}
On(c, k) == Value(c, k) = "true"

Size(c, k) == CASE Value(c, k) = "low" -> 1
                [] Value(c, k) = "high" -> 3
                [] OTHER -> 2

----------------------------------------------------------------------------
(* validateEnvironment, in the order of its checks.                         *)

NodeEnvKnown(c) == Value(c, "NODE_ENV") \in {"development", "production", "test"}

ServiceIdentified(c) ==
  /\ Optional(c, {"PORT"})
  /\ Required(c, {"SERVICE_NAME"})
  /\ Optional(c, {"SWAGGER_ENABLED", "SWAGGER_PATH", "APPLICATION_PUBLIC_URL"})

SocketLimits == {"WEBSOCKET_MAX_SUBSCRIBERS", "WEBSOCKET_MAX_PENDING",
  "WEBSOCKET_MAX_CONNECTIONS_PER_IP", "WEBSOCKET_MAX_MESSAGES_PER_WINDOW",
  "WEBSOCKET_MESSAGE_WINDOW_MS", "WEBSOCKET_MAX_SUBSCRIPTIONS_PER_SOCKET"}

LogLimits == {"LOG_SAMPLE_LIMIT", "LOG_SAMPLE_WINDOW_MS"}

RateLimits == {"GATEWAY_RATE_LIMIT", "GATEWAY_RATE_WINDOW_MS", "AUTH_RATE_LIMIT",
  "AUTH_RATE_WINDOW_MS", "AUTH_RATE_GLOBAL_LIMIT", "AUTH_RATE_MAX_BUCKETS"}

Tracing == {"OTEL_BSP_MAX_QUEUE_SIZE", "OTEL_BSP_MAX_EXPORT_BATCH_SIZE",
  "OTEL_BSP_SCHEDULE_DELAY", "OTEL_BSP_EXPORT_TIMEOUT",
  "OTEL_DIAGNOSTIC_SPAN_LIMIT", "OTEL_TRACES_ENABLED",
  "OTEL_EXPORTER_OTLP_TRACES_ENDPOINT"}

Origins == {"WEBSOCKET_ALLOWED_ORIGINS", "HTTP_ALLOWED_ORIGINS"}

WorkerPolicy == {"WORKER_BATCH_SIZE", "WORKER_CONCURRENCY", "WORKER_TIMEOUT_MS",
  "WORKER_MAX_ATTEMPTS", "WORKER_BASE_BACKOFF_MS", "WORKER_MAX_BACKOFF_MS",
  "WORKER_POLL_INTERVAL_MS"}

Seeding(c) ==
  /\ Optional(c, {"DEVELOPMENT_SEED_INSTRUMENTS", "ISOLATED_STAGING_SEED_INSTRUMENTS"})
  /\ On(c, "DEVELOPMENT_SEED_INSTRUMENTS") => Value(c, "NODE_ENV") = "development"
  /\ On(c, "ISOLATED_STAGING_SEED_INSTRUMENTS") =>
       Required(c, {"CHAOS_ENVIRONMENT", "CHAOS_ACK"})

----------------------------------------------------------------------------
(* validateRealtimeEnvironment: called before the profile has its default.  *)

Provider(c) ==
  /\ Required(c, {"TWELVE_DATA_API_KEY", "TWELVE_DATA_REST_URL",
                  "TWELVE_DATA_WS_URL", "TWELVE_DATA_REDIS_URL"})
  /\ Value(c, "TWELVE_DATA_REDIS_URL") = "plain" => Value(c, "RUNTIME_PROFILE") = "component"

Charged(c) == Value(c, "REALTIME_EXECUTION_FEE_RATE") \notin {"unset", "zero"}

Execution(c) ==
  /\ Optional(c, {"REALTIME_EXECUTION_FEE_RATE"})
  /\ On(c, "REALTIME_EXECUTION_ENABLED") =>
       /\ On(c, "TWELVE_DATA_ENABLED")
       /\ Value(c, "RUNTIME_PROFILE") # "component"
       /\ Required(c, {"REALTIME_LIQUIDITY_ACCOUNT_ID"})
       /\ Charged(c) =>
            /\ Required(c, {"REALTIME_FEE_ACCOUNT_ID"})
            /\ Value(c, "REALTIME_FEE_ACCOUNT_ID") # Value(c, "REALTIME_LIQUIDITY_ACCOUNT_ID")

QuoteLimits == {"TWELVE_DATA_REQUEST_TIMEOUT_MS", "TWELVE_DATA_QUOTE_MAX_AGE_MS",
  "TWELVE_DATA_QUOTE_TTL_MS", "TWELVE_DATA_HEARTBEAT_MS",
  "TWELVE_DATA_SUBSCRIBE_ACK_TIMEOUT_MS", "TWELVE_DATA_RECONNECT_MIN_MS",
  "TWELVE_DATA_RECONNECT_MAX_MS", "TWELVE_DATA_LEADER_TTL_MS",
  "TWELVE_DATA_MAX_SYMBOLS", "TWELVE_DATA_REST_BOOTSTRAP_LIMIT",
  "TWELVE_DATA_CATALOG_PAGE_SIZE", "TWELVE_DATA_CATALOG_MAX_PAGES",
  "TWELVE_DATA_CATALOG_SYNC_INTERVAL_MS", "REALTIME_MAX_SUBSCRIPTIONS_PER_SOCKET",
  "REALTIME_MAX_PENDING_MESSAGES"}

Realtime(c) ==
  /\ Optional(c, {"TWELVE_DATA_ENABLED", "REALTIME_EXECUTION_ENABLED",
                  "TWELVE_DATA_CATALOG_SYNC_ON_START"})
  /\ Optional(c, QuoteLimits)
  /\ Size(c, "TWELVE_DATA_QUOTE_TTL_MS") >= Size(c, "TWELVE_DATA_QUOTE_MAX_AGE_MS")
  /\ Size(c, "TWELVE_DATA_RECONNECT_MIN_MS") <= Size(c, "TWELVE_DATA_RECONNECT_MAX_MS")
  /\ Optional(c, {"TWELVE_DATA_CATALOG_MIN_RETAINED_RATIO", "TWELVE_DATA_ASSET_CLASSES"})
  /\ On(c, "TWELVE_DATA_ENABLED") => Provider(c)
  /\ Execution(c)

----------------------------------------------------------------------------
(* validateRuntimeAdapters.                                                 *)

Profile(c) ==
  Defaulted(c, "RUNTIME_PROFILE",
            IF Value(c, "NODE_ENV") = "production" THEN "production" ELSE "component")

Adapter(c, k) ==
  Defaulted(c, k, IF Profile(c) = "component" THEN "memory" ELSE "unset")

AdaptersSupported(c) ==
  /\ Profile(c) \in {"component", "staging", "production"}
  /\ Value(c, "NODE_ENV") = "production" => Profile(c) = "production"
  /\ \A k \in AdapterKeys : Adapter(c, k) \in {"memory", "postgres"}

Adapters(c) ==
  /\ Profile(c) \in {"component", "staging", "production"}
  /\ Value(c, "NODE_ENV") = "production" => Profile(c) = "production"
  /\ \A k \in AdapterKeys :
       /\ Adapter(c, k) \in {"memory", "postgres"}
       /\ Profile(c) # "component" => Adapter(c, k) # "memory"

Instance(c) ==
  /\ Optional(c, {"INSTANCE_ID"})
  /\ Profile(c) # "component" => Required(c, {"INSTANCE_ID", "POSTGRES_URL"})

DatabaseLimits == {"POSTGRES_POOL_MAX", "POSTGRES_CONNECTION_TIMEOUT_MS",
  "POSTGRES_IDLE_TIMEOUT_MS", "POSTGRES_QUERY_TIMEOUT_MS",
  "PARTITION_LEASE_TTL_MS", "DEPENDENCY_PROBE_TIMEOUT_MS"}

----------------------------------------------------------------------------
(* Identity and secrets.                                                    *)

StoreFor(c, durable) == IF Profile(c) = "component" THEN "memory" ELSE durable
StoreDefault(c) == StoreFor(c, "unset")

IdentityStores(c) ==
  /\ Defaulted(c, "AUTH_TOKEN_TRANSPORT", "cookie") \in {"cookie", "bearer"}
  /\ Defaulted(c, "AUTH_USER_STORE_ADAPTER", StoreDefault(c)) = StoreFor(c, "postgres")
  /\ Defaulted(c, "AUTH_SESSION_STORE_ADAPTER", StoreDefault(c)) = StoreFor(c, "redis")
  /\ Defaulted(c, "AUTH_API_KEY_STORE_ADAPTER", StoreDefault(c)) = StoreFor(c, "postgres")
  /\ Profile(c) # "component" => Value(c, "GATEWAY_API_KEYS") = "unset"

Secrets(c) ==
  /\ Required(c, {"AUTH_PASSWORD_PEPPER", "AUTH_TOKEN_HASH_SECRET"})
  /\ Value(c, "AUTH_PASSWORD_PEPPER") # Value(c, "AUTH_TOKEN_HASH_SECRET")
  /\ Optional(c, {"AUTH_PASSWORD_PEPPER_VERSION", "AUTH_PASSWORD_PEPPER_SET"})
  /\ Required(c, {"AUTH_DUMMY_PASSWORD_HASH"})

SessionLimits == {"AUTH_SESSION_IDLE_TTL_SECONDS", "AUTH_SESSION_ABSOLUTE_TTL_SECONDS",
  "AUTH_MAX_SESSIONS_PER_USER", "AUTH_RECOVERY_TTL_SECONDS",
  "AUTH_REDIS_CONNECT_TIMEOUT_MS", "AUTH_REDIS_COMMAND_TIMEOUT_MS",
  "WEBSOCKET_AUTH_RECHECK_MS", "AUTH_RECOVERY_MIN_RESPONSE_MS",
  "AUTH_RECOVERY_DELIVERY_TIMEOUT_MS", "AUTH_RECOVERY_DELIVERY_MAX_ATTEMPTS",
  "AUTH_RECOVERY_DELIVERY_BACKOFF_MS", "AUTH_RETENTION_INTERVAL_MS",
  "AUTH_RETENTION_BATCH_SIZE"}

Lifetimes(c) ==
  /\ Size(c, "AUTH_SESSION_IDLE_TTL_SECONDS") <= Size(c, "AUTH_SESSION_ABSOLUTE_TTL_SECONDS")
  /\ Optional(c, {"AUTH_SCRYPT_COST"})

(* What the network may see of a production-like process.                   *)
Exposure(c) ==
  Profile(c) # "component" =>
    /\ Value(c, "APPLICATION_PUBLIC_URL") = "ok"
    /\ Required(c, Origins \cup {"TRUSTED_PROXY_CIDRS", "AUTH_RECOVERY_DELIVERY_URL",
                                 "AUTH_RECOVERY_DELIVERY_SECRET", "AUTH_RECOVERY_DECOY_EMAIL"})
    /\ Value(c, "AUTH_REDIS_URL") = "ok"

SecureCookies(c) ==
  Profile(c) # "component" /\ Defaulted(c, "AUTH_TOKEN_TRANSPORT", "cookie") = "cookie" =>
    /\ On(c, "AUTH_COOKIE_SECURE")
    /\ Required(c, {"AUTH_COOKIE_NAME", "AUTH_CSRF_COOKIE_NAME", "AUTH_COOKIE_SAME_SITE"})

Bypass(c) ==
  On(c, "AUTH_TEST_BYPASS_ENABLED") =>
    /\ Value(c, "NODE_ENV") = "test" /\ Profile(c) = "component"
    /\ Required(c, {"AUTH_TEST_BYPASS_TOKEN"})

(* The environment does not stop the process before it builds its graph.    *)
Validated(c) ==
  /\ NodeEnvKnown(c) /\ ServiceIdentified(c)
  /\ Optional(c, SocketLimits \cup LogLimits \cup RateLimits \cup Tracing)
  /\ Optional(c, Origins \cup {"WORKERS_ENABLED"} \cup WorkerPolicy)
  /\ Seeding(c) /\ Realtime(c)
  /\ Adapters(c) /\ Instance(c) /\ Optional(c, DatabaseLimits)
  /\ IdentityStores(c) /\ Secrets(c)
  /\ Optional(c, SessionLimits) /\ Lifetimes(c)
  /\ Exposure(c) /\ SecureCookies(c) /\ Bypass(c)

----------------------------------------------------------------------------
(* The composition root.                                                    *)

(* The modules' factories: the PostgreSQL adapter exactly when it is named. *)
Composed(c) ==
  [k \in AdapterKeys |-> IF Adapter(c, k) = "postgres" THEN "postgres" ELSE "memory"]

(* ATOMIC_EXECUTION_PORT: one transaction, or none at all.                  *)
Atomic(c) == Profile(c) # "component"

(* RuntimeSafetyService.                                                    *)
CompositionAsserted(c) == \A k \in AdapterKeys : Adapter(c, k) = Composed(c)[k]

WorkersEnabled(c) == Value(c, "WORKERS_ENABLED") # "false"

(* REALTIME_EXECUTION_REPOSITORY, and the switch its service reads.         *)
FillsKept(c) == Profile(c) # "component"
FillsOffered(c) == On(c, "REALTIME_EXECUTION_ENABLED")
=============================================================================
