-------------------------- MODULE AdmissionLimits --------------------------
(***************************************************************************)
(* The fixed windows in front of every boundary: AuthRateLimit before the   *)
(* password and recovery routes (one Redis for all replicas, or a bounded   *)
(* map in the component profile) and RateLimitService behind the API-key    *)
(* guard (a map of each replica).  Time is counted in fractions of a window.*)
(* Mutated forms stand before the definition they mutate.                   *)
(***************************************************************************)
EXTENDS Integers, FiniteSets, Functions

CONSTANTS
  Replicas,
  Addresses, Emails,   \* buckets by IP digest and by account digest
  Credentials,         \* key ids behind the guard
  Limit, GlobalLimit,  \* AUTH_RATE_LIMIT (also the gateway's), AUTH_RATE_GLOBAL_LIMIT
  Duration,            \* the window, in ticks
  MaxBuckets,          \* AUTH_RATE_MAX_BUCKETS
  MaxTime,             \* bound: ticks
  MaxChecks            \* bound: checks in a behaviour

ASSUME LimitsAssumption ==
  /\ {Limit, GlobalLimit, Duration, MaxBuckets} \subseteq Nat \ {0} /\ MaxTime \in Nat
  /\ Cardinality(Replicas) >= 2

VARIABLES
  now,         \* Date.now(), the same for Redis and its clients
  distributed, \* RUNTIME_PROFILE is not "component"
  connected,   \* replicas whose Redis client still has its connection
  windows,     \* windows of each store: Redis, or the map of a replica
  admitted,    \* history: checks passed, by store, bucket and tick
  checks       \* bound: checks so far

limitVars == <<now, distributed, connected, windows, admitted, checks>>

Redis == "redis"
Stores == Replicas \cup {Redis}
Buckets == Addresses \cup Emails \cup Credentials \cup {"global"}
NoWindow == [startedAt |-> 0, count |-> 0]

LimitsInit ==
  /\ now = 0
  /\ distributed \in BOOLEAN
  /\ connected = Replicas
  /\ windows = [s \in Stores |-> [b \in Buckets |-> NoWindow]]
  /\ admitted = [s \in Stores |-> [b \in Buckets |-> [t \in 0 .. MaxTime |-> 0]]]
  /\ checks = 0

Store(r) == IF distributed THEN Redis ELSE r

(* A window that has not begun, or is over: its entry is as good as absent. *)
Over(w) == w.count = 0 \/ now - w.startedAt >= Duration

(* The request counts in the running window or begins the next.             *)
Counted(w) ==
  IF Over(w) THEN [startedAt |-> now, count |-> 1] ELSE [w EXCEPT !.count = @ + 1]

Count(s, keys) ==
  windows' = [windows EXCEPT ![s] = [b \in Buckets |->
                IF b \in keys THEN Counted(@[b]) ELSE @[b]]]

CeilingOf(b) == IF b = "global" THEN GlobalLimit ELSE Limit
Exceeds(s, b) == Counted(windows[s][b]).count > CeilingOf(b)

(* exceeded = ... where the code has exceeded ||= ...                       *)
LastExceeds(s, keys) == Exceeds(s, "global")

AnyExceeds(s, keys) == \E b \in keys : Exceeds(s, b)

Admitted(s, keys) ==
  admitted' = [admitted EXCEPT ![s] = [b \in Buckets |->
                 IF b \in keys THEN [admitted[s][b] EXCEPT ![now] = @ + 1]
                 ELSE admitted[s][b]]]

Keys3(a, p) == {a, p, "global"}

(* checkMemory.  The bound of the map comes before the windows: a map that  *)
(* could not take three more keys refuses even those it already has.        *)
Full(s, keys) ==
  Cardinality({b \in Buckets : ~Over(windows[s][b])}) + Cardinality(keys) > MaxBuckets

checkMemory(r, a, p) ==
  /\ ~distributed
  /\ IF Full(r, Keys3(a, p))
     THEN UNCHANGED <<windows, admitted>>
     ELSE /\ Count(r, Keys3(a, p))
          /\ IF AnyExceeds(r, Keys3(a, p)) THEN UNCHANGED admitted
             ELSE Admitted(r, Keys3(a, p))

(* checkRedis: one script for all three counters.  A global window already  *)
(* full keeps the others from counting.  The answer may come too late for   *)
(* withDeadline, and then the request is refused although it was counted.   *)
checkRedis(r, a, p, late) ==
  /\ distributed
  /\ r \in connected
  /\ IF Exceeds(Redis, "global")
     THEN Count(Redis, {"global"}) /\ UNCHANGED admitted
     ELSE /\ Count(Redis, Keys3(a, p))
          /\ IF late \/ AnyExceeds(Redis, Keys3(a, p)) THEN UNCHANGED admitted
             ELSE Admitted(Redis, Keys3(a, p))

check(r, a, p) ==
  /\ checks < MaxChecks
  /\ checks' = checks + 1
  /\ \/ checkMemory(r, a, p)
     \/ \E late \in BOOLEAN : checkRedis(r, a, p, late)
  /\ UNCHANGED <<now, distributed, connected>>

(* RateLimitService.check.                                                  *)
checkKey(r, k) ==
  /\ checks < MaxChecks
  /\ checks' = checks + 1
  /\ Count(r, {k})
  /\ IF Exceeds(r, k) THEN UNCHANGED admitted ELSE Admitted(r, {k})
  /\ UNCHANGED <<now, distributed, connected>>

(* reconnectStrategy: false.  Until its next start the replica refuses.     *)
Disconnect(r) ==
  /\ distributed
  /\ connected' = connected \ {r}
  /\ r \in connected
  /\ UNCHANGED <<now, distributed, windows, admitted, checks>>

(* A restart: a new connection and empty maps.                              *)
onModuleInit(r) ==
  /\ r \notin connected
  /\ connected' = connected \cup {r}
  /\ windows' = [windows EXCEPT ![r] = [b \in Buckets |-> NoWindow]]
  /\ admitted' = [admitted EXCEPT ![r] = [b \in Buckets |-> [t \in 0 .. MaxTime |-> 0]]]
  /\ UNCHANGED <<now, distributed, checks>>

Tick ==
  /\ now < MaxTime
  /\ now' = now + 1
  /\ UNCHANGED <<distributed, connected, windows, admitted, checks>>

LimitsNext ==
  \/ \E r \in Replicas :
       \/ \E a \in Addresses, p \in Emails : check(r, a, p)
       \/ \E k \in Credentials : checkKey(r, k)
       \/ Disconnect(r) \/ onModuleInit(r)
  \/ Tick

LimitsSpec == LimitsInit /\ [][LimitsNext]_limitVars

----------------------------------------------------------------------------

(* A fixed window lets two windows' worth through around its end and never  *)
(* more: in no span as long as a window does one store admit a bucket more  *)
(* than twice its limit, whatever other buckets, late answers and full      *)
(* global windows do to the counters.  RateLimitService and AuthRateLimit.  *)
SpanBound ==
  \A s \in Stores, b \in Buckets, t \in 0 .. MaxTime - Duration + 1 :
     SumFunctionOnSet(admitted[s][b], t .. t + Duration - 1) <= 2 * CeilingOf(b)
=============================================================================
