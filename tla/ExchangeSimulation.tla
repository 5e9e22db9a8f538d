------------------------- MODULE ExchangeSimulation -------------------------
(***************************************************************************)
(* The synthetic-trading worker: start, the setup of markets and users      *)
(* through the public API, rounds of paired orders, stop.  The backend is   *)
(* what its answers tell the worker: a call succeeds, is refused, or runs   *)
(* into its timeout, and then its effect may still happen.  Of a run's      *)
(* random choices only the users matter here.                               *)
(* Mutated forms stand before the definition they mutate.                   *)
(***************************************************************************)
EXTENDS Integers, SequencesExt

CONSTANTS
  Indexes,           \* config.users, as indexes
  SetupConcurrency, OrderConcurrency,
  Pairs,             \* pairs of orders in a round
  MaxRuns,           \* bound: starts
  MaxOrders          \* bound: orders of a run

ASSUME SimulationAssumption ==
  {SetupConcurrency, OrderConcurrency, Pairs} \subseteq Nat \ {0}

VARIABLES
  phase, running, stopRequested,   \* of the worker
  runs,        \* starts so far: the run id
  at,          \* where run() stands; "off" when no run is under way
  market,      \* of the backend: "absent", "PAUSED", "ACTIVE"
  cursor,      \* users mapConcurrent has handed out
  tasks,       \* users being set up: [index, step, owed], owed the credits unanswered
  credits,     \* credits the backend has not processed: [index, asset]
  credited,    \* history: credits of this run the backend has applied
  users,       \* this.users, in the order they became ready
  left,        \* pairs of the round not handed out
  orders,      \* orders of each pair of the round that await their answer
  submitted, accepted, rejected

workerVars == <<phase, running, stopRequested, runs>>
setupVars == <<market, cursor, tasks, credits, credited, users>>
orderVars == <<left, orders, submitted, accepted, rejected>>
simulationVars == <<workerVars, at, setupVars, orderVars>>

Assets == {"USD", "base"}
NoCredits == [i \in Indexes |-> [a \in Assets |-> 0]]
NoOrders == [p \in 1 .. Pairs |-> 0]

SimulationInit ==
  /\ phase = "idle" /\ running = FALSE /\ stopRequested = FALSE /\ runs = 0
  /\ at = "off"
  /\ market \in {"absent", "PAUSED", "ACTIVE"}
  /\ cursor = 0 /\ tasks = {} /\ credits = {} /\ credited = NoCredits /\ users = <<>>
  /\ left = 0 /\ orders = NoOrders /\ submitted = 0 /\ accepted = 0 /\ rejected = 0

----------------------------------------------------------------------------
(* Control: the panel's buttons over HTTP, the command line, a signal.      *)

(* start: refused while a run is under way; a new run forgets the last.  A  *)
(* late credit of the last may still reach its account; it is none of this. *)
start ==
  /\ ~running
  /\ runs < MaxRuns
  /\ running' = TRUE /\ stopRequested' = FALSE /\ runs' = runs + 1
  /\ phase' = "initializing"
  /\ at' = "waiting"
  /\ users' = <<>> /\ cursor' = 0 /\ credits' = {} /\ credited' = NoCredits
  /\ left' = 0 /\ submitted' = 0 /\ accepted' = 0 /\ rejected' = 0
  /\ UNCHANGED <<market, tasks, orders>>

stop ==
  /\ stopRequested' = TRUE
  /\ phase' = IF running THEN "stopping" ELSE phase
  /\ UNCHANGED <<running, runs, at, setupVars, orderVars>>

----------------------------------------------------------------------------
(* run(): before the users.                                                 *)

Fails ==
  /\ phase' = "failed" /\ running' = FALSE /\ at' = "off"
  /\ UNCHANGED <<stopRequested, runs>>

(* waitForBackend: a stop ends the wait as an error, as the deadline does.  *)
waitForBackend ==
  /\ at = "waiting"
  /\ \/ at' = "approval" /\ UNCHANGED workerVars
     \/ Fails
  /\ UNCHANGED <<setupVars, orderVars>>

(* The second administrator's key.                                          *)
issueApiKey ==
  /\ at = "approval"
  /\ \/ at' = "markets" /\ UNCHANGED workerVars
     \/ Fails
  /\ UNCHANGED <<setupVars, orderVars>>

(* prepareMarkets: through dualControl, a request and its approval by the   *)
(* other administrator.  409 passes for done, as another may have done it.  *)
(* After a call that fails the change may have happened all the same.       *)
Create == market = "absent" /\ market' = "PAUSED"
Activate == market # "absent" /\ market' = "ACTIVE"

prepareMarkets ==
  /\ at = "markets"
  /\ \/ stopRequested /\ at' = "users" /\ UNCHANGED <<workerVars, market>>
     \/ ~stopRequested /\ Create /\ UNCHANGED <<at, workerVars>>
     \/ ~stopRequested /\ Activate /\ at' = "users" /\ UNCHANGED workerVars
     \/ ~stopRequested /\ (Create \/ Activate \/ UNCHANGED market) /\ Fails
  /\ UNCHANGED <<cursor, tasks, credits, credited, users, orderVars>>

----------------------------------------------------------------------------
(* prepareUsers: mapConcurrent over the indexes.                            *)

(* A worker of mapConcurrent takes the next index; after a stop it only     *)
(* runs the cursor down.                                                    *)
NextUser ==
  /\ at = "users"
  /\ cursor < Cardinality(Indexes)
  /\ Cardinality(tasks) < SetupConcurrency
  /\ cursor' = cursor + 1
  /\ tasks' = IF stopRequested THEN tasks
              ELSE tasks \cup {[index |-> cursor + 1, step |-> "login", owed |-> Assets]}
  /\ UNCHANGED <<workerVars, at, market, credits, credited, users, orderVars>>

(* registerAndLogin and the account; then both credits at once.             *)
registerAndLogin(t, ok) ==
  /\ t.step = "login"
  /\ IF ok
     THEN /\ tasks' = (tasks \ {t}) \cup {[t EXCEPT !.step = "credit"]}
          /\ credits' = credits \cup {[index |-> t.index, asset |-> a] : a \in Assets}
     ELSE tasks' = tasks \ {t} /\ UNCHANGED credits
  /\ UNCHANGED <<workerVars, at, market, cursor, credited, users, orderVars>>

(* The backend processes a credit, whether or not anyone still waits.       *)
credit(c) ==
  /\ c \in credits
  /\ credits' = credits \ {c}
  /\ credited' = [credited EXCEPT ![c.index][c.asset] = @ + 1]
  /\ UNCHANGED <<workerVars, at, market, cursor, tasks, users, orderVars>>

Pending(t, a) == [index |-> t.index, asset |-> a] \in credits

CreditAnswered(t, a) ==
  /\ t.step = "credit" /\ a \in t.owed /\ ~Pending(t, a)
  /\ tasks' = (tasks \ {t}) \cup {[t EXCEPT !.owed = @ \ {a}]}
  /\ UNCHANGED <<workerVars, at, market, cursor, credits, credited, users, orderVars>>

AnyFunded(t) == t.owed # Assets

(* Promise.all.                                                             *)
Funded(t) == t.owed = {}

Ready(t) ==
  /\ t.step = "credit" /\ Funded(t)
  /\ tasks' = tasks \ {t}
  /\ users' = Append(users, t.index)
  /\ UNCHANGED <<workerVars, at, market, cursor, credits, credited, orderVars>>

(* A refusal, or the timeout of a credit that may yet be applied: the user  *)
(* is left out, whatever becomes of the other credit.                       *)
SetupFails(t) ==
  /\ t.step = "credit" /\ t.owed # {}
  /\ tasks' = tasks \ {t}
  /\ \/ UNCHANGED credits
     \/ \E c \in credits : c.index = t.index /\ credits' = credits \ {c}
  /\ UNCHANGED <<workerVars, at, market, cursor, credited, users, orderVars>>

finish ==
  /\ phase' = "stopped" /\ running' = FALSE /\ at' = "off"
  /\ UNCHANGED <<stopRequested, runs>>

UsersPrepared ==
  /\ at = "users"
  /\ cursor = Cardinality(Indexes) /\ tasks = {}
  /\ IF Len(users) < 2 THEN Fails
     ELSE IF stopRequested THEN finish
     ELSE phase' = "trading" /\ at' = "loop" /\ UNCHANGED <<running, stopRequested, runs>>
  /\ UNCHANGED <<setupVars, orderVars>>

----------------------------------------------------------------------------
(* Trading.                                                                 *)

ActivePairs == {p \in 1 .. Pairs : orders[p] > 0}

LoopForever == at = "loop"

(* while (!this.stopRequested): a stop is seen between rounds only.         *)
MayTrade == at = "loop" /\ ~stopRequested

(* runTradingRound hands out its pairs.                                     *)
runTradingRound ==
  /\ MayTrade
  /\ submitted + 2 * Pairs <= MaxOrders
  /\ at' = "round" /\ left' = Pairs
  /\ UNCHANGED <<workerVars, setupVars, orders, submitted, accepted, rejected>>

(* A market with fewer than two users.                                      *)
SkipPair ==
  /\ at = "round" /\ left > 0
  /\ left' = left - 1
  /\ UNCHANGED <<workerVars, at, setupVars, orders, submitted, accepted, rejected>>

(* Two users of a market place opposite orders together.                    *)
placePair ==
  /\ at = "round"
  /\ left > 0 /\ Cardinality(ActivePairs) < OrderConcurrency
  /\ orders' = [orders EXCEPT ![left] = 2]
  /\ submitted' = submitted + 2
  /\ left' = left - 1
  /\ UNCHANGED <<workerVars, at, setupVars, accepted, rejected>>

(* An order is counted by its answer: a timeout counts as a rejection.      *)
OrderAnswered(p, ok) ==
  /\ orders[p] > 0
  /\ orders' = [orders EXCEPT ![p] = @ - 1]
  /\ accepted' = IF ok THEN accepted + 1 ELSE accepted
  /\ rejected' = IF ok THEN rejected ELSE rejected + 1
  /\ UNCHANGED <<workerVars, at, setupVars, left, submitted>>

RoundHandedOut == left = 0

(* mapConcurrent resolves when every worker has.                            *)
RoundOver == left = 0 /\ ActivePairs = {}

EndRound ==
  /\ at = "round" /\ RoundOver
  /\ at' = "loop"
  /\ UNCHANGED <<workerVars, setupVars, orderVars>>

LoopEnds ==
  /\ at = "loop" /\ ~MayTrade
  /\ finish
  /\ UNCHANGED <<setupVars, orderVars>>

SetUp ==
  \/ waitForBackend \/ issueApiKey \/ prepareMarkets
  \/ NextUser \/ UsersPrepared
  \/ \E c \in credits : credit(c)
  \/ \E t \in tasks :
       \/ \E ok \in BOOLEAN : registerAndLogin(t, ok)
       \/ \E a \in Assets : CreditAnswered(t, a)
       \/ Ready(t) \/ SetupFails(t)
Trade ==
  \/ runTradingRound \/ placePair \/ SkipPair \/ EndRound \/ LoopEnds
  \/ \E p \in 1 .. Pairs, ok \in BOOLEAN : OrderAnswered(p, ok)

SimulationNext == start \/ stop \/ SetUp \/ Trade

----------------------------------------------------------------------------

(* The users who trade are those whose two credits of this very run the     *)
(* backend has applied, once each, on a market that is active, however      *)
(* credits are refused, time out or arrive late, and whenever a run is      *)
(* stopped and another started.  prepareUsers, credit.                      *)
FundedBeforeTrading ==
  at \in {"loop", "round"} =>
    market = "ACTIVE" /\ \A i \in ToSet(users), a \in Assets : credited[i][a] = 1

(* A stop ends the run with everything drained: whatever is in flight       *)
(* answers or times out and is counted once, no further round begins, and   *)
(* no user is still being set up.  README: the worker finishes the current  *)
(* batch; stop, prepareUsers, runTradingRound.                              *)
StopTakesEffect ==
  stopRequested /\ running ~>
    ~running /\ ActivePairs = {} /\ left = 0 /\ tasks = {} /\ submitted = accepted + rejected

(* A run that is stopped ends stopped, not failed.                          *)
StoppedNotFailed == phase = "failed" => ~stopRequested

(* The same seed makes the same choices of users: ready in index order.     *)
SeedReproduces == \A i \in 1 .. Len(users) - 1 : users[i] < users[i + 1]
=============================================================================
