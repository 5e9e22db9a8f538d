---------------------------- MODULE CommandGateway ----------------------------
(***************************************************************************)
(* The authenticated HTTP boundary: ApiKeyGuard, the place/cancel commands  *)
(* of GatewayController and the API-key administration of                   *)
(* MachineAuthenticationController, both run through the idempotency store. *)
(* In the durable profile a command, its idempotency row and its effect are *)
(* one PostgreSQL transaction; in the component profile the store is a map  *)
(* with a map of running operations.  Clients repeat requests at will, on   *)
(* any replica; answers get lost, transactions roll back.                   *)
(* Mutated forms stand before the definition they mutate.                   *)
(***************************************************************************)
EXTENDS Integers, FiniteSets, AccessPolicy

CONSTANTS
  GateCalls,     \* HTTP requests in flight
  NoCall,
  Idems,        \* values of the Idempotency-Key header
  Commands,     \* what a request may carry: [op, id, body]
  Admin, Trader, Fresh,   \* API keys: two configured, one to be issued
  Uses,         \* bound: the operations each key is used for
  MaxSecrets    \* bound: secrets generated

Keys == {Admin, Trader, Fresh}

ASSUME GatewayAssumption ==
  /\ NoCall \notin GateCalls
  /\ MaxSecrets \in Nat /\ MaxSecrets >= 2
  /\ Cardinality(Keys) = 3
  /\ \A c \in Commands :
       /\ c.op \in {"order", "cancel", "issue", "rotate", "revoke"}
       /\ c.op \in {"order", "cancel"} => c.body # 0   \* 0: no journal row

VARIABLES
  gateProfile, \* "durable" or "component", fixed at start
  keys,       \* machine_api_keys: status and current secret
  records,    \* idempotency rows that are APPLIED, by scope
  journal,    \* command_journal: command id to body
  control,    \* admission control in the orders' scope: "ALLOW" or "FROZEN"
  gate,       \* program counter and locals of each request
  minted,     \* secrets generated so far
  answers,    \* history: successes seen by clients, [scope, command, result]
  shown       \* history: how often a client was shown each secret

gatewayVars == <<gateProfile, keys, records, journal, control, gate, minted, answers, shown>>

Scopes == Keys \X Idems
None == [op |-> "none", id |-> 0, body |-> 0]
KeyIds == {c.id : c \in Commands}
GateQuiet == [pc |-> "idle", scope |-> NoCall, cmd |-> None,
          result |-> 0, blocked |-> FALSE]

GatewayInit ==
  /\ gateProfile \in {"durable", "component"}
  /\ keys = [k \in Keys |-> IF k = Fresh
               THEN [status |-> "NONE", secret |-> 0]
               ELSE [status |-> "ACTIVE", secret |-> IF k = Admin THEN 1 ELSE 2]]
  /\ records = [s \in Scopes |-> [cmd |-> None, result |-> 0]]
  /\ journal = [i \in KeyIds |-> 0]
  /\ control = "ALLOW"
  /\ gate = [r \in GateCalls |-> GateQuiet]
  /\ minted = 2
  /\ answers = {}
  /\ shown = [n \in 1 .. MaxSecrets |-> IF n <= 2 THEN 1 ELSE 0]

Trading(c) == c.op \in {"order", "cancel"}
AtGate(r, pc) == gate[r].pc = pc
GateGoto(r, next) == gate' = [gate EXCEPT ![r] = next]
Running == {r \in GateCalls : gate[r].pc \in {"open", "done"}}

----------------------------------------------------------------------------
(* Before the store: authentication, authorization, admission.              *)

(* authenticate: one statement against the live row of the digest.  A key   *)
(* past expires_at only keeps clients from arriving, which they may do too. *)
LiveSecret(k, n) ==
  keys[k].status = "ACTIVE" /\ keys[k].secret = n

PrincipalOf(k) == MachinePrincipal(IF k = Admin THEN "admin" ELSE "trader", k)

(* Orders are of the trader's account; key administration takes the role    *)
(* and the scope of an administrator (requireAdmin).                        *)
Authorized(k, c) ==
  LET p == PrincipalOf(k) IN
  IF Trading(c) THEN AuthorizedAction(p, "trading.write") /\ ObjectAccess(p, k)
  ELSE AdminAccess(p) /\ HoldsScope(p, <<"admin", "*">>)

(* ApiKeyGuard and the checks of the handler up to admission control; a     *)
(* client holds the secrets it was shown, and a superseded one is refused.  *)
Enter(r, k, n, i, c) ==
  /\ AtGate(r, "idle")
  /\ LiveSecret(k, n) /\ shown[n] > 0
  /\ Authorized(k, c)
  /\ GateGoto(r, [GateQuiet EXCEPT !.pc = IF Trading(c) THEN "admission" ELSE "store",
                !.scope = <<k, i>>, !.cmd = c,
                !.blocked = Trading(c) /\ control = "FROZEN"])
  /\ UNCHANGED <<gateProfile, keys, records, journal, control, minted, answers, shown>>

(* The handlers that lead here.                                             *)
Calls(r, op) ==
  /\ AtGate(r, "idle")
  /\ \E c \in {d \in Commands : d.op = op}, k \in {j \in Keys : op \in Uses[j]} :
       \E i \in Idems : Enter(r, k, keys[k].secret, i, c)
placeOrder(r) == Calls(r, "order")
cancelOrder(r) == Calls(r, "cancel")
issueApiKey(r) == Calls(r, "issue")
rotateApiKey(r) == Calls(r, "rotate")
revokeApiKey(r) == Calls(r, "revoke")

AlwaysAdmit(r) == TRUE

(* assertAllowed, in a transaction of its own.                              *)
Admits(r) == control = "ALLOW"

CheckAdmission(r) ==
  /\ AtGate(r, "admission")
  /\ GateGoto(r, IF Admits(r) THEN [gate[r] EXCEPT !.pc = "store"] ELSE GateQuiet)
  /\ UNCHANGED <<gateProfile, keys, records, journal, control, minted, answers, shown>>

----------------------------------------------------------------------------
(* The idempotency store.                                                   *)

ScopeBusy(r) == \E q \in Running \ {r} : gate[q].scope = gate[r].scope

AnySavedCommand(r) == records[gate[r].scope].cmd # None

(* The payload hash of the saved row is the request's.                      *)
SavedSame(r) == records[gate[r].scope].cmd = gate[r].cmd

AnswerGate(r, result) ==
  answers' = answers \cup
    {[scope |-> gate[r].scope, cmd |-> gate[r].cmd, result |-> result]}

SecretAgain(r) == records[gate[r].scope].result

(* A replay of a sensitive command finds a marker in place of its secret.   *)
SavedResult(r) ==
  IF gate[r].cmd.op \in {"issue", "rotate"} THEN 0 ELSE records[gate[r].scope].result

Show(n) == shown' = IF n > 2 THEN [shown EXCEPT ![n] = @ + 1] ELSE shown

(* A saved command: its result again, or IDEMPOTENCY_KEY_REUSED.            *)
Replay(r) ==
  /\ AtGate(r, "store")
  /\ ~ScopeBusy(r)
  /\ records[gate[r].scope].cmd # None
  /\ IF SavedSame(r)
     THEN IF gate[r].cmd.op \in {"issue", "rotate"}
          THEN Show(SavedResult(r)) /\ UNCHANGED answers
          ELSE AnswerGate(r, SavedResult(r)) /\ UNCHANGED shown
     ELSE UNCHANGED <<answers, shown>>
  /\ GateGoto(r, GateQuiet)
  /\ UNCHANGED <<gateProfile, keys, records, journal, control, minted>>

NeverBusy(r) == FALSE

(* The INSERT of a scope waits for the transaction that inserted it; the    *)
(* in-memory store knows its running operations.                            *)
MustWait(r) == ScopeBusy(r)

Begin(r) ==
  /\ AtGate(r, "store")
  /\ ~MustWait(r)
  /\ records[gate[r].scope].cmd = None
  /\ GateGoto(r, [gate[r] EXCEPT !.pc = "open"])
  /\ UNCHANGED <<gateProfile, keys, records, journal, control, minted, answers, shown>>

(* Component profile: a concurrent duplicate awaits the running operation   *)
(* and shares its result; another payload, and a sensitive duplicate, are   *)
(* refused at once.                                                         *)
Join(r) ==
  /\ gateProfile = "component"
  /\ AtGate(r, "store")
  /\ ScopeBusy(r)
  /\ \E q \in Running \ {r} :
       /\ gate[q].scope = gate[r].scope
       /\ GateGoto(r, IF gate[q].cmd = gate[r].cmd /\ gate[r].cmd.op \notin {"issue", "rotate"}
                  THEN gate[r] ELSE GateQuiet)
  /\ gate' # gate
  /\ UNCHANGED <<gateProfile, keys, records, journal, control, minted, answers, shown>>

----------------------------------------------------------------------------
(* The operation, and the end of its transaction.                           *)

(* Row locks: a command id, or a key, written by an open transaction.       *)
RowBusy(r) ==
  \E q \in GateCalls \ {r} :
     /\ AtGate(q, "done")
     /\ \/ Trading(gate[q].cmd) /\ Trading(gate[r].cmd) /\ gate[q].cmd.id = gate[r].cmd.id
        \/ ~Trading(gate[q].cmd) /\ ~Trading(gate[r].cmd)

(* persist: a command id already journaled answers with its result.         *)
OrderFits(c) == journal[c.id] \in {0, c.body}

KeyFits(c) ==
  CASE c.op = "issue"  -> keys[Fresh].status = "NONE"
    [] c.op = "rotate" -> keys[Trader].status = "ACTIVE"
    [] c.op = "revoke" -> TRUE
    [] OTHER           -> FALSE

NewSecret(c) == c.op \in {"issue", "rotate"}

Execute(r) ==
  LET c == gate[r].cmd IN
  /\ AtGate(r, "open")
  /\ ~RowBusy(r)
  /\ IF Trading(c) THEN OrderFits(c) ELSE KeyFits(c)
  /\ NewSecret(c) => minted < MaxSecrets
  /\ minted' = IF NewSecret(c) THEN minted + 1 ELSE minted
  /\ GateGoto(r, [gate[r] EXCEPT !.pc = "done",
                !.result = IF NewSecret(c) THEN minted' ELSE c.body])
  /\ UNCHANGED <<gateProfile, keys, records, journal, control, answers, shown>>

(* issue, rotate, revoke on the table.                                      *)
Issued(n) == [keys EXCEPT ![Fresh] = [status |-> "ACTIVE", secret |-> n]]
Rotated(n) == [keys EXCEPT ![Trader].secret = n]
RevokedKey == [keys EXCEPT ![Trader].status = "REVOKED"]

EffectWithoutRow(r) == records

(* The row turns APPLIED with its public result.                            *)
Recorded(r) ==
  [records EXCEPT ![gate[r].scope] = [cmd |-> gate[r].cmd, result |-> gate[r].result]]

(* COMMIT: effect and idempotency row together; the answer may be lost.     *)
Commit(r, lost) ==
  LET c == gate[r].cmd  n == gate[r].result IN
  /\ AtGate(r, "done")
  /\ records' = Recorded(r)
  /\ journal' = IF Trading(c) THEN [journal EXCEPT ![c.id] = c.body] ELSE journal
  /\ keys' = CASE c.op = "issue"  -> Issued(n)
               [] c.op = "rotate" -> Rotated(n)
               [] c.op = "revoke" -> RevokedKey
               [] OTHER           -> keys
  /\ IF lost THEN UNCHANGED <<answers, shown>>
     ELSE AnswerGate(r, n) /\ (IF NewSecret(c) THEN Show(n) ELSE UNCHANGED shown)
  /\ GateGoto(r, GateQuiet)
  /\ UNCHANGED <<gateProfile, control, minted>>

(* The operation or the transaction fails: ROLLBACK, nothing is recorded.   *)
(* A retryable SQLSTATE runs the whole callback again.                      *)
RollBack(r, again) ==
  /\ r \in Running
  /\ again => gateProfile = "durable"
  /\ GateGoto(r, IF again THEN [gate[r] EXCEPT !.pc = "store", !.result = 0] ELSE GateQuiet)
  /\ UNCHANGED <<gateProfile, keys, records, journal, control, minted, answers, shown>>

(* The client gives up, or the replica dies, before the store is reached.   *)
Abandon(r) ==
  /\ gate[r].pc \in {"admission", "store"}
  /\ GateGoto(r, GateQuiet)
  /\ UNCHANGED <<gateProfile, keys, records, journal, control, minted, answers, shown>>

----------------------------------------------------------------------------
(* Around the gateway.                                                      *)

(* Admin freezes or releases the scope (AdminControl).                      *)
ControlChanges ==
  /\ control' = IF control = "ALLOW" THEN "FROZEN" ELSE "ALLOW"
  /\ gate' = [r \in GateCalls |-> [gate[r] EXCEPT !.blocked = @ /\ control' = "FROZEN"]]
  /\ UNCHANGED <<gateProfile, keys, records, journal, minted, answers, shown>>

GatewayNext ==
  \/ \E r \in GateCalls :
       \/ placeOrder(r) \/ cancelOrder(r)
       \/ issueApiKey(r) \/ rotateApiKey(r) \/ revokeApiKey(r)
       \/ CheckAdmission(r) \/ Replay(r) \/ Begin(r) \/ Join(r) \/ Execute(r) \/ Abandon(r)
       \/ \E b \in BOOLEAN : Commit(r, b) \/ RollBack(r, b)
  \/ ControlChanges

GatewaySpec == GatewayInit /\ [][GatewayNext]_gatewayVars

----------------------------------------------------------------------------
(* Properties.                                                              *)

(* Keys, rows and requests have their types; no two running requests hold   *)
(* the row of one scope.                                                    *)
GatewayTypeOK ==
  /\ \A k \in Keys : keys[k].status \in {"NONE", "ACTIVE", "REVOKED"}
  /\ \A s \in Scopes : records[s].cmd \in Commands \cup {None}
  /\ control \in {"ALLOW", "FROZEN"}
  /\ minted \in 2 .. MaxSecrets
  /\ \A r, q \in Running : r # q => gate[r].scope # gate[q].scope

(* However often a client repeats a request, whatever fails or is lost in   *)
(* between: all successes under one key tell of one command and one result, *)
(* and each of them has its effect in the journal.                          *)
OneAnswerPerKey ==
  /\ \A a, b \in answers : a.scope = b.scope => a = b
  /\ \A a \in answers : Trading(a.cmd) => journal[a.cmd.id] = a.result

(* A secret reaches a client at most once: no replay shows it again.        *)
SecretShownOnce == \A n \in 1 .. MaxSecrets : shown[n] <= 1

(* A command that arrives while its account is frozen, and stays frozen,    *)
(* takes no effect, not even as the repetition of a lost request.           *)
FreezeHolds ==
  \A r \in Running : ~gate[r].blocked

----------------------------------------------------------------------------
(* What makes them inductive.                                               *)

Bodies == {c.body : c \in Commands}
Results == Bodies \cup 0 .. MaxSecrets

(* The rows, the requests and the histories are of these types.             *)
GatewayTyped ==
  /\ control \in {"ALLOW", "FROZEN"}
  /\ minted \in 2 .. MaxSecrets
  /\ records \in [Scopes -> [cmd : Commands \cup {None}, result : Results]]
  /\ journal \in [KeyIds -> Bodies \cup {0}]
  /\ gate \in [GateCalls ->
       [pc : {"idle", "admission", "store", "open", "done"},
        scope : Scopes \cup {NoCall}, cmd : Commands \cup {None},
        result : Results, blocked : BOOLEAN]]
  /\ \A r \in GateCalls : gate[r].pc # "idle" =>
       gate[r].scope \in Scopes /\ gate[r].cmd \in Commands
  /\ answers \subseteq [scope : Scopes, cmd : Commands, result : Results]
  /\ shown \in [1 .. MaxSecrets -> Nat]

(* A running request holds its scope alone, and the row is not yet written. *)
ScopeHeld ==
  /\ \A r, q \in Running : r # q => gate[r].scope # gate[q].scope
  /\ \A r \in Running : records[gate[r].scope].cmd = None

(* What a client was told is what the row of its scope says.                *)
AnswersRecorded ==
  \A a \in answers : records[a.scope] = [cmd |-> a.cmd, result |-> a.result]

(* A recorded trading command is the one in the journal, and one about to   *)
(* commit finds the journal free or already holding its own body.           *)
EffectsJournaled ==
  /\ \A s \in Scopes : Trading(records[s].cmd) =>
       /\ records[s].result = records[s].cmd.body
       /\ journal[records[s].cmd.id] = records[s].result
  /\ \A r \in GateCalls : AtGate(r, "done") /\ Trading(gate[r].cmd) =>
       /\ gate[r].result = gate[r].cmd.body
       /\ OrderFits(gate[r].cmd)
       /\ \A q \in GateCalls \ {r} : AtGate(q, "done") /\ Trading(gate[q].cmd) =>
            gate[q].cmd.id # gate[r].cmd.id

(* A secret not yet generated, or generated by an operation that has not    *)
(* committed, was shown to nobody; no two operations generated the same.    *)
SecretsUnseen ==
  /\ \A n \in 1 .. MaxSecrets : n > minted => shown[n] = 0
  /\ \A r \in GateCalls : AtGate(r, "done") /\ NewSecret(gate[r].cmd) =>
       /\ gate[r].result \in 3 .. minted
       /\ shown[gate[r].result] = 0
       /\ \A q \in GateCalls \ {r} : AtGate(q, "done") /\ NewSecret(gate[q].cmd) =>
            gate[q].result # gate[r].result

(* Only a request that has not passed admission control is marked blocked,  *)
(* and only while the scope is frozen.                                      *)
BlockedAtAdmission ==
  \A r \in GateCalls : gate[r].blocked =>
    AtGate(r, "admission") /\ control = "FROZEN"

GatewayInv ==
  /\ GatewayTyped /\ ScopeHeld /\ AnswersRecorded /\ EffectsJournaled
  /\ SecretsUnseen /\ SecretShownOnce /\ BlockedAtAdmission
=============================================================================
