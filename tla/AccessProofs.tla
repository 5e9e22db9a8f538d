---------------------------- MODULE AccessProofs ----------------------------
(***************************************************************************)
(* The gateway's commands with their idempotency rows and keys, for any     *)
(* number of requests, idempotency keys, commands and secrets;              *)
(* administration under dual control; and the sessions of a user.  The      *)
(* three share no state: each has its own specification and its own         *)
(* inductive invariant.                                                     *)
(***************************************************************************)
EXTENDS CommandGateway, AdminControl, HumanSessions, FiniteSums, FiniteSetTheorems, TLAPS

(* What the proofs need of the gateway's constants.                         *)
LEMMA CommandFacts ==
  /\ MaxSecrets \in Nat /\ MaxSecrets >= 2
  /\ None \notin Commands
  /\ ~Trading(None) /\ ~NewSecret(None)
  /\ \A c \in Commands : Trading(c) => c.body # 0 /\ ~NewSecret(c)
  /\ \A c \in Commands : c.id \in KeyIds /\ c.body \in Bodies /\ c.body \in Results
  /\ 0 \in Results
  BY GatewayAssumption DEF None, Trading, NewSecret, KeyIds, Bodies, Results

(* Replacing one request leaves the others alone.                           *)
LEMMA OneRequestChanges ==
  ASSUME GatewayTyped, NEW r \in GateCalls, NEW new, GateGoto(r, new)
  PROVE  gate'[r] = new /\ \A q \in GateCalls : q # r => gate'[q] = gate[q]
  BY DEF GatewayTyped, GateGoto

(* What a client was told, column by column.                                *)
LEMMA AnswerReadsRow ==
  ASSUME GatewayInv, NEW a \in answers
  PROVE  /\ a.scope \in Scopes /\ a.cmd \in Commands
         /\ a = [scope |-> a.scope, cmd |-> a.cmd, result |-> a.result]
         /\ records[a.scope].cmd = a.cmd
         /\ records[a.scope].result = a.result
<1>1. a \in [scope : Scopes, cmd : Commands, result : Results]
  BY DEF GatewayInv, GatewayTyped
<1>2. records[a.scope] = [cmd |-> a.cmd, result |-> a.result]
  BY DEF GatewayInv, AnswersRecorded
<1> QED
  BY <1>1, <1>2

GateRow ==
  [pc : {"idle", "admission", "store", "open", "done"},
   scope : Scopes \cup {NoCall}, cmd : Commands \cup {None},
   result : Results, blocked : BOOLEAN]

WellSet(g) ==
  /\ g \in GateRow
  /\ g.pc # "idle" => g.scope \in Scopes /\ g.cmd \in Commands
  /\ g.blocked => g.pc = "admission" /\ control = "FROZEN"

(* A request moved to a well-set row keeps the requests typed.              *)
LEMMA RequestsTyped ==
  ASSUME GatewayTyped, NEW r \in GateCalls, NEW new, WellSet(new), GateGoto(r, new)
  PROVE  /\ gate' \in [GateCalls -> GateRow]
         /\ \A q \in GateCalls : gate'[q].pc # "idle" =>
              gate'[q].scope \in Scopes /\ gate'[q].cmd \in Commands
  BY DEF GatewayTyped, GateGoto, WellSet, GateRow

(* A request that leaves its transaction, or has not begun one, disturbs    *)
(* nobody.                                                                  *)
LEMMA StandsAside ==
  ASSUME GatewayInv, NEW r \in GateCalls, NEW new,
         WellSet(new), new.pc \notin {"open", "done"}, GateGoto(r, new),
         UNCHANGED <<records, journal, control, minted, answers, shown>>
  PROVE  GatewayInv'
<1>1. /\ gate'[r] = new
      /\ \A q \in GateCalls : q # r => gate'[q] = gate[q]
  BY OneRequestChanges DEF GatewayInv
<1>2. GatewayTyped'
  BY RequestsTyped DEF GatewayInv, GatewayTyped, GateRow
<1>3. ScopeHeld'
  BY <1>1 DEF GatewayInv, ScopeHeld, Running
<1>4. AnswersRecorded' /\ SecretShownOnce'
  BY DEF GatewayInv, AnswersRecorded, SecretShownOnce
<1>5. EffectsJournaled'
  BY <1>1 DEF GatewayInv, EffectsJournaled, AtGate, OrderFits
<1>6. SecretsUnseen'
  BY <1>1 DEF GatewayInv, SecretsUnseen, AtGate
<1>7. BlockedAtAdmission'
  BY <1>1 DEF GatewayInv, BlockedAtAdmission, WellSet, AtGate
<1> QED
  BY <1>2, <1>3, <1>4, <1>5, <1>6, <1>7 DEF GatewayInv

(* A request that has not begun is well set.                                *)
LEMMA QuietWellSet == WellSet(GateQuiet) /\ GateQuiet.pc = "idle"
  BY CommandFacts DEF WellSet, GateQuiet, GateRow

(* The initial tables and requests meet the gateway's inductive             *)
(* invariant.                                                               *)
LEMMA GatewayInitInv == GatewayInit => GatewayInv
<1> SUFFICES ASSUME GatewayInit PROVE GatewayInv
  OBVIOUS
<1>1. \A s \in Scopes : records[s] = [cmd |-> None, result |-> 0]
  BY DEF GatewayInit
<1>2. \A r \in GateCalls : gate[r] = GateQuiet
  BY DEF GatewayInit
<1>3. GatewayTyped
  <2>1. gate \in [GateCalls -> GateRow]
    BY QuietWellSet DEF GatewayInit, WellSet
  <2>2. \A r \in GateCalls : gate[r].pc = "idle"
    BY <1>2, QuietWellSet
  <2>3. shown \in [1 .. MaxSecrets -> Nat] /\ minted \in 2 .. MaxSecrets
    BY CommandFacts DEF GatewayInit
  <2>4. /\ records \in [Scopes -> [cmd : Commands \cup {None}, result : Results]]
        /\ journal \in [KeyIds -> Bodies \cup {0}]
        /\ answers \subseteq [scope : Scopes, cmd : Commands, result : Results]
        /\ control \in {"ALLOW", "FROZEN"}
    BY CommandFacts DEF GatewayInit
  <2> QED
    BY <2>1, <2>2, <2>3, <2>4 DEF GatewayTyped, GateRow
<1>4. ScopeHeld /\ SecretsUnseen /\ SecretShownOnce /\ BlockedAtAdmission
  <2>1. \A n \in 1 .. MaxSecrets : shown[n] <= 1 /\ (n > minted => shown[n] = 0)
    BY CommandFacts DEF GatewayInit
  <2> QED
    BY <1>2, <2>1, CommandFacts DEF ScopeHeld, SecretsUnseen, SecretShownOnce,
       BlockedAtAdmission, Running, AtGate, GateQuiet
<1>5. AnswersRecorded /\ EffectsJournaled
  BY <1>1, <1>2, CommandFacts
  DEF AnswersRecorded, EffectsJournaled, AtGate, GateQuiet, GatewayInit
<1> QED
  BY <1>3, <1>4, <1>5 DEF GatewayInv

(* Requests on their way to the store.                                      *)
LEMMA OnTheWayInv ==
  ASSUME GatewayInv, NEW r \in GateCalls,
         \/ \E k \in Keys, i \in Idems, c \in Commands : Enter(r, k, keys[k].secret, i, c)
         \/ CheckAdmission(r) \/ Join(r) \/ Abandon(r)
         \/ \E b \in BOOLEAN : RollBack(r, b)
  PROVE  GatewayInv'
<1> DEFINE Aside(new) == WellSet(new) /\ new.pc \notin {"open", "done"} /\ GateGoto(r, new)
<1>1. /\ gate[r] \in GateRow
      /\ gate[r].pc # "idle" => gate[r].scope \in Scopes /\ gate[r].cmd \in Commands
      /\ gate[r].blocked => gate[r].pc = "admission" /\ control = "FROZEN"
  BY DEF GatewayInv, GatewayTyped, BlockedAtAdmission, AtGate, GateRow
<1>2. Aside(GateQuiet) <=> GateGoto(r, GateQuiet)
  BY QuietWellSet
<1>3. \E new : Aside(new)
  <2>1. ASSUME NEW k \in Keys, NEW i \in Idems, NEW c \in Commands,
               Enter(r, k, keys[k].secret, i, c)
        PROVE  \E new : Aside(new)
    <3> DEFINE new == [GateQuiet EXCEPT
                 !.pc = IF Trading(c) THEN "admission" ELSE "store",
                 !.scope = <<k, i>>, !.cmd = c,
                 !.blocked = Trading(c) /\ control = "FROZEN"]
    <3>1. GateGoto(r, new)
      BY <2>1 DEF Enter
    <3>2. WellSet(new) /\ new.pc \notin {"open", "done"}
      BY QuietWellSet DEF WellSet, GateRow, GateQuiet, Scopes, Trading
    <3> QED
      BY <3>1, <3>2
  <2>2. CASE CheckAdmission(r)
    <3>1. CASE Admits(r)
      <4>1. GateGoto(r, [gate[r] EXCEPT !.pc = "store"])
        BY <2>2, <3>1 DEF CheckAdmission
      <4>2. WellSet([gate[r] EXCEPT !.pc = "store"])
        BY <1>1, <2>2, <3>1 DEF CheckAdmission, Admits, WellSet, AtGate, GateRow
      <4> QED
        BY <4>1, <4>2, <1>1 DEF GateRow
    <3> QED
      BY <1>2, <2>2, <3>1 DEF CheckAdmission
  <2>3. CASE Join(r)
    BY <1>1, <1>2, <2>3 DEF Join, WellSet, AtGate
  <2>4. CASE Abandon(r)
    BY <1>2, <2>4 DEF Abandon
  <2>5. ASSUME NEW b \in BOOLEAN, RollBack(r, b)
        PROVE  \E new : Aside(new)
    <3>1. CASE b
      <4>1. GateGoto(r, [gate[r] EXCEPT !.pc = "store", !.result = 0])
        BY <2>5, <3>1 DEF RollBack
      <4>2. WellSet([gate[r] EXCEPT !.pc = "store", !.result = 0])
        BY <1>1, <2>5, CommandFacts DEF RollBack, WellSet, Running, GateRow
      <4> QED
        BY <4>1, <4>2, <1>1 DEF GateRow
    <3> QED
      BY <1>2, <2>5, <3>1 DEF RollBack
  <2> QED
    BY <2>1, <2>2, <2>3, <2>4, <2>5
<1>4. UNCHANGED <<records, journal, control, minted, answers, shown>>
  BY DEF Enter, CheckAdmission, Join, Abandon, RollBack
<1> HIDE DEF Aside
<1>5. PICK new : Aside(new)
  BY <1>3
<1> QED
  BY <1>4, <1>5, StandsAside DEF Aside

(* A saved row answers with what it says, and never with a secret.          *)
LEMMA ReplayInv ==
  ASSUME GatewayInv, NEW r \in GateCalls, Replay(r)
  PROVE  GatewayInv'
<1> DEFINE c == gate[r].cmd  s == gate[r].scope
           a == [scope |-> s, cmd |-> c, result |-> records[s].result]
<1>1. /\ s \in Scopes /\ c \in Commands
      /\ records[s] \in [cmd : Commands \cup {None}, result : Results]
  BY DEF Replay, AtGate, GatewayInv, GatewayTyped
<1>2. UNCHANGED shown
  <2>1. SavedResult(r) = 0 \/ UNCHANGED shown
    BY DEF Replay, SavedResult
  <2>2. Show(0) => UNCHANGED shown
    BY DEF Show
  <2> QED
    BY <2>1, <2>2 DEF Replay, SavedResult
<1>3. answers' = answers \/ (records[s].cmd = c /\ answers' = answers \cup {a})
  BY DEF Replay, SavedSame, AnswerGate, SavedResult
<1>4. a \in [scope : Scopes, cmd : Commands, result : Results]
  BY <1>1
<1>5. GateGoto(r, GateQuiet) /\ UNCHANGED <<records, journal, control, minted>>
  BY DEF Replay
<1>6. /\ gate'[r] = GateQuiet
      /\ \A q \in GateCalls : q # r => gate'[q] = gate[q]
  BY <1>5, OneRequestChanges DEF GatewayInv
<1> HIDE DEF c, s
<1>7. AnswersRecorded'
  <2>1. records[s].cmd = c => records[s] = [cmd |-> c, result |-> records[s].result]
    BY <1>1
  <2>2. records[s].cmd = c => records[a.scope] = [cmd |-> a.cmd, result |-> a.result]
    BY <2>1
  <2> HIDE DEF a
  <2> QED
    BY <1>3, <1>5, <2>2 DEF GatewayInv, AnswersRecorded
<1>8. GatewayTyped'
  <2>1. answers' \subseteq [scope : Scopes, cmd : Commands, result : Results]
    BY <1>3, <1>4 DEF GatewayInv, GatewayTyped
  <2> QED
    BY <1>2, <1>5, <2>1, QuietWellSet, RequestsTyped
    DEF GatewayInv, GatewayTyped, GateRow
<1>9. ScopeHeld' /\ EffectsJournaled' /\ SecretsUnseen'
  BY <1>2, <1>5, <1>6, QuietWellSet
  DEF GatewayInv, ScopeHeld, EffectsJournaled, SecretsUnseen, Running, AtGate, OrderFits
<1>10. SecretShownOnce' /\ BlockedAtAdmission'
  BY <1>2, <1>5, <1>6, QuietWellSet DEF GatewayInv, SecretShownOnce, BlockedAtAdmission,
     WellSet, AtGate
<1> QED
  BY <1>7, <1>8, <1>9, <1>10 DEF GatewayInv

(* Opening the transaction keeps the invariant: the scope's advisory lock   *)
(* was free.                                                                *)
LEMMA BeginInv ==
  ASSUME GatewayInv, NEW r \in GateCalls, Begin(r)
  PROVE  GatewayInv'
<1> DEFINE new == [gate[r] EXCEPT !.pc = "open"]
<1>1. /\ gate[r] \in GateRow /\ gate[r].pc = "store" /\ ~gate[r].blocked
      /\ gate[r].scope \in Scopes /\ gate[r].cmd \in Commands
      /\ records[gate[r].scope].cmd = None
      /\ \A q \in Running : q # r => gate[q].scope # gate[r].scope
  BY DEF Begin, AtGate, MustWait, ScopeBusy, GatewayInv, GatewayTyped,
         BlockedAtAdmission, GateRow
<1>2. /\ WellSet(new) /\ new.pc = "open" /\ new.scope = gate[r].scope
      /\ GateGoto(r, new)
      /\ UNCHANGED <<records, journal, control, minted, answers, shown>>
  BY <1>1 DEF Begin, WellSet, GateRow
<1> HIDE DEF new
<1>3. /\ gate'[r] = new
      /\ \A q \in GateCalls : q # r => gate'[q] = gate[q]
  BY <1>2, OneRequestChanges DEF GatewayInv
<1>4. GatewayTyped'
  BY <1>2, RequestsTyped DEF GatewayInv, GatewayTyped, GateRow
<1>5. ScopeHeld'
  BY <1>1, <1>2, <1>3 DEF GatewayInv, ScopeHeld, Running
<1>6. AnswersRecorded' /\ SecretShownOnce' /\ EffectsJournaled' /\ SecretsUnseen'
  BY <1>2, <1>3 DEF GatewayInv, AnswersRecorded, SecretShownOnce, EffectsJournaled,
     SecretsUnseen, AtGate, OrderFits
<1>7. BlockedAtAdmission'
  BY <1>2, <1>3 DEF GatewayInv, BlockedAtAdmission, WellSet, AtGate
<1> QED
  BY <1>4, <1>5, <1>6, <1>7 DEF GatewayInv

(* An operation finds its rows unlocked, and a new secret is new.           *)
LEMMA ExecuteInv ==
  ASSUME GatewayInv, NEW r \in GateCalls, Execute(r)
  PROVE  GatewayInv'
<1> DEFINE c == gate[r].cmd
           n == IF NewSecret(c) THEN minted' ELSE c.body
           new == [gate[r] EXCEPT !.pc = "done", !.result = n]
<1>1. /\ gate[r] \in GateRow /\ gate[r].pc = "open" /\ ~gate[r].blocked
      /\ gate[r].scope \in Scopes /\ c \in Commands
  BY DEF Execute, AtGate, GatewayInv, GatewayTyped, BlockedAtAdmission, GateRow
<1>2. /\ minted \in 2 .. MaxSecrets /\ minted' \in 2 .. MaxSecrets
      /\ minted <= minted'
      /\ NewSecret(c) => minted' = minted + 1
  BY CommandFacts DEF Execute, GatewayInv, GatewayTyped
<1>3. n \in Results
  BY <1>1, <1>2, CommandFacts DEF Results
<1> HIDE DEF n
<1>4. /\ WellSet(new) /\ new.pc = "done" /\ new.scope = gate[r].scope
      /\ new.cmd = c /\ new.result = n
      /\ GateGoto(r, new)
      /\ UNCHANGED <<records, journal, control, answers, shown>>
  BY <1>1, <1>3 DEF Execute, WellSet, GateRow, n
<1>5. /\ \A q \in GateCalls \ {r} : AtGate(q, "done") =>
           /\ ~(Trading(gate[q].cmd) /\ Trading(c) /\ gate[q].cmd.id = c.id)
           /\ Trading(gate[q].cmd) \/ Trading(c)
      /\ Trading(c) => OrderFits(c)
  BY DEF Execute, RowBusy
<1> HIDE DEF new, c
<1>6. /\ gate'[r] = new
      /\ \A q \in GateCalls : q # r => gate'[q] = gate[q]
  BY <1>4, OneRequestChanges DEF GatewayInv
<1>7. GatewayTyped'
  BY <1>2, <1>4, RequestsTyped DEF GatewayInv, GatewayTyped, GateRow
<1>8. ScopeHeld'
  BY <1>1, <1>4, <1>6 DEF GatewayInv, ScopeHeld, Running
<1>9. AnswersRecorded' /\ SecretShownOnce'
  BY <1>4 DEF GatewayInv, AnswersRecorded, SecretShownOnce
<1>10. EffectsJournaled'
  <2>1. Trading(c) => n = c.body
    BY <1>1, CommandFacts DEF n
  <2> QED
    BY <1>4, <1>5, <1>6, <2>1 DEF GatewayInv, EffectsJournaled, AtGate, OrderFits
<1>11. SecretsUnseen'
  <2>1. \A m \in 1 .. MaxSecrets : m > minted' => shown'[m] = 0
    BY <1>2, <1>4 DEF GatewayInv, SecretsUnseen
  <2>2. \A q \in GateCalls \ {r} : gate'[q].pc = "done" /\ NewSecret(gate'[q].cmd) =>
           /\ gate'[q].result \in 3 .. minted
           /\ gate'[q].result \in 3 .. minted'
           /\ shown'[gate'[q].result] = 0
    BY <1>2, <1>4, <1>6 DEF GatewayInv, SecretsUnseen, AtGate
  <2>3. NewSecret(c) => /\ n \in 3 .. minted' /\ n = minted + 1 /\ shown'[n] = 0
    BY <1>2, <1>4 DEF n, GatewayInv, SecretsUnseen
  <2>4. \A q, p \in GateCalls \ {r} :
           (/\ gate'[q].pc = "done" /\ NewSecret(gate'[q].cmd)
            /\ gate'[p].pc = "done" /\ NewSecret(gate'[p].cmd)
            /\ q # p) => gate'[q].result # gate'[p].result
    BY <1>6 DEF GatewayInv, SecretsUnseen, AtGate
  <2>5. \A q \in GateCalls \ {r} : gate'[q].pc = "done" /\ NewSecret(gate'[q].cmd)
           => ~NewSecret(c)
    BY <1>5, <1>6 DEF NewSecret, Trading, AtGate
  <2> QED
    BY <1>4, <1>6, <2>1, <2>2, <2>3, <2>4, <2>5 DEF SecretsUnseen, AtGate
<1>12. BlockedAtAdmission'
  BY <1>4, <1>6 DEF GatewayInv, BlockedAtAdmission, WellSet, AtGate
<1> QED
  BY <1>7, <1>8, <1>9, <1>10, <1>11, <1>12 DEF GatewayInv

(* COMMIT: the row, the effect and the answer agree.                        *)
LEMMA CommitGateInv ==
  ASSUME GatewayInv, NEW r \in GateCalls, NEW lost \in BOOLEAN, Commit(r, lost)
  PROVE  GatewayInv'
<1> DEFINE c == gate[r].cmd  s == gate[r].scope  n == gate[r].result
           a == [scope |-> s, cmd |-> c, result |-> n]
           row == [cmd |-> c, result |-> n]
<1>1. /\ gate[r] \in GateRow /\ gate[r].pc = "done" /\ s \in Scopes /\ c \in Commands
      /\ n \in Results /\ r \in Running /\ records[s].cmd = None
  BY DEF Commit, AtGate, GatewayInv, GatewayTyped, GateRow, ScopeHeld, Running
<1>2. /\ records' = [records EXCEPT ![s] = row]
      /\ journal' = IF Trading(c) THEN [journal EXCEPT ![c.id] = c.body] ELSE journal
      /\ answers' = answers \/ answers' = answers \cup {a}
      /\ GateGoto(r, GateQuiet)
      /\ UNCHANGED <<control, minted>>
  BY DEF Commit, Recorded, AnswerGate
<1>3. UNCHANGED shown \/ (NewSecret(c) /\ Show(n))
  BY DEF Commit
<1>4. /\ gate'[r] = GateQuiet
      /\ \A q \in GateCalls : q # r => gate'[q] = gate[q]
  BY <1>2, OneRequestChanges DEF GatewayInv
<1>5. NewSecret(c) => n \in 3 .. minted /\ shown[n] = 0
  BY <1>1 DEF GatewayInv, SecretsUnseen, AtGate
<1>6. /\ row \in [cmd : Commands \cup {None}, result : Results]
      /\ a \in [scope : Scopes, cmd : Commands, result : Results]
      /\ a.scope = s /\ row = [cmd |-> a.cmd, result |-> a.result]
      /\ row.cmd = c /\ row.result = n
  BY <1>1
<1>7. /\ GateQuiet.pc = "idle" /\ ~GateQuiet.blocked /\ WellSet(GateQuiet)
  BY QuietWellSet DEF WellSet
<1> HIDE DEF c, s, n, a, row
<1>8. /\ records' \in [Scopes -> [cmd : Commands \cup {None}, result : Results]]
      /\ records'[s] = row
      /\ \A x \in Scopes : x # s => records'[x] = records[x]
  BY <1>1, <1>2, <1>6 DEF GatewayInv, GatewayTyped
<1>9. /\ journal' \in [KeyIds -> Bodies \cup {0}]
      /\ Trading(c) => journal'[c.id] = c.body
      /\ ~Trading(c) => journal' = journal
      /\ \A i \in KeyIds : i # c.id => journal'[i] = journal[i]
  BY <1>1, <1>2, CommandFacts DEF GatewayInv, GatewayTyped
<1>10. /\ shown' \in [1 .. MaxSecrets -> Nat]
       /\ \A m \in 1 .. MaxSecrets :
            shown'[m] = shown[m] \/ (NewSecret(c) /\ m = n /\ shown'[m] = shown[m] + 1)
  BY <1>3, <1>5, CommandFacts, SMTT(30) DEF GatewayInv, GatewayTyped, Show
<1>11. GatewayTyped'
  <2>1. answers' \subseteq [scope : Scopes, cmd : Commands, result : Results]
    BY <1>2, <1>6 DEF GatewayInv, GatewayTyped
  <2> QED
    BY <1>2, <1>7, <1>8, <1>9, <1>10, <2>1, RequestsTyped
    DEF GatewayInv, GatewayTyped, GateRow
<1>12. ScopeHeld'
  <2>1. Running' = Running \ {r}
    BY <1>4, <1>7 DEF Running
  <2>2. \A q \in Running' : gate[q].scope # s /\ gate[q].scope \in Scopes
    BY <1>1, <2>1 DEF GatewayInv, ScopeHeld, GatewayTyped, s, Running
  <2>3. \A q \in Running' : gate'[q] = gate[q] /\ q \in Running
    BY <1>4, <2>1 DEF Running
  <2> QED
    BY <1>8, <2>2, <2>3 DEF GatewayInv, ScopeHeld
<1>13. AnswersRecorded'
  <2>1. \A b \in answers : b.scope \in Scopes /\ b.cmd \in Commands /\ b.scope # s
    <3> TAKE b \in answers
    <3>1. b.scope \in Scopes /\ b.cmd \in Commands
      BY DEF GatewayInv, GatewayTyped
    <3>2. records[b.scope].cmd = b.cmd
      BY AnswerReadsRow
    <3> QED
      BY <1>1, <3>1, <3>2, CommandFacts
  <2>2. \A b \in answers' : b \in answers \/ b = a
    BY <1>2
  <2> QED
    BY <1>6, <1>8, <2>1, <2>2 DEF GatewayInv, AnswersRecorded
<1>14. EffectsJournaled'
  <2>1. Trading(c) => n = c.body /\ OrderFits(c)
    BY <1>1 DEF GatewayInv, EffectsJournaled, AtGate, c, n
  <2>2. ASSUME NEW x \in Scopes, Trading(records'[x].cmd)
        PROVE  /\ records'[x].result = records'[x].cmd.body
               /\ journal'[records'[x].cmd.id] = records'[x].result
    <3>1. CASE x = s
      BY <1>6, <1>8, <1>9, <2>1, <2>2, <3>1
    <3>2. CASE x # s
      <4>1. /\ records[x].cmd \in Commands
            /\ records'[x] = records[x]
            /\ records[x].result = records[x].cmd.body
            /\ journal[records[x].cmd.id] = records[x].result
        BY <1>8, <2>2, <3>2, CommandFacts
        DEF GatewayInv, GatewayTyped, EffectsJournaled
      <4>2. CASE Trading(c) /\ records[x].cmd.id = c.id
        BY <1>1, <1>9, <2>1, <2>2, <4>1, <4>2, CommandFacts DEF OrderFits
      <4>3. CASE ~Trading(c) \/ records[x].cmd.id # c.id
        BY <1>9, <4>1, <4>3, CommandFacts
      <4> QED
        BY <4>2, <4>3
    <3> QED
      BY <3>1, <3>2
  <2>3. ASSUME NEW q \in GateCalls, gate'[q].pc = "done", Trading(gate'[q].cmd)
        PROVE  /\ gate'[q].result = gate'[q].cmd.body
               /\ journal'[gate'[q].cmd.id] \in {0, gate'[q].cmd.body}
               /\ \A p \in GateCalls \ {q} :
                    gate'[p].pc = "done" /\ Trading(gate'[p].cmd) =>
                      gate'[p].cmd.id # gate'[q].cmd.id
    <3>1. q # r /\ gate'[q] = gate[q]
      BY <1>4, <1>7, <2>3
    <3>2. /\ gate[q].result = gate[q].cmd.body
          /\ OrderFits(gate[q].cmd) /\ gate[q].cmd.id \in KeyIds
          /\ Trading(c) => c.id # gate[q].cmd.id
          /\ \A p \in GateCalls \ {q} : gate[p].pc = "done" /\ Trading(gate[p].cmd) =>
               gate[p].cmd.id # gate[q].cmd.id
      BY <1>1, <2>3, <3>1, CommandFacts DEF GatewayInv, GatewayTyped, EffectsJournaled, AtGate, c
    <3>3. journal'[gate[q].cmd.id] = journal[gate[q].cmd.id]
      BY <1>9, <3>2
    <3>4. \A p \in GateCalls : gate'[p].pc = "done" => gate'[p] = gate[p]
      BY <1>4, <1>7
    <3> QED
      BY <3>1, <3>2, <3>3, <3>4 DEF OrderFits
  <2> QED
    BY <2>2, <2>3 DEF EffectsJournaled, AtGate, OrderFits
<1>15. SecretsUnseen'
  <2>1. \A q \in GateCalls : gate'[q].pc = "done" =>
          q # r /\ gate'[q] = gate[q]
    BY <1>4, <1>7
  <2>2. \A q \in GateCalls \ {r} : gate[q].pc = "done" /\ NewSecret(gate[q].cmd) =>
          /\ gate[q].result \in 3 .. minted /\ shown[gate[q].result] = 0
          /\ NewSecret(c) => gate[q].result # n
    BY <1>1 DEF GatewayInv, SecretsUnseen, AtGate, c, n
  <2>3. \A m \in 1 .. MaxSecrets : m > minted => shown'[m] = 0
    BY <1>5, <1>10, CommandFacts DEF GatewayInv, SecretsUnseen, GatewayTyped
  <2>4. \A q \in GateCalls \ {r} : gate[q].pc = "done" /\ NewSecret(gate[q].cmd) =>
          shown'[gate[q].result] = 0
    BY <1>10, <2>2, CommandFacts DEF GatewayInv, GatewayTyped
  <2> QED
    BY <1>2, <2>1, <2>2, <2>3, <2>4 DEF GatewayInv, SecretsUnseen, AtGate
<1>16. SecretShownOnce'
  BY <1>5, <1>10 DEF GatewayInv, SecretShownOnce, GatewayTyped
<1>17. BlockedAtAdmission'
  BY <1>2, <1>4, <1>7 DEF GatewayInv, BlockedAtAdmission, AtGate
<1> QED
  BY <1>11, <1>12, <1>13, <1>14, <1>15, <1>16, <1>17 DEF GatewayInv

(* Freezing and unfreezing keep the invariant: a freeze blocks requests     *)
(* at admission only.                                                       *)
LEMMA ControlChangesInv ==
  ASSUME GatewayInv, ControlChanges
  PROVE  GatewayInv'
<1>1. /\ control' \in {"ALLOW", "FROZEN"}
      /\ UNCHANGED <<records, journal, minted, answers, shown>>
  BY DEF ControlChanges
<1>2. \A r \in GateCalls :
        /\ gate'[r] \in GateRow
        /\ gate'[r].pc = gate[r].pc /\ gate'[r].scope = gate[r].scope
        /\ gate'[r].cmd = gate[r].cmd /\ gate'[r].result = gate[r].result
        /\ gate'[r].blocked => gate[r].blocked /\ control' = "FROZEN"
  <2> TAKE r \in GateCalls
  <2>1. gate[r] \in GateRow /\ gate'[r] = [gate[r] EXCEPT !.blocked = @ /\ control' = "FROZEN"]
    BY DEF ControlChanges, GatewayInv, GatewayTyped, GateRow
  <2>2. (gate[r].blocked /\ control' = "FROZEN") \in BOOLEAN
    OBVIOUS
  <2> QED
    BY <2>1, <2>2 DEF GateRow
<1>3. gate' \in [GateCalls -> GateRow]
  BY <1>2 DEF ControlChanges
<1>4. GatewayTyped'
  BY <1>1, <1>2, <1>3 DEF GatewayInv, GatewayTyped, GateRow
<1>5. ScopeHeld'
  BY <1>1, <1>2 DEF GatewayInv, ScopeHeld, Running
<1>6. AnswersRecorded' /\ SecretShownOnce'
  BY <1>1 DEF GatewayInv, AnswersRecorded, SecretShownOnce
<1>7. EffectsJournaled'
  BY <1>1, <1>2 DEF GatewayInv, EffectsJournaled, AtGate, OrderFits
<1>8. SecretsUnseen'
  BY <1>1, <1>2 DEF GatewayInv, SecretsUnseen, AtGate
<1>9. BlockedAtAdmission'
  BY <1>2 DEF GatewayInv, BlockedAtAdmission, AtGate
<1> QED
  BY <1>4, <1>5, <1>6, <1>7, <1>8, <1>9 DEF GatewayInv

(* Every step of the gateway keeps its inductive invariant.                 *)
LEMMA GatewayStep == GatewayInv /\ [GatewayNext]_gatewayVars => GatewayInv'
<1> SUFFICES ASSUME GatewayInv, [GatewayNext]_gatewayVars PROVE GatewayInv'
  OBVIOUS
<1>1. CASE UNCHANGED gatewayVars
  <2>1. UNCHANGED <<records, journal, control, gate, minted, answers, shown>>
    BY <1>1 DEF gatewayVars
  <2> QED
    BY <2>1 DEF GatewayInv, GatewayTyped, ScopeHeld, AnswersRecorded, EffectsJournaled,
       SecretsUnseen, SecretShownOnce, BlockedAtAdmission, Running, AtGate, OrderFits
<1>2. ASSUME NEW r \in GateCalls, NEW op, Calls(r, op)
      PROVE  GatewayInv'
  BY <1>2, OnTheWayInv DEF Calls
<1>3. ASSUME NEW r \in GateCalls,
             \/ placeOrder(r) \/ cancelOrder(r)
             \/ issueApiKey(r) \/ rotateApiKey(r) \/ revokeApiKey(r)
      PROVE  GatewayInv'
  BY <1>2, <1>3 DEF placeOrder, cancelOrder, issueApiKey, rotateApiKey, revokeApiKey
<1>4. ASSUME NEW r \in GateCalls,
             \/ CheckAdmission(r) \/ Join(r) \/ Abandon(r)
             \/ \E b \in BOOLEAN : RollBack(r, b)
      PROVE  GatewayInv'
  BY <1>4, OnTheWayInv
<1>5. ASSUME NEW r \in GateCalls, Replay(r) \/ Begin(r) \/ Execute(r)
      PROVE  GatewayInv'
  BY <1>5, ReplayInv, BeginInv, ExecuteInv
<1>6. ASSUME NEW r \in GateCalls, NEW b \in BOOLEAN, Commit(r, b)
      PROVE  GatewayInv'
  BY <1>6, CommitGateInv
<1>7. CASE ControlChanges
  BY <1>7, ControlChangesInv
<1> QED
  BY <1>1, <1>3, <1>4, <1>5, <1>6, <1>7 DEF GatewayNext

(* Whatever clients repeat, lose or abandon, and however transactions fail: *)
(* running requests hold their scope alone, rows say what clients were      *)
(* told and what the journal holds, and a secret that was shown is not      *)
(* shown again.                                                             *)
THEOREM GatewayInvariant == GatewaySpec => []GatewayInv
<1> QED
  BY GatewayInitInv, GatewayStep, PTL DEF GatewaySpec

(* All successes under one idempotency key tell of one command and one      *)
(* result, and each has its effect in the journal.                          *)
THEOREM OneAnswer == GatewaySpec => []OneAnswerPerKey
<1>1. GatewayInv => OneAnswerPerKey
  <2> SUFFICES ASSUME GatewayInv PROVE OneAnswerPerKey
    OBVIOUS
  <2>1. \A a \in answers : Trading(a.cmd) => journal[a.cmd.id] = a.result
    <3> TAKE a \in answers
    <3> QED
      BY AnswerReadsRow DEF GatewayInv, EffectsJournaled
  <2>2. ASSUME NEW a \in answers, NEW b \in answers, a.scope = b.scope
        PROVE  a = b
    <3>1. a.cmd = b.cmd /\ a.result = b.result
      BY <2>2, AnswerReadsRow
    <3> QED
      BY <2>2, <3>1, AnswerReadsRow
  <2> QED
    BY <2>1, <2>2 DEF OneAnswerPerKey
<1> QED
  BY <1>1, GatewayInvariant, PTL

(* A secret reaches a client at most once: no replay shows it again.        *)
THEOREM SecretOnce == GatewaySpec => []SecretShownOnce
<1>1. GatewayInv => SecretShownOnce
  BY DEF GatewayInv
<1> QED
  BY <1>1, GatewayInvariant, PTL

(* A command that arrives while its account is frozen, and stays frozen,    *)
(* never reaches its transaction.                                           *)
THEOREM FreezeIsHeld == GatewaySpec => []FreezeHolds
<1>1. GatewayInv => FreezeHolds
  BY DEF GatewayInv, BlockedAtAdmission, FreezeHolds, Running, AtGate
<1> QED
  BY <1>1, GatewayInvariant, PTL

(* Keys, rows and requests have their types, and no two running requests    *)
(* hold the row of one scope.                                               *)
KeysTyped ==
  keys \in [Keys -> [status : {"NONE", "ACTIVE", "REVOKED"}, secret : Results]]

(* Every step of the gateway keeps the key rows typed: only a commit        *)
(* writes them.                                                             *)
LEMMA KeysStep ==
  GatewayInv /\ KeysTyped /\ [GatewayNext]_gatewayVars => KeysTyped'
<1> SUFFICES ASSUME GatewayInv, KeysTyped, [GatewayNext]_gatewayVars
             PROVE  KeysTyped'
  BY Zenon
<1>1. UNCHANGED keys \/ \E r \in GateCalls, lost \in BOOLEAN : Commit(r, lost)
  BY ZenonT(60) DEF GatewayNext, gatewayVars, placeOrder, cancelOrder, issueApiKey,
     rotateApiKey, revokeApiKey, Calls, Enter, CheckAdmission, Replay, Begin,
     Join, Execute, Abandon, RollBack, ControlChanges
<1>2. ASSUME NEW r \in GateCalls, NEW lost \in BOOLEAN, Commit(r, lost)
      PROVE  KeysTyped'
  <2> DEFINE n == gate[r].result
  <2>1. n \in Results
    BY DEF GatewayInv, GatewayTyped
  <2>2. keys' \in {Issued(n), Rotated(n), RevokedKey, keys}
    BY <1>2 DEF Commit
  <2> HIDE DEF n
  <2> QED
    BY <2>1, <2>2 DEF KeysTyped, Issued, Rotated, RevokedKey, Keys
<1> QED
  BY <1>1, <1>2 DEF KeysTyped

(* The gateway's records, requests and key rows keep their types.           *)
THEOREM GatewayTypeCorrect == GatewaySpec => []GatewayTypeOK
<1>1. GatewayInit => KeysTyped
  BY CommandFacts DEF GatewayInit, KeysTyped, Keys, Results
<1>2. GatewayInv /\ KeysTyped => GatewayTypeOK
  <2> SUFFICES ASSUME GatewayInv, KeysTyped PROVE GatewayTypeOK
    OBVIOUS
  <2>1. \A k \in Keys : keys[k].status \in {"NONE", "ACTIVE", "REVOKED"}
    BY DEF KeysTyped
  <2>2. \A s \in Scopes : records[s].cmd \in Commands \cup {None}
    BY DEF GatewayInv, GatewayTyped
  <2> QED
    BY <2>1, <2>2 DEF GatewayInv, GatewayTyped, ScopeHeld, GatewayTypeOK
<1> QED
  BY <1>1, <1>2, KeysStep, GatewayInvariant, PTL DEF GatewaySpec

---------------------------------------------------------------------------
(* Administration.                                                          *)

(* What the proofs use of the constants: no marker is a member of the set   *)
(* it stands beside, and commands name known ids, types and targets.        *)
LEMMA AdminFacts ==
  /\ NoAct \notin Acts /\ Nobody \notin Actors
  /\ NoCommand \notin AdminCommands \cup Compensations
  /\ \A c \in AdminCommands \cup Compensations :
       c.id \in CommandIds /\ c.type \in CommandTypes /\ c.target \in Targets
<1>1. \A c \in AdminCommands : c.id \in CommandIds /\ c.type \in CommandTypes /\ c.target \in Targets
  BY AdminAssumption DEF CommandIds, CommandTypes
<1>2. \A c \in Compensations : c.id \in CommandIds /\ c.type \in CommandTypes /\ c.target \in Targets
  BY DEF Compensations, CommandIds
<1>3. NoCommand.type \notin CommandTypes
  BY DEF NoCommand, CommandTypes, DualTypes, changeFreeze, configureInstrument,
     changeInstrumentStatus, changeCircuitBreaker, changeFeePolicy, changeRiskPolicy
<1> QED
  BY <1>1, <1>2, <1>3, AdminAssumption

(* Moving one action leaves the other actions as they are.                  *)
LEMMA ActionChanges ==
  ASSUME AdminTyped, NEW r \in Acts, NEW new \in RequestRow, StepTo(r, new)
  PROVE  /\ order' \in [Acts -> RequestRow]
         /\ order'[r] = new
         /\ \A q \in Acts : q # r => order'[q] = order[q]
  BY DEF AdminTyped, StepTo

(* A longer log says what the shorter one said.                             *)
LEMMA LogGrows ==
  ASSUME NEW log \in Seq(AuditRecord), NEW more \in Seq(AuditRecord)
  PROVE  /\ log \o more \in Seq(AuditRecord)
         /\ Len(log \o more) = Len(log) + Len(more)
         /\ \A n \in DOMAIN log : n \in DOMAIN (log \o more) /\ (log \o more)[n] = log[n]
         /\ \A n \in DOMAIN more : /\ Len(log) + n \in DOMAIN (log \o more)
                                    /\ (log \o more)[Len(log) + n] = more[n]
         /\ \A n \in DOMAIN (log \o more) :
              \/ n \in DOMAIN log
              \/ \E m \in DOMAIN more : n = Len(log) + m
<1>1. \A n \in DOMAIN (log \o more) : n \in DOMAIN log \/ n - Len(log) \in DOMAIN more
  OBVIOUS
<1> QED
  BY <1>1

(* A signature or an applied record in either part of a log is in the       *)
(* whole.                                                                   *)
LEMMA StaysSigned ==
  ASSUME NEW log \in Seq(AuditRecord), NEW more \in Seq(AuditRecord), NEW i, NEW a
  PROVE  /\ Signed(log, i, a) \/ Signed(more, i, a) => Signed(log \o more, i, a)
         /\ SaysApplied(log, i) \/ SaysApplied(more, i) => SaysApplied(log \o more, i)
<1>1. ASSUME Signed(log, i, a) PROVE Signed(log \o more, i, a)
  BY <1>1, LogGrows DEF Signed
<1>2. ASSUME Signed(more, i, a) PROVE Signed(log \o more, i, a)
  <2>1. PICK n \in DOMAIN more : more[n].type = "ACTION_APPROVED" /\ more[n].id = i /\ more[n].actor = a
          /\ more[n].by # more[n].actor
    BY <1>2 DEF Signed
  <2> DEFINE m == Len(log) + n
  <2>2. m \in DOMAIN (log \o more) /\ (log \o more)[m] = more[n]
    BY LogGrows
  <2> HIDE DEF m
  <2> QED
    BY <2>1, <2>2 DEF Signed
<1>3. ASSUME SaysApplied(log, i) PROVE SaysApplied(log \o more, i)
  BY <1>3, LogGrows DEF SaysApplied
<1>4. ASSUME SaysApplied(more, i) PROVE SaysApplied(log \o more, i)
  <2>1. PICK n \in DOMAIN more : more[n].type = "ACTION_APPLIED" /\ more[n].id = i
    BY <1>4 DEF SaysApplied
  <2> DEFINE m == Len(log) + n
  <2>2. m \in DOMAIN (log \o more) /\ (log \o more)[m] = more[n]
    BY LogGrows
  <2> HIDE DEF m
  <2> QED
    BY <2>1, <2>2 DEF SaysApplied
<1> QED
  BY <1>1, <1>2, <1>3, <1>4

(* What a write leaves in the tables, for at most one new transition.       *)
LEMMA Written ==
  ASSUME AdminTyped, NEW recs \in Seq(AuditRecord), NEW rows \in SUBSET HistoryRow,
         \A h, g \in rows : h = g,
         db' = With(db, recs, rows)
  PROVE  /\ db' \in [audit : Seq(AuditRecord), history : SUBSET HistoryRow,
                     control : [Targets -> ControlRow]]
         /\ db'.audit = db.audit \o recs
         /\ db'.history = db.history \cup rows
         /\ \A t \in Targets : (\A h \in rows : h.target # t) => db'.control[t] = db.control[t]
         /\ \A h \in rows : /\ db'.control[h.target].state = h.state
                             /\ db'.control[h.target].version = h.version
                             /\ db'.control[h.target].cmd = h.id
<1>1. /\ db.audit \in Seq(AuditRecord) /\ db.history \in SUBSET HistoryRow
      /\ db.control \in [Targets -> ControlRow]
  BY DEF AdminTyped
<1>2. /\ db'.audit = db.audit \o recs
      /\ db'.history = db.history \cup rows
      /\ db'.control = [t \in Targets |->
           IF \E h \in rows : h.target = t
           THEN LET h == CHOOSE h \in rows : h.target = t
                IN [state |-> h.state, version |-> h.version, cmd |-> h.id]
           ELSE db.control[t]]
      /\ db' = [audit |-> db'.audit, history |-> db'.history, control |-> db'.control]
  BY DEF With
<1>3. \A t \in Targets : (\A h \in rows : h.target # t) => db'.control[t] = db.control[t]
  BY <1>2
<1>4. \A h \in rows : /\ h.target \in Targets
                      /\ db'.control[h.target] = [state |-> h.state, version |-> h.version, cmd |-> h.id]
  <2> TAKE h \in rows
  <2>1. h.target \in Targets
    BY DEF HistoryRow
  <2>2. (CHOOSE g \in rows : g.target = h.target) = h
    <3>1. (CHOOSE g \in rows : g.target = h.target) \in rows
      OBVIOUS
    <3> QED
      BY <3>1
  <2> QED
    BY <1>2, <2>1, <2>2
<1>5. \A t \in Targets : db'.control[t] \in ControlRow
  <2> TAKE t \in Targets
  <2>1. CASE \E h \in rows : h.target = t
    <3> PICK h \in rows : h.target = t
      BY <2>1
    <3>1. [state |-> h.state, version |-> h.version, cmd |-> h.id] \in ControlRow
      BY DEF HistoryRow, ControlRow
    <3> QED
      BY <1>4, <3>1
  <2> QED
    BY <1>1, <1>3, <2>1
<1>6. db'.control \in [Targets -> ControlRow]
  BY <1>2, <1>5
<1>7. db'.audit \in Seq(AuditRecord)
  BY <1>1, <1>2
<1>8. db' \in [audit : Seq(AuditRecord), history : SUBSET HistoryRow,
              control : [Targets -> ControlRow]]
  <2>1. db'.history \in SUBSET HistoryRow
    BY <1>1, <1>2
  <2> QED
    BY <1>2, <1>6, <1>7, <2>1
<1>9. \A h \in rows : /\ db'.control[h.target].state = h.state
                      /\ db'.control[h.target].version = h.version
                      /\ db'.control[h.target].cmd = h.id
  <2> TAKE h \in rows
  <2>1. db'.control[h.target] = [state |-> h.state, version |-> h.version, cmd |-> h.id]
    BY <1>4
  <2> QED
    BY <2>1
<1> QED
  BY <1>2, <1>3, <1>8, <1>9

(* The empty tables and quiet actions meet the administration's inductive   *)
(* invariant.                                                               *)
LEMMA AdminInitInv == AdminInit => AdminInv
<1> SUFFICES ASSUME AdminInit PROVE AdminInv
  OBVIOUS
<1>1. /\ db.audit = <<>> /\ db.history = {}
      /\ \A t \in Targets : db.control[t].version = 0
      /\ db \in [audit : Seq(AuditRecord), history : SUBSET HistoryRow,
                 control : [Targets -> ControlRow]]
  BY DEF AdminInit, ControlRow, ControlStates
<1>2. AdminQuiet \in RequestRow
  BY DEF AdminQuiet, RequestRow
<1>3. AdminTyped
  BY <1>1, <1>2, FS_EmptySet DEF AdminTyped, AdminInit, NotPending
<1>4. RequestsFormed /\ RowsSigned /\ RowsNext /\ AuditContiguous
  BY <1>1 DEF AdminInit, AdminQuiet, RequestsFormed, RowsSigned, RowsNext, AuditContiguous, AtStep
<1>5. AppliedHasRow /\ DualControl /\ TransitionsAudited
  BY <1>1 DEF AdminInit, AdminQuiet, AppliedHasRow, DualControl, TransitionsAudited
<1>6. ControlFollowsHistory
  <2>1. \A t \in Targets : {h \in db.history : h.target = t} = {} /\ 1 .. db.control[t].version = {}
    BY <1>1
  <2> QED
    BY <1>1, <2>1, FS_EmptySet DEF ControlFollowsHistory
<1> QED
  BY <1>3, <1>4, <1>5, <1>6 DEF AdminInv

(* A request that has nothing to commit yet, or is over.                    *)
EmptyHanded(g) ==
  /\ g \in RequestRow
  /\ g.pc \in {"idle", "append", "reject"}
  /\ g.recs = <<>> /\ g.row = {}
  /\ g.pc # "idle" => g.actor \in Actors /\ g.cmd \in AdminCommands
  /\ g.pc = "append" => g.kind \in {"REQUEST", "APPROVE"}
  /\ g.kind = "APPROVE" => g.by # g.actor

(* An action that has not begun carries no records and no row.              *)
LEMMA QuietEmptyHanded == EmptyHanded(AdminQuiet) /\ AdminQuiet.pc = "idle"
  BY DEF EmptyHanded, AdminQuiet, RequestRow

(* Starting, refusing and giving up leave the tables as they are.           *)
LEMMA TablesStay ==
  ASSUME AdminInv, NEW r \in Acts, NEW new, EmptyHanded(new), StepTo(r, new),
         UNCHANGED <<profile, db, results, pending>>,
         known' \subseteq AdminCommands \cup Compensations,
         chainLock' = chainLock \/ (chainLock = r /\ chainLock' = NoAct)
  PROVE  AdminInv'
<1>1. /\ order' \in [Acts -> RequestRow] /\ order'[r] = new
      /\ \A q \in Acts : q # r => order'[q] = order[q]
  BY ActionChanges DEF AdminInv, EmptyHanded
<1>2. AdminTyped'
  BY <1>1 DEF AdminInv, AdminTyped
<1>3. Durable' = Durable
  BY DEF Durable
<1>4. RequestsFormed'
  <2>1. ASSUME NEW q \in Acts, q # r
        PROVE  order[q].pc \in {"apply", "commit"} /\ Durable => chainLock' = q
    BY <2>1, AdminFacts DEF AdminInv, RequestsFormed
  <2> QED
    BY <1>1, <1>3, <2>1 DEF AdminInv, RequestsFormed, AtStep, EmptyHanded
<1>5. RowsSigned'
  BY <1>1, <1>3 DEF AdminInv, RowsSigned, AtStep, EmptyHanded
<1>6. RowsNext'
  BY <1>1 DEF AdminInv, RowsNext, EmptyHanded
<1>7. AuditContiguous'
  BY <1>1 DEF AdminInv, AuditContiguous, EmptyHanded
<1>8. AppliedHasRow'
  BY <1>1, <1>3 DEF AdminInv, AppliedHasRow, EmptyHanded
<1>9. DualControl' /\ TransitionsAudited'
  BY <1>3 DEF AdminInv, DualControl, TransitionsAudited
<1>10. ControlFollowsHistory'
  BY <1>3 DEF AdminInv, ControlFollowsHistory
<1> QED
  BY <1>2, <1>4, <1>5, <1>6, <1>7, <1>8, <1>9, <1>10 DEF AdminInv

(* An action just opened, by whichever call, carries no records and no      *)
(* row.                                                                     *)
LEMMA OpenedEmptyHanded ==
  ASSUME NEW c \in AdminCommands, NEW a \in Actors, NEW b \in Actors
  PROVE  /\ EmptyHanded([AdminQuiet EXCEPT !.pc = "reject", !.cmd = c, !.actor = a])
         /\ EmptyHanded([AdminQuiet EXCEPT !.pc = "append", !.kind = "REQUEST",
                                           !.cmd = c, !.actor = a])
         /\ b # a => EmptyHanded([AdminQuiet EXCEPT !.pc = "append", !.kind = "APPROVE",
                                           !.cmd = c, !.actor = a, !.by = b])
<1> DEFINE q == AdminQuiet
<1>1. q \in RequestRow /\ q.kind = "none" /\ q.recs = <<>> /\ q.row = {}
  BY QuietEmptyHanded DEF EmptyHanded, AdminQuiet
<1> HIDE DEF q
<1>2. EmptyHanded([q EXCEPT !.pc = "reject", !.cmd = c, !.actor = a])
  BY <1>1 DEF EmptyHanded, RequestRow
<1>3. EmptyHanded([q EXCEPT !.pc = "append", !.kind = "REQUEST", !.cmd = c, !.actor = a])
  BY <1>1 DEF EmptyHanded, RequestRow
<1>4. b # a => EmptyHanded([q EXCEPT !.pc = "append", !.kind = "APPROVE", !.cmd = c,
                                     !.actor = a, !.by = b])
  BY <1>1 DEF EmptyHanded, RequestRow
<1> QED
  BY <1>2, <1>3, <1>4 DEF q

(* Opening an action, refusing it in the durable profile, failing to        *)
(* apply it and rolling it back keep the invariant: none of them writes a   *)
(* table.                                                                   *)
LEMMA StartsAndEndsInv ==
  ASSUME AdminInv, NEW r \in Acts,
         \/ \E c \in AdminCommands, a \in Actors : Request(r, c, a)
         \/ \E i \in CommandIds, a \in Actors : Approve(r, i, a)
         \/ ApplyFails(r) \/ RollBackAudit(r)
         \/ Reject(r) /\ Durable
         \/ CompensateRecorded(r, FALSE)
  PROVE  AdminInv'
<1> DEFINE Starts(new) == EmptyHanded(new) /\ StepTo(r, new)
<1>1. Starts(AdminQuiet) <=> StepTo(r, AdminQuiet)
  BY QuietEmptyHanded
<1>2. order \in [Acts -> RequestRow] /\ known \subseteq AdminCommands \cup Compensations
  BY DEF AdminInv, AdminTyped
<1>3. /\ \E new : Starts(new)
      /\ UNCHANGED <<profile, db, results, pending>>
      /\ known' \subseteq AdminCommands \cup Compensations
      /\ chainLock' = chainLock \/ (chainLock = r /\ chainLock' = NoAct)
  <2>1. ASSUME order' = order, AtStep(r, "idle")
        PROVE  Starts(order[r])
    <3>1. order[r] \in RequestRow /\ order[r].recs = <<>> /\ order[r].row = {}
          /\ (order[r].kind = "APPROVE" => order[r].by # order[r].actor)
      BY <1>2, <2>1 DEF AdminInv, RequestsFormed, AtStep
    <3>2. StepTo(r, order[r])
      BY <1>2, <2>1 DEF StepTo
    <3> QED
      BY <2>1, <3>1, <3>2 DEF EmptyHanded, AtStep
  <2>2. ASSUME NEW c \in AdminCommands, NEW a \in Actors, Request(r, c, a)
        PROVE  <1>3
    <3> DEFINE g == [AdminQuiet EXCEPT !.pc = "append", !.kind = "REQUEST", !.cmd = c, !.actor = a]
               h == [AdminQuiet EXCEPT !.pc = "reject", !.cmd = c, !.actor = a]
    <3>1. EmptyHanded(g) /\ EmptyHanded(h)
      BY OpenedEmptyHanded, ZenonT(60)
    <3>2. order' = order \/ StepTo(r, g) \/ StepTo(r, h)
      BY <2>2, ZenonT(60) DEF Request
    <3>3. /\ UNCHANGED <<profile, db, results, pending, chainLock>>
          /\ known' \subseteq AdminCommands \cup Compensations
          /\ AtStep(r, "idle")
      BY <1>2, <2>2 DEF Request, MayCall
    <3> QED
      BY <2>1, <3>1, <3>2, <3>3
  <2>3. ASSUME NEW i \in CommandIds, NEW a \in Actors, Approve(r, i, a)
        PROVE  <1>3
    <3> DEFINE p == pending[i]
               g == [AdminQuiet EXCEPT !.pc = "append", !.kind = "APPROVE", !.cmd = p.cmd,
                                       !.actor = a, !.by = p.actor]
               h == [AdminQuiet EXCEPT !.pc = "reject", !.cmd = p.cmd, !.actor = a]
    <3>1. \/ order' = order
          \/ p # NotPending /\ p.actor # a /\ StepTo(r, g)
          \/ p # NotPending /\ StepTo(r, h)
      <4>1. \/ order' = order
            \/ /\ p # NotPending
               /\ IF May(a, p.cmd.type) THEN Independent(i, a) /\ StepTo(r, g) ELSE StepTo(r, h)
        BY <2>3 DEF Approve
      <4> QED
        BY <4>1, SMTT(30) DEF Independent
    <3>2. p # NotPending => p.cmd \in AdminCommands /\ p.actor \in Actors
      BY SMTT(30) DEF AdminInv, AdminTyped
    <3>3. p # NotPending => EmptyHanded(h) /\ (p.actor # a => EmptyHanded(g))
      BY <3>2, OpenedEmptyHanded, ZenonT(60)
    <3>4. UNCHANGED <<profile, db, results, pending, chainLock, known>> /\ AtStep(r, "idle")
      BY <2>3 DEF Approve, MayCall, memory
    <3> HIDE DEF g, h
    <3> QED
      BY <1>2, <2>1, <3>1, <3>3, <3>4
  <2>4. CASE ApplyFails(r) \/ RollBackAudit(r) \/ (Reject(r) /\ Durable) \/ CompensateRecorded(r, FALSE)
    BY <1>1, <1>2, <2>4 DEF ApplyFails, RollBackAudit, Reject, CompensateRecorded, memory
  <2> QED
    BY <2>2, <2>3, <2>4, ZenonT(60)
<1> HIDE DEF Starts
<1>4. PICK new : Starts(new)
  BY <1>3
<1> QED
  BY <1>3, <1>4, TablesStay DEF Starts

(* The two properties of the history, in terms of Signed and SaysApplied.   *)
HistorySigned ==
  \A h \in db.history :
    (requiresDualControl(h.type) /\ ~h.comp) => Signed(db.audit, h.id, h.actor)

RowsSaid ==
  Durable => \A h \in db.history : ~h.comp => SaysApplied(db.audit, h.id)

SaidHaveRows ==
  Durable => \A n \in DOMAIN db.audit :
    db.audit[n].type = "ACTION_APPLIED" /\ Controls(db.audit[n].id) =>
      \E h \in db.history : h.id = db.audit[n].id

(* The dual-control property, said of the log as an argument.               *)
LEMMA DualIsSigned == DualControl <=> HistorySigned
  BY DEF DualControl, HistorySigned, Signed

(* The audit property, split into its two directions.                       *)
LEMMA TransitionsAreSaid == TransitionsAudited <=> RowsSaid /\ SaidHaveRows
  BY DEF TransitionsAudited, RowsSaid, SaidHaveRows, SaysApplied, Controls

(* Control row c is the newest of the transitions hs.                       *)
Follows(hs, c) ==
  /\ {h.version : h \in hs} = 1 .. c.version
  /\ Cardinality(hs) = c.version
  /\ \A h \in hs : h.version = c.version => c.state = h.state /\ c.cmd = h.id

TransitionsOf(history, t) == {h \in history : h.target = t}

ControlsFollow ==
  Durable =>
    /\ \A h, g \in db.history : h.id = g.id => h = g
    /\ \A t \in Targets : Follows(TransitionsOf(db.history, t), db.control[t])

(* The property of control rows, said target by target.                     *)
LEMMA ControlIsFollowed == ControlFollowsHistory <=> ControlsFollow
  BY DEF ControlFollowsHistory, ControlsFollow, Follows, TransitionsOf

(* One record more, while no other request has any waiting.                 *)
LEMMA AppendOnly ==
  ASSUME AdminInv, NEW rec \in AuditRecord,
         rec.seq = Len(db.audit) + 1, rec.type # "ACTION_APPLIED",
         db' = With(db, <<rec>>, {}), UNCHANGED profile,
         AdminTyped', RequestsFormed',
         \A q \in Acts : order'[q].recs = <<>> /\ order'[q].row = {},
         \A q \in Acts : order'[q].pc = "apply" /\ order'[q].kind = "APPROVE" =>
            ~Durable /\ Signed(db'.audit, order'[q].cmd.id, order'[q].actor)
  PROVE  AdminInv'
<1>1. Durable' = Durable
  BY DEF Durable
<1> DEFINE more == <<rec>>  none == {}
<1>2. /\ more \in Seq(AuditRecord) /\ DOMAIN more = {1} /\ more[1] = rec
      /\ none \in SUBSET HistoryRow /\ none = {}
      /\ db' = With(db, more, none)
      /\ db.audit \in Seq(AuditRecord)
  BY DEF AdminInv, AdminTyped
<1> HIDE DEF more, none
<1>3. /\ db'.audit = db.audit \o more /\ db'.history = db.history
      /\ \A t \in Targets : db'.control[t] = db.control[t]
  BY <1>2, Written DEF AdminInv
<1>4. \A n \in DOMAIN db'.audit :
        \/ n \in DOMAIN db.audit /\ db'.audit[n] = db.audit[n]
        \/ n = Len(db.audit) + 1 /\ db'.audit[n] = rec
  <2> DEFINE log == db.audit
  <2> HIDE DEF log
  <2>1. \A n \in DOMAIN (log \o more) :
          \/ n \in DOMAIN log /\ (log \o more)[n] = log[n]
          \/ n = Len(log) + 1 /\ (log \o more)[n] = more[1]
    <3>1. log \in Seq(AuditRecord) /\ more \in Seq(AuditRecord)
      BY <1>2 DEF log
    <3> QED
      BY <1>2, <3>1, LogGrows, SMTT(30)
  <2> QED
    BY <1>2, <1>3, <2>1 DEF log
<1>5. RowsSigned' /\ RowsNext'
  BY <1>1 DEF RowsSigned, RowsNext, AtStep
<1>6. AuditContiguous'
  BY <1>4 DEF AdminInv, AuditContiguous
<1>7. ASSUME Durable, NEW n \in DOMAIN db'.audit, db'.audit[n].type = "ACTION_APPLIED",
             Controls(db'.audit[n].id)
      PROVE  \E h \in db'.history : h.id = db'.audit[n].id
  <2>1. n \in DOMAIN db.audit /\ db'.audit[n] = db.audit[n]
    BY <1>4, <1>7
  <2> QED
    BY <1>3, <1>7, <2>1 DEF AdminInv, AppliedHasRow
<1>8. AppliedHasRow'
  BY <1>1, <1>7 DEF AppliedHasRow, Controls
<1>9. HistorySigned'
  <2> SUFFICES ASSUME NEW h \in db'.history, requiresDualControl(h.type), ~h.comp
               PROVE  Signed(db'.audit, h.id, h.actor)
    BY DEF HistorySigned, Signed, requiresDualControl
  <2>1. Signed(db.audit, h.id, h.actor)
    BY <1>3, DualIsSigned DEF AdminInv, HistorySigned
  <2>2. Signed(db.audit \o more, h.id, h.actor)
    BY <1>2, <2>1, StaysSigned
  <2> QED
    BY <1>3, <2>2
<1>10. RowsSaid' /\ SaidHaveRows'
  <2>1. ASSUME Durable, NEW h \in db'.history, ~h.comp
        PROVE  SaysApplied(db'.audit, h.id)
    <3>1. SaysApplied(db.audit, h.id)
      BY <1>3, <2>1, TransitionsAreSaid DEF AdminInv, RowsSaid
    <3> QED
      BY <1>2, <1>3, <3>1, StaysSigned
  <2>2. RowsSaid'
    BY <1>1, <2>1 DEF RowsSaid, SaysApplied
  <2>3. SaidHaveRows'
    BY <1>1, <1>7 DEF SaidHaveRows, Controls
  <2> QED
    BY <2>2, <2>3
<1>11. ControlsFollow'
  <2>1. ControlsFollow
    BY ControlIsFollowed DEF AdminInv
  <2> QED
    BY <1>1, <1>3, <2>1 DEF ControlsFollow
<1>12. DualControl' /\ TransitionsAudited' /\ ControlFollowsHistory'
  BY <1>9, <1>10, <1>11, DualIsSigned, TransitionsAreSaid, ControlIsFollowed, PTL
<1> QED
  BY <1>5, <1>6, <1>8, <1>12 DEF AdminInv

(* Who may take the lock of the chain is the only one with records waiting. *)
LEMMA OthersEmptyHanded ==
  ASSUME AdminInv, NEW r, Durable => chainLock \in {NoAct, r}, NEW q \in Acts, q # r
  PROVE  /\ order[q].recs = <<>> /\ order[q].row = {}
         /\ Durable => order[q].pc \notin {"apply", "commit"}
<1>1. Durable => chainLock # q
  BY AdminFacts
<1> QED
  BY <1>1 DEF AdminInv, RequestsFormed, AtStep

(* The next record of an action is well formed and says what the action     *)
(* is.                                                                      *)
LEMMA RecordTyped ==
  ASSUME AdminInv, NEW r \in Acts, ~AtStep(r, "idle"), NEW type \in AuditTypes
  PROVE  /\ Next1(r) \in Nat
         /\ Record(r, type, Next1(r)) \in AuditRecord
         /\ Record(r, type, Next1(r)).seq = Next1(r)
         /\ Record(r, type, Next1(r)).type = type
         /\ Record(r, type, Next1(r)).id = order[r].cmd.id
         /\ Record(r, type, Next1(r)).actor = order[r].actor
         /\ Record(r, type, Next1(r)).by = order[r].by
<1>1. /\ db.audit \in Seq(AuditRecord) /\ order[r].recs \in Seq(AuditRecord)
      /\ order[r].by \in Actors \cup {Nobody}
  BY DEF AdminInv, AdminTyped, RequestRow
<1>2. Next1(r) \in Nat
  <2> DEFINE a == Len(db.audit)  b == Len(order[r].recs)
  <2>1. a \in Nat /\ b \in Nat
    BY <1>1
  <2>2. Next1(r) = a + b + 1
    BY DEF Next1
  <2> HIDE DEF a, b
  <2> QED
    BY <2>1, <2>2
<1>3. order[r].actor \in Actors /\ order[r].cmd.id \in CommandIds
  BY AdminFacts DEF AdminInv, RequestsFormed
<1> QED
  BY <1>1, <1>2, <1>3 DEF Record, AuditRecord

(* One more record leaves the history and every earlier signature, and      *)
(* may add a signature of its own.                                          *)
LEMMA OneAppended ==
  ASSUME AdminInv, NEW rec \in AuditRecord, db' = With(db, <<rec>>, {}), NEW i, NEW a
  PROVE  /\ db' \in [audit : Seq(AuditRecord), history : SUBSET HistoryRow,
                     control : [Targets -> ControlRow]]
         /\ db'.history = db.history
         /\ Signed(db.audit, i, a) => Signed(db'.audit, i, a)
         /\ (/\ rec.type = "ACTION_APPROVED" /\ rec.id = i
             /\ rec.actor = a /\ rec.by # a) => Signed(db'.audit, i, a)
<1> DEFINE more == <<rec>>  none == {}
<1>1. /\ more \in Seq(AuditRecord) /\ 1 \in DOMAIN more /\ more[1] = rec
      /\ none \in SUBSET HistoryRow /\ (\A h, g \in none : h = g)
      /\ db' = With(db, more, none) /\ db.audit \in Seq(AuditRecord)
  BY DEF AdminInv, AdminTyped
<1> HIDE DEF more, none
<1>2. /\ db' \in [audit : Seq(AuditRecord), history : SUBSET HistoryRow,
                  control : [Targets -> ControlRow]]
      /\ db'.audit = db.audit \o more /\ db'.history = db.history \cup none
  BY <1>1, Written DEF AdminInv
<1>3. Signed(db.audit, i, a) \/ Signed(more, i, a) => Signed(db'.audit, i, a)
  BY <1>1, <1>2, StaysSigned
<1>4. (/\ rec.type = "ACTION_APPROVED" /\ rec.id = i
       /\ rec.actor = a /\ rec.by # a) => Signed(more, i, a)
  BY <1>1 DEF Signed
<1>5. db'.history = db.history
  BY <1>2 DEF none
<1> QED
  BY <1>2, <1>3, <1>4, <1>5

(* A refusal in memory and the record of a compensation end their request.  *)
LEMMA ClosesWithRecord ==
  ASSUME AdminInv, NEW r \in Acts, order[r].pc \in {"reject", "record"},
         Durable => chainLock \in {NoAct, r},
         NEW type \in AuditTypes, type # "ACTION_APPLIED",
         db' = With(db, <<Record(r, type, Next1(r))>>, {}),
         StepTo(r, AdminQuiet), UNCHANGED <<profile, chainLock, memory>>
  PROVE  AdminInv'
<1> DEFINE rec == Record(r, type, Next1(r))
<1>1. order[r].recs = <<>>
  BY DEF AdminInv, RequestsFormed
<1>2. /\ rec \in AuditRecord /\ rec.type # "ACTION_APPLIED"
      /\ rec.seq = Len(db.audit) + 1
  <2>1. rec \in AuditRecord /\ rec.type = type /\ rec.seq = Next1(r)
    BY RecordTyped DEF AtStep
  <2>2. Len(db.audit) \in Nat
    BY DEF AdminInv, AdminTyped
  <2> QED
    BY <1>1, <2>1, <2>2 DEF Next1
<1> HIDE DEF rec
<1>3. /\ order' \in [Acts -> RequestRow] /\ order'[r] = AdminQuiet
      /\ \A q \in Acts : q # r => order'[q] = order[q]
  BY QuietEmptyHanded, ActionChanges DEF AdminInv, EmptyHanded
<1>4. /\ db' \in [audit : Seq(AuditRecord), history : SUBSET HistoryRow,
                  control : [Targets -> ControlRow]]
      /\ db'.history = db.history
  BY <1>2, OneAppended DEF rec
<1>5. AdminTyped'
  BY <1>3, <1>4 DEF AdminInv, AdminTyped, memory
<1>6. Durable' = Durable
  BY DEF Durable
<1>7. RequestsFormed'
  BY <1>3, <1>6, QuietEmptyHanded DEF AdminInv, RequestsFormed, AtStep, EmptyHanded
<1>8. \A q \in Acts : order'[q].recs = <<>> /\ order'[q].row = {}
  BY <1>3, OthersEmptyHanded, QuietEmptyHanded DEF EmptyHanded
<1>9. \A q \in Acts : order'[q].pc = "apply" /\ order'[q].kind = "APPROVE" =>
        ~Durable /\ Signed(db'.audit, order'[q].cmd.id, order'[q].actor)
  <2> SUFFICES ASSUME NEW q \in Acts, order'[q].pc = "apply", order'[q].kind = "APPROVE"
               PROVE  ~Durable /\ Signed(db'.audit, order'[q].cmd.id, order'[q].actor)
    OBVIOUS
  <2>1. q # r /\ order'[q] = order[q]
    BY <1>3, QuietEmptyHanded
  <2>2. ~Durable
    BY <2>1, OthersEmptyHanded
  <2>3. Signed(db.audit, order[q].cmd.id, order[q].actor)
    BY <2>1, <2>2 DEF AdminInv, RowsSigned, AtStep
  <2>4. Signed(db'.audit, order[q].cmd.id, order[q].actor)
    BY <1>2, <2>3, OneAppended DEF rec
  <2> QED
    BY <2>1, <2>2, <2>4
<1>10. db' = With(db, <<rec>>, {})
  BY DEF rec
<1> QED
  BY <1>2, <1>5, <1>7, <1>8, <1>9, <1>10, AppendOnly

(* The reconciliation report of the dashboard keeps the invariant: it       *)
(* appends one record.                                                      *)
LEMMA DashboardInv ==
  ASSUME AdminInv, NEW a \in Actors, Dashboard(a)
  PROVE  AdminInv'
<1> DEFINE type == IF May(a, "RECONCILIATION") THEN "RECONCILIATION_EXECUTED" ELSE "ACTION_REJECTED"
           rec == [seq |-> Len(db.audit) + 1, id |-> 0, actor |-> a, by |-> Nobody, type |-> type]
<1>1. /\ db' = With(db, <<rec>>, {})
      /\ UNCHANGED <<profile, chainLock, results, known, pending, catalog, order>>
      /\ Durable => chainLock = NoAct
  BY DEF Dashboard, memory
<1>2. type \in AuditTypes /\ type # "ACTION_APPLIED"
  BY DEF AuditTypes
<1>3. Len(db.audit) + 1 \in Nat
  BY DEF AdminInv, AdminTyped
<1> HIDE DEF type
<1>4. rec \in AuditRecord /\ rec.seq = Len(db.audit) + 1 /\ rec.type # "ACTION_APPLIED"
  BY <1>2, <1>3 DEF AuditRecord
<1> HIDE DEF rec
<1>5. Durable' = Durable
  BY <1>1 DEF Durable
<1>6. AdminTyped'
  BY <1>1, <1>4, OneAppended DEF AdminInv, AdminTyped
<1>7. RequestsFormed'
  BY <1>1, <1>5 DEF AdminInv, RequestsFormed, AtStep
<1>8. \A q \in Acts : q # NoAct
  BY AdminFacts
<1>9. \A q \in Acts : /\ order[q].recs = <<>> /\ order[q].row = {}
                      /\ Durable => order[q].pc \notin {"apply", "commit"}
  BY <1>1, <1>8, OthersEmptyHanded
<1>10. \A q \in Acts : order'[q].pc = "apply" /\ order'[q].kind = "APPROVE" =>
         ~Durable /\ Signed(db'.audit, order'[q].cmd.id, order'[q].actor)
  <2> SUFFICES ASSUME NEW q \in Acts, order'[q].pc = "apply", order'[q].kind = "APPROVE"
               PROVE  ~Durable /\ Signed(db'.audit, order'[q].cmd.id, order'[q].actor)
    OBVIOUS
  <2>1. ~Durable /\ order'[q] = order[q]
    BY <1>1, <1>9
  <2>2. Signed(db.audit, order[q].cmd.id, order[q].actor)
    BY <2>1 DEF AdminInv, RowsSigned, AtStep
  <2> QED
    BY <1>1, <1>4, <2>1, <2>2, OneAppended
<1> QED
  BY <1>1, <1>4, <1>6, <1>7, <1>9, <1>10, AppendOnly

(* A refused action, recorded or not, keeps the invariant.                  *)
LEMMA RecordsARefusal ==
  ASSUME AdminInv, NEW r \in Acts, Reject(r) \/ CompensateRecorded(r, TRUE)
  PROVE  AdminInv'
<1>1. CASE Reject(r) /\ Durable
  BY <1>1, StartsAndEndsInv
<1>2. CASE Reject(r) /\ ~Durable
  <2>1. "ACTION_REJECTED" \in AuditTypes
    BY DEF AuditTypes
  <2>2. /\ order[r].pc = "reject" /\ StepTo(r, AdminQuiet)
        /\ db' = With(db, <<Record(r, "ACTION_REJECTED", Next1(r))>>, {})
        /\ UNCHANGED <<profile, chainLock, memory>>
    BY <1>2 DEF Reject, AtStep
  <2> QED
    BY <1>2, <2>1, <2>2, ClosesWithRecord
<1>3. CASE CompensateRecorded(r, TRUE)
  <2>1. "COMPENSATION_APPLIED" \in AuditTypes
    BY DEF AuditTypes
  <2>2. /\ order[r].pc = "record" /\ StepTo(r, AdminQuiet)
        /\ Durable => chainLock \in {NoAct, r}
        /\ db' = With(db, <<Record(r, "COMPENSATION_APPLIED", Next1(r))>>, {})
        /\ UNCHANGED <<profile, chainLock, memory>>
    BY <1>3 DEF CompensateRecorded, AtStep, LockFree
  <2> QED
    BY <2>1, <2>2, ClosesWithRecord
<1> QED
  BY <1>1, <1>2, <1>3

(* A request one record, and perhaps a transition, further.                 *)
InTransaction(g, pc1, rec, rows) ==
  [[g EXCEPT !.pc = pc1] EXCEPT !.recs = @ \o <<rec>>, !.row = @ \cup rows]

Prolonged(r, pc1, rec, rows) ==
  /\ order' \in [Acts -> RequestRow]
  /\ order'[r].pc = pc1 /\ order'[r].kind = order[r].kind
  /\ order'[r].cmd = order[r].cmd /\ order'[r].actor = order[r].actor
  /\ order'[r].by = order[r].by
  /\ order'[r].recs = order[r].recs \o <<rec>> /\ order'[r].row = rows
  /\ order[r].recs \in Seq(AuditRecord) /\ <<rec>> \in Seq(AuditRecord)
  /\ \A n \in DOMAIN order'[r].recs :
       \/ n \in DOMAIN order[r].recs /\ order'[r].recs[n] = order[r].recs[n]
       \/ order'[r].recs[n] = rec
  /\ \A q \in Acts : q # r =>
       /\ order'[q] = order[q] /\ order[q].recs = <<>> /\ order[q].row = {}
       /\ order[q].pc \notin {"apply", "commit"}
  /\ AuditContiguous' /\ Durable'

(* A write of the transaction: the request holds the lock of the chain and  *)
(* one record more, and with its application perhaps a transition.          *)
LEMMA TransactionWrites ==
  ASSUME AdminInv, NEW r \in Acts, Durable, chainLock \in {NoAct, r},
         order[r].pc \in {"append", "apply"}, NEW pc1 \in {"apply", "commit"},
         NEW rec \in AuditRecord, rec.seq = Next1(r), NEW rows \in SUBSET HistoryRow,
         StepTo(r, InTransaction(order[r], pc1, rec, rows)),
         UNCHANGED <<profile, db>>
  PROVE  Prolonged(r, pc1, rec, rows)
<1> DEFINE log == order[r].recs  more == <<rec>>
           new == [[order[r] EXCEPT !.pc = pc1] EXCEPT !.recs = @ \o more, !.row = @ \cup rows]
<1>1. /\ log \in Seq(AuditRecord) /\ more \in Seq(AuditRecord)
      /\ DOMAIN more = {1} /\ more[1] = rec
      /\ order[r] \in RequestRow /\ order[r].row = {}
  BY DEF AdminInv, AdminTyped, RequestRow, RequestsFormed, AtStep
<1>2. /\ log \o more \in Seq(AuditRecord)
      /\ \A n \in DOMAIN (log \o more) :
           \/ n \in DOMAIN log /\ (log \o more)[n] = log[n]
           \/ n = Len(log) + 1 /\ (log \o more)[n] = rec
  <2> HIDE DEF log, more
  <2> QED
    BY <1>1, LogGrows
<1>3. StepTo(r, new)
  BY DEF InTransaction
<1> HIDE DEF more
<1>4. /\ new \in RequestRow
      /\ new.pc = pc1 /\ new.kind = order[r].kind /\ new.cmd = order[r].cmd
      /\ new.actor = order[r].actor /\ new.by = order[r].by
      /\ new.recs = log \o more /\ new.row = rows
  BY <1>1, <1>2 DEF RequestRow
<1> HIDE DEF new
<1>5. /\ order' \in [Acts -> RequestRow] /\ order'[r] = new
      /\ \A q \in Acts : q # r => order'[q] = order[q]
  BY <1>3, <1>4, ActionChanges DEF AdminInv
<1>6. \A q \in Acts : q # r =>
        order[q].recs = <<>> /\ order[q].row = {} /\ order[q].pc \notin {"apply", "commit"}
  BY OthersEmptyHanded
<1>7. AuditContiguous'
  <2>1. Len(log) \in Nat /\ rec.seq = Len(db.audit) + (Len(log) + 1)
    <3> DEFINE a == Len(db.audit)  b == Len(log)
    <3>1. a \in Nat /\ b \in Nat /\ rec.seq = a + b + 1
      BY <1>1 DEF Next1, AdminInv, AdminTyped
    <3> HIDE DEF a, b
    <3>2. b \in Nat /\ rec.seq = a + (b + 1)
      BY <3>1
    <3> QED
      BY <3>2 DEF a, b
  <2>2. \A n \in DOMAIN order'[r].recs : order'[r].recs[n].seq = Len(db.audit) + n
    <3>1. \A n \in DOMAIN log : log[n].seq = Len(db.audit) + n
      BY DEF AdminInv, AuditContiguous
    <3>2. order'[r].recs = log \o more
      BY <1>4, <1>5
    <3> HIDE DEF log
    <3> QED
      BY <1>2, <2>1, <3>1, <3>2
  <2>3. \A q \in Acts : q # r => DOMAIN order'[q].recs = {}
    BY <1>5, <1>6
  <2> QED
    BY <2>2, <2>3 DEF AdminInv, AuditContiguous
<1>8. Durable'
  BY DEF Durable
<1> QED
  BY <1>1, <1>2, <1>4, <1>5, <1>6, <1>7, <1>8 DEF more, Prolonged

(* ACTION_REQUESTED or ACTION_APPROVED.                                     *)
LEMMA Append1Inv ==
  ASSUME AdminInv, NEW r \in Acts, Append1(r)
  PROVE  AdminInv'
<1> DEFINE c == order[r].cmd
           wait == order[r].kind = "REQUEST" /\ requiresDualControl(c.type)
           pc1 == IF wait THEN "commit" ELSE "apply"
           next == [order[r] EXCEPT !.pc = pc1]
           type == IF order[r].kind = "REQUEST" THEN "ACTION_REQUESTED" ELSE "ACTION_APPROVED"
           rec == Record(r, type, Next1(r))
           none == {}
<1>1. /\ order[r].pc = "append" /\ c \in AdminCommands /\ order[r].actor \in Actors
      /\ order[r].kind \in {"REQUEST", "APPROVE"}
      /\ order[r].recs = <<>> /\ order[r].row = {}
      /\ order[r].kind = "APPROVE" => order[r].by # order[r].actor
  BY DEF Append1, AtStep, AdminInv, RequestsFormed
<1>2. /\ Write(r, next, <<rec>>, none)
      /\ Durable => chainLock \in {NoAct, r}
      /\ UNCHANGED <<profile, known, catalog>>
      /\ \/ UNCHANGED <<pending, results>>
         \/ /\ pending' = [pending EXCEPT ![c.id] = [cmd |-> c, actor |-> order[r].actor]]
            /\ results' = [results EXCEPT ![c.id] = "PENDING_APPROVAL"]
  BY DEF Append1, LockFree
<1>3. /\ rec \in AuditRecord /\ rec.type = type /\ rec.id = c.id
      /\ rec.actor = order[r].actor /\ rec.by = order[r].by /\ rec.seq = Next1(r)
  <2>1. type \in AuditTypes
    BY DEF AuditTypes
  <2> HIDE DEF type
  <2> QED
    BY <1>1, <2>1, RecordTyped DEF AtStep
<1>4. /\ results' \in [CommandIds -> {"none", "PENDING_APPROVAL", "APPLIED"}]
      /\ pending' \in [CommandIds -> [cmd : AdminCommands \cup {NoCommand},
                                      actor : Actors \cup {Nobody}]]
      /\ \A i \in CommandIds : pending'[i] # NotPending =>
           pending'[i].cmd \in AdminCommands /\ pending'[i].cmd.id = i /\ pending'[i].actor \in Actors
  <2> DEFINE e == [cmd |-> c, actor |-> order[r].actor]
  <2>1. /\ c.id \in CommandIds
        /\ e \in [cmd : AdminCommands \cup {NoCommand}, actor : Actors \cup {Nobody}]
        /\ e.cmd = c /\ e.actor = order[r].actor
    BY <1>1, AdminFacts
  <2>2. \/ UNCHANGED <<pending, results>>
        \/ /\ pending' = [pending EXCEPT ![c.id] = e]
           /\ results' = [results EXCEPT ![c.id] = "PENDING_APPROVAL"]
    BY <1>2
  <2> HIDE DEF c, e
  <2>3. /\ results \in [CommandIds -> {"none", "PENDING_APPROVAL", "APPLIED"}]
        /\ pending \in [CommandIds -> [cmd : AdminCommands \cup {NoCommand},
                                       actor : Actors \cup {Nobody}]]
    BY DEF AdminInv, AdminTyped
  <2>4. /\ results' \in [CommandIds -> {"none", "PENDING_APPROVAL", "APPLIED"}]
        /\ pending' \in [CommandIds -> [cmd : AdminCommands \cup {NoCommand},
                                        actor : Actors \cup {Nobody}]]
    BY <2>1, <2>2, <2>3
  <2>5. \A i \in CommandIds : pending'[i] = pending[i] \/ (i = c.id /\ pending'[i] = e)
    BY <2>1, <2>2 DEF AdminInv, AdminTyped
  <2>6. c \in AdminCommands
    BY <1>1 DEF c
  <2> QED
    BY <1>1, <2>1, <2>4, <2>5, <2>6 DEF AdminInv, AdminTyped
<1>5. /\ pc1 \in {"apply", "commit"}
      /\ pc1 = "apply" => ~wait
      /\ type # "ACTION_APPLIED"
      /\ order[r].kind = "APPROVE" => type = "ACTION_APPROVED"
      /\ none = {} /\ none \in SUBSET HistoryRow
  OBVIOUS
<1>6. wait <=> order[r].kind = "REQUEST" /\ requiresDualControl(c.type)
  OBVIOUS
<1> HIDE DEF type, rec, pc1, none, wait
<1>7. CASE Durable
  <2>1. /\ StepTo(r, [next EXCEPT !.recs = @ \o <<rec>>, !.row = @ \cup none])
        /\ chainLock' = r /\ UNCHANGED db
    BY <1>2, <1>7 DEF Write
  <2>2. /\ order' \in [Acts -> RequestRow]
        /\ order'[r].pc = pc1 /\ order'[r].kind = order[r].kind
        /\ order'[r].cmd = order[r].cmd /\ order'[r].actor = order[r].actor
        /\ order'[r].by = order[r].by
        /\ order'[r].recs = order[r].recs \o <<rec>> /\ order'[r].row = none
        /\ \A n \in DOMAIN order'[r].recs : order'[r].recs[n] = rec
        /\ order[r].recs \in Seq(AuditRecord) /\ <<rec>> \in Seq(AuditRecord)
        /\ \A q \in Acts : q # r =>
             /\ order'[q] = order[q] /\ order[q].recs = <<>> /\ order[q].row = {}
             /\ order[q].pc \notin {"apply", "commit"}
        /\ AuditContiguous' /\ Durable'
    <3>1. DOMAIN order[r].recs = {}
      BY <1>1
    <3>2. order[r].pc \in {"append", "apply"} /\ chainLock \in {NoAct, r} /\ UNCHANGED <<profile, db>>
      BY <1>1, <1>2, <1>7, <2>1
    <3>3. rec \in AuditRecord /\ rec.seq = Next1(r) /\ pc1 \in {"apply", "commit"}
          /\ none \in SUBSET HistoryRow
      BY <1>3, <1>5
    <3>4. StepTo(r, InTransaction(order[r], pc1, rec, none))
      BY <2>1 DEF InTransaction
    <3> HIDE DEF next, c
    <3>5. Prolonged(r, pc1, rec, none)
      BY <1>7, <3>2, <3>3, <3>4, TransactionWrites
    <3> QED
      BY <3>1, <3>5 DEF Prolonged
  <2>3. AdminTyped'
    BY <1>2, <1>4, <2>1, <2>2 DEF AdminInv, AdminTyped
  <2>4. RequestsFormed'
    BY <1>1, <1>5, <1>6, <2>1, <2>2 DEF AdminInv, RequestsFormed, AtStep
  <2>5. RowsSigned'
    <3>1. order[r].kind = "APPROVE" => Signed(order'[r].recs, order'[r].cmd.id, order'[r].actor)
      <4>1. order[r].kind = "APPROVE" => Signed(<<rec>>, c.id, order[r].actor)
        <5> DEFINE more == <<rec>>
        <5>1. 1 \in DOMAIN more /\ more[1] = rec
          OBVIOUS
        <5> HIDE DEF more
        <5>2. order[r].kind = "APPROVE" => Signed(more, c.id, order[r].actor)
          BY <1>1, <1>3, <1>5, <5>1 DEF Signed
        <5> QED
          BY <5>2 DEF more
      <4> QED
        <5> DEFINE log == order[r].recs  more == <<rec>>
        <5>1. /\ log \in Seq(AuditRecord) /\ more \in Seq(AuditRecord)
              /\ order'[r].recs = log \o more /\ order'[r].cmd = c
              /\ order'[r].actor = order[r].actor
              /\ order[r].kind = "APPROVE" => Signed(more, c.id, order[r].actor)
          BY <2>2, <4>1
        <5> HIDE DEF log, more, c
        <5> QED
          BY <5>1, StaysSigned
    <3>2. \A q \in Acts : order'[q].row = {}
      BY <1>5, <2>2
    <3>3. \A q \in Acts : order'[q].pc = "apply" => q = r
      BY <2>2
    <3> QED
      BY <2>2, <3>1, <3>2, <3>3 DEF RowsSigned, AtStep
  <2>6. RowsNext'
    BY <1>5, <2>2 DEF RowsNext
  <2>7. AppliedHasRow'
    <3>1. \A q \in Acts : \A n \in DOMAIN order'[q].recs : order'[q].recs[n].type # "ACTION_APPLIED"
      <4>1. \A q \in Acts : q # r => DOMAIN order'[q].recs = {}
        BY <2>2
      <4> QED
        BY <1>3, <1>5, <2>2, <4>1, ZenonT(60)
    <3> QED
      BY <1>7, <2>1, <2>2, <3>1 DEF AdminInv, AppliedHasRow, Controls
  <2>8. HistorySigned' /\ RowsSaid' /\ SaidHaveRows' /\ ControlsFollow'
    BY <1>7, <2>1, <2>2, DualIsSigned, TransitionsAreSaid, ControlIsFollowed
    DEF AdminInv, HistorySigned, RowsSaid, SaidHaveRows, ControlsFollow, Controls
  <2>9. DualControl' /\ TransitionsAudited' /\ ControlFollowsHistory'
    BY <2>8, DualIsSigned, TransitionsAreSaid, ControlIsFollowed, PTL
  <2> QED
    BY <2>2, <2>3, <2>4, <2>5, <2>6, <2>7, <2>9 DEF AdminInv
<1>8. CASE ~Durable
  <2>1. StepTo(r, next) /\ db' = With(db, <<rec>>, none) /\ UNCHANGED chainLock
    BY <1>2, <1>8 DEF Write
  <2>2. /\ next \in RequestRow /\ next.pc = pc1 /\ next.kind = order[r].kind
        /\ next.cmd = c /\ next.actor = order[r].actor /\ next.by = order[r].by
        /\ next.recs = <<>> /\ next.row = {}
    <3>1. order[r] \in RequestRow
      BY DEF AdminInv, AdminTyped
    <3> QED
      BY <1>1, <1>5, <3>1 DEF RequestRow
  <2> HIDE DEF next
  <2>3. /\ order' \in [Acts -> RequestRow] /\ order'[r] = next
        /\ \A q \in Acts : q # r => order'[q] = order[q]
    BY <2>1, <2>2, ActionChanges DEF AdminInv
  <2>4. db' = With(db, <<rec>>, {}) /\ ~Durable'
    BY <1>2, <1>5, <1>8, <2>1 DEF Durable
  <2>5. AdminTyped'
    BY <1>2, <1>3, <1>4, <2>1, <2>3, <2>4, OneAppended DEF AdminInv, AdminTyped
  <2>6. RequestsFormed'
    BY <1>1, <1>5, <1>6, <1>8, <2>2, <2>3, <2>4 DEF AdminInv, RequestsFormed, AtStep
  <2>7. \A q \in Acts : order'[q].recs = <<>> /\ order'[q].row = {}
    BY <1>8, <2>2, <2>3 DEF AdminInv, RequestsFormed
  <2>8. rec.seq = Len(db.audit) + 1
    <3>1. Len(db.audit) \in Nat
      BY DEF AdminInv, AdminTyped
    <3> QED
      BY <1>1, <1>3, <3>1 DEF Next1
  <2>9. \A q \in Acts : order'[q].pc = "apply" /\ order'[q].kind = "APPROVE" =>
          ~Durable /\ Signed(db'.audit, order'[q].cmd.id, order'[q].actor)
    <3> SUFFICES ASSUME NEW q \in Acts, order'[q].pc = "apply", order'[q].kind = "APPROVE"
                 PROVE  Signed(db'.audit, order'[q].cmd.id, order'[q].actor)
      BY <1>8
    <3>1. CASE q = r
      BY <1>1, <1>3, <1>5, <2>2, <2>3, <2>4, <3>1, OneAppended
    <3>2. CASE q # r
      <4>1. order'[q] = order[q] /\ Signed(db.audit, order[q].cmd.id, order[q].actor)
        BY <1>8, <2>3, <3>2 DEF AdminInv, RowsSigned, AtStep
      <4> QED
        BY <1>3, <2>4, <4>1, OneAppended
    <3> QED
      BY <3>1, <3>2
  <2> QED
    BY <1>2, <1>3, <1>5, <2>4, <2>5, <2>6, <2>7, <2>8, <2>9, AppendOnly
<1> QED
  BY <1>7, <1>8

(* The transition a command makes, if it makes one.                         *)
LEMMA RowsTyped ==
  ASSUME AdminInv, NEW c \in AdminCommands \cup Compensations, NEW a \in Actors,
         NEW comp \in BOOLEAN
  PROVE  /\ Rows(c, a, comp) \in SUBSET HistoryRow
         /\ \A h, g \in Rows(c, a, comp) : h = g
         /\ \A h \in Rows(c, a, comp) :
              /\ h.id = c.id /\ h.type = c.type /\ h.target = c.target /\ h.actor = a
              /\ h.comp = comp /\ h.version = db.control[h.target].version + 1
              /\ Durable => \A g \in db.history : g.id # h.id
         /\ Durable /\ c.type \notin ConfigTypes =>
              \E h \in db.history \cup Rows(c, a, comp) : h.id = c.id
<1> DEFINE row == Row(c, a, comp)
<1>1. c.id \in CommandIds /\ c.type \in CommandTypes /\ c.target \in Targets
  BY AdminFacts
<1>2. db.control[c.target] \in ControlRow
  BY <1>1 DEF AdminInv, AdminTyped
<1>3. db.control[c.target].version + 1 \in Nat
  BY <1>2 DEF ControlRow
<1>4. ControlState(c.type) \in ControlStates
  BY DEF ControlState, ControlStates
<1>5. /\ row \in HistoryRow
      /\ row.id = c.id /\ row.type = c.type /\ row.target = c.target /\ row.actor = a
      /\ row.comp = comp /\ row.version = db.control[row.target].version + 1
  BY <1>1, <1>3, <1>4 DEF Row, HistoryRow
<1>6. Rows(c, a, comp) = {} \/ (Rows(c, a, comp) = {row} /\ ~Duplicate(c))
  BY DEF Rows
<1>7. c.type \notin ConfigTypes /\ ~Duplicate(c) => Rows(c, a, comp) = {row}
  BY DEF Rows
<1> HIDE DEF row
<1>8. Durable => (Duplicate(c) <=> \E h \in db.history : h.id = c.id)
  BY DEF Duplicate
<1> QED
  BY <1>5, <1>6, <1>7, <1>8

(* A new transition at the end of a control's history.                      *)
LEMMA HistoryAdvances ==
  ASSUME NEW hs, IsFiniteSet(hs), NEW h \in HistoryRow,
         NEW c \in ControlRow, NEW d \in ControlRow,
         Follows(hs, c), h.version = c.version + 1, h \notin hs,
         d.state = h.state, d.version = h.version, d.cmd = h.id
  PROVE  Follows(hs \cup {h}, d)
<1> DEFINE v == c.version  new == hs \cup {h}
<1>1. v \in Nat /\ d.version = v + 1
  BY DEF ControlRow
<1>2. {g.version : g \in hs} = 1 .. v /\ Cardinality(hs) = v
  BY DEF Follows
<1>3. Cardinality(new) = v + 1
  <2> HIDE DEF v
  <2>1. Cardinality(hs \cup {h}) = Cardinality(hs) + 1
    BY FS_AddElement
  <2> QED
    BY <1>2, <2>1
<1>4. {g.version : g \in new} = 1 .. d.version
  <2>1. {g.version : g \in new} = {g.version : g \in hs} \cup {h.version}
    OBVIOUS
  <2> QED
    BY <1>1, <1>2, <2>1
<1>5. \A g \in new : g.version = d.version => g = h
  <2>1. \A g \in hs : g.version \in 1 .. v
    BY <1>2
  <2> QED
    BY <1>1, <2>1
<1>6. \A g \in new : g.version = d.version => d.state = g.state /\ d.cmd = g.id
  BY <1>5
<1> QED
  BY <1>1, <1>3, <1>4, <1>6 DEF Follows

(* Writing the next version of a target, under an id no transition has,     *)
(* keeps each control row the newest of its transitions.                    *)
LEMMA ControlsAdvance ==
  ASSUME AdminInv, Durable, NEW recs \in Seq(AuditRecord), NEW rows \in SUBSET HistoryRow,
         \A h, g \in rows : h = g,
         \A h \in rows : /\ h.version = db.control[h.target].version + 1
                         /\ \A g \in db.history : g.id # h.id,
         db' = With(db, recs, rows), UNCHANGED profile
  PROVE  ControlsFollow' /\ IsFiniteSet(db'.history)
<1>1. /\ db'.history = db.history \cup rows
      /\ db' \in [audit : Seq(AuditRecord), history : SUBSET HistoryRow,
                  control : [Targets -> ControlRow]]
      /\ \A t \in Targets : (\A h \in rows : h.target # t) => db'.control[t] = db.control[t]
      /\ \A h \in rows : /\ db'.control[h.target].state = h.state
                         /\ db'.control[h.target].version = h.version
                         /\ db'.control[h.target].cmd = h.id
  BY Written DEF AdminInv
<1>2. Durable' = Durable
  BY DEF Durable
<1>3. /\ db.history \in SUBSET HistoryRow /\ IsFiniteSet(db.history)
      /\ db.control \in [Targets -> ControlRow]
  BY DEF AdminInv, AdminTyped
<1>4. /\ \A h, g \in db.history : h.id = g.id => h = g
      /\ \A t \in Targets : Follows(TransitionsOf(db.history, t), db.control[t])
  BY ControlIsFollowed DEF AdminInv, ControlsFollow
<1>5. \A h, g \in db'.history : h.id = g.id => h = g
  BY <1>1, <1>4
<1>6. rows = {} \/ \E h \in rows : rows = {h}
  OBVIOUS
<1>7. IsFiniteSet(db'.history)
  <2>1. CASE rows = {}
    BY <1>1, <1>3, <2>1
  <2>2. ASSUME NEW h \in rows, rows = {h}
        PROVE  IsFiniteSet(db'.history)
    <3>1. IsFiniteSet(db.history \cup {h})
      BY <1>3, FS_AddElement
    <3> QED
      BY <1>1, <2>2, <3>1
  <2> QED
    BY <1>6, <2>1, <2>2
<1>8. ASSUME NEW t \in Targets
      PROVE  Follows(TransitionsOf(db'.history, t), db'.control[t])
  <2>1. CASE \A h \in rows : h.target # t
    <3>1. TransitionsOf(db'.history, t) = TransitionsOf(db.history, t)
      BY <1>1, <2>1 DEF TransitionsOf
    <3>2. db'.control[t] = db.control[t]
      BY <1>1, <2>1
    <3> QED
      BY <1>4, <3>1, <3>2
  <2>2. CASE \E h \in rows : h.target = t
    <3>1. PICK h \in rows : h.target = t
      BY <2>2
    <3>2. rows = {h} /\ h \in HistoryRow /\ h \notin db.history
      BY <3>1
    <3> DEFINE hs == TransitionsOf(db.history, t)
    <3>3. TransitionsOf(db'.history, t) = hs \cup {h} /\ h \notin hs
      BY <1>1, <3>1, <3>2 DEF TransitionsOf
    <3>4. db'.control[t] \in ControlRow /\ db.control[t] \in ControlRow
      BY <1>1, <1>3
    <3>5. /\ h.version = db.control[t].version + 1
          /\ db'.control[t].state = h.state /\ db'.control[t].version = h.version
          /\ db'.control[t].cmd = h.id
      BY <1>1, <3>1
    <3>6. IsFiniteSet(hs)
      <4>1. hs \subseteq db.history
        BY DEF TransitionsOf
      <4> QED
        BY <1>3, <4>1, FS_Subset
    <3>7. Follows(hs, db.control[t])
      BY <1>4
    <3> DEFINE c == db.control[t]  d == db'.control[t]
    <3>8. /\ c \in ControlRow /\ d \in ControlRow /\ Follows(hs, c)
          /\ h.version = c.version + 1 /\ d.state = h.state /\ d.version = h.version
          /\ d.cmd = h.id
      BY <3>4, <3>5, <3>7
    <3> HIDE DEF hs, c, d
    <3>9. Follows(hs \cup {h}, d)
      BY <3>2, <3>3, <3>6, <3>8, HistoryAdvances
    <3> QED
      BY <3>3, <3>9 DEF d
  <2> QED
    BY <2>1, <2>2
<1> QED
  BY <1>2, <1>5, <1>7, <1>8 DEF ControlsFollow

(* ACTION_APPLIED and the transition, in the transaction or in memory.      *)
LEMMA ApplyInv ==
  ASSUME AdminInv, NEW r \in Acts, Apply(r)
  PROVE  AdminInv'
<1> DEFINE c == order[r].cmd  a == order[r].actor
           next == [order[r] EXCEPT !.pc = "commit"]
           rec == Record(r, "ACTION_APPLIED", Next1(r))
           rows == Rows(c, a, FALSE)
<1>1. /\ order[r].pc = "apply" /\ c \in AdminCommands /\ a \in Actors /\ order[r].row = {}
      /\ order[r].kind \in {"REQUEST", "APPROVE"}
      /\ requiresDualControl(c.type) => order[r].kind = "APPROVE"
      /\ order[r].kind = "APPROVE" => order[r].by # order[r].actor
      /\ ~Durable => order[r].recs = <<>>
      /\ c.id \in CommandIds
  BY AdminFacts DEF Apply, AtStep, AdminInv, RequestsFormed
<1>2. /\ Write(r, next, <<rec>>, rows)
      /\ Durable => chainLock \in {NoAct, r}
      /\ UNCHANGED <<profile, known>>
      /\ results' = [results EXCEPT ![c.id] = "APPLIED"]
      /\ pending' = [pending EXCEPT ![c.id] =
           IF order[r].kind = "APPROVE" THEN NotPending ELSE pending[c.id]]
  BY DEF Apply, LockFree
<1>3. /\ rec \in AuditRecord /\ rec.type = "ACTION_APPLIED" /\ rec.id = c.id
      /\ rec.seq = Next1(r)
  <2>1. "ACTION_APPLIED" \in AuditTypes
    BY DEF AuditTypes
  <2> QED
    BY <1>1, <2>1, RecordTyped DEF AtStep
<1>4. /\ rows \in SUBSET HistoryRow /\ \A h, g \in rows : h = g
      /\ \A h \in rows :
           /\ h.id = c.id /\ h.type = c.type /\ h.target = c.target /\ h.actor = a
           /\ h.comp = FALSE /\ h.version = db.control[h.target].version + 1
           /\ Durable => \A g \in db.history : g.id # h.id
      /\ Durable /\ c.type \notin ConfigTypes => \E h \in db.history \cup rows : h.id = c.id
  <2> DEFINE f == FALSE  rs == Rows(c, a, f)
  <2>1. f \in BOOLEAN /\ c \in AdminCommands \cup Compensations
    BY <1>1
  <2> HIDE DEF f
  <2>2. /\ rs \in SUBSET HistoryRow /\ \A h, g \in rs : h = g
        /\ \A h \in rs :
             /\ h.id = c.id /\ h.type = c.type /\ h.target = c.target /\ h.actor = a
             /\ h.comp = f /\ h.version = db.control[h.target].version + 1
             /\ Durable => \A g \in db.history : g.id # h.id
        /\ Durable /\ c.type \notin ConfigTypes => \E h \in db.history \cup rs : h.id = c.id
    BY <1>1, <2>1, RowsTyped
  <2>3. rs = rows
    BY DEF f
  <2> HIDE DEF rs, rows
  <2> QED
    BY <2>2, <2>3 DEF f
<1>5. /\ results' \in [CommandIds -> {"none", "PENDING_APPROVAL", "APPLIED"}]
      /\ results'[c.id] = "APPLIED"
      /\ pending' \in [CommandIds -> [cmd : AdminCommands \cup {NoCommand},
                                      actor : Actors \cup {Nobody}]]
      /\ \A i \in CommandIds : pending'[i] = pending[i] \/ pending'[i] = NotPending
  <2>1. /\ results \in [CommandIds -> {"none", "PENDING_APPROVAL", "APPLIED"}]
        /\ pending \in [CommandIds -> [cmd : AdminCommands \cup {NoCommand},
                                       actor : Actors \cup {Nobody}]]
    BY DEF AdminInv, AdminTyped
  <2>2. NotPending \in [cmd : AdminCommands \cup {NoCommand}, actor : Actors \cup {Nobody}]
    BY DEF NotPending
  <2> HIDE DEF c
  <2> QED
    BY <1>1, <1>2, <2>1, <2>2
<1>6. \A i \in CommandIds : pending'[i] # NotPending =>
        pending'[i].cmd \in AdminCommands /\ pending'[i].cmd.id = i /\ pending'[i].actor \in Actors
  BY <1>5 DEF AdminInv, AdminTyped
<1>7. \A t \in Acts : AtStep(t, "apply") /\ order[t].kind = "APPROVE" =>
        Signed(IF Durable THEN order[t].recs ELSE db.audit, order[t].cmd.id, order[t].actor)
  BY DEF AdminInv, RowsSigned
<1>8. requiresDualControl(c.type) =>
        Signed(IF Durable THEN order[r].recs ELSE db.audit, c.id, a)
  BY <1>1, <1>7 DEF AtStep
<1>9. c.type \notin ConfigTypes \/ ~Controls(c.id)
  BY <1>1 DEF Controls
<1> HIDE DEF rec, rows
<1>10. CASE Durable
  <2>1. /\ StepTo(r, [next EXCEPT !.recs = @ \o <<rec>>, !.row = @ \cup rows])
        /\ chainLock' = r /\ UNCHANGED db
    BY <1>2, <1>10 DEF Write
  <2>2. Prolonged(r, "commit", rec, rows)
    <3>1. order[r].pc \in {"append", "apply"} /\ chainLock \in {NoAct, r} /\ UNCHANGED <<profile, db>>
      BY <1>1, <1>2, <1>10, <2>1
    <3>2. StepTo(r, InTransaction(order[r], "commit", rec, rows))
      BY <2>1 DEF InTransaction
    <3>3. "commit" \in {"apply", "commit"}
      OBVIOUS
    <3> HIDE DEF next, c, a
    <3> QED
      BY <1>3, <1>4, <1>10, <3>1, <3>2, <3>3, TransactionWrites
  <2> DEFINE log == order[r].recs  more == <<rec>>
  <2>3. /\ order' \in [Acts -> RequestRow]
        /\ order'[r].pc = "commit" /\ order'[r].kind = order[r].kind
        /\ order'[r].cmd = c /\ order'[r].actor = a /\ order'[r].by = order[r].by
        /\ order'[r].recs = log \o more /\ order'[r].row = rows
        /\ log \in Seq(AuditRecord) /\ more \in Seq(AuditRecord)
        /\ \A n \in DOMAIN order'[r].recs :
             \/ n \in DOMAIN log /\ order'[r].recs[n] = log[n]
             \/ order'[r].recs[n] = rec
        /\ \A q \in Acts : q # r =>
             /\ order'[q] = order[q] /\ order[q].recs = <<>> /\ order[q].row = {}
             /\ order[q].pc \notin {"apply", "commit"}
        /\ AuditContiguous' /\ Durable'
    BY <2>2, SMTT(30) DEF Prolonged
  <2>4. AdminTyped'
    BY <1>2, <1>5, <1>6, <2>1, <2>3 DEF AdminInv, AdminTyped
  <2>5. RequestsFormed'
    BY <1>1, <2>1, <2>3 DEF AdminInv, RequestsFormed, AtStep
  <2>6. RowsSigned'
    <3>1. ASSUME NEW h \in rows
          PROVE  /\ requiresDualControl(h.type) => Signed(order'[r].recs, h.id, h.actor)
                 /\ SaysApplied(order'[r].recs, h.id)
      <4>1. h.id = c.id /\ h.type = c.type /\ h.actor = a
        BY <1>4
      <4>2. requiresDualControl(c.type) => Signed(log, c.id, a)
        BY <1>8, <1>10
      <4>3. SaysApplied(more, c.id)
        <5>1. 1 \in DOMAIN more /\ more[1] = rec
          OBVIOUS
        <5> HIDE DEF more
        <5> QED
          BY <1>3, <5>1 DEF SaysApplied
      <4> HIDE DEF log, more, c, a
      <4> QED
        BY <2>3, <4>1, <4>2, <4>3, StaysSigned, ZenonT(60)
    <3>2. \A q \in Acts : q # r => order'[q].row = {}
      BY <2>3
    <3>3. \A q \in Acts : order'[q].pc # "apply"
      BY <2>3
    <3>4. order'[r].row = rows
      BY <2>3
    <3> QED
      BY <3>1, <3>2, <3>3, <3>4 DEF RowsSigned, AtStep
  <2>7. RowsNext'
    <3>1. \A q \in Acts : q # r => order'[q].row = {}
      BY <2>3
    <3>2. order'[r].row = rows
      BY <2>3
    <3> HIDE DEF c
    <3> QED
      BY <1>4, <1>5, <1>10, <2>1, <3>1, <3>2 DEF RowsNext
  <2>8. AppliedHasRow'
    <3>1. ASSUME NEW n \in DOMAIN order'[r].recs, order'[r].recs[n].type = "ACTION_APPLIED",
                 Controls(order'[r].recs[n].id)
          PROVE  \E h \in db.history \cup rows : h.id = order'[r].recs[n].id
      <4>1. CASE n \in DOMAIN log /\ order'[r].recs[n] = log[n]
        BY <1>1, <1>10, <3>1, <4>1 DEF AdminInv, AppliedHasRow
      <4>2. CASE order'[r].recs[n] = rec
        BY <1>3, <1>4, <1>9, <1>10, <3>1, <4>2
      <4> QED
        BY <2>3, <4>1, <4>2
    <3>2. \A q \in Acts : q # r => DOMAIN order'[q].recs = {}
      BY <2>3
    <3>3. \A n \in DOMAIN db.audit :
            db.audit[n].type = "ACTION_APPLIED" /\ Controls(db.audit[n].id) =>
              \E h \in db.history : h.id = db.audit[n].id
      BY <1>10 DEF AdminInv, AppliedHasRow
    <3>4. db' = db /\ order'[r].row = rows
      BY <2>1, <2>3
    <3> QED
      BY <3>1, <3>2, <3>3, <3>4 DEF AppliedHasRow, Controls
  <2>9. HistorySigned' /\ RowsSaid' /\ SaidHaveRows' /\ ControlsFollow'
    BY <1>10, <2>1, <2>3, DualIsSigned, TransitionsAreSaid, ControlIsFollowed
    DEF AdminInv, HistorySigned, RowsSaid, SaidHaveRows, ControlsFollow, Controls
  <2>10. DualControl' /\ TransitionsAudited' /\ ControlFollowsHistory'
    BY <2>9, DualIsSigned, TransitionsAreSaid, ControlIsFollowed, PTL
  <2> QED
    BY <2>3, <2>4, <2>5, <2>6, <2>7, <2>8, <2>10 DEF AdminInv
<1>11. CASE ~Durable
  <2>1. StepTo(r, next) /\ db' = With(db, <<rec>>, rows) /\ UNCHANGED chainLock /\ ~Durable'
    BY <1>2, <1>11 DEF Write, Durable
  <2>2. /\ next \in RequestRow /\ next.pc = "commit" /\ next.kind = order[r].kind
        /\ next.cmd = c /\ next.actor = a /\ next.by = order[r].by
        /\ next.recs = <<>> /\ next.row = {}
    <3>1. order[r] \in RequestRow
      BY DEF AdminInv, AdminTyped
    <3> QED
      BY <1>1, <1>11, <3>1 DEF RequestRow
  <2> DEFINE more == <<rec>>
  <2>3. more \in Seq(AuditRecord) /\ DOMAIN more = {1} /\ more[1] = rec
        /\ db.audit \in Seq(AuditRecord) /\ IsFiniteSet(db.history)
    BY <1>3 DEF AdminInv, AdminTyped
  <2> HIDE DEF next, more
  <2>4. /\ order' \in [Acts -> RequestRow] /\ order'[r] = next
        /\ \A q \in Acts : q # r => order'[q] = order[q]
    BY <2>1, <2>2, ActionChanges DEF AdminInv
  <2>5. /\ db' \in [audit : Seq(AuditRecord), history : SUBSET HistoryRow,
                    control : [Targets -> ControlRow]]
        /\ db'.audit = db.audit \o more
        /\ db'.history = db.history \cup rows
    BY <1>4, <2>1, <2>3, Written DEF AdminInv, more
  <2>6. IsFiniteSet(db'.history)
    <3>1. rows = {} \/ \E h \in rows : rows = {h}
      BY <1>4
    <3>2. ASSUME NEW h \in rows, rows = {h}
          PROVE  IsFiniteSet(db'.history)
      <4>1. IsFiniteSet(db.history \cup {h})
        BY <2>3, FS_AddElement
      <4> QED
        BY <2>5, <3>2, <4>1
    <3> QED
      BY <2>3, <2>5, <3>1, <3>2
  <2>7. AdminTyped'
    BY <1>2, <1>5, <1>6, <2>1, <2>4, <2>5, <2>6 DEF AdminInv, AdminTyped
  <2>8. RequestsFormed'
    BY <1>1, <1>11, <2>1, <2>2, <2>4 DEF AdminInv, RequestsFormed, AtStep
  <2>9. \A q \in Acts : order'[q].recs = <<>> /\ order'[q].row = {}
    BY <1>11, <2>2, <2>4 DEF AdminInv, RequestsFormed
  <2>10. \A i, b : Signed(db.audit, i, b) => Signed(db'.audit, i, b)
    BY <2>3, <2>5, StaysSigned
  <2>11. RowsSigned'
    <3>1. ASSUME NEW q \in Acts, order'[q].pc = "apply", order'[q].kind = "APPROVE"
          PROVE  Signed(db'.audit, order'[q].cmd.id, order'[q].actor)
      <4>1. q # r /\ order'[q] = order[q]
        BY <2>2, <2>4, <3>1
      <4>2. Signed(db.audit, order[q].cmd.id, order[q].actor)
        BY <1>7, <1>11, <3>1, <4>1 DEF AtStep
      <4> QED
        BY <2>10, <4>1, <4>2
    <3> QED
      BY <2>1, <2>9, <3>1 DEF RowsSigned, AtStep
  <2>12. RowsNext' /\ AppliedHasRow' /\ RowsSaid' /\ SaidHaveRows' /\ ControlsFollow'
    BY <2>1, <2>9 DEF RowsNext, AppliedHasRow, RowsSaid, SaidHaveRows, ControlsFollow
  <2>13. AuditContiguous'
    <3>1. rec.seq = Len(db.audit) + 1
      <4>1. Len(db.audit) \in Nat
        BY <2>3
      <4>2. Len(order[r].recs) = 0
        BY <1>1, <1>11
      <4>3. rec.seq = Len(db.audit) + Len(order[r].recs) + 1
        BY <1>3 DEF Next1
      <4> DEFINE n == Len(db.audit)  m == Len(order[r].recs)
      <4> HIDE DEF n, m
      <4>4. n \in Nat /\ m = 0 /\ rec.seq = n + m + 1
        BY <4>1, <4>2, <4>3 DEF n, m
      <4>5. rec.seq = n + 1
        BY <4>4
      <4> QED
        BY <4>5 DEF n
    <3>2. \A n \in DOMAIN db'.audit :
            \/ n \in DOMAIN db.audit /\ db'.audit[n] = db.audit[n]
            \/ n = Len(db.audit) + 1 /\ db'.audit[n] = rec
      <4> DEFINE log == db.audit
      <4>1. log \in Seq(AuditRecord)
        BY <2>3
      <4> HIDE DEF log
      <4>2. \A n \in DOMAIN (log \o more) :
              \/ n \in DOMAIN log /\ (log \o more)[n] = log[n]
              \/ n = Len(log) + 1 /\ (log \o more)[n] = more[1]
        BY <2>3, <4>1, LogGrows
      <4> QED
        BY <2>3, <2>5, <4>2 DEF log
    <3>3. \A n \in DOMAIN db'.audit : db'.audit[n].seq = n
      BY <3>1, <3>2 DEF AdminInv, AuditContiguous
    <3>4. \A q \in Acts : DOMAIN order'[q].recs = {}
      BY <2>9
    <3> QED
      BY <3>3, <3>4 DEF AuditContiguous
  <2>14. HistorySigned'
    <3> SUFFICES ASSUME NEW h \in db'.history, requiresDualControl(h.type), ~h.comp
                 PROVE  Signed(db'.audit, h.id, h.actor)
      BY DEF HistorySigned, Signed, requiresDualControl
    <3>1. CASE h \in db.history
      BY <2>10, <3>1, DualIsSigned DEF AdminInv, HistorySigned
    <3>2. CASE h \in rows
      BY <1>4, <1>8, <1>11, <2>10, <3>2
    <3> QED
      BY <2>5, <3>1, <3>2
  <2>15. DualControl' /\ TransitionsAudited' /\ ControlFollowsHistory'
    BY <2>12, <2>14, DualIsSigned, TransitionsAreSaid, ControlIsFollowed, PTL
  <2> QED
    BY <2>7, <2>8, <2>11, <2>12, <2>13, <2>15 DEF AdminInv
<1> QED
  BY <1>10, <1>11

(* COMMIT: records and transition become visible together.                  *)
LEMMA CommitAuditInv ==
  ASSUME AdminInv, NEW r \in Acts, CommitAudit(r)
  PROVE  AdminInv'
<1> DEFINE recs == order[r].recs  rows == order[r].row  log == db.audit
<1>1. /\ order[r].pc = "commit" /\ StepTo(r, AdminQuiet)
      /\ chainLock' = IF chainLock = r THEN NoAct ELSE chainLock
      /\ UNCHANGED <<profile, results, known, pending, catalog>>
  BY DEF CommitAudit, AtStep, memory
<1>2. CASE ~Durable
  <2>1. UNCHANGED db
    BY <1>2 DEF CommitAudit
  <2>2. known \subseteq AdminCommands \cup Compensations
    BY DEF AdminInv, AdminTyped
  <2> QED
    BY <1>1, <2>1, <2>2, QuietEmptyHanded, TablesStay
<1>3. CASE Durable
  <2>1. db' = With(db, recs, rows) /\ chainLock = r /\ chainLock' = NoAct /\ Durable'
    BY <1>1, <1>3 DEF CommitAudit, AdminInv, RequestsFormed, Durable
  <2>2. /\ recs \in Seq(AuditRecord) /\ rows \in SUBSET HistoryRow /\ log \in Seq(AuditRecord)
        /\ \A h, g \in rows : h = g
        /\ \A h \in rows : /\ h.version = db.control[h.target].version + 1
                           /\ \A g \in db.history : g.id # h.id
    BY DEF AdminInv, AdminTyped, RequestRow, RowsNext
  <2>3. /\ order' \in [Acts -> RequestRow] /\ order'[r] = AdminQuiet
        /\ \A q \in Acts : q # r => order'[q] = order[q]
    BY <1>1, QuietEmptyHanded, ActionChanges DEF AdminInv, EmptyHanded
  <2>4. \A q \in Acts : /\ order'[q].recs = <<>> /\ order'[q].row = {}
                        /\ order'[q].pc \notin {"apply", "commit"}
    BY <1>3, <2>1, <2>3, OthersEmptyHanded, QuietEmptyHanded DEF EmptyHanded
  <2>5. ControlsFollow' /\ IsFiniteSet(db'.history)
    <3> HIDE DEF recs, rows, log
    <3> QED
      BY <1>1, <1>3, <2>1, <2>2, ControlsAdvance
  <2>6. /\ db' \in [audit : Seq(AuditRecord), history : SUBSET HistoryRow,
                    control : [Targets -> ControlRow]]
        /\ db'.audit = log \o recs /\ db'.history = db.history \cup rows
    <3> HIDE DEF recs, rows
    <3> QED
      BY <2>1, <2>2, Written DEF AdminInv
  <2>7. AdminTyped'
    BY <1>1, <2>1, <2>3, <2>5, <2>6 DEF AdminInv, AdminTyped
  <2>8. RequestsFormed'
    BY <2>1, <2>3, <2>4, QuietEmptyHanded DEF AdminInv, RequestsFormed, AtStep, EmptyHanded
  <2>9. RowsSigned' /\ RowsNext'
    BY <2>4 DEF RowsSigned, RowsNext, AtStep
  <2>10. \A i, b : /\ Signed(log, i, b) \/ Signed(recs, i, b) => Signed(log \o recs, i, b)
                   /\ SaysApplied(log, i) \/ SaysApplied(recs, i) => SaysApplied(log \o recs, i)
    BY <2>2, StaysSigned
  <2>11. \A n \in DOMAIN (log \o recs) :
           \/ n \in DOMAIN log /\ (log \o recs)[n] = log[n]
           \/ \E m \in DOMAIN recs : n = Len(log) + m /\ (log \o recs)[n] = recs[m]
    <3> HIDE DEF log, recs
    <3> QED
      BY <2>2, LogGrows
  <2>12. AuditContiguous'
    <3>1. /\ \A n \in DOMAIN log : log[n].seq = n
          /\ \A n \in DOMAIN recs : recs[n].seq = Len(log) + n
      BY DEF AdminInv, AuditContiguous
    <3> HIDE DEF log, recs
    <3>2. \A n \in DOMAIN (log \o recs) : (log \o recs)[n].seq = n
      BY <2>11, <3>1
    <3>3. \A q \in Acts : DOMAIN order'[q].recs = {}
      BY <2>4
    <3> QED
      BY <2>6, <3>2, <3>3 DEF AuditContiguous
  <2>13. SaidHaveRows'
    <3>1. /\ \A n \in DOMAIN log : log[n].type = "ACTION_APPLIED" /\ Controls(log[n].id) =>
               \E h \in db.history \cup rows : h.id = log[n].id
          /\ \A n \in DOMAIN recs : recs[n].type = "ACTION_APPLIED" /\ Controls(recs[n].id) =>
               \E h \in db.history \cup rows : h.id = recs[n].id
      BY <1>3 DEF AdminInv, AppliedHasRow
    <3> HIDE DEF log, recs, rows
    <3>2. \A n \in DOMAIN (log \o recs) :
            (log \o recs)[n].type = "ACTION_APPLIED" /\ Controls((log \o recs)[n].id) =>
               \E h \in db.history \cup rows : h.id = (log \o recs)[n].id
      BY <2>11, <3>1
    <3> QED
      BY <2>6, <3>2 DEF SaidHaveRows, Controls
  <2>14. AppliedHasRow'
    <3>1. \A q \in Acts : DOMAIN order'[q].recs = {}
      BY <2>4
    <3> QED
      BY <2>13, <3>1 DEF AppliedHasRow, SaidHaveRows
  <2>15. \A h \in rows : /\ requiresDualControl(h.type) => Signed(recs, h.id, h.actor)
                         /\ SaysApplied(recs, h.id)
    BY DEF AdminInv, RowsSigned
  <2>16. HistorySigned' /\ RowsSaid'
    <3>1. ASSUME NEW h \in db.history
          PROVE  /\ requiresDualControl(h.type) /\ ~h.comp => Signed(log, h.id, h.actor)
                 /\ ~h.comp => SaysApplied(log, h.id)
      BY <1>3, DualIsSigned, TransitionsAreSaid DEF AdminInv, HistorySigned, RowsSaid
    <3> HIDE DEF log, recs, rows
    <3>2. \A h \in db.history \cup rows :
            /\ requiresDualControl(h.type) /\ ~h.comp => Signed(log \o recs, h.id, h.actor)
            /\ ~h.comp => SaysApplied(log \o recs, h.id)
      BY <2>10, <2>15, <3>1
    <3>3. \A h \in db'.history :
            /\ requiresDualControl(h.type) /\ ~h.comp => Signed(db'.audit, h.id, h.actor)
            /\ ~h.comp => SaysApplied(db'.audit, h.id)
      BY <2>6, <3>2
    <3> QED
      BY <3>3 DEF HistorySigned, RowsSaid, Signed, SaysApplied, requiresDualControl
  <2>17. DualControl' /\ TransitionsAudited' /\ ControlFollowsHistory'
    BY <2>5, <2>13, <2>16, DualIsSigned, TransitionsAreSaid, ControlIsFollowed, PTL
  <2> QED
    BY <2>7, <2>8, <2>9, <2>12, <2>14, <2>17 DEF AdminInv
<1> QED
  BY <1>2, <1>3

(* A restart empties the maps and ends every request.                       *)
LEMMA RestartInv ==
  ASSUME AdminInv, Restart
  PROVE  AdminInv'
<1>1. /\ Durable /\ UNCHANGED <<profile, db>> /\ chainLock' = NoAct
      /\ results' = [i \in CommandIds |-> "none"] /\ known' = {}
      /\ pending' = [i \in CommandIds |-> NotPending]
      /\ order' = [q \in Acts |-> AdminQuiet]
  BY DEF Restart
<1>2. Durable' = Durable
  BY <1>1 DEF Durable
<1>3. \A q \in Acts : /\ order'[q] = AdminQuiet /\ order'[q] \in RequestRow
                      /\ order'[q].pc = "idle" /\ order'[q].recs = <<>> /\ order'[q].row = {}
                      /\ order'[q].kind # "APPROVE"
  BY <1>1, QuietEmptyHanded DEF EmptyHanded, AdminQuiet
<1>4. AdminTyped'
  <2>1. NotPending \in [cmd : AdminCommands \cup {NoCommand}, actor : Actors \cup {Nobody}]
    BY DEF NotPending
  <2> QED
    BY <1>1, <1>3, <2>1 DEF AdminInv, AdminTyped
<1>5. RequestsFormed' /\ RowsSigned' /\ RowsNext' /\ AuditContiguous'
  BY <1>1, <1>2, <1>3
  DEF AdminInv, RequestsFormed, RowsSigned, RowsNext, AuditContiguous, AtStep
<1>6. AppliedHasRow'
  BY <1>1, <1>2, <1>3 DEF AdminInv, AppliedHasRow, Controls
<1>7. DualControl' /\ TransitionsAudited' /\ ControlFollowsHistory'
  BY <1>1, <1>2 DEF AdminInv, DualControl, TransitionsAudited, ControlFollowsHistory
<1> QED
  BY <1>4, <1>5, <1>6, <1>7 DEF AdminInv

(* The reverse of a command is a command.                                   *)
LEMMA ReversedType ==
  ASSUME NEW t \in CommandTypes \ ConfigTypes
  PROVE  reverseAdminCommandType[t] \in CommandTypes
<1> DEFINE rev == CASE t = "FREEZE_USER" -> "UNFREEZE_USER"       [] t = "UNFREEZE_USER" -> "FREEZE_USER"
       [] t = "FREEZE_ACCOUNT" -> "UNFREEZE_ACCOUNT" [] t = "UNFREEZE_ACCOUNT" -> "FREEZE_ACCOUNT"
       [] t = "EMERGENCY_STOP" -> "RESUME_TRADING"   [] t = "RESUME_TRADING" -> "EMERGENCY_STOP"
       [] t = "ACTIVATE_INSTRUMENT" -> "PAUSE_INSTRUMENT"
       [] t = "PAUSE_INSTRUMENT" -> "ACTIVATE_INSTRUMENT"
<1>1. reverseAdminCommandType[t] = rev
  BY DEF reverseAdminCommandType, CommandTypes
<1>2. t \in {"FREEZE_USER", "UNFREEZE_USER", "FREEZE_ACCOUNT", "UNFREEZE_ACCOUNT", "EMERGENCY_STOP",
             "RESUME_TRADING", "ACTIVATE_INSTRUMENT", "PAUSE_INSTRUMENT"}
  BY DEF CommandTypes, ConfigTypes, DualTypes, changeFreeze, configureInstrument,
     changeInstrumentStatus, changeCircuitBreaker, changeFeePolicy, changeRiskPolicy
<1>3. rev \in {"FREEZE_USER", "UNFREEZE_USER", "FREEZE_ACCOUNT", "UNFREEZE_ACCOUNT", "EMERGENCY_STOP",
             "RESUME_TRADING", "ACTIVATE_INSTRUMENT", "PAUSE_INSTRUMENT"}
  BY <1>2
<1> HIDE DEF rev
<1> QED
  BY <1>1, <1>3
  DEF CommandTypes, ConfigTypes, DualTypes, changeFreeze, configureInstrument,
     changeInstrumentStatus, changeCircuitBreaker, changeFeePolicy, changeRiskPolicy

(* A compensation changes its control outside every transaction.            *)
LEMMA CompensateInv ==
  ASSUME AdminInv, NEW r \in Acts, NEW i \in Reversals, NEW o \in known, NEW a \in Actors,
         Compensate(r, i, o, a)
  PROVE  AdminInv'
<1> DEFINE c == [id |-> i, type |-> reverseAdminCommandType[o.type], target |-> o.target, at |-> 0]
           f == TRUE  none == <<>>  rows == Rows(c, a, f)
           new == [AdminQuiet EXCEPT !.pc = "record", !.cmd = c, !.actor = a]
<1>1. /\ order[r].pc = "idle" /\ results[i] = "none" /\ o.type \notin ConfigTypes
      /\ \A q \in Acts : \A h \in order[q].row : h.target # c.target
      /\ db' = With(db, none, rows)
      /\ known' = known \cup {c}
      /\ results' = [results EXCEPT ![i] = "APPLIED"]
      /\ StepTo(r, new)
      /\ UNCHANGED <<profile, chainLock, pending>>
  BY DEF Compensate, MayCall, AtStep
<1>2. c \in Compensations /\ c.id = i /\ i \in CommandIds
  <2>1. o \in AdminCommands \cup Compensations
    BY DEF AdminInv, AdminTyped
  <2>2. o.type \in CommandTypes \ ConfigTypes /\ o.target \in Targets
    BY <1>1, <2>1, AdminFacts
  <2>3. reverseAdminCommandType[o.type] \in CommandTypes
    BY <2>2, ReversedType
  <2> QED
    BY <2>2, <2>3 DEF Compensations, CommandIds
<1>3. none = <<>> /\ none \in Seq(AuditRecord)
  OBVIOUS
<1>20. f \in BOOLEAN
  OBVIOUS
<1> HIDE DEF f, c, none
<1>4. /\ rows \in SUBSET HistoryRow /\ \A h, g \in rows : h = g
      /\ \A h \in rows :
           /\ h.id = i /\ h.target = c.target /\ h.comp = TRUE
           /\ h.version = db.control[h.target].version + 1
           /\ Durable => \A g \in db.history : g.id # h.id
  <2>1. /\ rows \in SUBSET HistoryRow /\ \A h, g \in rows : h = g
        /\ \A h \in rows :
             /\ h.id = c.id /\ h.type = c.type /\ h.target = c.target /\ h.actor = a
             /\ h.comp = f /\ h.version = db.control[h.target].version + 1
             /\ Durable => \A g \in db.history : g.id # h.id
        /\ Durable /\ c.type \notin ConfigTypes => \E h \in db.history \cup rows : h.id = c.id
    <3>1. c \in AdminCommands \cup Compensations
      BY <1>2
    <3> QED
      BY <1>20, <3>1, RowsTyped
  <2> HIDE DEF rows
  <2> QED
    BY <1>2, <2>1 DEF f
<1> HIDE DEF rows
<1>5. /\ new \in RequestRow /\ new.pc = "record" /\ new.recs = <<>> /\ new.row = {}
      /\ new.kind = "none" /\ new.cmd = c /\ new.actor = a
  <2> DEFINE q == AdminQuiet
  <2>1. q \in RequestRow /\ q.recs = <<>> /\ q.row = {} /\ q.kind = "none"
    BY QuietEmptyHanded DEF EmptyHanded, AdminQuiet
  <2> HIDE DEF q
  <2>2. LET n == [q EXCEPT !.pc = "record", !.cmd = c, !.actor = a]
        IN /\ n \in RequestRow /\ n.pc = "record" /\ n.recs = <<>> /\ n.row = {}
           /\ n.kind = "none" /\ n.cmd = c /\ n.actor = a
    BY <1>2, <2>1 DEF RequestRow
  <2> QED
    BY <2>2 DEF q
<1> HIDE DEF new
<1>6. /\ order' \in [Acts -> RequestRow] /\ order'[r] = new
      /\ \A q \in Acts : q # r => order'[q] = order[q]
  BY <1>1, <1>5, ActionChanges DEF AdminInv
<1>7. /\ db' \in [audit : Seq(AuditRecord), history : SUBSET HistoryRow,
                  control : [Targets -> ControlRow]]
      /\ db'.audit = db.audit /\ db'.history = db.history \cup rows
      /\ \A t \in Targets : t # c.target => db'.control[t] = db.control[t]
  <2>1. /\ db' \in [audit : Seq(AuditRecord), history : SUBSET HistoryRow,
                    control : [Targets -> ControlRow]]
        /\ db'.audit = db.audit \o none /\ db'.history = db.history \cup rows
        /\ \A t \in Targets : (\A h \in rows : h.target # t) => db'.control[t] = db.control[t]
    BY <1>1, <1>3, <1>4, Written, ZenonT(60) DEF AdminInv
  <2> DEFINE log == db.audit
  <2>2. log \in Seq(AuditRecord)
    BY DEF AdminInv, AdminTyped
  <2> HIDE DEF log
  <2>3. log \o none = log
    BY <1>3, <2>2
  <2> QED
    BY <1>4, <2>1, <2>3 DEF log
<1>8. Durable' = Durable
  BY <1>1 DEF Durable
<1>9. IsFiniteSet(db'.history)
  <2>1. rows = {} \/ \E h \in rows : rows = {h}
    BY <1>4
  <2>2. IsFiniteSet(db.history)
    BY DEF AdminInv, AdminTyped
  <2>3. ASSUME NEW h \in rows, rows = {h}
        PROVE  IsFiniteSet(db'.history)
    <3>1. IsFiniteSet(db.history \cup {h})
      BY <2>2, FS_AddElement
    <3> QED
      BY <1>7, <2>3, <3>1
  <2> QED
    BY <1>7, <2>1, <2>2, <2>3
<1>10. /\ results' \in [CommandIds -> {"none", "PENDING_APPROVAL", "APPLIED"}]
       /\ \A j \in CommandIds : results[j] = "APPLIED" => results'[j] = "APPLIED"
       /\ known' \subseteq AdminCommands \cup Compensations
  BY <1>1, <1>2 DEF AdminInv, AdminTyped
<1>11. AdminTyped'
  BY <1>1, <1>6, <1>7, <1>9, <1>10 DEF AdminInv, AdminTyped
<1>12. RequestsFormed'
  BY <1>1, <1>2, <1>5, <1>6, <1>8 DEF AdminInv, RequestsFormed, AtStep
<1>13. RowsSigned'
  BY <1>5, <1>6, <1>7, <1>8 DEF AdminInv, RowsSigned, AtStep
<1>14. RowsNext'
  <2> SUFFICES ASSUME NEW q \in Acts, NEW h \in order'[q].row
               PROVE  /\ h.version = db'.control[h.target].version + 1
                      /\ \A g \in db'.history : g.id # h.id
                      /\ results'[h.id] = "APPLIED"
                      /\ \A g \in order'[q].row : g = h
    BY DEF RowsNext
  <2>1. order'[q] = order[q] /\ h \in order[q].row /\ h \in HistoryRow
    BY <1>5, <1>6 DEF RequestRow
  <2>2. /\ h.version = db.control[h.target].version + 1
        /\ \A g \in db.history : g.id # h.id
        /\ results[h.id] = "APPLIED"
        /\ \A g \in order[q].row : g = h
    BY <2>1 DEF AdminInv, RowsNext
  <2>3. h.target # c.target /\ h.target \in Targets /\ h.id \in CommandIds
    BY <1>1, <2>1 DEF HistoryRow
  <2>4. h.id # i
    BY <1>1, <2>2
  <2> QED
    BY <1>4, <1>7, <1>10, <2>1, <2>2, <2>3, <2>4
<1>15. AuditContiguous'
  BY <1>5, <1>6, <1>7 DEF AdminInv, AuditContiguous
<1>16. AppliedHasRow'
  BY <1>5, <1>6, <1>7, <1>8 DEF AdminInv, AppliedHasRow, Controls
<1>17. HistorySigned' /\ RowsSaid' /\ SaidHaveRows'
  <2>1. HistorySigned'
    BY <1>4, <1>7, DualIsSigned DEF AdminInv, HistorySigned, Signed, requiresDualControl
  <2>2. RowsSaid'
    BY <1>4, <1>7, <1>8, TransitionsAreSaid DEF AdminInv, RowsSaid, SaysApplied
  <2>3. SaidHaveRows'
    BY <1>7, <1>8, TransitionsAreSaid DEF AdminInv, SaidHaveRows, Controls
  <2> QED
    BY <2>1, <2>2, <2>3
<1>18. ControlsFollow'
  <2>1. CASE Durable
    BY <1>1, <1>3, <1>4, <2>1, ControlsAdvance
  <2>2. CASE ~Durable
    BY <1>8, <2>2 DEF ControlsFollow
  <2> QED
    BY <2>1, <2>2
<1>19. DualControl' /\ TransitionsAudited' /\ ControlFollowsHistory'
  BY <1>17, <1>18, DualIsSigned, TransitionsAreSaid, ControlIsFollowed, PTL
<1> QED
  BY <1>11, <1>12, <1>13, <1>14, <1>15, <1>16, <1>19 DEF AdminInv

(* Every step of administration keeps the invariant.                        *)
LEMMA AdminStep == AdminInv /\ [AdminNext]_adminVars => AdminInv'
<1> SUFFICES ASSUME AdminInv, [AdminNext]_adminVars PROVE AdminInv'
  OBVIOUS
<1>1. CASE UNCHANGED adminVars
  <2>1. UNCHANGED <<profile, db, chainLock, results, known, pending, order>>
    BY <1>1 DEF adminVars, memory
  <2>2. AdminTyped' /\ RequestsFormed' /\ RowsSigned' /\ RowsNext' /\ AuditContiguous'
    BY <2>1 DEF AdminInv, AdminTyped, RequestsFormed, RowsSigned, RowsNext, AuditContiguous,
       AtStep, Durable
  <2>3. AppliedHasRow'
    BY <2>1 DEF AdminInv, AppliedHasRow, Controls, Durable
  <2>4. DualControl' /\ TransitionsAudited'
    BY <2>1 DEF AdminInv, DualControl, TransitionsAudited, Durable
  <2>5. ControlFollowsHistory'
    BY <2>1 DEF AdminInv, ControlFollowsHistory, Durable
  <2> QED
    BY <2>2, <2>3, <2>4, <2>5 DEF AdminInv
<1>2. ASSUME NEW r \in Acts, NEW a \in Actors,
             \/ \E c \in AdminCommands : Request(r, c, a)
             \/ \E i \in CommandIds : Approve(r, i, a)
      PROVE  AdminInv'
  BY <1>2, StartsAndEndsInv
<1>3. ASSUME NEW r \in Acts, NEW a \in Actors,
             \E i \in Reversals, o \in known : Compensate(r, i, o, a)
      PROVE  AdminInv'
  BY <1>3, CompensateInv
<1>4. ASSUME NEW r \in Acts, Reject(r) \/ CompensateRecorded(r, TRUE)
      PROVE  AdminInv'
  BY <1>4, RecordsARefusal
<1>5. ASSUME NEW r \in Acts, ApplyFails(r) \/ RollBackAudit(r) \/ CompensateRecorded(r, FALSE)
      PROVE  AdminInv'
  BY <1>5, StartsAndEndsInv
<1>6. ASSUME NEW r \in Acts, Append1(r) PROVE AdminInv'
  BY <1>6, Append1Inv
<1>7. ASSUME NEW r \in Acts, Apply(r) PROVE AdminInv'
  BY <1>7, ApplyInv
<1>8. ASSUME NEW r \in Acts, CommitAudit(r) PROVE AdminInv'
  BY <1>8, CommitAuditInv
<1>9. ASSUME NEW a \in Actors, Dashboard(a) PROVE AdminInv'
  BY <1>9, DashboardInv
<1>10. ASSUME Restart PROVE AdminInv'
  BY <1>10, RestartInv
<1>11. ASSUME NEW r \in Acts, NEW ok \in BOOLEAN, CompensateRecorded(r, ok)
       PROVE  AdminInv'
  <2>1. CASE ok
    <3>1. CompensateRecorded(r, TRUE)
      BY <1>11, <2>1
    <3> QED
      BY <1>4, <3>1
  <2>2. CASE ~ok
    <3>1. CompensateRecorded(r, FALSE)
      BY <1>11, <2>2
    <3> QED
      BY <1>5, <3>1
  <2> QED
    BY <2>1, <2>2
<1> QED
  BY <1>1, <1>2, <1>3, <1>4, <1>5, <1>6, <1>7, <1>8, <1>9, <1>10, <1>11 DEF AdminNext

(* The inductive invariant of administration: tables, maps and the          *)
(* uncommitted rows of every request under way agree.                       *)
THEOREM AdminInvariant == AdminSpec => []AdminInv
  BY AdminInitInv, AdminStep, PTL DEF AdminSpec

(* A control under dual control is changed by nobody alone: its transition  *)
(* was requested by one actor and approved by another, and the approval is  *)
(* in the audit (AdminDualControlService, AdminService.approve).            *)
THEOREM TwoSignatures == AdminSpec => []DualControl
<1>1. AdminInv => DualControl
  BY DEF AdminInv
<1> QED
  BY <1>1, AdminInvariant, PTL

(* The control in force is the newest transition of a history without gap,  *)
(* and no command changes its control twice (admission-control.adapter).    *)
THEOREM ControlsAreHistory == AdminSpec => []ControlFollowsHistory
<1>1. AdminInv => ControlFollowsHistory
  BY DEF AdminInv
<1> QED
  BY <1>1, AdminInvariant, PTL

(* Transitions and the records that say APPLIED commit together, so neither *)
(* is ever without the other.                                               *)
THEOREM ChangesAudited == AdminSpec => []TransitionsAudited
<1>1. AdminInv => TransitionsAudited
  BY DEF AdminInv
<1> QED
  BY <1>1, AdminInvariant, PTL

(* The type invariant of administration; the audit chain has no gap.        *)
THEOREM AdminTypeCorrect == AdminSpec => []AdminTypeOK
<1>1. AdminInv => AdminTypeOK
  <2> SUFFICES ASSUME AdminInv PROVE AdminTypeOK
    OBVIOUS
  <2>1. known \subseteq {c \in known : c.id \in CommandIds}
    BY AdminFacts DEF AdminInv, AdminTyped
  <2>2. \A i \in CommandIds : pending[i] = NotPending \/ pending[i].cmd.id = i
    BY DEF AdminInv, AdminTyped
  <2> QED
    BY <2>1, <2>2 DEF AdminInv, AdminTyped, AuditContiguous, AdminTypeOK
<1> QED
  BY <1>1, AdminInvariant, PTL

---------------------------------------------------------------------------
(* Sessions: what a request of the identity module carries.                 *)

Floors == [version : Versions, gen : 0 .. MaxRevokeAlls]
Locals ==
  [pc : {"idle", "generation", "user", "touch", "in", "create", "write", "trim",
         "revokeAll", "list", "revoke", "verified", "reset", "require", "change"},
   s : Nat, read : Versions, rec : Records, victims : SUBSET Ids, keep : Nat,
   next : {"idle", "create", "trimmed"}, floor : Floors]

(* The sessions up to b that are live.                                      *)
LiveUpTo(b) == {i \in Active : i <= b}

(* A request that has passed a check has a record no older than what stood  *)
(* when it arrived; one that trims leaves no more than the limit of the     *)
(* sessions that existed when it listed them.                               *)
WellReq(c) ==
  /\ c \in Locals /\ c.rec.gen <= generation
  /\ c.pc \in {"generation", "user", "touch", "in"} =>
       c.floor.version <= user.version /\ c.floor.gen <= generation
  /\ c.pc \in {"user", "touch", "in"} => c.rec.gen >= c.floor.gen
  /\ c.pc \in {"touch", "in"} => c.rec.version >= c.floor.version
  /\ c.pc = "require" => c.read # 0
  /\ c.next = "trimmed" =>
       /\ c.pc = "revoke" /\ c.s <= issued
       /\ Cardinality(LiveUpTo(c.s) \ c.victims) <= MaxSessions

RequestsWell ==
  /\ req \in [Requests -> Locals]
  /\ \A r \in Requests : WellReq(req[r])

TablesTyped ==
  /\ user \in Users /\ (user.hash = 0 => user.version = 0)
  /\ challenge \in [Challenges -> [kind : {"none", "verify", "reset", "taken"},
                                   version : Versions]]
  /\ store \in [Ids -> Records]
  /\ generation \in 0 .. MaxRevokeAlls /\ closed \in 0 .. generation
  /\ lock \in Requests \cup {NoReq} /\ issued \in 0 .. MaxIssued
  /\ \A i \in Ids : store[i].gen <= generation /\ (i > issued => store[i].state = "absent")

TakenHeld ==
  \A c \in Challenges : challenge[c].kind = "taken" => \E r \in Requests : At(r, "reset")

(* The sessions of trimmed logins are the ones up to some b, and of those   *)
(* no more than the limit are live.                                         *)
Trimmed ==
  \E b \in 0 .. issued :
    untrimmed = (b + 1) .. issued /\ Cardinality(LiveUpTo(b)) <= MaxSessions

SessionInv == TablesTyped /\ TakenHeld /\ Trimmed /\ RequestsWell

(* Sets of sessions are finite.                                             *)
LEMMA SessionSets ==
  ASSUME NEW S \in SUBSET Ids
  PROVE  IsFiniteSet(S) /\ Cardinality(S) \in Nat
<1>1. IsFiniteSet(Ids)
  BY FS_Interval, SessionsAssumption DEF Ids
<1> QED
  BY <1>1, FS_Subset, FS_CardinalityType

(* A smaller set of sessions has no more of them.                           *)
LEMMA FewerSessions ==
  ASSUME NEW S \in SUBSET Ids, NEW T \in SUBSET S, Cardinality(S) <= MaxSessions
  PROVE  Cardinality(T) <= MaxSessions
<1>1. /\ IsFiniteSet(S) /\ Cardinality(S) \in Nat /\ Cardinality(T) \in Nat
  BY SessionSets
<1>2. Cardinality(T) <= Cardinality(S)
  BY <1>1, FS_Subset
<1> QED
  BY <1>1, <1>2, SessionsAssumption

(* Those with fewer than the limit of newer ones are no more than the       *)
(* limit.                                                                   *)
LEMMA NewestSurvive ==
  ASSUME NEW S \in SUBSET Ids
  PROVE  Cardinality(S \ OverLimit(S)) <= MaxSessions
<1> DEFINE T == S \ OverLimit(S)
<1>1. \A i \in T : i \in S /\ ~(Newer(S, i) >= MaxSessions)
  BY DEF OverLimit
<1>2. S \subseteq Nat
  BY DEF Ids
<1>3. CASE T = {}
  BY <1>3, FS_EmptySet, SessionsAssumption
<1>4. CASE T # {}
  <2>1. PICK least \in T : \A j \in T : least <= j
    <3>1. T \subseteq Nat
      BY <1>2
    <3> HIDE DEF T
    <3> QED
      BY <1>4, <3>1, LeastElement
  <2> DEFINE U == {j \in S : j > least}
  <2>2. ~(Cardinality(U) >= MaxSessions)
    <3>1. Newer(S, least) = Cardinality(U)
      BY DEF Newer
    <3> HIDE DEF T, U
    <3> QED
      BY <1>1, <2>1, <3>1
  <2> HIDE DEF T
  <2>3. T \subseteq U \cup {least}
    <3>1. \A j \in T : j \in S /\ j \in Nat /\ least <= j /\ least \in Nat
      BY <1>1, <1>2, <2>1
    <3> QED
      BY <3>1
  <2>4. U \in SUBSET Ids /\ T \in SUBSET Ids /\ least \notin U
    <3>1. least \in Nat /\ T \subseteq S
      BY <1>1, <1>2, <2>1
    <3>2. U \subseteq S /\ ~(least > least)
      BY <3>1
    <3>3. least \notin U
      BY <3>2
    <3> HIDE DEF U
    <3> QED
      BY <3>1, <3>2, <3>3
  <2> HIDE DEF U
  <2>5. IsFiniteSet(U) /\ Cardinality(U) \in Nat /\ Cardinality(T) \in Nat
    BY <2>4, SessionSets
  <2>6. IsFiniteSet(U \cup {least}) /\ Cardinality(U \cup {least}) = Cardinality(U) + 1
    BY <2>4, <2>5, FS_AddElement
  <2>7. Cardinality(T) <= Cardinality(U) + 1
    BY <2>3, <2>6, FS_Subset
  <2> QED
    BY <2>2, <2>5, <2>7, SessionsAssumption DEF T
<1> QED
  BY <1>3, <1>4

(* Fewer sessions are live, and no more have been created: the sessions of  *)
(* trimmed logins stay within the limit.                                    *)
LEMMA TrimmedStays ==
  ASSUME TablesTyped, Trimmed, issued' = issued, untrimmed' = untrimmed, Active' \subseteq Active
  PROVE  Trimmed'
<1>1. PICK b \in 0 .. issued :
         untrimmed = (b + 1) .. issued /\ Cardinality(LiveUpTo(b)) <= MaxSessions
  BY DEF Trimmed
<1>2. LiveUpTo(b) \in SUBSET Ids /\ LiveUpTo(b)' \in SUBSET LiveUpTo(b)
  BY DEF LiveUpTo, Active
<1>3. Cardinality(LiveUpTo(b)') <= MaxSessions
  BY <1>1, <1>2, FewerSessions
<1>4. Cardinality(LiveUpTo(b))' <= MaxSessions
  BY <1>3
<1> QED
  BY <1>1, <1>4 DEF Trimmed

(* The tables only move forward: what is true of a request's locals stays   *)
(* true.                                                                    *)
TablesForward ==
  /\ user.version <= user'.version /\ generation <= generation' /\ issued <= issued'
  /\ \A i \in Active' : i \in Active \/ i > issued

LEMMA WellReqStays ==
  ASSUME TablesTyped, TablesTyped', TablesForward, NEW c, WellReq(c)
  PROVE  WellReq(c)'
<1>1. /\ user.version \in Nat /\ user'.version \in Nat /\ generation \in Nat /\ generation' \in Nat
      /\ issued \in Nat /\ issued' \in Nat
  BY SessionsAssumption DEF TablesTyped, Users, Versions
<1>2. /\ c \in Locals /\ c.rec.gen \in Nat /\ c.floor.version \in Nat /\ c.floor.gen \in Nat
      /\ c.s \in Nat
  BY SessionsAssumption DEF WellReq, Locals, Records, Floors, Versions
<1>3. ASSUME c.next = "trimmed"
      PROVE  c.pc = "revoke" /\ c.s <= issued' /\ Cardinality(LiveUpTo(c.s)' \ c.victims) <= MaxSessions
  <2>1. c.pc = "revoke" /\ c.s <= issued /\ Cardinality(LiveUpTo(c.s) \ c.victims) <= MaxSessions
    BY <1>3 DEF WellReq
  <2>2. LiveUpTo(c.s) \ c.victims \in SUBSET Ids
    BY DEF LiveUpTo, Active
  <2>3. LiveUpTo(c.s)' \subseteq LiveUpTo(c.s)
    <3> SUFFICES ASSUME NEW i \in Active', i <= c.s PROVE i \in Active
      BY DEF LiveUpTo
    <3>1. i \in Nat
      BY DEF Active, Ids
    <3> QED
      BY <1>1, <1>2, <2>1, <3>1 DEF TablesForward
  <2>4. LiveUpTo(c.s)' \ c.victims \in SUBSET (LiveUpTo(c.s) \ c.victims)
    BY <2>3
  <2>5. Cardinality(LiveUpTo(c.s)' \ c.victims) <= MaxSessions
    BY <2>1, <2>2, <2>4, FewerSessions
  <2>6. c.s <= issued'
    BY <1>1, <1>2, <2>1 DEF TablesForward
  <2> QED
    BY <2>1, <2>5, <2>6
<1>4. c.rec.gen <= generation'
  BY <1>1, <1>2 DEF WellReq, TablesForward
<1>5. c.pc \in {"generation", "user", "touch", "in"} =>
        c.floor.version <= user'.version /\ c.floor.gen <= generation'
  BY <1>1, <1>2 DEF WellReq, TablesForward
<1> QED
  BY <1>2, <1>3, <1>4, <1>5 DEF WellReq

(* One request moves, the others keep their locals.                         *)
LEMMA RequestMoves ==
  ASSUME RequestsWell, TablesTyped, TablesTyped', TablesForward,
         NEW r \in Requests, NEW d, WellReq(d)', req' = [req EXCEPT ![r] = d]
  PROVE  RequestsWell'
<1>1. req \in [Requests -> Locals]
  BY DEF RequestsWell
<1>2. d \in Locals
  BY DEF WellReq
<1>3. req' \in [Requests -> Locals] /\ req'[r] = d
  BY <1>1, <1>2
<1>4. ASSUME NEW q \in Requests, q # r PROVE WellReq(req[q])'
  <2> PICK e : e = req[q]
    OBVIOUS
  <2>1. WellReq(e)
    BY DEF RequestsWell
  <2>2. req'[q] = e
    BY <1>1, <1>4
  <2>3. WellReq(e)'
    BY <2>1, WellReqStays
  <2> QED
    BY <2>2, <2>3
<1>5. WellReq(req[r])'
  BY <1>3
<1> QED
  BY <1>3, <1>4, <1>5 DEF RequestsWell

(* No request moves.                                                        *)
LEMMA RequestsRest ==
  ASSUME RequestsWell, TablesTyped, TablesTyped', TablesForward, req' = req
  PROVE  RequestsWell'
<1>1. req' \in [Requests -> Locals]
  BY DEF RequestsWell
<1>2. ASSUME NEW q \in Requests PROVE WellReq(req[q])'
  <2> PICK e : e = req[q]
    OBVIOUS
  <2>1. WellReq(e)
    BY DEF RequestsWell
  <2>2. WellReq(e)'
    BY <2>1, WellReqStays
  <2> QED
    BY <2>2
<1> QED
  BY <1>1, <1>2 DEF RequestsWell

(* A request moves on with the tables at rest.                              *)
LEMMA RequestGoesOn ==
  ASSUME SessionInv, NEW r \in Requests, NEW d, WellReq(d), req' = [req EXCEPT ![r] = d],
         UNCHANGED <<user, store, generation, issued, closed, untrimmed>>,
         lock' \in Requests \cup {NoReq},
         challenge' \in [Challenges -> [kind : {"none", "verify", "reset", "taken"},
                                        version : Versions]],
         (challenge' = challenge /\ req[r].pc # "reset") \/ TakenHeld'
  PROVE  SessionInv'
<1>1. TablesTyped /\ TablesTyped' /\ TakenHeld /\ Trimmed /\ RequestsWell
  BY DEF SessionInv, TablesTyped
<1>2. Active' = Active /\ TablesForward
  <2>1. Active' = Active
    BY DEF Active
  <2>2. user.version \in Nat /\ generation \in Nat /\ issued \in Nat
    BY <1>1, SessionsAssumption DEF TablesTyped, Users, Versions
  <2> QED
    BY <2>1, <2>2 DEF TablesForward
<1>3. Trimmed'
  BY <1>1, <1>2, TrimmedStays
<1>4. RequestsWell'
  <2>1. WellReq(d)'
    BY <1>1, <1>2, WellReqStays
  <2> QED
    BY <1>1, <1>2, <2>1, RequestMoves
<1>5. TakenHeld'
  <2>1. ASSUME challenge' = challenge, req[r].pc # "reset" PROVE TakenHeld'
    <3>1. \A q \in Requests : At(q, "reset") => At(q, "reset")'
      <4>1. \A q \in Requests : q # r => req'[q] = req[q]
        BY <1>1 DEF RequestsWell
      <4> QED
        BY <2>1, <4>1 DEF At
    <3> QED
      BY <1>1, <2>1, <3>1 DEF TakenHeld
  <2> QED
    BY <2>1
<1> QED
  BY <1>1, <1>3, <1>4, <1>5 DEF SessionInv

(* Outside authentication and trimming nothing is asked of a request but    *)
(* its types.                                                               *)
LEMMA CalmIsWell ==
  ASSUME NEW d \in Locals, d.rec.gen <= generation, d.next # "trimmed",
         d.pc \notin {"generation", "user", "touch", "in"}, d.pc = "require" => d.read # 0
  PROVE  WellReq(d)
  BY DEF WellReq

(* A request at rest.                                                       *)
LEMMA QuietIsWell ==
  ASSUME TablesTyped
  PROVE  /\ Quiet \in Locals /\ WellReq(Quiet)
         /\ Quiet.rec.gen = 0 /\ 0 <= generation /\ Quiet.next = "idle"
<1>1. Absent \in Records /\ Absent.gen = 0
  BY SessionsAssumption DEF Absent, Records, Versions
<1>2. [version |-> 0, gen |-> 0] \in Floors
  BY SessionsAssumption DEF Floors, Versions
<1>3. 0 \in Versions
  BY SessionsAssumption DEF Versions
<1>4. /\ Quiet \in Locals /\ Quiet.rec.gen = 0 /\ Quiet.pc = "idle" /\ Quiet.next = "idle"
  BY <1>1, <1>2, <1>3 DEF Quiet, Locals
<1>5. 0 <= generation
  BY SessionsAssumption DEF TablesTyped
<1> QED
  BY <1>4, <1>5, CalmIsWell

(* What the invariant says of a request and of the tables.                  *)
LEMMA RequestFacts ==
  ASSUME SessionInv, NEW r \in Requests
  PROVE  /\ TablesTyped /\ TakenHeld /\ Trimmed /\ RequestsWell
         /\ req[r] \in Locals /\ WellReq(req[r])
         /\ generation \in Nat /\ closed \in Nat /\ issued \in Nat
         /\ user \in Users /\ user.version \in Nat
  BY SessionsAssumption DEF SessionInv, RequestsWell, TablesTyped, Users, Versions

(* Authentication: the record read is compared with the generation, then    *)
(* with the credential, each no older than when the request arrived.        *)
LEMMA AuthenticationInv ==
  ASSUME SessionInv, NEW r \in Requests,
         (\E s \in Ids : Arrive(r, s)) \/ CheckGeneration(r) \/ CheckUser(r)
  PROVE  SessionInv'
<1>1. /\ TablesTyped /\ req[r] \in Locals /\ WellReq(req[r])
      /\ generation \in Nat /\ closed \in Nat /\ user.version \in Nat
      /\ Quiet \in Locals /\ WellReq(Quiet)
  BY RequestFacts, QuietIsWell
<1>2. /\ lock \in Requests \cup {NoReq}
      /\ challenge \in [Challenges -> [kind : {"none", "verify", "reset", "taken"},
                                        version : Versions]]
      /\ closed <= generation /\ closed \in 0 .. MaxRevokeAlls /\ user.version \in Versions
  <2>1. closed \in 0 .. generation /\ generation \in 0 .. MaxRevokeAlls
    BY <1>1 DEF TablesTyped
  <2> QED
    BY <1>1, <2>1, SessionsAssumption DEF TablesTyped, Users
<1>3. ASSUME NEW s \in Ids, Arrive(r, s) PROVE SessionInv'
  <2> PICK d : d = [Quiet EXCEPT !.pc = "generation", !.s = s, !.rec = store[s],
                            !.floor = [version |-> user.version, gen |-> closed]]
    OBVIOUS
  <2>1. store[s] \in Records /\ store[s].gen <= generation /\ s \in Nat
    BY <1>1 DEF TablesTyped, Ids
  <2>2. /\ d \in Locals /\ d.pc = "generation" /\ d.rec = store[s] /\ d.next = "idle"
        /\ d.floor.version = user.version /\ d.floor.gen = closed
    BY <1>1, <1>2, <2>1 DEF Quiet, Locals, Floors
  <2>3. WellReq(d)
    BY <1>1, <1>2, <2>1, <2>2 DEF WellReq
  <2> QED
    BY <1>2, <1>3, <2>3, RequestGoesOn DEF Arrive, Goto, At
<1>4. CASE CheckGeneration(r)
  <2> PICK d : d = IF Current(req[r].rec) THEN [req[r] EXCEPT !.pc = "user"] ELSE Quiet
    OBVIOUS
  <2>1. req[r].pc = "generation" /\ req' = [req EXCEPT ![r] = d]
    BY <1>4 DEF CheckGeneration, At, Goto
  <2>2. CASE Current(req[r].rec)
    <3>1. /\ d \in Locals /\ d.pc = "user" /\ d.rec = req[r].rec /\ d.floor = req[r].floor
          /\ d.next = req[r].next /\ d.s = req[r].s /\ d.victims = req[r].victims
      BY <1>1, <2>2 DEF Locals
    <3>2. /\ req[r].rec.gen >= generation /\ req[r].floor.gen <= generation
          /\ req[r].rec.gen \in Nat /\ req[r].floor.gen \in Nat
      BY <1>1, <2>1, <2>2 DEF Current, WellReq, Locals, Records, Floors
    <3>3. req[r].rec.gen >= req[r].floor.gen
      BY <1>1, <3>2
    <3>4. WellReq(d)
      BY <1>1, <2>1, <3>1, <3>3 DEF WellReq
    <3> QED
      BY <1>2, <1>4, <2>1, <3>4, RequestGoesOn DEF CheckGeneration
  <2>3. CASE ~Current(req[r].rec)
    BY <1>1, <1>2, <1>4, <2>1, <2>3, RequestGoesOn DEF CheckGeneration
  <2> QED
    BY <2>2, <2>3
<1>5. CASE CheckUser(r)
  <2> PICK d : d = IF Matches(req[r].rec) THEN [req[r] EXCEPT !.pc = "touch"] ELSE Quiet
    OBVIOUS
  <2>1. req[r].pc = "user" /\ req' = [req EXCEPT ![r] = d]
    BY <1>5 DEF CheckUser, At, Goto
  <2>2. CASE Matches(req[r].rec)
    <3>1. /\ d \in Locals /\ d.pc = "touch" /\ d.rec = req[r].rec /\ d.floor = req[r].floor
          /\ d.next = req[r].next /\ d.s = req[r].s /\ d.victims = req[r].victims
      BY <1>1, <2>2 DEF Locals
    <3>2. req[r].rec.version = user.version /\ req[r].floor.version <= user.version
      BY <1>1, <2>1, <2>2 DEF Matches, WellReq
    <3>3. WellReq(d)
      BY <1>1, <2>1, <3>1, <3>2 DEF WellReq
    <3> QED
      BY <1>2, <1>5, <2>1, <3>3, RequestGoesOn DEF CheckUser
  <2>3. CASE ~Matches(req[r].rec)
    BY <1>1, <1>2, <1>5, <2>1, <2>3, RequestGoesOn DEF CheckUser
  <2> QED
    BY <2>2, <2>3
<1> QED
  BY <1>3, <1>4, <1>5

(* Steps that only move the locals of a request, or take the lock.          *)
LEMMA LocalStepInv ==
  ASSUME SessionInv, NEW r \in Requests,
         \/ Login(r) \/ AdminRead(r) \/ AdminRevokeAll(r) \/ LogoutAll(r) \/ ChangeRead(r)
         \/ Answer(r) \/ CreateRead(r) \/ RevokeAllList(r)
  PROVE  SessionInv'
<1>1. /\ TablesTyped /\ req[r] \in Locals /\ WellReq(req[r])
      /\ generation \in Nat /\ Quiet \in Locals /\ WellReq(Quiet)
      /\ Quiet.rec.gen = 0 /\ 0 <= generation /\ Quiet.next = "idle"
  BY RequestFacts, QuietIsWell
<1>2. /\ lock \in Requests \cup {NoReq}
      /\ challenge \in [Challenges -> [kind : {"none", "verify", "reset", "taken"},
                                        version : Versions]]
      /\ user.version \in Versions /\ user.hash \in Versions /\ generation \in 0 .. MaxRevokeAlls
  BY <1>1 DEF TablesTyped, Users
<1>3. CASE Login(r)
  <2> PICK d : d = [Quiet EXCEPT !.pc = "create", !.read = user.version]
    OBVIOUS
  <2>1. d \in Locals /\ d.rec = Quiet.rec /\ d.next = "idle" /\ d.pc = "create"
    BY <1>1, <1>2 DEF Quiet, Locals
  <2>2. WellReq(d)
    BY <1>1, <2>1, CalmIsWell
  <2> QED
    BY <1>2, <1>3, <2>2, RequestGoesOn DEF Login, Goto, At
<1>4. CASE AdminRead(r)
  <2> PICK d : d = [Quiet EXCEPT !.pc = "require", !.read = user.hash]
    OBVIOUS
  <2>1. d \in Locals /\ d.rec = Quiet.rec /\ d.next = "idle" /\ d.pc = "require" /\ d.read # 0
    BY <1>1, <1>2, <1>4 DEF Quiet, Locals, AdminRead
  <2>2. WellReq(d)
    BY <1>1, <2>1, CalmIsWell
  <2> QED
    BY <1>2, <1>4, <2>2, RequestGoesOn DEF AdminRead, Goto, At
<1>5. CASE AdminRevokeAll(r) \/ LogoutAll(r)
  <2> PICK d : d = [Quiet EXCEPT !.pc = "revokeAll"]
    OBVIOUS
  <2>1. d \in Locals /\ d.rec = Quiet.rec /\ d.next = "idle" /\ d.pc = "revokeAll"
    BY <1>1 DEF Quiet, Locals
  <2>2. WellReq(d)
    BY <1>1, <2>1, CalmIsWell
  <2> QED
    BY <1>2, <1>5, <2>2, RequestGoesOn DEF AdminRevokeAll, LogoutAll, Goto, At
<1>6. CASE ChangeRead(r)
  <2> PICK d : d = [Quiet EXCEPT !.pc = "change", !.s = req[r].s]
    OBVIOUS
  <2>1. d \in Locals /\ d.rec = Quiet.rec /\ d.next = "idle" /\ d.pc = "change"
    BY <1>1 DEF Quiet, Locals
  <2>2. WellReq(d)
    BY <1>1, <2>1, CalmIsWell
  <2> QED
    BY <1>2, <1>6, <2>2, RequestGoesOn DEF ChangeRead, Goto, At
<1>7. CASE Answer(r)
  BY <1>1, <1>2, <1>7, RequestGoesOn DEF Answer, Goto, At
<1>8. CASE CreateRead(r)
  <2> PICK d : d = [req[r] EXCEPT !.pc = "write", !.rec =
       [state |-> "live", version |-> req[r].read, gen |-> generation]]
    OBVIOUS
  <2>1. /\ d \in Locals /\ d.rec.gen = generation /\ d.next = req[r].next /\ d.pc = "write"
    BY <1>1, <1>2 DEF Locals, Records
  <2>2. req[r].next # "trimmed"
    <3>1. req[r].pc = "create"
      BY <1>8 DEF CreateRead, At
    <3> QED
      BY <1>1, <3>1 DEF WellReq
  <2>3. d.rec.gen <= generation /\ d.pc \notin {"generation", "user", "touch", "in", "require"}
    BY <1>1, <2>1
  <2>4. WellReq(d)
    BY <2>1, <2>2, <2>3, CalmIsWell
  <2> QED
    BY <1>2, <1>8, <2>4, RequestGoesOn DEF CreateRead, TakeLock, Goto, At
<1>9. CASE RevokeAllList(r)
  <2> PICK d : d = [req[r] EXCEPT !.pc = "revoke", !.victims = Active \ {req[r].keep}]
    OBVIOUS
  <2>1. d \in Locals /\ d.rec = req[r].rec /\ d.next = req[r].next /\ d.pc = "revoke"
    BY <1>1 DEF Locals, Active
  <2>2. req[r].next # "trimmed" /\ req[r].rec.gen <= generation
    BY <1>1, <1>9 DEF RevokeAllList, At, WellReq
  <2>3. WellReq(d)
    BY <1>1, <2>1, <2>2, CalmIsWell
  <2> QED
    BY <1>2, <1>9, <2>3, RequestGoesOn DEF RevokeAllList, Goto, At
<1> QED
  BY <1>3, <1>4, <1>5, <1>6, <1>7, <1>8, <1>9

(* A trim lists what is over the limit: of the sessions there are, the      *)
(* newest remain.                                                           *)
LEMMA TrimListInv ==
  ASSUME SessionInv, NEW r \in Requests, TrimList(r)
  PROVE  SessionInv'
<1>1. TablesTyped /\ req[r] \in Locals /\ WellReq(req[r]) /\ issued \in Nat
  BY RequestFacts
<1> PICK d : d = [req[r] EXCEPT !.pc = "revoke", !.victims = OverLimit(Active),
                            !.next = "trimmed", !.s = issued]
  OBVIOUS
<1>2. /\ d \in Locals /\ d.pc = "revoke" /\ d.rec = req[r].rec /\ d.s = issued
      /\ d.victims = OverLimit(Active)
  BY <1>1 DEF Locals, OverLimit, Active
<1>3. Cardinality(LiveUpTo(d.s) \ d.victims) <= MaxSessions
  <2>1. Active \in SUBSET Ids
    BY DEF Active
  <2>2. Cardinality(Active \ OverLimit(Active)) <= MaxSessions
    BY <2>1, NewestSurvive
  <2>3. Active \ OverLimit(Active) \in SUBSET Ids
    BY <2>1
  <2>4. LiveUpTo(d.s) \ d.victims \in SUBSET (Active \ OverLimit(Active))
    BY <1>2 DEF LiveUpTo
  <2> QED
    BY <2>2, <2>3, <2>4, FewerSessions
<1>4. WellReq(d)
  BY <1>1, <1>2, <1>3 DEF WellReq
<1>5. /\ lock' \in Requests \cup {NoReq} /\ challenge' = challenge /\ req[r].pc # "reset"
      /\ req' = [req EXCEPT ![r] = d]
      /\ UNCHANGED <<user, store, generation, issued, closed, untrimmed>>
  BY DEF TrimList, TakeLock, Goto, At
<1> QED
  BY <1>1, <1>4, <1>5, RequestGoesOn DEF TablesTyped

(* The challenges: rows come and go, and are taken by a reset under way     *)
(* only.                                                                    *)
LEMMA ChallengeStepInv ==
  ASSUME SessionInv, NEW r \in Requests,
         (\E c \in Challenges : ConfirmEmail(r, c) \/ ResetConsume(r, c)) \/ Fail(r)
  PROVE  SessionInv'
<1> DEFINE ChallengeTable == [Challenges -> [kind : {"none", "verify", "reset", "taken"}, version : Versions]]
<1>1. /\ TablesTyped /\ TakenHeld /\ req \in [Requests -> Locals]
      /\ Quiet \in Locals /\ WellReq(Quiet) /\ challenge \in ChallengeTable
      /\ lock \in Requests \cup {NoReq}
      /\ Quiet.rec.gen = 0 /\ 0 <= generation /\ Quiet.next = "idle"
  BY RequestFacts, QuietIsWell DEF TablesTyped, RequestsWell
<1>2. ASSUME NEW c \in Challenges, ConfirmEmail(r, c) PROVE SessionInv'
  <2> PICK d : d = [Quiet EXCEPT !.pc = "verified"]
    OBVIOUS
  <2>1. d \in Locals /\ d.rec = Quiet.rec /\ d.next = "idle" /\ d.pc = "verified"
    BY <1>1 DEF Quiet, Locals
  <2>2. WellReq(d)
    BY <1>1, <2>1, CalmIsWell
  <2>3. req' = [req EXCEPT ![r] = d] /\ req[r].pc = "idle" /\ lock' = lock
        /\ UNCHANGED <<user, store, generation, issued, closed, untrimmed>>
        /\ challenge' = [challenge EXCEPT ![c] = NoChallenge]
    BY <1>2 DEF ConfirmEmail, Goto, At
  <2>4. challenge' \in ChallengeTable
    BY <1>1, <2>3, SessionsAssumption DEF NoChallenge, Versions
  <2>5. TakenHeld'
    <3>1. \A q \in Requests : At(q, "reset") => At(q, "reset")'
      BY <1>1, <2>3 DEF At
    <3>2. \A e \in Challenges : challenge'[e].kind = "taken" => challenge[e].kind = "taken"
      BY <1>1, <2>3 DEF NoChallenge
    <3> QED
      BY <1>1, <3>1, <3>2 DEF TakenHeld
  <2> HIDE DEF ChallengeTable
  <2> QED
    BY <1>1, <2>2, <2>3, <2>4, <2>5, RequestGoesOn DEF ChallengeTable
<1>3. ASSUME NEW c \in Challenges, ResetConsume(r, c) PROVE SessionInv'
  <2> PICK d : d = [Quiet EXCEPT !.pc = "reset"]
    OBVIOUS
  <2>1. d \in Locals /\ d.rec = Quiet.rec /\ d.next = "idle" /\ d.pc = "reset"
    BY <1>1 DEF Quiet, Locals
  <2>2. WellReq(d)
    BY <1>1, <2>1, CalmIsWell
  <2>3. req' = [req EXCEPT ![r] = d] /\ req[r].pc = "idle" /\ lock' = lock
        /\ UNCHANGED <<user, store, generation, issued, closed, untrimmed>>
        /\ challenge' = [challenge EXCEPT ![c].kind = "taken"]
    BY <1>3 DEF ResetConsume, Goto, At
  <2>4. challenge' \in ChallengeTable
    BY <1>1, <2>3
  <2>5. TakenHeld'
    <3>1. At(r, "reset")'
      BY <1>1, <2>1, <2>3 DEF At
    <3> QED
      BY <3>1 DEF TakenHeld
  <2> HIDE DEF ChallengeTable
  <2> QED
    BY <1>1, <2>2, <2>3, <2>4, <2>5, RequestGoesOn DEF ChallengeTable
<1>4. CASE Fail(r)
  <2>1. req' = [req EXCEPT ![r] = Quiet] /\ lock' \in Requests \cup {NoReq}
        /\ UNCHANGED <<user, store, generation, issued, closed, untrimmed>>
        /\ challenge' = RolledBack(r)
    BY <1>1, <1>4 DEF Fail, Goto
  <2>2. challenge' \in ChallengeTable
    BY <1>1, <2>1 DEF RolledBack
  <2>3. TakenHeld'
    <3>1. CASE At(r, "reset")
      <4>1. \A e \in Challenges : challenge'[e].kind # "taken"
        BY <1>1, <2>1, <3>1 DEF RolledBack
      <4> QED
        BY <4>1 DEF TakenHeld
    <3>2. CASE ~At(r, "reset")
      <4>1. \A q \in Requests : At(q, "reset") => At(q, "reset")'
        BY <1>1, <2>1, <3>2 DEF At
      <4>2. \A e \in Challenges : challenge'[e] = challenge[e]
        BY <1>1, <2>1, <3>2 DEF RolledBack
      <4> QED
        BY <1>1, <4>1, <4>2 DEF TakenHeld
    <3> QED
      BY <3>1, <3>2
  <2> HIDE DEF ChallengeTable
  <2> QED
    BY <1>1, <2>1, <2>2, <2>3, RequestGoesOn DEF ChallengeTable
<1> QED
  BY <1>2, <1>3, <1>4

(* The request that moves does not hold a challenge, and none is taken.     *)
LEMMA HeldStays ==
  ASSUME SessionInv, NEW r \in Requests, NEW d, req' = [req EXCEPT ![r] = d], req[r].pc # "reset",
         \A c \in Challenges : challenge'[c].kind = "taken" => challenge[c].kind = "taken"
  PROVE  TakenHeld'
<1>1. TakenHeld /\ req \in [Requests -> Locals]
  BY RequestFacts DEF RequestsWell
<1>2. \A q \in Requests : At(q, "reset") => At(q, "reset")'
  BY <1>1 DEF At
<1> QED
  BY <1>1, <1>2 DEF TakenHeld

(* The tables move forward and no session is created: what is left to show  *)
(* is the types, the locals of the request and who holds the challenges.    *)
LEMMA TablesMove ==
  ASSUME SessionInv, NEW r \in Requests, NEW d, WellReq(d)', req' = [req EXCEPT ![r] = d],
         TablesTyped', TakenHeld', user.version <= user'.version, generation <= generation',
         UNCHANGED <<issued, untrimmed>>, Active' \subseteq Active
  PROVE  SessionInv'
<1>1. TablesTyped /\ Trimmed /\ RequestsWell /\ issued \in Nat
  BY RequestFacts
<1>2. TablesForward
  BY <1>1 DEF TablesForward
<1>3. Trimmed'
  BY <1>1, TrimmedStays
<1>4. RequestsWell'
  BY <1>1, <1>2, RequestMoves
<1> QED
  BY <1>3, <1>4 DEF SessionInv

(* A password is set: another version of the credential.                    *)
LEMMA PasswordSet ==
  ASSUME TablesTyped, NEW hash \in Versions \ {0}, NEW must \in BOOLEAN, SetPassword(hash, must)
  PROVE  /\ user' \in Users /\ user'.hash # 0 /\ user'.version = user.version + 1
         /\ user.version \in Nat
<1>1. /\ user \in Users /\ user.version \in Nat /\ user.version + 1 \in Versions
  BY SessionsAssumption DEF TablesTyped, SetPassword, Users, Versions
<1>2. user' = [user EXCEPT !.hash = hash, !.version = @ + 1, !.reset = must]
  BY DEF SetPassword
<1>3. user' = [hash |-> hash, version |-> user.version + 1, reset |-> must,
               verified |-> user.verified]
  BY <1>1, <1>2 DEF Users
<1> QED
  BY <1>1, <1>3 DEF Users

(* A change of the credential only raises its version.                      *)
LEMMA CredentialRises ==
  ASSUME SessionInv, NEW r \in Requests,
         Register(r) \/ MarkVerified(r) \/ ResetWrite(r) \/ AdminRequire(r) \/ ChangeWrite(r)
  PROVE  /\ user' \in Users /\ user.version <= user'.version
         /\ user'.hash = 0 => user'.version = 0
<1>1. /\ TablesTyped /\ req[r] \in Locals /\ WellReq(req[r]) /\ user \in Users /\ user.version \in Nat
  BY RequestFacts
<1>2. CASE ResetWrite(r) \/ ChangeWrite(r)
  <2>1. SetPassword(user.version + 1, FALSE)
    BY <1>2 DEF ResetWrite, ChangeWrite
  <2>2. user.version + 1 \in Versions \ {0}
    BY <1>1, <2>1, SessionsAssumption DEF SetPassword, Versions
  <2>3. user' \in Users /\ user'.hash # 0 /\ user'.version = user.version + 1
    BY <1>1, <2>1, <2>2, PasswordSet
  <2> QED
    BY <1>1, <2>3
<1>3. CASE AdminRequire(r)
  <2>1. SetPassword(req[r].read, TRUE) /\ req[r].pc = "require"
    BY <1>3 DEF AdminRequire, At
  <2>2. req[r].read \in Versions \ {0}
    BY <1>1, <2>1 DEF WellReq, Locals
  <2>3. user' \in Users /\ user'.hash # 0 /\ user'.version = user.version + 1
    BY <1>1, <2>1, <2>2, PasswordSet
  <2> QED
    BY <1>1, <2>3
<1>4. CASE MarkVerified(r)
  <2>1. user' = [user EXCEPT !.verified = TRUE]
    BY <1>4 DEF MarkVerified
  <2>2. user' = [hash |-> user.hash, version |-> user.version, reset |-> user.reset, verified |-> TRUE]
    BY <1>1, <2>1 DEF Users
  <2> QED
    BY <1>1, <2>2 DEF Users, TablesTyped
<1>5. CASE Register(r)
  <2>1. user.hash = 0 /\ user' = [hash |-> 1, version |-> 1, reset |-> FALSE, verified |-> FALSE]
    BY <1>5 DEF Register
  <2>2. user.version = 0 /\ 1 \in Versions
    BY <1>1, <2>1, SessionsAssumption DEF TablesTyped, Versions
  <2> QED
    BY <2>1, <2>2 DEF Users
<1> QED
  BY <1>2, <1>3, <1>4, <1>5

(* ... and the requests that make one go on without a claim to be fresh.    *)
LEMMA CredentialStepInv ==
  ASSUME SessionInv, NEW r \in Requests,
         Register(r) \/ MarkVerified(r) \/ ResetWrite(r) \/ AdminRequire(r) \/ ChangeWrite(r)
  PROVE  SessionInv'
<1> DEFINE ChallengeTable == [Challenges -> [kind : {"none", "verify", "reset", "taken"}, version : Versions]]
<1>1. /\ TablesTyped /\ req[r] \in Locals /\ user.version \in Nat
      /\ generation \in Nat /\ Quiet \in Locals /\ challenge \in ChallengeTable
      /\ Quiet.rec.gen = 0 /\ 0 <= generation /\ Quiet.next = "idle"
  BY RequestFacts, QuietIsWell DEF TablesTyped
<1>2. /\ user' \in Users /\ user.version <= user'.version
      /\ user'.hash = 0 => user'.version = 0
  BY CredentialRises
<1>3. /\ UNCHANGED <<store, generation, lock, issued, closed, untrimmed>>
  BY DEF Register, MarkVerified, ResetWrite, AdminRequire, ChangeWrite
<1>4. \/ req[r].pc # "reset" /\ challenge' = challenge
      \/ ResetWrite(r)
  BY DEF Register, MarkVerified, AdminRequire, ChangeWrite, At
<1>5. challenge' \in ChallengeTable
  <2>1. CASE ResetWrite(r)
    BY <1>1, <2>1, SessionsAssumption DEF ResetWrite, NoChallenge, Versions
  <2> QED
    BY <1>1, <1>4, <2>1
<1>6. TablesTyped'
  BY <1>1, <1>2, <1>3, <1>5 DEF TablesTyped
<1>7. PICK d \in Locals : /\ req' = [req EXCEPT ![r] = d] /\ d.rec = Quiet.rec
                          /\ d.pc \in {"idle", "create", "revokeAll"} /\ d.next \in {"idle", "create"}
  <2>1. user'.version \in Versions
    BY <1>2 DEF Users
  <2>2. CASE Register(r)
    <3>1. req' = [req EXCEPT ![r] = [Quiet EXCEPT !.pc = "create", !.read = user'.version]]
      BY <2>2 DEF Register, Goto
    <3>2. [Quiet EXCEPT !.pc = "create", !.read = user'.version] \in Locals
      BY <1>1, <2>1 DEF Locals
    <3> QED
      BY <3>1, <3>2 DEF Quiet
  <2>3. CASE MarkVerified(r)
    BY <1>1, <2>3 DEF MarkVerified, Goto, Quiet
  <2>4. CASE ResetWrite(r) \/ AdminRequire(r)
    <3>1. req' = [req EXCEPT ![r] = [Quiet EXCEPT !.pc = "revokeAll"]]
      BY <2>4 DEF ResetWrite, AdminRequire, Goto
    <3>2. [Quiet EXCEPT !.pc = "revokeAll"] \in Locals
      BY <1>1 DEF Locals
    <3> QED
      BY <3>1, <3>2 DEF Quiet
  <2>5. CASE ChangeWrite(r)
    <3>1. PICK keep \in {0, req[r].s} :
            req' = [req EXCEPT ![r] = [Quiet EXCEPT !.pc = "revokeAll", !.read = user'.version,
                                       !.keep = keep, !.next = "create"]]
      BY <2>5 DEF ChangeWrite, Goto
    <3>2. keep \in Nat
      BY <1>1 DEF Locals
    <3>3. [Quiet EXCEPT !.pc = "revokeAll", !.read = user'.version,
                                       !.keep = keep, !.next = "create"] \in Locals
      BY <1>1, <2>1, <3>2 DEF Locals
    <3> QED
      BY <3>1, <3>3 DEF Quiet
  <2> QED
    BY <2>2, <2>3, <2>4, <2>5
<1>8. WellReq(d)'
  <2>1. WellReq(d)
    BY <1>1, <1>7, CalmIsWell
  <2>2. TablesForward
    <3>1. Active' = Active /\ issued \in Nat
      BY <1>3, RequestFacts DEF Active
    <3> QED
      BY <1>1, <1>2, <1>3, <3>1 DEF TablesForward
  <2> QED
    BY <1>1, <1>6, <2>1, <2>2, WellReqStays
<1>9. TakenHeld'
  <2>1. CASE ResetWrite(r)
    <3>1. \A c \in Challenges : challenge'[c].kind # "taken"
      BY <1>1, <2>1 DEF ResetWrite, NoChallenge
    <3> QED
      BY <3>1 DEF TakenHeld
  <2>2. CASE req[r].pc # "reset" /\ challenge' = challenge
    BY <1>7, <2>2, HeldStays
  <2> QED
    BY <1>4, <2>1, <2>2
<1>10. Active' \subseteq Active /\ generation <= generation' /\ UNCHANGED <<issued, untrimmed>>
  BY <1>1, <1>3 DEF Active
<1> HIDE DEF ChallengeTable
<1> QED
  BY <1>1, <1>2, <1>3, <1>6, <1>7, <1>8, <1>9, <1>10, TablesMove

(* A record that is revoked, or whose TTL ends, is live no more.            *)
LEMMA RevokedGoes ==
  ASSUME TablesTyped, NEW s \in Ids, store' = Revoked(s),
         UNCHANGED <<user, challenge, generation, closed, issued>>, lock' \in Requests \cup {NoReq}
  PROVE  TablesTyped' /\ Active' = Active \ {s}
<1>1. /\ Absent \in Records /\ Absent.gen = 0 /\ Absent.state = "absent"
      /\ store \in [Ids -> Records] /\ generation \in Nat
  BY SessionsAssumption DEF TablesTyped, Absent, Records, Versions
<1>2. store' = [store EXCEPT ![s] = Absent]
  BY DEF Revoked
<1>3. /\ store' \in [Ids -> Records] /\ store'[s] = Absent
      /\ \A i \in Ids : i # s => store'[i] = store[i]
  BY <1>1, <1>2
<1>4. \A i \in Ids : store'[i].gen <= generation /\ (i > issued => store'[i].state = "absent")
  BY <1>1, <1>3 DEF TablesTyped
<1>5. Active' = Active \ {s}
  BY <1>1, <1>3 DEF Active
<1> QED
  BY <1>3, <1>4, <1>5 DEF TablesTyped

(* The script of the session guard leaves live what was live.               *)
LEMMA TouchInv ==
  ASSUME SessionInv, NEW r \in Requests, Touch(r)
  PROVE  SessionInv'
<1>1. /\ TablesTyped /\ req[r] \in Locals /\ WellReq(req[r]) /\ req[r].pc = "touch"
      /\ generation \in Nat /\ Quiet \in Locals /\ WellReq(Quiet)
      /\ store \in [Ids -> Records] /\ user.version \in Nat /\ issued \in Nat
      /\ UNCHANGED <<user, challenge, generation, lock, issued, closed, untrimmed>>
  BY RequestFacts, QuietIsWell DEF TablesTyped, Touch, At
<1> DEFINE s == req[r].s
<1>2. CASE store[s].state = "live" /\ store[s].version = req[r].rec.version
  <2> PICK d : d = [req[r] EXCEPT !.pc = "in"]
    OBVIOUS
  <2>1. store' = [store EXCEPT ![s] = req[r].rec] /\ req' = [req EXCEPT ![r] = d]
    BY <1>2 DEF Touch, Goto
  <2>2. req[r].rec \in Records /\ req[r].rec.gen <= generation
    BY <1>1 DEF WellReq, Locals
  <2>3. store' \in [Ids -> Records] /\ Active' \subseteq Active
    BY <1>1, <1>2, <2>1, <2>2 DEF Active
  <2>4. \A i \in Ids : store'[i].gen <= generation /\ (i > issued => store'[i].state = "absent")
    <3>1. \A i \in Ids : i # s => store'[i] = store[i]
      BY <1>1, <2>1
    <3>2. s \in Ids => store'[s] = req[r].rec /\ ~(s > issued)
      BY <1>1, <1>2, <2>1 DEF TablesTyped
    <3> QED
      BY <1>1, <2>2, <3>1, <3>2 DEF TablesTyped
  <2>5. TablesTyped'
    BY <1>1, <2>3, <2>4 DEF TablesTyped
  <2>6. WellReq(d)
    <3>1. /\ d \in Locals /\ d.pc = "in" /\ d.rec = req[r].rec /\ d.floor = req[r].floor
          /\ d.next = req[r].next /\ d.s = req[r].s /\ d.victims = req[r].victims
      BY <1>1 DEF Locals
    <3> QED
      BY <1>1, <3>1 DEF WellReq
  <2>7. TablesForward
    BY <1>1, <2>3 DEF TablesForward
  <2>8. WellReq(d)'
    BY <1>1, <2>5, <2>6, <2>7, WellReqStays
  <2>9. TakenHeld'
    BY <1>1, <2>1, HeldStays
  <2>10. user.version <= user'.version /\ generation <= generation'
         /\ UNCHANGED <<issued, untrimmed>>
    BY <1>1
  <2> QED
    BY <2>1, <2>3, <2>5, <2>8, <2>9, <2>10, TablesMove
<1>3. CASE ~(store[s].state = "live" /\ store[s].version = req[r].rec.version)
  <2>1. req' = [req EXCEPT ![r] = Quiet] /\ store' = store
    BY <1>3 DEF Touch, Goto
  <2> QED
    BY <1>1, <2>1, RequestGoesOn DEF TablesTyped
<1> QED
  BY <1>2, <1>3

(* Sessions end: revoked one by one, by a section or by a request of its    *)
(* own.                                                                     *)
LEMMA RevokeStepInv ==
  ASSUME SessionInv, NEW r \in Requests, RevokeNext(r) \/ \E s \in Ids : RevokeOne(r, s)
  PROVE  SessionInv'
<1>1. /\ TablesTyped /\ req[r] \in Locals /\ WellReq(req[r])
      /\ generation \in Nat /\ Quiet \in Locals /\ WellReq(Quiet)
      /\ user.version \in Nat /\ issued \in Nat /\ lock \in Requests \cup {NoReq}
      /\ UNCHANGED <<user, challenge, generation, lock, issued, closed, untrimmed>>
      /\ req[r].pc # "reset"
  BY RequestFacts, QuietIsWell DEF TablesTyped, RevokeNext, RevokeOne, At
<1>2. ASSUME NEW s \in Ids, NEW d, store' = Revoked(s), req' = [req EXCEPT ![r] = d], WellReq(d)'
      PROVE  SessionInv'
  <2>1. TablesTyped' /\ Active' \subseteq Active
    BY <1>1, <1>2, RevokedGoes
  <2>2. TakenHeld'
    BY <1>1, <1>2, HeldStays
  <2>3. user.version <= user'.version /\ generation <= generation'
         /\ UNCHANGED <<issued, untrimmed>>
    BY <1>1
  <2> QED
    BY <1>2, <2>1, <2>2, <2>3, TablesMove
<1>3. ASSUME NEW s \in Ids, RevokeOne(r, s) PROVE SessionInv'
  <2>1. store' = Revoked(s) /\ req' = [req EXCEPT ![r] = Quiet]
    BY <1>3 DEF RevokeOne, Goto
  <2>2. TablesTyped' /\ Active' \subseteq Active
    BY <1>1, <2>1, RevokedGoes
  <2>3. TablesForward
    BY <1>1, <2>2 DEF TablesForward
  <2>4. WellReq(Quiet)'
    BY <1>1, <2>2, <2>3, WellReqStays
  <2> QED
    BY <1>2, <2>1, <2>4
<1>4. CASE RevokeNext(r)
  <2>1. PICK s \in req[r].victims :
          store' = Revoked(s) /\ req' = [req EXCEPT ![r] = [req[r] EXCEPT !.victims = @ \ {s}]]
    BY <1>4 DEF RevokeNext, Goto
  <2> PICK d : d = [req[r] EXCEPT !.victims = @ \ {s}]
    OBVIOUS
  <2>2. s \in Ids /\ d \in Locals /\ d.pc = req[r].pc /\ d.rec = req[r].rec
        /\ d.next = req[r].next /\ d.s = req[r].s /\ d.victims = req[r].victims \ {s}
        /\ d.floor = req[r].floor /\ d.read = req[r].read
    BY <1>1, <2>1 DEF Locals
  <2>3. req[r].pc = "revoke"
    BY <1>4 DEF RevokeNext, At
  <2>4. d.next = "trimmed" =>
          d.s <= issued' /\ Cardinality(LiveUpTo(d.s)' \ d.victims) <= MaxSessions
    <3> SUFFICES ASSUME d.next = "trimmed" PROVE
          d.s <= issued' /\ Cardinality(LiveUpTo(d.s)' \ d.victims) <= MaxSessions
      OBVIOUS
    <3>1. d.s <= issued /\ Cardinality(LiveUpTo(d.s) \ req[r].victims) <= MaxSessions
      BY <1>1, <2>2 DEF WellReq
    <3>2. Active' = Active \ {s}
      BY <1>1, <2>1, <2>2, RevokedGoes
    <3>3. LiveUpTo(d.s)' \ d.victims \in SUBSET (LiveUpTo(d.s) \ req[r].victims)
      BY <2>2, <3>2 DEF LiveUpTo
    <3>4. LiveUpTo(d.s) \ req[r].victims \in SUBSET Ids
      BY DEF LiveUpTo, Active
    <3>5. Cardinality(LiveUpTo(d.s)' \ d.victims) <= MaxSessions
      BY <3>1, <3>3, <3>4, FewerSessions
    <3> QED
      BY <1>1, <3>1, <3>5
  <2>5. d.pc = "revoke" /\ d.rec.gen <= generation'
    BY <1>1, <2>2, <2>3 DEF WellReq
  <2>6. WellReq(d)'
    BY <2>2, <2>4, <2>5 DEF WellReq
  <2> QED
    BY <1>2, <2>1, <2>2, <2>6
<1> QED
  BY <1>3, <1>4

(* A record's TTL ends.                                                     *)
LEMMA SessionExpiresInv ==
  ASSUME SessionInv, NEW s \in Ids, SessionExpires(s)
  PROVE  SessionInv'
<1>1. /\ TablesTyped /\ TakenHeld /\ Trimmed /\ RequestsWell
      /\ lock \in Requests \cup {NoReq} /\ generation \in Nat /\ issued \in Nat /\ user.version \in Nat
  BY SessionsAssumption DEF SessionInv, TablesTyped, Users, Versions
<1>2. /\ store' = Revoked(s) /\ req' = req
      /\ UNCHANGED <<user, challenge, generation, lock, closed, issued, untrimmed>>
  BY DEF SessionExpires
<1>3. TablesTyped' /\ Active' \subseteq Active
  BY <1>1, <1>2, RevokedGoes
<1>4. TablesForward
  BY <1>1, <1>2, <1>3 DEF TablesForward
<1>5. Trimmed'
  BY <1>1, <1>2, <1>3, TrimmedStays
<1>6. RequestsWell'
  BY <1>1, <1>2, <1>3, <1>4, RequestsRest
<1>7. TakenHeld'
  BY <1>1, <1>2 DEF TakenHeld, At
<1> QED
  BY <1>3, <1>5, <1>6, <1>7 DEF SessionInv

(* A revoke-all of every session begins a generation.                       *)
LEMMA RevokeAllBeginInv ==
  ASSUME SessionInv, NEW r \in Requests, RevokeAllBegin(r)
  PROVE  SessionInv'
<1>1. /\ TablesTyped /\ req[r] \in Locals /\ WellReq(req[r]) /\ req[r].pc = "revokeAll"
      /\ generation \in Nat /\ closed \in Nat /\ issued \in Nat /\ user.version \in Nat
      /\ UNCHANGED <<user, challenge, store, issued, closed, untrimmed>>
      /\ lock' \in Requests \cup {NoReq}
  BY RequestFacts DEF RevokeAllBegin, At, TakeLock
<1>2. generation' \in 0 .. MaxRevokeAlls /\ generation <= generation'
  <2>1. generation \in 0 .. MaxRevokeAlls
    BY <1>1 DEF TablesTyped
  <2>2. /\ req[r].keep = 0 => generation < MaxRevokeAlls
        /\ generation' = IF req[r].keep = 0 THEN generation + 1 ELSE generation
    BY DEF RevokeAllBegin
  <2> QED
    BY <2>1, <2>2, SessionsAssumption
<1>3. TablesTyped'
  <2>1. \A i \in Ids : store[i].gen \in Nat /\ store[i].gen <= generation
    BY <1>1 DEF TablesTyped, Records
  <2>2. \A i \in Ids : store'[i].gen <= generation' /\ (i > issued' => store'[i].state = "absent")
    BY <1>1, <1>2, <2>1 DEF TablesTyped
  <2>3. closed' \in 0 .. generation'
    BY <1>1, <1>2 DEF TablesTyped
  <2> QED
    BY <1>1, <1>2, <2>2, <2>3 DEF TablesTyped
<1> PICK d : d = [req[r] EXCEPT !.pc = "list",
                                !.rec.gen = IF req[r].keep = 0 THEN generation' ELSE 0]
  OBVIOUS
<1>4. req' = [req EXCEPT ![r] = d]
  BY DEF RevokeAllBegin, Goto
<1>5. /\ d \in Locals /\ d.pc = "list" /\ d.next = req[r].next
      /\ d.rec.gen <= generation'
  <2>1. generation' \in 0 .. MaxRevokeAlls /\ 0 \in 0 .. MaxRevokeAlls /\ 0 <= generation'
    BY <1>1, <1>2, SessionsAssumption
  <2> PICK g \in 0 .. MaxRevokeAlls :
             g = (IF req[r].keep = 0 THEN generation' ELSE 0) /\ g <= generation'
    BY <2>1
  <2>2. req[r].rec \in Records
    BY <1>1 DEF Locals
  <2> PICK c : c = [req[r].rec EXCEPT !.gen = g]
    OBVIOUS
  <2>5. c \in Records /\ c.gen = g
    BY <2>2 DEF Records
  <2>3. d = [req[r] EXCEPT !.pc = "list", !.rec = c]
    OBVIOUS
  <2>4. d \in Locals /\ d.pc = "list" /\ d.next = req[r].next /\ d.rec = c
    BY <1>1, <2>3, <2>5 DEF Locals
  <2> QED
    BY <2>4, <2>5
<1>6. WellReq(d)'
  <2>1. d.next # "trimmed"
    BY <1>1, <1>5 DEF WellReq
  <2> QED
    BY <1>5, <2>1 DEF WellReq
<1>7. TakenHeld'
  BY <1>1, <1>4, HeldStays
<1>8. Active' \subseteq Active /\ user.version <= user'.version /\ UNCHANGED <<issued, untrimmed>>
  BY <1>1 DEF Active
<1> QED
  BY <1>2, <1>3, <1>4, <1>6, <1>7, <1>8, TablesMove

(* A session is created, newer than all there are; it is not trimmed yet.   *)
LEMMA CreateWriteInv ==
  ASSUME SessionInv, NEW r \in Requests, CreateWrite(r)
  PROVE  SessionInv'
<1>1. /\ TablesTyped /\ Trimmed /\ RequestsWell
      /\ req[r] \in Locals /\ WellReq(req[r]) /\ req[r].pc = "write"
      /\ generation \in Nat /\ issued \in Nat /\ user.version \in Nat
      /\ UNCHANGED <<user, challenge, generation, closed>>
      /\ issued' = issued + 1 /\ issued < MaxIssued
      /\ store' = [store EXCEPT ![issued + 1] = req[r].rec]
      /\ untrimmed' = untrimmed \cup {issued + 1}
      /\ req' = [req EXCEPT ![r] = [Quiet EXCEPT !.pc = "trim"]]
      /\ Quiet \in Locals /\ Quiet.rec.gen = 0 /\ 0 <= generation /\ Quiet.next = "idle"
  BY RequestFacts, QuietIsWell DEF CreateWrite, At, Goto
<1>2. lock' \in Requests \cup {NoReq}
  BY <1>1 DEF CreateWrite, FreeLock, TablesTyped
<1>3. /\ issued + 1 \in Ids /\ issued' \in 0 .. MaxIssued /\ issued' \in Nat
      /\ req[r].rec \in Records /\ req[r].rec.gen <= generation
      /\ store \in [Ids -> Records]
  BY <1>1, SessionsAssumption DEF Ids, Locals, WellReq, TablesTyped
<1>4. /\ store' \in [Ids -> Records] /\ store'[issued + 1] = req[r].rec
      /\ \A i \in Ids : i # issued + 1 => store'[i] = store[i]
  BY <1>1, <1>3
<1>5. TablesTyped'
  <2>1. ASSUME NEW i \in Ids
        PROVE  store'[i].gen <= generation' /\ (i > issued' => store'[i].state = "absent")
    <3>1. CASE i = issued + 1
      BY <1>1, <1>3, <1>4, <3>1
    <3>2. CASE i # issued + 1
      <4>1. store[i].gen <= generation /\ (i > issued => store[i].state = "absent")
        BY <1>1 DEF TablesTyped
      <4>2. i > issued' => i > issued
        BY <1>1 DEF Ids
      <4> QED
        BY <1>1, <1>4, <3>2, <4>1, <4>2
    <3> QED
      BY <3>1, <3>2
  <2> QED
    BY <1>1, <1>2, <1>3, <1>4, <2>1 DEF TablesTyped
<1>6. \A i \in Active' : i \in Active \/ i = issued + 1
  BY <1>4 DEF Active
<1>7. TablesForward
  BY <1>1, <1>6 DEF TablesForward
<1>8. Trimmed'
  <2>1. PICK b \in 0 .. issued :
          untrimmed = (b + 1) .. issued /\ Cardinality(LiveUpTo(b)) <= MaxSessions
    BY <1>1 DEF Trimmed
  <2>2. LiveUpTo(b) \in SUBSET Ids
    BY DEF LiveUpTo, Active
  <2>3. LiveUpTo(b)' \in SUBSET LiveUpTo(b)
    BY <1>1, <1>6 DEF LiveUpTo
  <2>4. Cardinality(LiveUpTo(b)') <= MaxSessions
    BY <2>1, <2>2, <2>3, FewerSessions
  <2>5. b \in 0 .. issued' /\ untrimmed' = (b + 1) .. issued'
    BY <1>1, <2>1
  <2>6. Cardinality(LiveUpTo(b))' <= MaxSessions
    BY <2>4
  <2> QED
    BY <2>5, <2>6 DEF Trimmed
<1>9. RequestsWell'
  <2> PICK d : d = [Quiet EXCEPT !.pc = "trim"]
    OBVIOUS
  <2>1. d \in Locals /\ d.rec = Quiet.rec /\ d.next = "idle" /\ d.pc = "trim"
    BY <1>1 DEF Quiet, Locals
  <2>2. WellReq(d)
    BY <1>1, <2>1, CalmIsWell
  <2>3. WellReq(d)'
    BY <1>1, <1>5, <1>7, <2>2, WellReqStays
  <2> QED
    BY <1>1, <1>5, <1>7, <2>3, RequestMoves
<1>10. TakenHeld'
  BY <1>1, HeldStays
<1> QED
  BY <1>5, <1>8, <1>9, <1>10 DEF SessionInv

(* A section ends: after a trim no more than the limit are left of the      *)
(* sessions it listed; a revoke-all records its generation.                 *)
LEMMA SectionEndInv ==
  ASSUME SessionInv, NEW r \in Requests, SectionEnd(r)
  PROVE  SessionInv'
<1>1. /\ TablesTyped /\ TakenHeld /\ Trimmed /\ RequestsWell
      /\ req[r] \in Locals /\ WellReq(req[r]) /\ req[r].pc = "revoke" /\ req[r].victims = {}
      /\ generation \in Nat /\ closed \in Nat /\ issued \in Nat /\ user.version \in Nat
      /\ UNCHANGED <<user, challenge, store, generation, issued>>
      /\ Quiet \in Locals /\ WellReq(Quiet) /\ Quiet.pc = "idle"
  BY RequestFacts, QuietIsWell DEF SectionEnd, At, Quiet
<1>2. lock' \in Requests \cup {NoReq}
  BY <1>1 DEF SectionEnd, FreeLock, TablesTyped
<1>3. closed' \in 0 .. generation
  <2>1. req[r].rec.gen \in Nat /\ req[r].rec.gen <= generation /\ closed \in 0 .. generation
    BY <1>1 DEF WellReq, Locals, Records, TablesTyped
  <2> QED
    BY <1>1, <2>1 DEF SectionEnd
<1>4. TablesTyped' /\ Active' = Active
  BY <1>1, <1>2, <1>3 DEF TablesTyped, Active
<1>5. TablesForward
  BY <1>1, <1>4 DEF TablesForward
<1>6. PICK d : req' = [req EXCEPT ![r] = d] /\ WellReq(d)
  <2>1. CASE req[r].next = "trimmed" \/ req[r].next = "idle"
    BY <1>1, <2>1 DEF SectionEnd, Goto
  <2>2. CASE req[r].next = "create"
    <3> PICK d : d = [req[r] EXCEPT !.pc = req[r].next]
      OBVIOUS
    <3>1. d \in Locals /\ d.pc = "create" /\ d.rec = req[r].rec /\ d.next = "create"
      BY <1>1, <2>2 DEF Locals
    <3>2. d.rec.gen <= generation
      BY <1>1, <3>1 DEF WellReq
    <3>3. WellReq(d)
      BY <3>1, <3>2, CalmIsWell
    <3>4. req' = [req EXCEPT ![r] = d]
      BY <2>2 DEF SectionEnd, Goto
    <3> QED
      BY <3>3, <3>4
  <2> QED
    BY <1>1, <2>1, <2>2 DEF Locals
<1>7. RequestsWell'
  <2>1. WellReq(d)'
    BY <1>1, <1>4, <1>5, <1>6, WellReqStays
  <2> QED
    BY <1>1, <1>4, <1>5, <1>6, <2>1, RequestMoves
<1>8. TakenHeld'
  BY <1>1, <1>6, HeldStays
<1>9. Trimmed'
  <2>1. CASE req[r].next # "trimmed"
    <3>1. untrimmed' = untrimmed
      BY <2>1 DEF SectionEnd
    <3> QED
      BY <1>1, <1>4, <3>1, TrimmedStays
  <2>2. CASE req[r].next = "trimmed"
    <3>1. PICK b \in 0 .. issued :
            untrimmed = (b + 1) .. issued /\ Cardinality(LiveUpTo(b)) <= MaxSessions
      BY <1>1 DEF Trimmed
    <3> PICK s : s = req[r].s
      OBVIOUS
    <3>2. s \in Nat /\ s <= issued /\ Cardinality(LiveUpTo(s)) <= MaxSessions
      <4>1. LiveUpTo(s) \ {} = LiveUpTo(s)
        OBVIOUS
      <4> QED
        BY <1>1, <2>2, <4>1 DEF WellReq, Locals
    <3>3. untrimmed' = {i \in untrimmed : i > s}
      BY <2>2 DEF SectionEnd
    <3> PICK c : c = IF s > b THEN s ELSE b
      OBVIOUS
    <3>4. c \in 0 .. issued /\ Cardinality(LiveUpTo(c)) <= MaxSessions
      BY <1>1, <3>1, <3>2
    <3>5. untrimmed' = (c + 1) .. issued
      BY <1>1, <3>1, <3>2, <3>3
    <3>6. LiveUpTo(c)' = LiveUpTo(c)
      BY <1>4 DEF LiveUpTo
    <3>7. Cardinality(LiveUpTo(c))' <= MaxSessions
      BY <3>4, <3>6
    <3> QED
      BY <1>1, <3>4, <3>5, <3>7 DEF Trimmed
  <2> QED
    BY <2>1, <2>2
<1> QED
  BY <1>4, <1>7, <1>8, <1>9 DEF SessionInv

(* Steps that no request takes leave the sessions alone.                    *)
LEMMA OutsideStepInv ==
  ASSUME SessionInv,
         \/ \E c \in Challenges, k \in {"verify", "reset"} : RequestChallenge(c, k)
         \/ \E c \in Challenges : ChallengeEnds(c)
         \/ LockExpires
         \/ UNCHANGED vars
  PROVE  SessionInv'
<1> DEFINE ChallengeTable == [Challenges -> [kind : {"none", "verify", "reset", "taken"}, version : Versions]]
<1>1. /\ TablesTyped /\ TakenHeld /\ Trimmed /\ RequestsWell /\ user \in Users
      /\ generation \in Nat /\ issued \in Nat /\ user.version \in Nat
      /\ UNCHANGED <<user, store, generation, req, issued, closed, untrimmed>>
      /\ lock \in Requests \cup {NoReq} /\ challenge \in ChallengeTable
      /\ user.version \in Versions /\ NoChallenge \in [kind : {"none"}, version : Versions]
  BY SessionsAssumption
  DEF SessionInv, TablesTyped, Users, Versions, RequestChallenge, ChallengeEnds, LockExpires, vars,
      NoChallenge
<1>2. lock' \in Requests \cup {NoReq}
  BY <1>1 DEF RequestChallenge, ChallengeEnds, LockExpires, vars
<1>3. /\ challenge' \in ChallengeTable
      /\ \A e \in Challenges : challenge'[e].kind = "taken" => challenge[e].kind = "taken"
  <2>1. ASSUME NEW c \in Challenges, NEW k \in {"verify", "reset"}, RequestChallenge(c, k)
        PROVE  /\ challenge' \in ChallengeTable
               /\ \A e \in Challenges : challenge'[e].kind = "taken" => challenge[e].kind = "taken"
    <3>1. challenge' = [d \in Challenges |->
            IF d = c THEN [kind |-> k, version |-> user.version]
            ELSE IF challenge[d].kind = k THEN NoChallenge
            ELSE challenge[d]]
      BY <2>1 DEF RequestChallenge
    <3> QED
      BY <1>1, <3>1
  <2>2. ASSUME NEW c \in Challenges, ChallengeEnds(c)
        PROVE  /\ challenge' \in ChallengeTable
               /\ \A e \in Challenges : challenge'[e].kind = "taken" => challenge[e].kind = "taken"
    <3>1. challenge' = [challenge EXCEPT ![c] = NoChallenge]
      BY <2>2 DEF ChallengeEnds
    <3> QED
      BY <1>1, <3>1
  <2>3. CASE LockExpires \/ UNCHANGED vars
    BY <1>1, <2>3 DEF LockExpires, vars
  <2> QED
    BY <2>1, <2>2, <2>3
<1>4. TablesTyped'
  BY <1>1, <1>2, <1>3 DEF TablesTyped
<1>5. Active' = Active /\ TablesForward
  <2>1. Active' = Active
    BY <1>1 DEF Active
  <2> QED
    BY <1>1, <2>1 DEF TablesForward
<1>6. Trimmed'
  BY <1>1, <1>5, TrimmedStays
<1>7. RequestsWell'
  BY <1>1, <1>4, <1>5, RequestsRest
<1>8. TakenHeld'
  BY <1>1, <1>3 DEF TakenHeld, At
<1> QED
  BY <1>4, <1>6, <1>7, <1>8 DEF SessionInv

(* Nobody has registered.                                                   *)
LEMMA SessionInit == Init => SessionInv
<1> SUFFICES ASSUME Init PROVE SessionInv
  OBVIOUS
<1>1. Absent \in Records /\ Absent.gen = 0 /\ Absent.state = "absent"
  BY SessionsAssumption DEF Absent, Records, Versions
<1>2. NoUser \in Users /\ NoUser.version = 0
  BY SessionsAssumption DEF NoUser, Users, Versions
<1>3. NoChallenge \in [kind : {"none"}, version : Versions]
  BY SessionsAssumption DEF NoChallenge, Versions
<1>4. TablesTyped
  BY <1>1, <1>2, <1>3, SessionsAssumption DEF Init, TablesTyped
<1>5. TakenHeld
  <2>1. \A c \in Challenges : challenge[c].kind = "none"
    BY <1>3 DEF Init
  <2> QED
    BY <2>1 DEF TakenHeld
<1>6. Trimmed
  <2>1. LiveUpTo(0) = {}
    BY DEF LiveUpTo, Active, Ids
  <2>2. Cardinality(LiveUpTo(0)) <= MaxSessions
    BY <2>1, FS_EmptySet, SessionsAssumption
  <2>3. untrimmed = (0 + 1) .. issued /\ 0 \in 0 .. issued
    BY DEF Init
  <2> QED
    BY <2>2, <2>3 DEF Trimmed
<1>7. RequestsWell
  BY <1>4, QuietIsWell DEF Init, RequestsWell
<1> QED
  BY <1>4, <1>5, <1>6, <1>7 DEF SessionInv

LEMMA SessionStep == SessionInv /\ [Next]_vars => SessionInv'
<1> SUFFICES ASSUME SessionInv, [Next]_vars PROVE SessionInv'
  OBVIOUS
<1>1. ASSUME NEW r \in Requests,
             \/ CheckGeneration(r) \/ CheckUser(r) \/ Touch(r) \/ Section(r)
             \/ UserAuthentication(r) \/ UsersSelfService(r) \/ AdminSessions(r)
             \/ Fail(r)
      PROVE  SessionInv'
  BY <1>1, AuthenticationInv, TouchInv, LocalStepInv, TrimListInv, ChallengeStepInv,
     CredentialStepInv, RevokeStepInv, RevokeAllBeginInv, CreateWriteInv, SectionEndInv
     DEF Section, UserAuthentication, UsersSelfService, AdminSessions
<1> QED
  BY <1>1, AuthenticationInv, SessionExpiresInv, OutsideStepInv DEF Next

(* The rows and keys keep their types, every session that was trimmed is    *)
(* within the limit, and every request that has passed a check of the       *)
(* session guard carries a record that check compared, for any number of    *)
(* requests, sessions, changes of the credential and revoke-alls.           *)
THEOREM SessionInvariant == Spec => []SessionInv
<1> QED
  BY SessionInit, SessionStep, PTL DEF Spec

(* HumanSessions.SessionsTypeOK.                                            *)
THEOREM SessionsTypeCorrect == Spec => []SessionsTypeOK
<1>1. SessionInv => SessionsTypeOK
  <2> SUFFICES ASSUME SessionInv PROVE SessionsTypeOK
    OBVIOUS
  <2>1. TablesTyped /\ TakenHeld
    BY DEF SessionInv
  <2>2. untrimmed \subseteq 1 .. issued /\ closed <= generation
    BY SessionsAssumption DEF SessionInv, Trimmed, TablesTyped
  <2> QED
    BY <2>1, <2>2 DEF SessionsTypeOK, TablesTyped, TakenHeld
<1> QED
  BY <1>1, SessionInvariant, PTL

(* HumanSessions.AdmittedFresh: a request is admitted only with a session   *)
(* issued under the credential and the revoke-all generation that stood     *)
(* when it arrived, or later ones.                                          *)
THEOREM AdmissionIsFresh == Spec => []AdmittedFresh
<1>1. SessionInv => AdmittedFresh
  BY DEF SessionInv, RequestsWell, WellReq, AdmittedFresh, At
<1> QED
  BY <1>1, SessionInvariant, PTL

(* HumanSessions.LimitHolds: beyond the sessions whose trim is still to     *)
(* come, no more than the limit are live.                                   *)
THEOREM LimitIsHeld == Spec => []LimitHolds
<1>1. SessionInv => LimitHolds
  <2> SUFFICES ASSUME SessionInv PROVE LimitHolds
    OBVIOUS
  <2>1. TablesTyped /\ issued \in Nat
    BY DEF SessionInv, TablesTyped
  <2>2. PICK b \in 0 .. issued :
          untrimmed = (b + 1) .. issued /\ Cardinality(LiveUpTo(b)) <= MaxSessions
    BY DEF SessionInv, Trimmed
  <2>3. LiveUpTo(b) \in SUBSET Ids
    BY DEF LiveUpTo, Active
  <2>4. Active \ untrimmed \in SUBSET LiveUpTo(b)
    <3> SUFFICES ASSUME NEW i \in Active, i \notin untrimmed PROVE i <= b
      BY DEF LiveUpTo
    <3>1. i \in Ids /\ i \in Nat /\ i <= issued
      BY <2>1 DEF Active, Ids, TablesTyped
    <3> QED
      BY <2>1, <2>2, <3>1
  <2> QED
    BY <2>2, <2>3, <2>4, FewerSessions DEF LimitHolds
<1> QED
  BY <1>1, SessionInvariant, PTL
=============================================================================
