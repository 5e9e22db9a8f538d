--------------------------- MODULE ServiceProofs ---------------------------
(***************************************************************************)
(* Theorems about the service and those who call it: the life of a backend  *)
(* process, for any set of environments, workers and commands, the          *)
(* operator's console, for any people and any number of flows and calls,    *)
(* and the rate limits, for any limits, replicas and spans of time.         *)
(***************************************************************************)
EXTENDS BackendProcess, OperatorConsole, AdmissionLimits, FiniteSums, TLAPS

(***************************************************************************)
(* BackendProcess.                                                          *)
(***************************************************************************)
(* A running process has an accepted environment, and a batch that waits    *)
(* has an attempt left.                                                     *)
ProcessInv ==
  /\ TypeOK
  /\ phase # "down" => Validated(deployed)
  /\ \A w \in Workers : batch[w] = "waiting" => attempt[w] < MaxAttempts

(* An accepted environment with a transaction around each command keeps     *)
(* every store in the database.                                             *)
LEMMA AtomicIsDurable ==
  ASSUME NEW c, Validated(c), Atomic(c)
  PROVE  \A k \in AdapterKeys : Composed(c)[k] = "postgres"
<1>1. \A k \in AdapterKeys : Adapter(c, k) = "postgres"
  BY DEF Validated, Adapters, Atomic
<1> QED
  BY <1>1 DEF Composed

LEMMA ExitInv ==
  ASSUME ProcessInv, Exit
  PROVE  ProcessInv' /\ UNCHANGED <<disk, durable, direct>>
<1>1. 0 \in 0 .. MaxAttempts
  BY ProcessAssumption
<1>2. NothingHeld \in [AdapterKeys -> SUBSET Commands]
  BY DEF NothingHeld
<1> QED
  BY <1>1, <1>2 DEF ProcessInv, TypeOK, Exit

(* What a command writes goes to each store's own place.                    *)
LEMMA WrittenTyped ==
  ASSUME ProcessInv, NEW c \in Commands, NEW keys, Written(c, keys)
  PROVE  /\ memory' \in [AdapterKeys -> SUBSET Commands]
         /\ disk' \in [AdapterKeys -> SUBSET Commands]
         /\ \A k \in AdapterKeys : disk'[k] \in {disk[k], disk[k] \cup {c}}
BY DEF ProcessInv, TypeOK, Written

(* Steps that leave the stores of the database alone, or begin a new start. *)
LEMMA ProcessStep ==
  ASSUME ProcessInv, [Next]_vars
  PROVE  ProcessInv'
<1>1. MaxAttempts \in Nat \ {0} /\ 0 \in 0 .. MaxAttempts /\ 1 \in 0 .. MaxAttempts
  BY ProcessAssumption
<1>2. ASSUME NEW c \in Deployments, Deploy(c) PROVE ProcessInv'
  BY <1>2 DEF ProcessInv, TypeOK, Deploy, workerVars, storeVars
<1>3. CASE Boot \/ Start \/ Listen \/ Outage
  BY <1>3 DEF ProcessInv, TypeOK, Boot, Start, Listen, Outage, workerVars, storeVars
<1>4. CASE Stop
  <2>1. status' \in [Workers -> {"STOPPED", "RUNNING", "DRAINING", "QUARANTINED"}]
    BY <1>4 DEF ProcessInv, TypeOK, Stop
  <2> QED
    BY <1>4, <2>1 DEF ProcessInv, TypeOK, Stop, storeVars
<1>5. CASE Stopped \/ Crash
  BY <1>5, ExitInv DEF Stopped, Crash
<1>6. ASSUME NEW w \in Workers, Recover(w) PROVE ProcessInv'
  <2>1. CASE Exit
    BY <2>1, ExitInv
  <2>2. CASE /\ status' = [status EXCEPT ![w] = "RUNNING"]
             /\ UNCHANGED <<deployed, phase, batch, attempt, database, storeVars>>
    BY <2>2 DEF ProcessInv, TypeOK, storeVars
  <2> QED
    BY <1>6, <2>1, <2>2 DEF Recover
<1>7. ASSUME NEW w \in Workers, tick(w) \/ Deadline(w) \/ Finish(w) PROVE ProcessInv'
  <2>1. /\ status' \in [Workers -> {"STOPPED", "RUNNING", "DRAINING", "QUARANTINED"}]
        /\ batch' \in [Workers -> {"none", "running", "late", "waiting"}]
        /\ attempt' \in [Workers -> 0 .. MaxAttempts]
    BY <1>1, <1>7 DEF ProcessInv, TypeOK, tick, Deadline, Finish, Finished
  <2>2. \A v \in Workers : batch'[v] = "waiting" => batch[v] = "waiting" /\ attempt'[v] = attempt[v]
    BY <1>7 DEF ProcessInv, TypeOK, tick, Deadline, Finish
  <2> QED
    BY <1>7, <2>1, <2>2 DEF ProcessInv, TypeOK, tick, Deadline, Finish, storeVars
<1>8. ASSUME NEW w \in Workers, Handle(w) PROVE ProcessInv'
  BY <1>8 DEF ProcessInv, TypeOK, Handle, workerVars
<1>9. ASSUME NEW w \in Workers, Fail(w) PROVE ProcessInv'
  BY <1>9 DEF ProcessInv, TypeOK, Fail, storeVars
<1>10. ASSUME NEW w \in Workers, Retry(w) PROVE ProcessInv'
  <2>1. attempt[w] + 1 \in 0 .. MaxAttempts
    BY <1>1, <1>10 DEF ProcessInv, TypeOK, Retry
  <2>2. /\ batch' \in [Workers -> {"none", "running", "late", "waiting"}]
        /\ attempt' \in [Workers -> 0 .. MaxAttempts]
    BY <1>10, <2>1 DEF ProcessInv, TypeOK, Retry
  <2>3. \A v \in Workers : batch'[v] = "waiting" => batch[v] = "waiting" /\ attempt'[v] = attempt[v]
    BY <1>10 DEF ProcessInv, TypeOK, Retry
  <2> QED
    BY <1>10, <2>2, <2>3 DEF ProcessInv, TypeOK, Retry, storeVars
<1>11. ASSUME NEW w \in Workers, GiveUp(w) PROVE ProcessInv'
  BY <1>11, ExitInv DEF GiveUp
<1>12. ASSUME NEW c \in Commands, Transact(c) PROVE ProcessInv'
  BY <1>12, WrittenTyped DEF ProcessInv, TypeOK, Transact, workerVars
<1>13. ASSUME NEW c \in Commands, NEW k \in AdapterKeys, Direct(c, k) PROVE ProcessInv'
  BY <1>13, WrittenTyped DEF ProcessInv, TypeOK, Direct, workerVars
<1>14. CASE UNCHANGED vars
  BY <1>14 DEF ProcessInv, TypeOK, vars
<1> QED
  BY <1>2, <1>3, <1>4, <1>5, <1>6, <1>7, <1>8, <1>9, <1>10, <1>11, <1>12, <1>13, <1>14
     DEF Next, Work

(* The stores of the database only grow, by a command that is then in all   *)
(* of them or was run without a transaction.                                *)
LEMMA SurvivalStep ==
  ASSUME ProcessInv, AcceptedSurvives, [Next]_vars
  PROVE  AcceptedSurvives'
<1>1. ASSUME UNCHANGED <<disk, durable, direct>> PROVE AcceptedSurvives'
  BY <1>1 DEF AcceptedSurvives
<1>2. ASSUME NEW c \in Commands, Transact(c) PROVE AcceptedSurvives'
  <2>1. \A k \in AdapterKeys : Composed(deployed)[k] = "postgres"
    BY <1>2, AtomicIsDurable DEF ProcessInv, Transact
  <2>2. \A k \in AdapterKeys : disk'[k] = disk[k] \cup {c}
    BY <1>2, <2>1 DEF Transact, Written
  <2>3. durable' = durable \cup {c} /\ direct' = direct
    BY <1>2 DEF Transact
  <2> QED
    BY <2>2, <2>3 DEF AcceptedSurvives
<1>3. ASSUME NEW c \in Commands, NEW k \in AdapterKeys, Direct(c, k) PROVE AcceptedSurvives'
  <2>1. \A key \in AdapterKeys : disk'[key] \in {disk[key], disk[key] \cup {c}}
    BY <1>3, WrittenTyped DEF Direct
  <2>2. durable' = durable /\ direct' = direct \cup {c}
    BY <1>3 DEF Direct
  <2> QED
    BY <2>1, <2>2 DEF AcceptedSurvives
<1>4. ASSUME NEW w \in Workers, Work(w) \/ Deadline(w) \/ Fail(w)
      PROVE  UNCHANGED <<disk, durable, direct>>
  BY <1>4 DEF Work, Deadline, Fail, Recover, tick, Handle, Finish, Retry, GiveUp, Exit, storeVars
<1>5. CASE (\E c \in Deployments : Deploy(c))
           \/ Boot \/ Start \/ Listen \/ Stop \/ Stopped \/ Crash \/ Outage \/ UNCHANGED vars
  <2>1. UNCHANGED <<disk, durable, direct>>
    BY <1>5 DEF Deploy, Boot, Start, Listen, Stop, Stopped, Crash, Outage, Exit, storeVars, vars
  <2> QED
    BY <1>1, <2>1
<1> QED
  BY <1>1, <1>2, <1>3, <1>4, <1>5 DEF Next

(* A process runs only in an environment it has validated, and the state of *)
(* its workers keeps its type: no order of failures, retries and restarts   *)
(* exceeds the attempts of the policy.                                      *)
THEOREM ProcessInvariant == Spec => []ProcessInv
<1>1. Init => ProcessInv
  BY ProcessAssumption DEF Init, ProcessInv, TypeOK, NothingHeld
<1>2. ProcessInv /\ [Next]_vars => ProcessInv'
  BY ProcessStep
<1> QED
  BY <1>1, <1>2, PTL DEF Spec

(* runtime-adapters.ts: a production-like profile has no volatile store on  *)
(* its critical path.  Whatever environments ran before and since, what a   *)
(* production-like process answered is in every store, and no store has a   *)
(* command the others lack unless a component process ran it.               *)
THEOREM AcceptedIsKept == Spec => []AcceptedSurvives
<1>1. Init => AcceptedSurvives
  BY DEF Init, AcceptedSurvives, NothingHeld
<1>2. ProcessInv /\ AcceptedSurvives /\ [Next]_vars => AcceptedSurvives'
  BY SurvivalStep
<1> QED
  BY <1>1, <1>2, ProcessInvariant, PTL DEF Spec

(***************************************************************************)
(* OperatorConsole.                                                         *)
(***************************************************************************)
Credits == {"credit-usd", "credit-btc"}
CardStates == {"idle", "running", "success", "failure"}
CallOf(c) ==
  [from |-> c.from, step |-> c.step, as |-> c.as, account |-> c.account,
   order |-> c.order, key |-> c.key, body |-> c.body, answer |-> c.answer]

ConsoleTyped ==
  /\ sends \in Nat /\ formKey \in Nat /\ placeBody \in {"manual"} \X Nat
  /\ flow = [run |-> flow.run, busy |-> flow.busy, at |-> flow.at, keyed |-> flow.keyed,
             account |-> flow.account, cards |-> flow.cards]
  /\ flow.run \in 0 .. MaxFlows /\ flow.busy \in BOOLEAN /\ flow.at \in 0 .. Len(FlowSteps)
  /\ flow.cards \in [Cards -> CardStates]
  /\ creditsDone \in [1 .. MaxFlows -> [Credits -> Nat]]
  /\ \A o \in DOMAIN book : book[o] = [owner |-> book[o].owner, status |-> book[o].status]

(* Some request of run n for a step of the flow has been served.            *)
Done(step, n) == \E s \in served : s.key = <<step, n>>

(* The effect of a write of run n stands.                                   *)
Effected(step, n) ==
  /\ step \in Credits =>
       creditsDone[n][step] = 1 /\ (n = flow.run => flow.account \in accounts)
  /\ step = "place" =>
       Placed(<<"flow", n>>) /\ (n = flow.run => book[<<"flow", n>>].owner = flow.account)
  /\ step = "cancel" => Placed(<<"flow", n>>) /\ book[<<"flow", n>>].status = "cancelled"

(* Idempotency records are of a form, or of a write of some run.            *)
OfForm(key) == key \in {"form"} \X Nat
OfRun(s, step, n) ==
  /\ s.key = <<step, n>> /\ s.body = s.key
  /\ step \in Credits => s.scope = AdminKey
  /\ Effected(step, n)

ServedWell ==
  /\ \A s \in served : OfForm(s.key) \/ \E n \in 1 .. flow.run, step \in Writes : OfRun(s, step, n)
  /\ \A n \in 1 .. MaxFlows, step \in Credits : Done(step, n) \/ creditsDone[n][step] = 0

(* What can be under way: a read, a form's write, or a write of some run.   *)
Plain(c) == c.key = NoKey /\ c.step \notin Credits \cup {"place", "cancel"}
FormCall(c) ==
  /\ OfForm(c.key)
  /\ c.step = "cancel" \/ (c.step = "place" /\ c.order \in {"manual"} \X Nat)
RunCall(c) ==
  \E n \in 1 .. flow.run :
    /\ c.step \in Writes /\ c.key = <<c.step, n>> /\ c.body = c.key /\ c.order = <<"flow", n>>
    /\ n = flow.run => c.account = flow.account

(* The call the flow waits for.                                             *)
Awaited(c) ==
  /\ flow.busy /\ flow.cards[Card] = "running" /\ c.step = Card
  /\ Card \in Writes => c.key = <<Card, flow.run>>
  /\ Card \in Writes /\ c.answer = "ok" => Done(Card, flow.run)

CallWell(c) ==
  /\ c = CallOf(c)
  /\ Plain(c) \/ FormCall(c) \/ RunCall(c)
  /\ c.from = "flow" => Awaited(c)

CallsWell ==
  /\ \A c \in calls : CallWell(c)
  /\ \A c, d \in calls : c.from = "flow" /\ d.from = "flow" => c = d

CardsWell ==
  /\ \A i, j \in 1 .. Len(FlowSteps) :
       i < j /\ flow.cards[FlowSteps[j]] # "idle" => Green(FlowSteps[i])
  /\ flow.busy =>
       /\ flow.run # 0 /\ flow.at \in 1 .. Len(FlowSteps) /\ flow.cards[Card] \in {"idle", "running"}
       /\ \A i \in 1 .. (flow.at - 1) : Green(FlowSteps[i])
       /\ \A j \in (flow.at + 1) .. Len(FlowSteps) : flow.cards[FlowSteps[j]] = "idle"
  /\ \A step \in Writes : Green(step) => Done(step, flow.run)

ConsoleInv == ConsoleTyped /\ ServedWell /\ CallsWell /\ CardsWell

LEMMA FlowStepFacts ==
  /\ Len(FlowSteps) = 11 /\ \A i \in 1 .. 11 : FlowSteps[i] \in Cards
  /\ \A i, j \in 1 .. 11 : FlowSteps[i] = FlowSteps[j] => i = j
<1>1. Len(FlowSteps) = 11 /\ DOMAIN FlowSteps = 1 .. 11
  BY DEF FlowSteps
<1>2. \A i \in 1 .. 11 : FlowSteps[i] \in Cards
  BY <1>1 DEF Cards, ToSet
<1>3. \A i, j \in 1 .. 11 : FlowSteps[i] = FlowSteps[j] => i = j
  BY DEF FlowSteps
<1> QED
  BY <1>1, <1>2, <1>3

(* Steps that only change calls and forms.                                  *)
LEMMA CallsMove ==
  ASSUME ConsoleInv, UNCHANGED <<flow, accounts, creditsDone, book, served>>,
         sends' \in Nat, formKey' \in Nat, placeBody' \in {"manual"} \X Nat,
         \A c \in calls' : CallWell(c),
         \A c, d \in calls' : c.from = "flow" /\ d.from = "flow" => c = d
  PROVE  ConsoleInv'
<1>1. ConsoleTyped'
  BY DEF ConsoleInv, ConsoleTyped
<1>2. ServedWell'
  <2>1. \A step, n : Effected(step, n)' = Effected(step, n)
    BY DEF Effected, Placed
  <2>2. \A s, step, n : OfRun(s, step, n)' = OfRun(s, step, n)
    BY <2>1 DEF OfRun
  <2>3. \A step, n : Done(step, n)' = Done(step, n)
    BY DEF Done
  <2>4. ServedWell
    BY DEF ConsoleInv
  <2> QED
    BY <2>2, <2>3, <2>4 DEF ServedWell
<1>3. CallsWell'
  <2>1. \A c \in calls' : CallWell(c)'
    BY DEF CallWell, RunCall, Awaited, Card, Done
  <2> QED
    BY <2>1 DEF CallsWell
<1>4. CardsWell'
  BY DEF ConsoleInv, CardsWell, Card, Green, Done
<1> QED
  BY <1>1, <1>2, <1>3, <1>4 DEF ConsoleInv

(* A call that is none of the flow's is added.                              *)
LEMMA CallAdded ==
  ASSUME ConsoleInv, NEW c, UNCHANGED <<flow, accounts, creditsDone, book, served>>,
         sends' \in Nat, formKey' \in Nat, placeBody' \in {"manual"} \X Nat,
         c = CallOf(c), c.from # "flow", Plain(c) \/ FormCall(c), calls' = calls \cup {c}
  PROVE  ConsoleInv'
<1>1. CallWell(c)
  BY DEF CallWell
<1>2. \A d \in calls' : CallWell(d)
  BY <1>1 DEF ConsoleInv, CallsWell
<1>3. \A d, e \in calls' : d.from = "flow" /\ e.from = "flow" => d = e
  BY DEF ConsoleInv, CallsWell
<1> QED
  BY <1>2, <1>3, CallsMove

(* What is sent from a panel and a form.                                    *)
LEMMA SentByHand ==
  ASSUME ConsoleInv, (\E p \in People : submit(p)) \/ logout \/ NewKey \/ placeOrder \/ cancelOrder
  PROVE  ConsoleInv'
<1>1. /\ sends \in Nat /\ formKey \in Nat /\ placeBody \in {"manual"} \X Nat
      /\ sends' = sends + 1 /\ UNCHANGED <<flow, accounts, creditsDone, book, served>>
      /\ sends' \in Nat
  <2>1. sends' = sends + 1 /\ UNCHANGED <<flow, accounts, creditsDone, book, served>>
    BY DEF submit, logout, NewKey, placeOrder, cancelOrder, ByHand, backendVars
  <2>2. sends \in Nat /\ formKey \in Nat /\ placeBody \in {"manual"} \X Nat
    BY DEF ConsoleInv, ConsoleTyped
  <2> QED
    BY <2>1, <2>2
<1>2. ASSUME NEW p \in People, submit(p) PROVE ConsoleInv'
  <2> PICK c : c = Call("panel", "login", Principal(FALSE), p, None, NoKey, <<"login", sends + 1>>)
    OBVIOUS
  <2>1. calls' = calls \cup {c} /\ formKey' = formKey /\ placeBody' = placeBody
    BY <1>2 DEF submit, callApi, formVars
  <2>2. c = CallOf(c) /\ c.from = "panel" /\ c.step = "login" /\ c.key = NoKey
    BY DEF Call, CallOf
  <2>3. Plain(c) /\ c.from # "flow"
    BY <2>2 DEF Plain, Credits
  <2> QED
    BY <1>1, <2>1, <2>2, <2>3, CallAdded
<1>3. CASE logout
  <2> PICK c : c = Call("panel", "logout", Principal(FALSE), None, None, NoKey, NoBody)
    OBVIOUS
  <2>1. calls' = calls \cup {c} /\ formKey' = formKey /\ placeBody' = placeBody
    BY <1>3 DEF logout, callApi, formVars
  <2>2. c = CallOf(c) /\ c.from = "panel" /\ c.step = "logout" /\ c.key = NoKey
    BY DEF Call, CallOf
  <2>3. Plain(c) /\ c.from # "flow"
    BY <2>2 DEF Plain, Credits
  <2> QED
    BY <1>1, <2>1, <2>2, <2>3, CallAdded
<1>4. CASE NewKey
  <2>1. calls' = calls /\ formKey' \in Nat /\ placeBody' = placeBody
    BY <1>1, <1>4 DEF NewKey
  <2>2. /\ \A c \in calls' : CallWell(c)
        /\ \A c, d \in calls' : c.from = "flow" /\ d.from = "flow" => c = d
    BY <2>1 DEF ConsoleInv, CallsWell
  <2> QED
    BY <1>1, <2>1, <2>2, CallsMove
<1>5. CASE placeOrder
  <2> PICK c : c = Call("form", "place", Principal(keyed), accountId, placeBody,
                        <<"form", formKey>>, placeBody)
    OBVIOUS
  <2>1. calls' = calls \cup {c} /\ formKey' = formKey /\ placeBody' = placeBody
    BY <1>5 DEF placeOrder, callApi, formVars
  <2>2. /\ c = CallOf(c) /\ c.from = "form" /\ c.step = "place" /\ c.key = <<"form", formKey>>
        /\ c.order = placeBody
    BY DEF Call, CallOf
  <2>3. FormCall(c) /\ c.from # "flow"
    BY <1>1, <2>2 DEF FormCall, OfForm
  <2> QED
    BY <1>1, <2>1, <2>2, <2>3, CallAdded
<1>6. CASE cancelOrder
  <2> PICK c : c = Call("form", "cancel", Principal(keyed), accountId, cancelOrderId,
                        <<"form", formKey>>, <<"cancel", sends + 1>>)
    OBVIOUS
  <2>1. calls' = calls \cup {c} /\ formKey' = formKey /\ placeBody' = placeBody
    BY <1>6 DEF cancelOrder, callApi, formVars
  <2>2. /\ c = CallOf(c) /\ c.from = "form" /\ c.step = "cancel" /\ c.key = <<"form", formKey>>
    BY DEF Call, CallOf
  <2>3. FormCall(c) /\ c.from # "flow"
    BY <1>1, <2>2 DEF FormCall, OfForm
  <2> QED
    BY <1>1, <2>1, <2>2, <2>3, CallAdded
<1> QED
  BY <1>2, <1>3, <1>4, <1>5, <1>6

(* A call is answered, or nobody waits for it any more.                     *)
LEMMA CallAnswered ==
  ASSUME NEW c, CallWell(c), NEW a, NEW d, d = [c EXCEPT !.answer = a],
         a = "ok" /\ c.from = "flow" /\ Card \in Writes => Done(Card, flow.run)
  PROVE  CallWell(d) /\ d.from = c.from
<1>1. c = CallOf(c)
  BY DEF CallWell
<1>2. /\ d = [from |-> c.from, step |-> c.step, as |-> c.as, account |-> c.account,
              order |-> c.order, key |-> c.key, body |-> c.body, answer |-> a]
  BY <1>1 DEF CallOf
<1>3. /\ d = CallOf(d) /\ d.from = c.from /\ d.step = c.step /\ d.account = c.account
      /\ d.order = c.order /\ d.key = c.key /\ d.body = c.body /\ d.answer = a
  BY <1>2 DEF CallOf
<1>4. Plain(d) \/ FormCall(d) \/ RunCall(d)
  BY <1>3 DEF CallWell, Plain, FormCall, RunCall
<1>5. d.from = "flow" => Awaited(d)
  BY <1>3 DEF CallWell, Awaited
<1> QED
  BY <1>3, <1>4, <1>5 DEF CallWell

LEMMA CallAbandoned ==
  ASSUME NEW c, CallWell(c), NEW d, d = [c EXCEPT !.from = "gone"]
  PROVE  CallWell(d) /\ d.from = "gone"
<1>1. c = CallOf(c)
  BY DEF CallWell
<1>2. /\ d = [from |-> "gone", step |-> c.step, as |-> c.as, account |-> c.account,
              order |-> c.order, key |-> c.key, body |-> c.body, answer |-> c.answer]
  BY <1>1 DEF CallOf
<1>3. /\ d = CallOf(d) /\ d.from = "gone" /\ d.step = c.step /\ d.account = c.account
      /\ d.order = c.order /\ d.key = c.key /\ d.body = c.body
  BY <1>2 DEF CallOf
<1>4. Plain(d) \/ FormCall(d) \/ RunCall(d)
  BY <1>3 DEF CallWell, Plain, FormCall, RunCall
<1> QED
  BY <1>3, <1>4 DEF CallWell

(* After an answer the calls are as well formed as before.                  *)
LEMMA AnsweredWell ==
  ASSUME CallsWell, NEW c \in calls, NEW a,
         a = "ok" /\ c.from = "flow" /\ Card \in Writes => Done(Card, flow.run)
  PROVE  /\ \A d \in Answered(c, a) : CallWell(d)
         /\ \A d, e \in Answered(c, a) : d.from = "flow" /\ e.from = "flow" => d = e
<1> PICK x : x = [c EXCEPT !.answer = a]
  OBVIOUS
<1>1. CallWell(c)
  BY DEF CallsWell
<1>2. CallWell(x) /\ x.from = c.from
  BY <1>1, CallAnswered
<1>3. \A d \in Answered(c, a) : (d \in calls /\ d # c) \/ d = x
  BY DEF Answered
<1>4. \A d \in Answered(c, a) : CallWell(d)
  BY <1>2, <1>3 DEF CallsWell
<1>5. \A d, e \in Answered(c, a) : d.from = "flow" /\ e.from = "flow" => d = e
  BY <1>2, <1>3 DEF CallsWell
<1> QED
  BY <1>4, <1>5

(* Answers that change nothing of the backend.                              *)
LEMMA Unserved ==
  ASSUME ConsoleInv, NEW c \in calls, Refuse(c) \/ BreakOff(c) \/ PanelAnswer(c) \/ FormAnswer(c)
  PROVE  ConsoleInv'
<1>1. /\ CallsWell /\ sends \in Nat /\ formKey \in Nat /\ placeBody \in {"manual"} \X Nat
      /\ UNCHANGED <<flow, accounts, creditsDone, book, served>> /\ sends' = sends
  BY DEF ConsoleInv, ConsoleTyped, Refuse, BreakOff, PanelAnswer, FormAnswer, backendVars
<1>2. CASE Refuse(c)
  <2>1. calls' = Answered(c, "refused") /\ formKey' = formKey /\ placeBody' = placeBody
    BY <1>2 DEF Refuse, formVars
  <2>2. /\ \A d \in calls' : CallWell(d)
        /\ \A d, e \in calls' : d.from = "flow" /\ e.from = "flow" => d = e
    BY <1>1, <2>1, AnsweredWell
  <2> QED
    BY <1>1, <2>1, <2>2, CallsMove
<1>3. CASE BreakOff(c)
  <2>1. /\ formKey' = formKey /\ placeBody' = placeBody
        /\ \A d \in calls' : d \in Answered(c, "broken") \/ d \in Abandoned({c})
    BY <1>3 DEF BreakOff, formVars
  <2>2. /\ \A d \in Answered(c, "broken") : CallWell(d)
        /\ \A d, e \in Answered(c, "broken") : d.from = "flow" /\ e.from = "flow" => d = e
    BY <1>1, AnsweredWell
  <2>3. \A d \in Abandoned({c}) : CallWell(d) /\ d.from # "flow"
    <3>1. CallWell(c)
      BY <1>1 DEF CallsWell
    <3> QED
      BY <3>1, CallAbandoned DEF Abandoned
  <2>4. /\ \A d \in calls' : CallWell(d)
        /\ \A d, e \in calls' : d.from = "flow" /\ e.from = "flow" => d = e
    BY <2>1, <2>2, <2>3
  <2> QED
    BY <1>1, <2>1, <2>4, CallsMove
<1>4. CASE PanelAnswer(c) \/ FormAnswer(c)
  <2>1. /\ calls' = calls \ {c} /\ formKey' = formKey /\ placeBody' \in {"manual"} \X Nat
    BY <1>1, <1>4 DEF PanelAnswer, FormAnswer, LoggedIn, Identified, LoggedOut, selectHumanUser, formVars
  <2>2. /\ \A d \in calls' : CallWell(d)
        /\ \A d, e \in calls' : d.from = "flow" /\ e.from = "flow" => d = e
    BY <1>1, <2>1 DEF CallsWell
  <2> QED
    BY <1>1, <2>1, <2>2, CallsMove
<1> QED
  BY <1>2, <1>3, <1>4

(* The run stays the same: what was served of it stays well.                *)
LEMMA SameRun ==
  ASSUME ServedWell, flow'.run = flow.run, flow'.account = flow.account,
         UNCHANGED <<accounts, creditsDone, book, served>>
  PROVE  /\ ServedWell'
         /\ \A c : RunCall(c) => RunCall(c)'
         /\ \A step, n : Done(step, n) => Done(step, n)'
<1>1. \A step, n : Effected(step, n)' = Effected(step, n)
  BY DEF Effected, Placed
<1>2. \A s, step, n : OfRun(s, step, n)' = OfRun(s, step, n)
  BY <1>1 DEF OfRun
<1>3. \A step, n : Done(step, n)' = Done(step, n)
  BY DEF Done
<1>4. \A c : RunCall(c) => RunCall(c)'
  BY DEF RunCall
<1> QED
  BY <1>2, <1>3, <1>4 DEF ServedWell

LEMMA IdleWell ==
  ASSUME ConsoleInv, flow' = [run |-> flow'.run, busy |-> flow'.busy, at |-> flow'.at, keyed |-> flow'.keyed,
             account |-> flow'.account, cards |-> IdleCards],
         flow'.busy = FALSE \/ (flow'.at = 1 /\ flow'.run # 0)
  PROVE  CardsWell' /\ flow'.cards \in [Cards -> CardStates]
<1>1. flow'.cards = IdleCards /\ \A x \in Cards : flow'.cards[x] = "idle"
  BY DEF IdleCards
<1>2. /\ \A i \in 1 .. 11 : flow'.cards[FlowSteps[i]] = "idle"
      /\ \A step \in Writes : flow'.cards[step] = "idle"
  <2>1. \A step \in Writes : \E i \in 1 .. 11 : FlowSteps[i] = step
    <3>1. /\ FlowSteps[4] = "account" /\ FlowSteps[5] = "credit-usd" /\ FlowSteps[6] = "credit-btc"
          /\ FlowSteps[7] = "place" /\ FlowSteps[10] = "cancel"
      BY DEF FlowSteps
    <3> QED
      BY <3>1 DEF Writes
  <2>2. \A i \in 1 .. 11 : flow'.cards[FlowSteps[i]] = "idle"
    BY <1>1, FlowStepFacts
  <2> QED
    BY <2>1, <2>2
<1>3. CardsWell'
  <2>1. flow'.busy => /\ flow'.run # 0 /\ flow'.at \in 1 .. 11 /\ flow'.at = 1
    OBVIOUS
  <2> QED
    BY <1>2, <2>1, FlowStepFacts DEF CardsWell, Green, Card
<1>4. flow'.cards \in [Cards -> CardStates]
  BY <1>1 DEF IdleCards, CardStates
<1> QED
  BY <1>3, <1>4

(* A reload, and the cards reset.                                           *)
LEMMA FlowForgotten ==
  ASSUME ConsoleInv, me \/ resetFlowSteps
  PROVE  ConsoleInv'
<1>1. /\ ConsoleTyped /\ ServedWell /\ CallsWell /\ CardsWell
  BY DEF ConsoleInv
<1>2. /\ flow' = [run |-> flow.run, busy |-> flow'.busy, at |-> flow'.at, keyed |-> flow.keyed,
                  account |-> flow.account, cards |-> IdleCards]
      /\ flow'.busy = FALSE /\ flow'.at \in 0 .. 11
  <2>1. flow = [run |-> flow.run, busy |-> flow.busy, at |-> flow.at, keyed |-> flow.keyed,
                  account |-> flow.account, cards |-> flow.cards]
        /\ flow.busy \in BOOLEAN /\ flow.at \in 0 .. 11
    BY <1>1, FlowStepFacts DEF ConsoleTyped
  <2>2. CASE me
    <3>1. flow' = [run |-> flow.run, busy |-> FALSE, at |-> 0, keyed |-> flow.keyed,
                  account |-> flow.account, cards |-> IdleCards]
      BY <2>1, <2>2 DEF me
    <3> QED
      BY <3>1
  <2>3. CASE resetFlowSteps
    <3>1. flow' = [run |-> flow.run, busy |-> flow.busy, at |-> flow.at, keyed |-> flow.keyed,
                  account |-> flow.account, cards |-> IdleCards] /\ flow.busy = FALSE
      BY <2>1, <2>3 DEF resetFlowSteps
    <3> QED
      BY <2>1, <3>1
  <2> QED
    BY <2>2, <2>3
<1>3. /\ flow'.run = flow.run /\ flow'.account = flow.account
      /\ UNCHANGED <<accounts, creditsDone, book, served>>
  BY <1>2 DEF me, resetFlowSteps, backendVars
<1>4. /\ ServedWell' /\ \A c : RunCall(c) => RunCall(c)'
  BY <1>1, <1>3, SameRun
<1>5. CardsWell' /\ flow'.cards \in [Cards -> CardStates]
  <2>1. flow'.keyed = flow.keyed
    BY <1>2
  <2>2. flow' = [run |-> flow'.run, busy |-> flow'.busy, at |-> flow'.at, keyed |-> flow'.keyed,
             account |-> flow'.account, cards |-> IdleCards]
    BY <1>2, <1>3, <2>1
  <2> QED
    BY <1>2, <2>2, IdleWell
<1>6. sends' \in Nat /\ formKey' \in Nat /\ placeBody' \in {"manual"} \X Nat
  <2>1. sends \in Nat /\ formKey \in Nat /\ placeBody \in {"manual"} \X Nat
    BY <1>1 DEF ConsoleTyped
  <2>2. CASE me
    <3>1. sends' = sends + 1 /\ formKey' = sends + 1 /\ placeBody' = <<"manual", 0>>
      BY <2>2 DEF me, ByHand
    <3> QED
      BY <2>1, <3>1
  <2>3. CASE resetFlowSteps
    BY <2>1, <2>3 DEF resetFlowSteps, formVars
  <2> QED
    BY <2>2, <2>3
<1>7. ConsoleTyped'
  BY <1>1, <1>2, <1>3, <1>5, <1>6, FlowStepFacts DEF ConsoleTyped
<1>8. ASSUME NEW d \in calls' PROVE CallWell(d)' /\ d.from # "flow"
  <2>1. CASE me
    <3> PICK c : c = Call("panel", "me", Principal(FALSE), None, None, NoKey, NoBody)
      OBVIOUS
    <3>1. d \in Abandoned(calls) \/ d = c
      BY <1>8, <2>1 DEF me
    <3>2. CASE d \in Abandoned(calls)
      <4>1. PICK e \in calls : d = [e EXCEPT !.from = "gone"]
        BY <3>2 DEF Abandoned
      <4>2. CallWell(e)
        BY <1>1, <4>1 DEF CallsWell
      <4>3. CallWell(d) /\ d.from = "gone"
        BY <4>1, <4>2, CallAbandoned
      <4> QED
        BY <1>4, <4>3 DEF CallWell
    <3>3. CASE d = c
      <4>1. c = CallOf(c) /\ c.from = "panel" /\ c.step = "me" /\ c.key = NoKey
        BY DEF Call, CallOf
      <4>2. Plain(c)
        BY <4>1 DEF Plain, Credits
      <4> QED
        BY <3>3, <4>1, <4>2 DEF CallWell
    <3> QED
      BY <3>1, <3>2, <3>3
  <2>2. CASE resetFlowSteps
    <3>1. CallWell(d) /\ ~flow.busy
      BY <1>1, <1>8, <2>2 DEF CallsWell, resetFlowSteps
    <3>2. d.from # "flow"
      BY <3>1 DEF CallWell, Awaited
    <3> QED
      BY <1>4, <3>1, <3>2 DEF CallWell
  <2> QED
    BY <2>1, <2>2
<1>9. CallsWell'
  BY <1>8 DEF CallsWell
<1> QED
  BY <1>4, <1>5, <1>7, <1>9 DEF ConsoleInv

(* The flow begins: its run has a number nobody has used.                   *)
LEMMA FlowBegins ==
  ASSUME ConsoleInv, runUserFlow
  PROVE  ConsoleInv'
<1>1. /\ ConsoleTyped /\ ServedWell /\ CallsWell /\ CardsWell
  BY DEF ConsoleInv
<1>2. /\ flow' = [run |-> flow.run + 1, busy |-> TRUE, at |-> 1, keyed |-> keyed,
                  account |-> accountId, cards |-> IdleCards]
      /\ ~flow.busy /\ flow.run < MaxFlows /\ calls' = calls
      /\ UNCHANGED <<sends, formKey, placeBody, accounts, creditsDone, book, served>>
  BY DEF runUserFlow, backendVars, formVars
<1>3. /\ flow.run \in Nat /\ MaxFlows \in Nat /\ flow'.run = flow.run + 1
      /\ flow'.run \in 0 .. MaxFlows /\ 1 .. flow.run \subseteq 1 .. flow'.run
      /\ \A n \in 1 .. flow.run : n # flow'.run
  BY <1>1, <1>2, ConsoleAssumption DEF ConsoleTyped
<1>4. CardsWell' /\ flow'.cards \in [Cards -> CardStates]
  <2>1. flow' = [run |-> flow'.run, busy |-> flow'.busy, at |-> flow'.at, keyed |-> flow'.keyed,
             account |-> flow'.account, cards |-> IdleCards]
    BY <1>2
  <2>2. flow'.at = 1 /\ flow'.run # 0
    BY <1>2, <1>3
  <2> QED
    BY <2>1, <2>2, IdleWell
<1>5. ConsoleTyped'
  BY <1>1, <1>2, <1>3, <1>4, FlowStepFacts DEF ConsoleTyped
<1>6. ServedWell'
  <2>1. \A step, n : n # flow'.run /\ Effected(step, n) => Effected(step, n)'
    BY <1>2 DEF Effected, Placed
  <2>2. \A s, step, n : n # flow'.run /\ OfRun(s, step, n) => OfRun(s, step, n)'
    BY <2>1 DEF OfRun
  <2>3. \A step, n : Done(step, n)' = Done(step, n)
    BY <1>2 DEF Done
  <2> QED
    BY <1>1, <1>2, <1>3, <2>2, <2>3 DEF ServedWell
<1>7. CallsWell'
  <2>1. \A c : RunCall(c) => RunCall(c)'
    BY <1>3 DEF RunCall
  <2>2. \A c \in calls : c.from # "flow"
    BY <1>1, <1>2 DEF CallsWell, CallWell, Awaited
  <2> QED
    BY <1>1, <1>2, <2>1, <2>2 DEF CallsWell, CallWell
<1> QED
  BY <1>4, <1>5, <1>6, <1>7 DEF ConsoleInv

(* A card runs: the one call the flow waits for.                            *)
LEMMA CardRuns ==
  ASSUME ConsoleInv, executeFlowStep
  PROVE  ConsoleInv'
<1>1. /\ ConsoleTyped /\ ServedWell /\ CallsWell /\ CardsWell /\ Len(FlowSteps) = 11
      /\ \A i \in 1 .. 11 : FlowSteps[i] \in Cards
      /\ \A i, j \in 1 .. 11 : FlowSteps[i] = FlowSteps[j] => i = j
  BY FlowStepFacts DEF ConsoleInv
<1> PICK k : k = flow.at
  OBVIOUS
<1> PICK card : card = FlowSteps[k]
  OBVIOUS
<1>2. /\ flow.busy /\ k \in 1 .. 11 /\ flow.cards[card] = "idle" /\ Card = card /\ card \in Cards
      /\ flow.run # 0 /\ flow.run \in Nat
      /\ \A i \in 1 .. (k - 1) : Green(FlowSteps[i])
      /\ \A j \in (k + 1) .. 11 : flow.cards[FlowSteps[j]] = "idle"
  BY <1>1 DEF executeFlowStep, CardsWell, Card, ConsoleTyped
<1>3. /\ flow' = [run |-> flow.run, busy |-> flow.busy, at |-> flow.at, keyed |-> flow.keyed,
                  account |-> flow.account, cards |-> [flow.cards EXCEPT ![card] = "running"]]
      /\ flow'.run = flow.run /\ flow'.account = flow.account /\ flow'.at = k /\ flow'.busy
      /\ flow'.cards = [flow.cards EXCEPT ![card] = "running"]
      /\ UNCHANGED <<sends, formKey, placeBody, accounts, creditsDone, book, served>>
  <2>1. flow' = [flow EXCEPT !.cards[card] = "running"]
    BY <1>2 DEF executeFlowStep
  <2>2. flow' = [run |-> flow.run, busy |-> flow.busy, at |-> flow.at, keyed |-> flow.keyed,
                  account |-> flow.account, cards |-> [flow.cards EXCEPT ![card] = "running"]]
    BY <1>1, <2>1 DEF ConsoleTyped
  <2>3. UNCHANGED <<sends, formKey, placeBody, accounts, creditsDone, book, served>>
    BY DEF executeFlowStep, formVars, backendVars
  <2> QED
    BY <1>2, <2>2, <2>3
<1>4. /\ flow'.cards \in [Cards -> CardStates] /\ flow'.cards[card] = "running"
      /\ \A x \in Cards \ {card} : flow'.cards[x] = flow.cards[x]
  BY <1>1, <1>2, <1>3 DEF ConsoleTyped, CardStates
<1>5. /\ ServedWell' /\ \A c : RunCall(c) => RunCall(c)'
      /\ \A step, n : Done(step, n) => Done(step, n)'
  BY <1>1, <1>3, SameRun
<1>6. ConsoleTyped'
  BY <1>1, <1>3, <1>4 DEF ConsoleTyped
<1>7. CardsWell'
  <2>1. /\ \A i \in 1 .. 11 : i # k => flow'.cards[FlowSteps[i]] = flow.cards[FlowSteps[i]]
        /\ flow'.cards[FlowSteps[k]] = "running"
    BY <1>1, <1>2, <1>4
  <2>2. \A i, j \in 1 .. 11 : i < j /\ flow'.cards[FlowSteps[j]] # "idle" =>
          flow'.cards[FlowSteps[i]] = "success"
    <3> SUFFICES ASSUME NEW i \in 1 .. 11, NEW j \in 1 .. 11, i < j,
                        flow'.cards[FlowSteps[j]] # "idle"
                 PROVE  flow'.cards[FlowSteps[i]] = "success"
      OBVIOUS
    <3>1. CASE j = k
      BY <1>2, <2>1, <3>1 DEF Green
    <3>2. CASE j # k
      <4>1. flow.cards[FlowSteps[j]] # "idle"
        BY <2>1, <3>2
      <4>2. flow.cards[FlowSteps[i]] = "success"
        BY <1>1, <4>1 DEF CardsWell, Green
      <4> QED
        BY <1>2, <2>1, <4>2
    <3> QED
      BY <3>1, <3>2
  <2>3. /\ \A i \in 1 .. (k - 1) : flow'.cards[FlowSteps[i]] = "success"
        /\ \A j \in (k + 1) .. 11 : flow'.cards[FlowSteps[j]] = "idle"
    BY <1>2, <2>1 DEF Green
  <2>4. \A step \in Writes : flow'.cards[step] = "success" => Done(step, flow.run)'
    <3> SUFFICES ASSUME NEW step \in Writes, flow'.cards[step] = "success"
                 PROVE  Done(step, flow.run)'
      OBVIOUS
    <3>1. flow.cards[step] = "success"
      BY <1>1, <1>3, <1>4 DEF ConsoleTyped
    <3> QED
      BY <1>1, <1>3, <1>5, <3>1 DEF CardsWell, Green
  <2>5. flow'.run # 0 /\ flow'.at \in 1 .. 11 /\ flow'.cards[FlowSteps[flow'.at]] = "running"
    BY <1>2, <1>3, <2>1
  <2> QED
    BY <1>1, <1>3, <2>2, <2>3, <2>4, <2>5 DEF CardsWell, Green, Card
<1>8. CallsWell'
  <2>1. PICK c : /\ calls' = calls \cup {c}
                 /\ c = Call("flow", card, Principal(flow.keyed), flow.account, FlowOrder,
                             IF card \in Writes THEN <<card, flow.run>> ELSE NoKey,
                             <<card, flow.run>>)
    BY <1>2 DEF executeFlowStep, callApi
  <2>2. /\ c = CallOf(c) /\ c.from = "flow" /\ c.step = card /\ c.account = flow.account
        /\ c.order = <<"flow", flow.run>> /\ c.body = <<card, flow.run>> /\ c.answer = "none"
        /\ c.key = IF card \in Writes THEN <<card, flow.run>> ELSE NoKey
    BY <2>1 DEF Call, CallOf, FlowOrder
  <2>3. Plain(c) \/ RunCall(c)
    <3>1. CASE card \in Writes
      <4>1. flow.run \in 1 .. flow.run
        BY <1>2
      <4> QED
        BY <2>2, <3>1, <4>1 DEF RunCall
    <3>2. CASE card \notin Writes
      BY <2>2, <3>2 DEF Plain, Writes, Credits
    <3> QED
      BY <3>1, <3>2
  <2>4. Awaited(c)'
    BY <1>2, <1>3, <1>4, <2>2 DEF Awaited, Card
  <2>5. CallWell(c)'
    BY <1>5, <2>2, <2>3, <2>4 DEF CallWell
  <2>6. \A d \in calls : CallWell(d) /\ d.from # "flow"
    BY <1>1, <1>2 DEF CallsWell, CallWell, Awaited
  <2>7. \A d \in calls : CallWell(d)'
    BY <1>5, <2>6 DEF CallWell
  <2> QED
    BY <2>1, <2>5, <2>6, <2>7 DEF CallsWell
<1> QED
  BY <1>5, <1>6, <1>7, <1>8 DEF ConsoleInv

(* A card turns green or red.                                               *)
LEMMA CardTurns ==
  ASSUME ConsoleInv, NEW c \in calls, FlowAnswer(c)
  PROVE  ConsoleInv'
<1>1. /\ ConsoleTyped /\ ServedWell /\ CallsWell /\ CardsWell /\ Len(FlowSteps) = 11
      /\ \A i \in 1 .. 11 : FlowSteps[i] \in Cards
      /\ \A i, j \in 1 .. 11 : FlowSteps[i] = FlowSteps[j] => i = j
  BY FlowStepFacts DEF ConsoleInv
<1> PICK k : k = flow.at
  OBVIOUS
<1> PICK card : card = FlowSteps[k]
  OBVIOUS
<1> PICK last : last = (k = 11 \/ c.answer # "ok")
  OBVIOUS
<1> PICK to : to = IF c.answer = "ok" THEN "success" ELSE "failure"
  OBVIOUS
<1>2. /\ c.from = "flow" /\ Awaited(c) /\ flow.busy /\ Card = card
      /\ k \in 1 .. 11 /\ card \in Cards
      /\ flow.run # 0 /\ flow.run \in Nat
      /\ \A i \in 1 .. (k - 1) : Green(FlowSteps[i])
      /\ \A j \in (k + 1) .. 11 : flow.cards[FlowSteps[j]] = "idle"
  BY <1>1 DEF FlowAnswer, CallsWell, CallWell, CardsWell, Card, ConsoleTyped, Awaited
<1>3. /\ flow' = [run |-> flow.run, busy |-> ~last, at |-> IF last THEN 0 ELSE k + 1,
                  keyed |-> flow.keyed,
                  account |-> flow.account, cards |-> [flow.cards EXCEPT ![card] = to]]
      /\ UNCHANGED <<sends, formKey, placeBody, accounts, creditsDone, book, served>>
      /\ calls' = calls \ {c}
  <2>1. flow' = [flow EXCEPT !.cards[card] = to, !.busy = ~last,
                             !.at = IF last THEN 0 ELSE @ + 1]
    BY <1>1, <1>2 DEF FlowAnswer, GoesOn
  <2>2. flow' = [run |-> flow.run, busy |-> ~last, at |-> IF last THEN 0 ELSE k + 1,
                  keyed |-> flow.keyed,
                  account |-> flow.account, cards |-> [flow.cards EXCEPT ![card] = to]]
    BY <1>1, <2>1 DEF ConsoleTyped
  <2>3. UNCHANGED <<sends, formKey, placeBody, accounts, creditsDone, book, served>>
    BY DEF FlowAnswer, backendVars
  <2> QED
    BY <2>2, <2>3 DEF FlowAnswer
<1>4. /\ flow'.run = flow.run /\ flow'.account = flow.account /\ flow'.busy = ~last
      /\ flow'.at = (IF last THEN 0 ELSE k + 1) /\ last \in BOOLEAN
      /\ flow'.at \in 0 .. 11 /\ (~last => flow'.at = k + 1 /\ k + 1 \in 1 .. 11)
      /\ flow'.cards \in [Cards -> CardStates] /\ flow'.cards[card] = to
      /\ \A x \in Cards \ {card} : flow'.cards[x] = flow.cards[x]
  <2>1. to \in CardStates
    BY DEF CardStates
  <2>2. flow.cards \in [Cards -> CardStates]
    BY <1>1 DEF ConsoleTyped
  <2>3. flow'.at \in 0 .. 11 /\ (~last => flow'.at = k + 1 /\ k + 1 \in 1 .. 11)
    <3>1. flow'.at = IF last THEN 0 ELSE k + 1
      BY <1>3
    <3>2. CASE last
      BY <3>1, <3>2
    <3>3. CASE ~last
      <4>1. k # 11 /\ flow'.at = k + 1
        BY <3>1, <3>3
      <4> QED
        BY <1>2, <4>1
    <3> QED
      BY <3>2, <3>3
  <2> QED
    BY <1>2, <1>3, <2>1, <2>2, <2>3
<1>5. /\ ServedWell' /\ \A d : RunCall(d) => RunCall(d)'
      /\ \A step, n : Done(step, n) => Done(step, n)'
  BY <1>1, <1>3, <1>4, SameRun
<1>6. ConsoleTyped'
  <2>1. flow' = [run |-> flow'.run, busy |-> flow'.busy, at |-> flow'.at, keyed |-> flow'.keyed,
             account |-> flow'.account, cards |-> flow'.cards]
    BY <1>3
  <2> QED
    BY <1>1, <1>3, <1>4, <2>1, SMTT(20) DEF ConsoleTyped
<1>7. CardsWell'
  <2>1. /\ \A i \in 1 .. 11 : i # k => flow'.cards[FlowSteps[i]] = flow.cards[FlowSteps[i]]
        /\ flow'.cards[FlowSteps[k]] = to
    BY <1>1, <1>2, <1>4
  <2>2. \A i, j \in 1 .. 11 : i < j /\ flow'.cards[FlowSteps[j]] # "idle" =>
          flow'.cards[FlowSteps[i]] = "success"
    <3> SUFFICES ASSUME NEW i \in 1 .. 11, NEW j \in 1 .. 11, i < j,
                        flow'.cards[FlowSteps[j]] # "idle"
                 PROVE  flow'.cards[FlowSteps[i]] = "success"
      OBVIOUS
    <3>1. j <= k
      BY <1>2, <2>1
    <3>2. i \in 1 .. (k - 1)
      BY <1>2, <3>1
    <3> QED
      BY <1>2, <2>1, <3>2 DEF Green
  <2>3. ~last => /\ \A i \in 1 .. k : flow'.cards[FlowSteps[i]] = "success"
                 /\ \A j \in (k + 1) .. 11 : flow'.cards[FlowSteps[j]] = "idle"
    <3>1. ~last => to = "success"
      OBVIOUS
    <3>2. \A i \in 1 .. k : i = k \/ i \in 1 .. (k - 1)
      BY <1>2
    <3>3. \A i \in 1 .. (k - 1) : i \in 1 .. 11 /\ i # k
      BY <1>2
    <3>4. \A i \in 1 .. (k - 1) : flow'.cards[FlowSteps[i]] = "success"
      BY <1>2, <2>1, <3>3 DEF Green
    <3>5. \A j \in (k + 1) .. 11 : j \in 1 .. 11 /\ j # k
      BY <1>2
    <3>6. \A j \in (k + 1) .. 11 : flow'.cards[FlowSteps[j]] = "idle"
      BY <1>2, <2>1, <3>5
    <3> QED
      BY <2>1, <3>1, <3>2, <3>4, <3>6
  <2>4. \A step \in Writes : flow'.cards[step] = "success" => Done(step, flow.run)'
    <3> SUFFICES ASSUME NEW step \in Writes, flow'.cards[step] = "success"
                 PROVE  Done(step, flow.run)'
      OBVIOUS
    <3>1. CASE step = card
      <4>1. c.answer = "ok"
        BY <1>4, <3>1
      <4>2. Done(card, flow.run)
        BY <1>2, <3>1, <4>1 DEF Awaited
      <4> QED
        BY <1>4, <1>5, <3>1, <4>2
    <3>2. CASE step # card
      <4>1. flow.cards[step] = "success"
        BY <1>1, <1>3, <3>2 DEF ConsoleTyped
      <4>2. Done(step, flow.run)
        BY <1>1, <4>1 DEF CardsWell, Green
      <4> QED
        BY <1>4, <1>5, <4>2
    <3> QED
      BY <3>1, <3>2
  <2>a. flow'.busy => ~last
    <3>1. CASE last
      <4>1. flow'.busy = FALSE
        BY <1>3, <3>1
      <4> QED
        BY <4>1
    <3> QED
      BY <3>1
  <2>5. flow'.busy => /\ flow'.run # 0 /\ flow'.at = k + 1 /\ flow'.at \in 1 .. 11
                      /\ flow'.cards[FlowSteps[flow'.at]] = "idle"
                      /\ \A i \in 1 .. (flow'.at - 1) : flow'.cards[FlowSteps[i]] = "success"
                      /\ \A j \in (flow'.at + 1) .. 11 : flow'.cards[FlowSteps[j]] = "idle"
    <3> SUFFICES ASSUME ~last
                 PROVE  /\ flow'.run # 0 /\ flow'.at = k + 1 /\ flow'.at \in 1 .. 11
                        /\ flow'.cards[FlowSteps[flow'.at]] = "idle"
                        /\ \A i \in 1 .. (flow'.at - 1) : flow'.cards[FlowSteps[i]] = "success"
                        /\ \A j \in (flow'.at + 1) .. 11 : flow'.cards[FlowSteps[j]] = "idle"
      BY <2>a
    <3>1. flow'.run # 0 /\ flow'.at = k + 1 /\ flow'.at \in 1 .. 11 /\ k + 1 \in (k + 1) .. 11
      BY <1>2, <1>4
    <3>2. 1 .. (flow'.at - 1) = 1 .. k /\ (flow'.at + 1) .. 11 \subseteq (k + 1) .. 11
      BY <1>2, <3>1
    <3> QED
      BY <2>3, <3>1, <3>2
  <2> QED
    BY <1>1, <1>4, <2>2, <2>4, <2>5 DEF CardsWell, Green, Card
<1>8. CallsWell'
  <2>1. \A d \in calls' : CallWell(d) /\ d.from # "flow"
    BY <1>1, <1>2, <1>3 DEF CallsWell
  <2>2. \A d \in calls' : CallWell(d)'
    BY <1>5, <2>1 DEF CallWell
  <2> QED
    BY <2>1, <2>2 DEF CallsWell
<1> QED
  BY <1>5, <1>6, <1>7, <1>8 DEF ConsoleInv

(* What a served call leaves of the books: accounts and orders stay, with   *)
(* their owners, what is cancelled stays cancelled, and a credit counts one *)
(* run's counter up.                                                        *)
LEMMA EffectsKeep ==
  ASSUME ConsoleTyped, NEW c, CallWell(c), Allowed(c), Effects(c)
  PROVE  /\ accounts \subseteq accounts'
         /\ \A o \in DOMAIN book' : book'[o] = [owner |-> book'[o].owner, status |-> book'[o].status]
         /\ \A o \in DOMAIN book :
              /\ o \in DOMAIN book' /\ book'[o].owner = book[o].owner
              /\ book[o].status = "cancelled" => book'[o].status = "cancelled"
<1>1. accounts \subseteq accounts'
  BY DEF Effects
<1>2. CASE c.step = "place"
  <2>1. /\ c.order \notin DOMAIN book
        /\ book' = [o \in DOMAIN book \cup {c.order} |->
                      IF o = c.order THEN [owner |-> c.account, status |-> "active"] ELSE book[o]]
    BY <1>2 DEF Allowed, Effects, Placed
  <2>2. \A o \in DOMAIN book : book'[o] = book[o] /\ o \in DOMAIN book'
    BY <2>1
  <2>3. DOMAIN book' = DOMAIN book \cup {c.order} /\ book'[c.order] = [owner |-> c.account, status |-> "active"]
    BY <2>1
  <2> QED
    BY <1>1, <2>2, <2>3 DEF ConsoleTyped
<1>3. CASE c.step = "cancel"
  <2>1. /\ c.order \in DOMAIN book
        /\ book' = [book EXCEPT ![c.order].status = "cancelled"]
    BY <1>3 DEF Allowed, Effects, Mine, Placed
  <2>2. book[c.order] = [owner |-> book[c.order].owner, status |-> book[c.order].status]
    BY <2>1 DEF ConsoleTyped
  <2>3. /\ DOMAIN book' = DOMAIN book
        /\ book'[c.order] = [owner |-> book[c.order].owner, status |-> "cancelled"]
        /\ \A o \in DOMAIN book : o # c.order => book'[o] = book[o]
    BY <2>1, <2>2
  <2>4. ASSUME NEW o \in DOMAIN book'
        PROVE  book'[o] = [owner |-> book'[o].owner, status |-> book'[o].status]
    <3>1. CASE o = c.order
      BY <2>3, <3>1
    <3>2. CASE o # c.order
      BY <2>3, <3>2 DEF ConsoleTyped
    <3> QED
      BY <3>1, <3>2
  <2> QED
    BY <1>1, <2>3, <2>4
<1>4. CASE c.step \notin {"place", "cancel"}
  <2>1. book' = book
    BY <1>4 DEF Effects
  <2> QED
    BY <1>1, <2>1 DEF ConsoleTyped
<1> QED
  BY <1>2, <1>3, <1>4

LEMMA CreditsKeep ==
  ASSUME ConsoleTyped, NEW c, CallWell(c), Effects(c)
  PROVE  /\ creditsDone' \in [1 .. MaxFlows -> [Credits -> Nat]]
         /\ c.step \notin Credits => creditsDone' = creditsDone
         /\ \A n \in 1 .. flow.run : c.step \in Credits /\ c.key = <<c.step, n>> =>
              /\ n \in 1 .. MaxFlows /\ creditsDone'[n][c.step] = creditsDone[n][c.step] + 1
              /\ \A m \in 1 .. MaxFlows, step \in Credits :
                   m # n \/ step # c.step => creditsDone'[m][step] = creditsDone[m][step]
<1>1. CASE c.step \notin Credits
  <2>1. creditsDone' = creditsDone
    BY <1>1 DEF Effects, Credits
  <2> QED
    BY <1>1, <2>1 DEF ConsoleTyped
<1>2. CASE c.step \in Credits
  <2>1. RunCall(c)
    BY <1>2 DEF CallWell, Plain, FormCall, Credits
  <2>2. PICK n \in 1 .. flow.run : c.key = <<c.step, n>> /\ c.order = <<"flow", n>>
    BY <2>1 DEF RunCall
  <2>3. n \in 1 .. MaxFlows
    BY ConsoleAssumption DEF ConsoleTyped
  <2>4. creditsDone' = [creditsDone EXCEPT ![n][c.step] = @ + 1]
    BY <1>2, <2>2 DEF Effects, Credits
  <2>5. creditsDone \in [1 .. MaxFlows -> [Credits -> Nat]]
    BY DEF ConsoleTyped
  <2>6. creditsDone[n] \in [Credits -> Nat] /\ creditsDone[n][c.step] + 1 \in Nat
    BY <1>2, <2>3, <2>5
  <2> PICK row : row = [creditsDone[n] EXCEPT ![c.step] = creditsDone[n][c.step] + 1]
    OBVIOUS
  <2>7. /\ row \in [Credits -> Nat] /\ row[c.step] = creditsDone[n][c.step] + 1
        /\ \A step \in Credits : step # c.step => row[step] = creditsDone[n][step]
    BY <1>2, <2>6
  <2>8. creditsDone' = [creditsDone EXCEPT ![n] = row]
    BY <2>4
  <2>9. /\ creditsDone' \in [1 .. MaxFlows -> [Credits -> Nat]]
        /\ creditsDone'[n] = row
        /\ \A m \in 1 .. MaxFlows : m # n => creditsDone'[m] = creditsDone[m]
    BY <2>3, <2>5, <2>7, <2>8
  <2>10. \A m \in 1 .. flow.run : c.key = <<c.step, m>> => m = n
    BY <2>2
  <2>11. \A m \in 1 .. MaxFlows, step \in Credits :
                   m # n \/ step # c.step => creditsDone'[m][step] = creditsDone[m][step]
    BY <2>7, <2>9
  <2> QED
    BY <1>2, <2>3, <2>7, <2>9, <2>10, <2>11
<1> QED
  BY <1>1, <1>2

(* The backend serves a call, or finds that it has served it.               *)
LEMMA CallServed ==
  ASSUME ConsoleInv, NEW c \in calls, Serve(c)
  PROVE  ConsoleInv'
<1>1. /\ ConsoleTyped /\ ServedWell /\ CallsWell /\ CardsWell /\ CallWell(c)
      /\ UNCHANGED <<flow, sends, formKey, placeBody>>
      /\ sends \in Nat /\ formKey \in Nat /\ placeBody \in {"manual"} \X Nat
  BY DEF ConsoleInv, CallsWell, ConsoleTyped, Serve, formVars
<1>2. CASE Record(c) # {} /\ UNCHANGED backendVars /\
           calls' = Answered(c, IF \E s \in Record(c) : s.body = c.body THEN "ok" ELSE "refused")
  <2> PICK a : a = IF \E s \in Record(c) : s.body = c.body THEN "ok" ELSE "refused"
    OBVIOUS
  <2>1. c.from = "flow" /\ Card \in Writes => Done(Card, flow.run)
    BY <1>1, <1>2 DEF CallWell, Awaited, Record, Done
  <2>2. /\ \A d \in calls' : CallWell(d)
        /\ \A d, e \in calls' : d.from = "flow" /\ e.from = "flow" => d = e
    BY <1>1, <1>2, <2>1, AnsweredWell
  <2> QED
    BY <1>1, <1>2, <2>2, CallsMove DEF backendVars
<1>3. CASE ~(c.key # NoKey /\ Record(c) # {}) /\ Allowed(c) /\ Effects(c) /\ calls' = Answered(c, "ok")
  <2> PICK new : new = [scope |-> Scope(c), key |-> c.key, body |-> c.body]
    OBVIOUS
  <2>1. /\ c.key = NoKey => served' = served
        /\ c.key # NoKey => served' = served \cup {new}
        /\ new.scope = Scope(c) /\ new.key = c.key /\ new.body = c.body
    BY <1>3 DEF Effects
  <2>2. /\ accounts \subseteq accounts'
        /\ \A o \in DOMAIN book' : book'[o] = [owner |-> book'[o].owner, status |-> book'[o].status]
        /\ \A o \in DOMAIN book :
              /\ o \in DOMAIN book' /\ book'[o].owner = book[o].owner
              /\ book[o].status = "cancelled" => book'[o].status = "cancelled"
    BY <1>1, <1>3, EffectsKeep
  <2>3. /\ creditsDone' \in [1 .. MaxFlows -> [Credits -> Nat]]
        /\ c.step \notin Credits => creditsDone' = creditsDone
        /\ \A n \in 1 .. flow.run : c.step \in Credits /\ c.key = <<c.step, n>> =>
              /\ n \in 1 .. MaxFlows /\ creditsDone'[n][c.step] = creditsDone[n][c.step] + 1
              /\ \A m \in 1 .. MaxFlows, step \in Credits :
                   m # n \/ step # c.step => creditsDone'[m][step] = creditsDone[m][step]
    BY <1>1, <1>3, CreditsKeep
  <2>4. ConsoleTyped'
    BY <1>1, <2>2, <2>3 DEF ConsoleTyped
  <2>5. \A step, n : Done(step, n) => Done(step, n)'
    BY <2>1 DEF Done
  <2>6. c.key # NoKey => \A n \in 1 .. flow.run, step \in Writes : c.key = <<step, n>> => Done(step, n)'
    BY <2>1 DEF Done
  <2>7. CardsWell'
    BY <1>1, <2>5 DEF CardsWell, Card, Green
  <2>8. CallsWell'
    <3>1. \A d : CallWell(d) => CallWell(d)'
      BY <1>1, <2>5 DEF CallWell, RunCall, Awaited, Card
    <3> PICK x : x = [c EXCEPT !.answer = "ok"]
      OBVIOUS
    <3>2. c = CallOf(c)
      BY <1>1 DEF CallWell
    <3>3. x = [from |-> c.from, step |-> c.step, as |-> c.as, account |-> c.account,
               order |-> c.order, key |-> c.key, body |-> c.body, answer |-> "ok"]
      BY <3>2 DEF CallOf
    <3>4. /\ x = CallOf(x) /\ x.from = c.from /\ x.step = c.step /\ x.account = c.account
          /\ x.order = c.order /\ x.key = c.key /\ x.body = c.body
      BY <3>3 DEF CallOf
    <3>5. Plain(x) \/ FormCall(x) \/ RunCall(x)'
      BY <1>1, <3>4 DEF CallWell, Plain, FormCall, RunCall
    <3>6. c.from = "flow" /\ Card \in Writes => Done(Card, flow.run)'
      <4> SUFFICES ASSUME c.from = "flow", Card \in Writes PROVE Done(Card, flow.run)'
        OBVIOUS
      <4>1. c.key = <<Card, flow.run>> /\ Card # "none"
        BY <1>1 DEF CallWell, Awaited, Writes
      <4>2. c.key # NoKey
        BY <4>1 DEF NoKey
      <4>3. new \in served' /\ new.key = <<Card, flow.run>>
        BY <2>1, <4>1, <4>2
      <4>4. Card' = Card /\ flow' = flow
        BY <1>1 DEF Card
      <4> QED
        BY <4>3, <4>4 DEF Done
    <3>7. x.from = "flow" => Awaited(x)'
      BY <1>1, <3>4, <3>6 DEF CallWell, Awaited, Card
    <3>8. CallWell(x)'
      <4>1. (x = CallOf(x))' /\ (Plain(x) \/ FormCall(x) \/ RunCall(x))'
        BY <3>4, <3>5, Zenon DEF Plain, FormCall, CallOf, OfForm
      <4> QED
        BY <3>7, <4>1, Zenon DEF CallWell
    <3>9. \A d \in calls' : (d \in calls /\ d # c) \/ d = x
      BY <1>3 DEF Answered
    <3>10. \A d \in calls' : CallWell(d)'
      BY <1>1, <3>1, <3>8, <3>9, Zenon DEF CallsWell
    <3>11. ASSUME NEW d \in calls', NEW e \in calls', d.from = "flow", e.from = "flow" PROVE d = e
      <4>1. (d \in calls /\ d # c /\ c.from = "flow") => FALSE
        BY <1>1, <3>11 DEF CallsWell
      <4>2. (e \in calls /\ e # c /\ c.from = "flow") => FALSE
        BY <1>1, <3>11 DEF CallsWell
      <4>3. d \in calls /\ e \in calls => d = e
        BY <1>1, <3>11 DEF CallsWell
      <4>4. (d \in calls /\ d # c) \/ d = x
        BY <3>9
      <4>5. (e \in calls /\ e # c) \/ e = x
        BY <3>9
      <4>6. CASE c.from = "flow"
        BY <4>1, <4>2, <4>4, <4>5, <4>6
      <4>7. CASE c.from # "flow"
        <5>1. d # x /\ e # x
          BY <3>4, <3>11, <4>7
        <5> QED
          BY <4>3, <4>4, <4>5, <5>1
      <4> QED
        BY <4>6, <4>7
    <3> QED
      BY <3>10, <3>11 DEF CallsWell
  <2>9. ServedWell'
    <3>1. ASSUME NEW s \in served, NEW n \in 1 .. flow.run, NEW step \in Writes, OfRun(s, step, n)
          PROVE  OfRun(s, step, n)'
      <4>1. c.step = step /\ step \in Credits => c.key # <<step, n>>
        <5> SUFFICES ASSUME c.step = step, step \in Credits, c.key = <<step, n>> PROVE FALSE
          OBVIOUS
        <5>1. s.key = c.key /\ s.scope = Scope(c)
          BY <3>1 DEF OfRun, Scope, Credits
        <5>2. c.key # NoKey
          BY DEF NoKey, Credits
        <5> QED
          BY <1>3, <5>1, <5>2 DEF Record
      <4>2. step \in Credits => creditsDone'[n][step] = creditsDone[n][step]
        <5> SUFFICES ASSUME step \in Credits PROVE creditsDone'[n][step] = creditsDone[n][step]
          OBVIOUS
        <5>1. n \in 1 .. MaxFlows
          BY <1>1, ConsoleAssumption DEF ConsoleTyped
        <5>2. CASE c.step \in Credits
          <6>1. RunCall(c)
            BY <1>1, <5>2 DEF CallWell, Plain, FormCall, Credits
          <6>2. PICK m \in 1 .. flow.run : c.key = <<c.step, m>>
            BY <6>1 DEF RunCall
          <6>3. m # n \/ step # c.step
            BY <4>1, <6>2
          <6> QED
            BY <2>3, <5>1, <5>2, <6>2, <6>3
        <5> QED
          BY <2>3, <5>2
      <4>3. Effected(step, n)'
        BY <1>1, <2>2, <3>1, <4>2 DEF OfRun, Effected, Placed
      <4> QED
        BY <3>1, <4>3 DEF OfRun
    <3>2. ASSUME c.key # NoKey
          PROVE  OfForm(new.key) \/ \E n \in 1 .. flow.run, step \in Writes : OfRun(new, step, n)'
      <4>1. CASE FormCall(c)
        BY <2>1, <4>1 DEF FormCall
      <4>2. CASE RunCall(c)
        <5>1. PICK n \in 1 .. flow.run :
                /\ c.step \in Writes /\ c.key = <<c.step, n>> /\ c.body = c.key /\ c.order = <<"flow", n>>
                /\ n = flow.run => c.account = flow.account
          BY <4>2 DEF RunCall
        <5>2. n \in 1 .. MaxFlows
          BY <1>1, ConsoleAssumption DEF ConsoleTyped
        <5>3. c.step \in Credits => creditsDone'[n][c.step] = 1 /\ (n = flow.run => flow.account \in accounts')
          <6> SUFFICES ASSUME c.step \in Credits
                       PROVE  creditsDone'[n][c.step] = 1 /\ (n = flow.run => flow.account \in accounts')
            OBVIOUS
          <6>1. Scope(c) = AdminKey /\ c.account \in accounts
            BY <1>3 DEF Scope, Credits, Allowed
          <6>2. ~Done(c.step, n)
            <7> SUFFICES ASSUME NEW s \in served, s.key = <<c.step, n>> PROVE FALSE
              BY DEF Done
            <7>1. PICK m \in 1 .. flow.run, step \in Writes : OfRun(s, step, m)
              BY <1>1 DEF ServedWell, OfForm, Credits
            <7>2. step = c.step /\ s.scope = AdminKey
              BY <7>1 DEF OfRun
            <7>3. s \in Record(c)
              BY <5>1, <6>1, <7>2 DEF Record
            <7> QED
              BY <1>3, <3>2, <7>3
          <6>3. creditsDone[n][c.step] = 0
            BY <1>1, <5>2, <6>2 DEF ServedWell
          <6>4. creditsDone'[n][c.step] = creditsDone[n][c.step] + 1
            BY <2>3, <5>1
          <6> QED
            BY <2>2, <5>1, <6>1, <6>3, <6>4
        <5>4. c.step = "place" => /\ Placed(<<"flow", n>>)'
                                  /\ n = flow.run => book'[<<"flow", n>>].owner = flow.account
          <6> SUFFICES ASSUME c.step = "place"
                       PROVE  /\ Placed(<<"flow", n>>)'
                              /\ n = flow.run => book'[<<"flow", n>>].owner = flow.account
            OBVIOUS
          <6>1. book' = [o \in DOMAIN book \cup {c.order} |->
                      IF o = c.order THEN [owner |-> c.account, status |-> "active"] ELSE book[o]]
            BY <1>3 DEF Effects
          <6>2. c.order \in DOMAIN book' /\ book'[c.order].owner = c.account
            BY <6>1
          <6> QED
            BY <5>1, <6>2 DEF Placed
        <5>5. c.step = "cancel" => /\ Placed(<<"flow", n>>)'
                                   /\ book'[<<"flow", n>>].status = "cancelled"
          <6> SUFFICES ASSUME c.step = "cancel"
                       PROVE  Placed(<<"flow", n>>)' /\ book'[<<"flow", n>>].status = "cancelled"
            OBVIOUS
          <6>1. c.order \in DOMAIN book /\ book' = [book EXCEPT ![c.order].status = "cancelled"]
            BY <1>3 DEF Effects, Allowed, Mine, Placed
          <6>2. book[c.order] = [owner |-> book[c.order].owner, status |-> book[c.order].status]
            BY <1>1, <6>1 DEF ConsoleTyped
          <6>3. c.order \in DOMAIN book' /\ book'[c.order].status = "cancelled"
            BY <6>1, <6>2
          <6> QED
            BY <5>1, <6>3 DEF Placed
        <5>6. Effected(c.step, n)'
          BY <1>1, <5>3, <5>4, <5>5 DEF Effected
        <5>7. c.step \in Credits => new.scope = AdminKey
          BY <2>1 DEF Scope, Credits
        <5>8. OfRun(new, c.step, n)'
          BY <2>1, <5>1, <5>6, <5>7 DEF OfRun
        <5> QED
          BY <5>1, <5>8
      <4> QED
        BY <1>1, <3>2, <4>1, <4>2 DEF CallWell, Plain
    <3>3. \A s \in served' : OfForm(s.key) \/ \E n \in 1 .. flow.run, step \in Writes : OfRun(s, step, n)'
      BY <1>1, <2>1, <3>1, <3>2 DEF ServedWell
    <3>4. ASSUME NEW n \in 1 .. MaxFlows, NEW step \in Credits
          PROVE  Done(step, n)' \/ creditsDone'[n][step] = 0
      <4>1. Done(step, n) \/ creditsDone[n][step] = 0
        BY <1>1 DEF ServedWell
      <4>2. CASE c.step \in Credits
        <5>1. RunCall(c)
          BY <1>1, <4>2 DEF CallWell, Plain, FormCall, Credits
        <5>2. PICK m \in 1 .. flow.run : c.key = <<c.step, m>>
          BY <5>1 DEF RunCall
        <5>3. CASE m = n /\ step = c.step
          <6>1. c.key # NoKey
            BY <4>2, <5>2 DEF NoKey, Credits
          <6> QED
            BY <2>1, <5>2, <5>3, <6>1 DEF Done
        <5>4. CASE m # n \/ step # c.step
          BY <2>3, <2>5, <4>1, <4>2, <5>2, <5>4
        <5> QED
          BY <5>3, <5>4
      <4>3. CASE c.step \notin Credits
        BY <2>3, <2>5, <4>1, <4>3
      <4> QED
        BY <4>2, <4>3
    <3> QED
      BY <1>1, <3>3, <3>4 DEF ServedWell, OfForm
  <2> QED
    BY <2>4, <2>7, <2>8, <2>9 DEF ConsoleInv
<1> QED
  BY <1>2, <1>3 DEF Serve

LEMMA ConsoleStep ==
  ASSUME ConsoleInv, [ConsoleNext]_consoleVars
  PROVE  ConsoleInv'
<1>1. CASE UNCHANGED consoleVars
  <2>1. /\ UNCHANGED <<flow, accounts, creditsDone, book, served, sends, formKey, placeBody, calls>>
    BY <1>1 DEF consoleVars, panelVars, formVars, backendVars
  <2>2. /\ \A c \in calls' : CallWell(c)
        /\ \A c, d \in calls' : c.from = "flow" /\ d.from = "flow" => c = d
    BY <2>1 DEF ConsoleInv, CallsWell
  <2>3. sends' \in Nat /\ formKey' \in Nat /\ placeBody' \in {"manual"} \X Nat
    BY <2>1 DEF ConsoleInv, ConsoleTyped
  <2> QED
    BY <2>1, <2>2, <2>3, CallsMove
<1>2. CASE me \/ resetFlowSteps
  BY <1>2, FlowForgotten
<1>3. CASE logout \/ (\E p \in People : submit(p)) \/ NewKey \/ placeOrder \/ cancelOrder
  BY <1>3, SentByHand
<1>4. CASE runUserFlow
  BY <1>4, FlowBegins
<1>5. CASE executeFlowStep
  BY <1>5, CardRuns
<1>6. ASSUME NEW c \in calls, Serve(c) PROVE ConsoleInv'
  BY <1>6, CallServed
<1>7. ASSUME NEW c \in calls, Refuse(c) \/ BreakOff(c) \/ PanelAnswer(c) \/ FormAnswer(c)
      PROVE  ConsoleInv'
  BY <1>7, Unserved
<1>8. ASSUME NEW c \in calls, FlowAnswer(c) PROVE ConsoleInv'
  BY <1>8, CardTurns
<1> QED
  BY <1>1, <1>2, <1>3, <1>4, <1>5, <1>6, <1>7, <1>8 DEF ConsoleNext

(* Every idempotency record is of a form or of a write of one run whose     *)
(* effect stands; the flow waits for one call at most, the one its running  *)
(* card has made; and the cards before that are green.                      *)
THEOREM ConsoleInvariant == ConsoleSpec => []ConsoleInv
<1>1. ConsoleInit => ConsoleInv
  <2> SUFFICES ASSUME ConsoleInit PROVE ConsoleInv
    OBVIOUS
  <2>1. /\ \A i \in 1 .. 11 : flow.cards[FlowSteps[i]] = "idle"
        /\ \A x \in Cards : flow.cards[x] = "idle"
        /\ flow.cards \in [Cards -> CardStates]
    BY FlowStepFacts DEF ConsoleInit, IdleCards, CardStates
  <2>2. ConsoleTyped
    <3>1. DOMAIN book = {}
      BY DEF ConsoleInit
    <3>2. creditsDone \in [1 .. MaxFlows -> [Credits -> Nat]]
      BY DEF ConsoleInit, Credits
    <3>3. /\ flow = [run |-> flow.run, busy |-> flow.busy, at |-> flow.at, keyed |-> flow.keyed,
                     account |-> flow.account, cards |-> flow.cards]
          /\ flow.run = 0 /\ flow.busy = FALSE /\ flow.at = 0
      BY DEF ConsoleInit
    <3>4. sends \in Nat /\ formKey \in Nat /\ placeBody \in {"manual"} \X Nat
      BY DEF ConsoleInit
    <3>5. flow.run \in 0 .. MaxFlows /\ flow.busy \in BOOLEAN /\ flow.at \in 0 .. Len(FlowSteps)
      <4>1. 0 \in 0 .. MaxFlows
        BY ConsoleAssumption
      <4>2. 0 \in 0 .. Len(FlowSteps)
        BY FlowStepFacts
      <4> QED
        BY <3>3, <4>1, <4>2
    <3>6. \A o \in DOMAIN book : book[o] = [owner |-> book[o].owner, status |-> book[o].status]
      BY <3>1
    <3> QED
      BY <2>1, <3>2, <3>3, <3>4, <3>5, <3>6 DEF ConsoleTyped
  <2>3. ServedWell
    BY DEF ConsoleInit, ServedWell, Credits
  <2>4. CallsWell
    BY DEF ConsoleInit, CallsWell
  <2>5. CardsWell
    <3>1. \A step \in Writes : step \in Cards
      <4>1. /\ FlowSteps[4] = "account" /\ FlowSteps[5] = "credit-usd" /\ FlowSteps[6] = "credit-btc"
            /\ FlowSteps[7] = "place" /\ FlowSteps[10] = "cancel"
        BY DEF FlowSteps
      <4> QED
        BY <4>1, FlowStepFacts DEF Writes
    <3>2. flow.busy = FALSE
      BY DEF ConsoleInit
    <3> QED
      BY <2>1, <3>1, <3>2, FlowStepFacts DEF CardsWell, Green
  <2> QED
    BY <2>2, <2>3, <2>4, <2>5 DEF ConsoleInv
<1>2. ConsoleInv /\ [ConsoleNext]_consoleVars => ConsoleInv'
  BY ConsoleStep
<1> QED
  BY <1>1, <1>2, PTL DEF ConsoleSpec

(* App.tsx runUserFlow, executeFlowStep: what the timeline shows in green   *)
(* has happened, for the account and the order of this run and in this      *)
(* order, whoever signs in or out, sends forms, reloads, or loses answers.  *)
THEOREM TimelineIsHonest == ConsoleSpec => []FlowHonest
<1>1. ConsoleInv => FlowHonest
  <2> SUFFICES ASSUME ConsoleInv PROVE FlowHonest
    OBVIOUS
  <2>1. /\ \A step \in Writes : Green(step) => Done(step, flow.run)
        /\ \A i, j \in 1 .. Len(FlowSteps) :
             i < j /\ flow.cards[FlowSteps[j]] # "idle" => Green(FlowSteps[i])
    BY DEF ConsoleInv, CardsWell
  <2>2. ASSUME NEW step \in Writes, Green(step) PROVE Effected(step, flow.run)
    <3>1. PICK s \in served : s.key = <<step, flow.run>>
      BY <2>1, <2>2 DEF Done
    <3>2. PICK n \in 1 .. flow.run, other \in Writes : OfRun(s, other, n)
      BY <3>1 DEF ConsoleInv, ServedWell, OfForm, Writes
    <3> QED
      BY <3>1, <3>2 DEF OfRun
  <2>3. \A card \in {"credit-usd", "credit-btc"} :
           Green(card) => creditsDone[flow.run][card] = 1 /\ flow.account \in accounts
    BY <2>2 DEF Effected, Credits, Writes
  <2>4. Green("place") => Placed(FlowOrder) /\ book[FlowOrder].owner = flow.account
    BY <2>2 DEF Effected, Writes, FlowOrder
  <2>5. Green("cancel") => book[FlowOrder].status = "cancelled"
    BY <2>2 DEF Effected, Writes, FlowOrder
  <2> QED
    BY <2>1, <2>3, <2>4, <2>5 DEF FlowHonest
<1> QED
  BY <1>1, ConsoleInvariant, PTL

(***************************************************************************)
(* AdmissionLimits.                                                         *)
(***************************************************************************)
Spent(A, low, high) == SumFunctionOnSet(A, low .. high)

(* A window w and the checks A it and its predecessors let pass, at time n  *)
(* and for a ceiling c.  What began Duration before the window or later has *)
(* been admitted by one predecessor.                                        *)
WindowTyped(w, A, n) ==
  /\ w \in [startedAt : Nat, count : Nat] /\ w.startedAt <= n
  /\ A \in [0 .. MaxTime -> Nat]

AdmittedInWindow(w, A, n) ==
  /\ w.count = 0 => \A u \in 0 .. MaxTime : A[u] = 0
  /\ \A u \in 0 .. MaxTime : u > n \/ u >= w.startedAt + Duration => A[u] = 0

WindowWell(w, A, n, c) ==
  /\ WindowTyped(w, A, n) /\ AdmittedInWindow(w, A, n)
  /\ Spent(A, w.startedAt, n) <= w.count /\ Spent(A, w.startedAt, n) <= c
  /\ \A t \in 0 .. MaxTime : t > w.startedAt - Duration => Spent(A, t, w.startedAt - 1) <= c
  /\ \A t \in 0 .. MaxTime - Duration + 1 : Spent(A, t, t + Duration - 1) <= 2 * c

LimitsInv ==
  /\ now \in 0 .. MaxTime
  /\ windows \in [Stores -> [Buckets -> [startedAt : Nat, count : Nat]]]
  /\ admitted \in [Stores -> [Buckets -> [0 .. MaxTime -> Nat]]]
  /\ \A s \in Stores, b \in Buckets : WindowWell(windows[s][b], admitted[s][b], now, CeilingOf(b))

LEMMA CeilingPositive ==
  /\ \A b : CeilingOf(b) \in Nat \ {0}
  /\ Duration \in Nat \ {0} /\ MaxTime \in Nat
BY LimitsAssumption DEF CeilingOf

(* Sums over spans of time.                                                 *)
LEMMA SpentTyped ==
  ASSUME NEW A \in [0 .. MaxTime -> Nat], NEW low \in Nat, NEW high \in Int, high <= MaxTime
  PROVE  /\ IsFiniteSet(low .. high) /\ low .. high \subseteq 0 .. MaxTime
         /\ Spent(A, low, high) \in Nat
<1>1. IsFiniteSet(low .. high)
  BY FS_Interval
<1>2. low .. high \subseteq 0 .. MaxTime
  BY CeilingPositive
<1>3. \A x \in low .. high : A[x] \in Nat
  BY <1>2
<1> DEFINE S == low .. high
<1>4. SumFunctionOnSet(A, S) \in Nat
  <2> HIDE DEF S
  <2> QED
    BY <1>1, <1>3, SumNatural DEF S
<1> QED
  BY <1>1, <1>2, <1>4 DEF Spent

LEMMA SpentSplits ==
  ASSUME NEW A \in [0 .. MaxTime -> Nat], NEW low \in Nat, NEW mid \in Int, NEW high \in Int,
         high <= MaxTime, low <= mid + 1, mid <= high
  PROVE  Spent(A, low, high) = Spent(A, low, mid) + Spent(A, mid + 1, high)
<1>1. mid + 1 \in Nat /\ mid <= MaxTime
  BY CeilingPositive
<1> DEFINE S == low .. mid
           T == (mid + 1) .. high
<1>2. low .. high = S \cup T /\ S \cap T = {}
  BY <1>1
<1>3. /\ IsFiniteSet(S) /\ S \subseteq 0 .. MaxTime
      /\ IsFiniteSet(T) /\ T \subseteq 0 .. MaxTime
  BY <1>1, SpentTyped
<1>4. \A x \in S \cup T : A[x] \in Int
  BY <1>3
<1>5. SumFunctionOnSet(A, S \cup T) = SumFunctionOnSet(A, S) + SumFunctionOnSet(A, T)
  <2> HIDE DEF S, T
  <2> QED
    BY <1>2, <1>3, <1>4, SumUnion
<1> QED
  BY <1>2, <1>5 DEF Spent

(* Nothing is spent where nothing was admitted.                             *)
LEMMA NothingSpent ==
  ASSUME NEW A \in [0 .. MaxTime -> Nat], NEW low \in Nat, NEW high \in Int, high <= MaxTime,
         \A u \in low .. high : A[u] = 0
  PROVE  Spent(A, low, high) = 0
<1> DEFINE S == low .. high
<1>1. IsFiniteSet(S) /\ \A u \in S : A[u] = 0
  BY SpentTyped
<1>2. SumFunctionOnSet(A, S) = 0
  <2> HIDE DEF S
  <2> QED
    BY <1>1, SumZero
<1> QED
  BY <1>2 DEF Spent

LEMMA SpentOfPart ==
  ASSUME NEW A \in [0 .. MaxTime -> Nat], NEW low \in Nat, NEW high \in Int, high <= MaxTime,
         NEW l \in Nat, NEW h \in Int, low <= l, h <= high
  PROVE  Spent(A, l, h) <= Spent(A, low, high)
<1> DEFINE S == l .. h
           T == low .. high
<1>1. S \subseteq T
  OBVIOUS
<1>2. IsFiniteSet(T) /\ \A u \in T : A[u] \in Nat
  BY SpentTyped
<1>3. SumFunctionOnSet(A, S) <= SumFunctionOnSet(A, T)
  <2> HIDE DEF S, T
  <2> QED
    BY <1>1, <1>2, SumOfPart
<1> QED
  BY <1>3 DEF Spent

(* A store that begins.                                                     *)
LEMMA WindowFresh ==
  ASSUME NEW n \in 0 .. MaxTime, NEW c \in Nat, NEW A \in [0 .. MaxTime -> Nat],
         \A u \in 0 .. MaxTime : A[u] = 0
  PROVE  WindowWell(NoWindow, A, n, c)
<1>1. \A low \in Nat, high \in Int : high <= MaxTime => Spent(A, low, high) = 0
  <2> SUFFICES ASSUME NEW low \in Nat, NEW high \in Int, high <= MaxTime
               PROVE  Spent(A, low, high) = 0
    OBVIOUS
  <2>1. low .. high \subseteq 0 .. MaxTime
    BY SpentTyped
  <2> QED
    BY <2>1, NothingSpent
<1>2. NoWindow.startedAt = 0 /\ NoWindow.count = 0 /\ NoWindow \in [startedAt : Nat, count : Nat]
  BY DEF NoWindow
<1>3. Spent(A, 0, n) = 0 /\ \A t \in 0 .. MaxTime : Spent(A, t, 0 - 1) = 0
  BY <1>1, CeilingPositive
<1>4. \A t \in 0 .. MaxTime - Duration + 1 : Spent(A, t, t + Duration - 1) = 0
  BY <1>1, CeilingPositive
<1>5. n \in Nat
  BY CeilingPositive
<1> QED
  BY <1>2, <1>3, <1>4, <1>5 DEF WindowWell, WindowTyped, AdmittedInWindow

(* A tick, at which nothing has been admitted yet.                          *)
LEMMA WindowTicks ==
  ASSUME NEW n \in 0 .. MaxTime, NEW c \in Nat, NEW w, NEW A, n + 1 <= MaxTime,
         WindowWell(w, A, n, c)
  PROVE  WindowWell(w, A, n + 1, c)
<1>1. /\ A \in [0 .. MaxTime -> Nat] /\ w.startedAt \in Nat /\ w.startedAt <= n
      /\ n \in Nat /\ n + 1 \in Nat /\ n <= MaxTime /\ MaxTime \in Nat /\ A[n + 1] = 0
  BY CeilingPositive DEF WindowWell, WindowTyped, AdmittedInWindow
<1>2. Spent(A, w.startedAt, n + 1) = Spent(A, w.startedAt, n) + Spent(A, n + 1, n + 1)
  <2>1. /\ A \in [0 .. MaxTime -> Nat] /\ w.startedAt \in Nat /\ n \in Int /\ n + 1 \in Int
        /\ n + 1 <= MaxTime /\ w.startedAt <= n + 1 /\ n <= n + 1
    BY <1>1
  <2> QED
    BY <2>1, SpentSplits, Zenon
<1>3. Spent(A, n + 1, n + 1) = 0
  <2>1. \A u \in (n + 1) .. (n + 1) : A[u] = 0
    BY <1>1
  <2> QED
    BY <1>1, <2>1, NothingSpent
<1>4. Spent(A, w.startedAt, n + 1) = Spent(A, w.startedAt, n)
  <2>1. Spent(A, w.startedAt, n) \in Nat
    <3>1. A \in [0 .. MaxTime -> Nat] /\ w.startedAt \in Nat /\ n \in Int /\ n <= MaxTime
      BY <1>1
    <3> QED
      BY <3>1, SpentTyped, Zenon
  <2> QED
    BY <1>2, <1>3, <2>1
<1>5. WindowTyped(w, A, n + 1) /\ AdmittedInWindow(w, A, n + 1)
  BY <1>1 DEF WindowWell, WindowTyped, AdmittedInWindow
<1> QED
  BY <1>4, <1>5 DEF WindowWell

(* The window a request is counted in.                                      *)
CountedAt(w, n) ==
  IF w.count = 0 \/ n - w.startedAt >= Duration THEN [startedAt |-> n, count |-> 1]
  ELSE [w EXCEPT !.count = @ + 1]

(* A request is counted; it has not been admitted.                          *)
LEMMA WindowCounts ==
  ASSUME NEW n \in 0 .. MaxTime, NEW c \in Nat, NEW w, NEW A, WindowWell(w, A, n, c)
  PROVE  /\ WindowWell(CountedAt(w, n), A, n, c)
         /\ Spent(A, CountedAt(w, n).startedAt, n) + 1 <= CountedAt(w, n).count
         /\ n - CountedAt(w, n).startedAt < Duration
         /\ CountedAt(w, n).count > 0
<1> DEFINE x == CountedAt(w, n)
<1>1. /\ A \in [0 .. MaxTime -> Nat] /\ w \in [startedAt : Nat, count : Nat] /\ w.startedAt <= n
      /\ n \in Nat /\ MaxTime \in Nat /\ Duration \in Nat \ {0}
  BY CeilingPositive DEF WindowWell, WindowTyped
<1>2. CASE w.count = 0 \/ n - w.startedAt >= Duration
  <2>1. x = [startedAt |-> n, count |-> 1]
    BY <1>2 DEF CountedAt
  <2>2. A[n] = 0
    BY <1>1, <1>2 DEF WindowWell, AdmittedInWindow
  <2>3. Spent(A, n, n) = 0
    BY <1>1, <2>2, NothingSpent
  <2>4. ASSUME NEW t \in 0 .. MaxTime, t > n - Duration PROVE Spent(A, t, n - 1) <= c
    <3>1. CASE w.count = 0
      <4>1. Spent(A, t, n - 1) = 0
        BY <1>1, <3>1, NothingSpent DEF WindowWell, AdmittedInWindow
      <4> QED
        BY <4>1
    <3>2. CASE w.count # 0
      <4>1. n - w.startedAt >= Duration
        BY <1>2, <3>2
      <4>2. t \in Nat /\ n - 1 \in Int /\ w.startedAt <= t /\ n - 1 <= n /\ n <= MaxTime
        BY <1>1, <2>4, <4>1
      <4>3. Spent(A, t, n - 1) <= Spent(A, w.startedAt, n)
        BY <1>1, <4>2, SpentOfPart, SMTT(20)
      <4>4. Spent(A, w.startedAt, n) <= c
        BY DEF WindowWell
      <4>5. Spent(A, t, n - 1) \in Nat
        <5>1. n - 1 <= MaxTime
          BY <1>1, <4>2
        <5> QED
          BY <1>1, <4>2, <5>1, SpentTyped, Zenon
      <4>6. Spent(A, w.startedAt, n) \in Nat
        BY <1>1, SpentTyped
      <4> QED
        BY <4>3, <4>4, <4>5, <4>6
    <3> QED
      BY <3>1, <3>2
  <2>5. WindowTyped(x, A, n) /\ AdmittedInWindow(x, A, n)
    <3>1. \A u \in 0 .. MaxTime : u > n \/ u >= n + Duration => A[u] = 0
      BY <1>1 DEF WindowWell, AdmittedInWindow
    <3> QED
      BY <1>1, <2>1, <3>1 DEF WindowTyped, AdmittedInWindow
  <2>6. x.startedAt = n /\ x.count = 1
    BY <2>1
  <2> HIDE DEF x
  <2>7. WindowWell(x, A, n, c)
    BY <2>3, <2>4, <2>5, <2>6 DEF WindowWell
  <2> QED
    BY <1>1, <2>3, <2>6, <2>7 DEF x
<1>3. CASE ~(w.count = 0 \/ n - w.startedAt >= Duration)
  <2>1. x = [startedAt |-> w.startedAt, count |-> w.count + 1]
    BY <1>1, <1>3 DEF CountedAt
  <2>2. x.startedAt = w.startedAt /\ x.count = w.count + 1 /\ x \in [startedAt : Nat, count : Nat]
    BY <1>1, <2>1
  <2> HIDE DEF x
  <2>3. Spent(A, w.startedAt, n) \in Nat
    BY <1>1, SpentTyped
  <2>4. WindowTyped(x, A, n) /\ AdmittedInWindow(x, A, n)
    BY <1>1, <2>2 DEF WindowWell, WindowTyped, AdmittedInWindow
  <2>5. WindowWell(x, A, n, c)
    BY <1>1, <2>2, <2>3, <2>4 DEF WindowWell
  <2>6. Spent(A, x.startedAt, n) + 1 <= x.count
    BY <1>1, <2>2, <2>3 DEF WindowWell
  <2> QED
    BY <1>1, <1>3, <2>2, <2>5, <2>6 DEF x
<1> QED
  BY <1>2, <1>3

(* A counted request is admitted.                                           *)
LEMMA WindowAdmits ==
  ASSUME NEW n \in 0 .. MaxTime, NEW c \in Nat, NEW x, NEW A, WindowWell(x, A, n, c),
         Spent(A, x.startedAt, n) + 1 <= x.count, x.count <= c,
         n - x.startedAt < Duration, x.count > 0
  PROVE  WindowWell(x, [A EXCEPT ![n] = @ + 1], n, c)
<1> DEFINE B == [A EXCEPT ![n] = @ + 1]
<1>1. /\ A \in [0 .. MaxTime -> Nat] /\ x.startedAt \in Nat /\ x.count \in Nat /\ x.startedAt <= n
      /\ n \in Nat /\ n <= MaxTime /\ MaxTime \in Nat /\ Duration \in Nat \ {0}
  BY CeilingPositive DEF WindowWell, WindowTyped
<1>2. /\ B \in [0 .. MaxTime -> Nat] /\ B[n] = A[n] + 1
      /\ \A u \in 0 .. MaxTime : u # n => B[u] = A[u]
  BY <1>1
<1> HIDE DEF B
<1>3. ASSUME NEW low \in Nat, NEW high \in Int, high <= MaxTime, high < n
      PROVE  Spent(B, low, high) = Spent(A, low, high)
  <2> DEFINE S == low .. high
  <2>1. IsFiniteSet(S) /\ S \subseteq 0 .. MaxTime
    BY <1>1, <1>3, SpentTyped
  <2>2. \A u \in S : B[u] = A[u]
    BY <1>1, <1>2, <1>3, <2>1, SMTT(20)
  <2>3. SumFunctionOnSet(B, S) = SumFunctionOnSet(A, S)
    <3> HIDE DEF S
    <3> QED
      BY <2>1, <2>2, SumCongruent
  <2> QED
    BY <2>3 DEF Spent
<1>4. Spent(B, x.startedAt, n) = Spent(A, x.startedAt, n) + 1
  <2> DEFINE S == x.startedAt .. n
  <2>1. IsFiniteSet(S) /\ S \subseteq 0 .. MaxTime /\ n \in S
    <3>1. n \in Int /\ n \in x.startedAt .. n
      BY <1>1
    <3> QED
      BY <1>1, <3>1, SpentTyped, Zenon
  <2>2. \A u \in S : A[u] \in Int /\ B[u] \in Int
    BY <1>1, <1>2, <2>1
  <2>3. \A u \in S \ {n} : A[u] = B[u]
    BY <1>2, <2>1
  <2>4. SumFunctionOnSet(B, S) = SumFunctionOnSet(A, S) + (B[n] - A[n])
    <3> HIDE DEF S
    <3> QED
      BY <2>1, <2>2, <2>3, SumChanges, ZenonT(30)
  <2>5. SumFunctionOnSet(A, S) \in Int /\ A[n] \in Int
    <3> HIDE DEF S
    <3> QED
      BY <2>1, <2>2, SumTyped
  <2>6. SumFunctionOnSet(B, S) = SumFunctionOnSet(A, S) + 1
    <3> HIDE DEF S
    <3> QED
      BY <1>2, <2>4, <2>5
  <2> QED
    BY <2>6 DEF Spent
<1>5. WindowTyped(x, B, n) /\ AdmittedInWindow(x, B, n)
  <2>1. WindowTyped(x, B, n)
    BY <1>2 DEF WindowWell, WindowTyped
  <2>2. ASSUME NEW u \in 0 .. MaxTime, u > n \/ u >= x.startedAt + Duration PROVE B[u] = 0
    <3>1. u # n
      BY <1>1, <2>2
    <3> QED
      BY <1>2, <2>2, <3>1 DEF WindowWell, AdmittedInWindow
  <2> QED
    BY <1>1, <2>1, <2>2 DEF AdmittedInWindow
<1>6. Spent(B, x.startedAt, n) <= x.count /\ Spent(B, x.startedAt, n) <= c
  <2>1. Spent(A, x.startedAt, n) \in Nat
    <3>1. n \in Int
      BY <1>1
    <3> QED
      BY <1>1, <3>1, SpentTyped, Zenon
  <2> QED
    BY <1>1, <1>4, <2>1
<1>7. ASSUME NEW t \in 0 .. MaxTime, t > x.startedAt - Duration
      PROVE  Spent(B, t, x.startedAt - 1) <= c
  <2>1. t \in Nat /\ x.startedAt - 1 \in Int /\ x.startedAt - 1 <= MaxTime /\ x.startedAt - 1 < n
    BY <1>1
  <2>2. Spent(B, t, x.startedAt - 1) = Spent(A, t, x.startedAt - 1)
    BY <1>3, <2>1, Zenon
  <2> QED
    BY <1>7, <2>2 DEF WindowWell
<1>8. ASSUME NEW t \in 0 .. MaxTime - Duration + 1
      PROVE  Spent(B, t, t + Duration - 1) <= 2 * c
  <2> DEFINE high == t + Duration - 1
  <2>1. t \in Nat /\ high \in Int /\ high <= MaxTime /\ high = t + Duration - 1
    BY <1>1
  <2>2. Spent(A, t, high) <= 2 * c
    BY DEF WindowWell
  <2> HIDE DEF high
  <2>3. CASE high < n
    <3>1. Spent(B, t, high) = Spent(A, t, high)
      BY <1>3, <2>1, <2>3, Zenon
    <3> QED
      BY <2>1, <2>2, <3>1
  <2>4. CASE t > n
    <3>1. \A u \in t .. high : B[u] = 0
      BY <1>1, <1>2, <2>1, <2>4 DEF WindowWell, AdmittedInWindow
    <3>2. Spent(B, t, high) = 0
      BY <1>2, <2>1, <3>1, NothingSpent
    <3> QED
      BY <2>1, <3>2
  <2>5. CASE t <= n /\ n <= high
    <3>1. Spent(B, n + 1, high) = 0
      <4>1. \A u \in (n + 1) .. high : B[u] = 0
        BY <1>1, <1>2, <2>1 DEF WindowWell, AdmittedInWindow
      <4>2. n + 1 \in Nat
        BY <1>1
      <4> QED
        BY <1>2, <2>1, <4>1, <4>2, NothingSpent, Zenon
    <3>2. Spent(B, t, high) = Spent(B, t, n) + Spent(B, n + 1, high)
      <4>1. n \in Int /\ t <= n + 1 /\ n <= high
        BY <1>1, <2>1, <2>5
      <4> QED
        BY <1>2, <2>1, <4>1, SpentSplits, Zenon
    <3>3. Spent(B, t, n) \in Nat /\ Spent(B, x.startedAt, n) \in Nat
      <4>1. n \in Int
        BY <1>1
      <4> QED
        BY <1>1, <1>2, <2>1, <4>1, SpentTyped, Zenon
    <3>4. CASE t > x.startedAt
      <4>1. n \in Int /\ x.startedAt <= t /\ n <= n
        BY <1>1, <2>1, <3>4
      <4>2. Spent(B, t, n) <= Spent(B, x.startedAt, n)
        BY <1>1, <1>2, <2>1, <4>1, SpentOfPart, Zenon
      <4> QED
        BY <1>6, <2>1, <3>1, <3>2, <3>3, <4>2
    <3>5. CASE t <= x.startedAt
      <4>1. t > x.startedAt - Duration /\ t \in 0 .. MaxTime
        BY <1>1, <2>1, <2>5
      <4>2. Spent(B, t, x.startedAt - 1) <= c
        BY <1>7, <4>1
      <4>3. PICK m \in Int : m = x.startedAt - 1
        BY <1>1
      <4>4. /\ n \in Int /\ m \in Int /\ t \in Nat /\ n <= MaxTime
            /\ t <= m + 1 /\ m <= n /\ m + 1 = x.startedAt /\ m <= MaxTime
        <5>0. PICK st \in Nat : st = x.startedAt
          BY <1>1
        <5>1. st <= n /\ t <= st /\ m = st - 1
          BY <1>1, <3>5, <4>3, <5>0
        <5>2. n \in Int /\ n <= MaxTime /\ t \in Nat /\ MaxTime \in Nat
          BY <1>1, <2>1
        <5>3. t <= m + 1 /\ m <= n /\ m + 1 = st /\ m <= MaxTime
          BY <5>1, <5>2, <5>0
        <5> QED
          BY <5>0, <5>2, <5>3
      <4>5. Spent(B, t, n) = Spent(B, t, m) + Spent(B, m + 1, n)
        BY <1>2, <4>4, SpentSplits, Zenon
      <4>6. Spent(B, t, n) = Spent(B, t, m) + Spent(B, x.startedAt, n)
        BY <4>4, <4>5
      <4>7. Spent(B, t, m) \in Nat
        BY <1>2, <2>1, <4>3, <4>4, SpentTyped, Zenon
      <4>8. Spent(B, t, m) <= c
        BY <4>2, <4>3
      <4> QED
        BY <1>6, <2>1, <3>1, <3>2, <3>3, <4>6, <4>7, <4>8
    <3> QED
      BY <1>1, <2>1, <3>4, <3>5
  <2> QED
    BY <1>1, <2>1, <2>3, <2>4, <2>5
<1>9. WindowWell(x, B, n, c)
  BY <1>5, <1>6, <1>7, <1>8 DEF WindowWell
<1> QED
  BY <1>9 DEF B

(* The checks count, and let nothing pass beyond a ceiling.                 *)
LEMMA ChecksKeep ==
  ASSUME LimitsInv, NEW s \in Stores, NEW keys, Count(s, keys), now' = now,
         UNCHANGED admitted \/ (Admitted(s, keys) /\ ~AnyExceeds(s, keys))
  PROVE  LimitsInv'
<1>1. /\ now \in 0 .. MaxTime /\ windows \in [Stores -> [Buckets -> [startedAt : Nat, count : Nat]]]
      /\ admitted \in [Stores -> [Buckets -> [0 .. MaxTime -> Nat]]]
  BY DEF LimitsInv
<1>2. ASSUME NEW z \in Stores, NEW b \in Buckets, z = s => b \notin keys
      PROVE  windows'[z][b] = windows[z][b] /\ admitted'[z][b] = admitted[z][b]
  <2>1. windows'[z][b] = windows[z][b]
    BY <1>1, <1>2 DEF Count
  <2>2. ASSUME Admitted(s, keys) PROVE admitted'[z][b] = admitted[z][b]
    BY <1>1, <1>2, <2>2, Zenon DEF Admitted
  <2> QED
    BY <2>1, <2>2
<1>3. ASSUME NEW b \in Buckets, b \in keys
      PROVE  /\ windows'[s][b] = CountedAt(windows[s][b], now)
             /\ \/ admitted'[s][b] = admitted[s][b]
                \/ /\ admitted'[s][b] = [admitted[s][b] EXCEPT ![now] = @ + 1]
                   /\ CountedAt(windows[s][b], now).count <= CeilingOf(b)
  <2>1. windows'[s][b] = Counted(windows[s][b])
    BY <1>1, <1>3 DEF Count
  <2>2. Counted(windows[s][b]) = CountedAt(windows[s][b], now)
    BY DEF Counted, CountedAt, Over
  <2>3. CASE UNCHANGED admitted
    BY <2>1, <2>2, <2>3
  <2>4. CASE Admitted(s, keys) /\ ~AnyExceeds(s, keys)
    <3>1. admitted'[s][b] = [admitted[s][b] EXCEPT ![now] = @ + 1]
      BY <1>1, <1>3, <2>4 DEF Admitted
    <3>2. ~(Counted(windows[s][b]).count > CeilingOf(b))
      BY <1>3, <2>4 DEF AnyExceeds, Exceeds
    <3>3. CountedAt(windows[s][b], now).count \in Nat
      <4>1. windows[s][b] \in [startedAt : Nat, count : Nat] /\ now \in Nat
        BY <1>1, CeilingPositive
      <4> QED
        BY <4>1 DEF CountedAt
    <3>4. CountedAt(windows[s][b], now).count <= CeilingOf(b)
      BY <2>2, <3>2, <3>3, CeilingPositive
    <3> QED
      BY <2>1, <2>2, <3>1, <3>4
  <2> QED
    BY <2>3, <2>4
<1>4. ASSUME NEW z \in Stores, NEW b \in Buckets
      PROVE  WindowWell(windows'[z][b], admitted'[z][b], now, CeilingOf(b))
  <2>1. WindowWell(windows[z][b], admitted[z][b], now, CeilingOf(b)) /\ CeilingOf(b) \in Nat
    BY CeilingPositive DEF LimitsInv
  <2>2. CASE z = s => b \notin keys
    BY <1>2, <2>1, <2>2
  <2>3. CASE z = s /\ b \in keys
    <3> DEFINE x == CountedAt(windows[z][b], now)
               A == admitted[z][b]
    <3>1. /\ WindowWell(x, A, now, CeilingOf(b))
          /\ Spent(A, x.startedAt, now) + 1 <= x.count
          /\ now - x.startedAt < Duration /\ x.count > 0
      BY <1>1, <2>1, WindowCounts
    <3>2. x.count <= CeilingOf(b)
            => WindowWell(x, [A EXCEPT ![now] = @ + 1], now, CeilingOf(b))
      <4> HIDE DEF x, A
      <4> QED
        BY <1>1, <2>1, <3>1, WindowAdmits
    <3> QED
      BY <1>3, <2>3, <3>1, <3>2
  <2> QED
    BY <2>2, <2>3
<1>5. /\ windows' \in [Stores -> [Buckets -> [startedAt : Nat, count : Nat]]]
      /\ admitted' \in [Stores -> [Buckets -> [0 .. MaxTime -> Nat]]]
  <2>1. /\ windows' = [z \in Stores |-> [b \in Buckets |-> windows'[z][b]]]
        /\ admitted' = [z \in Stores |-> [b \in Buckets |-> admitted'[z][b]]]
    BY <1>1, ZenonT(30) DEF Count, Admitted
  <2>2. \A z \in Stores, b \in Buckets :
          windows'[z][b] \in [startedAt : Nat, count : Nat] /\ admitted'[z][b] \in [0 .. MaxTime -> Nat]
    BY <1>4 DEF WindowWell, WindowTyped
  <2> QED
    BY <2>1, <2>2
<1> QED
  BY <1>1, <1>4, <1>5 DEF LimitsInv

LEMMA LimitsStep ==
  ASSUME LimitsInv, [LimitsNext]_limitVars
  PROVE  LimitsInv'
<1>1. ASSUME UNCHANGED <<now, windows, admitted>> PROVE LimitsInv'
  BY <1>1 DEF LimitsInv
<1>2. ASSUME NEW r \in Replicas, NEW a \in Addresses, NEW p \in Emails, check(r, a, p)
      PROVE  LimitsInv'
  <2>1. CASE checkMemory(r, a, p)
    <3>1. CASE Full(r, Keys3(a, p))
      BY <1>1, <1>2, <2>1, <3>1 DEF check, checkMemory
    <3>2. CASE ~Full(r, Keys3(a, p))
      BY <1>2, <2>1, <3>2, ChecksKeep DEF check, checkMemory, Stores
    <3> QED
      BY <3>1, <3>2
  <2>2. ASSUME NEW late \in BOOLEAN, checkRedis(r, a, p, late) PROVE LimitsInv'
    <3>1. Redis \in Stores /\ now' = now
      BY <1>2 DEF check, Stores
    <3>2. CASE Exceeds(Redis, "global")
      BY <2>2, <3>1, <3>2, ChecksKeep DEF checkRedis
    <3>3. CASE ~Exceeds(Redis, "global")
      BY <2>2, <3>1, <3>3, ChecksKeep DEF checkRedis
    <3> QED
      BY <3>2, <3>3
  <2> QED
    BY <1>2, <2>1, <2>2 DEF check
<1>3. ASSUME NEW r \in Replicas, NEW k \in Credentials, checkKey(r, k) PROVE LimitsInv'
  <2>1. r \in Stores /\ now' = now /\ Count(r, {k})
    BY <1>3 DEF checkKey, Stores
  <2>2. UNCHANGED admitted \/ (Admitted(r, {k}) /\ ~AnyExceeds(r, {k}))
    BY <1>3 DEF checkKey, AnyExceeds
  <2> QED
    BY <2>1, <2>2, ChecksKeep
<1>4. ASSUME NEW r \in Replicas, onModuleInit(r) PROVE LimitsInv'
  <2>1. /\ now' = now /\ now \in 0 .. MaxTime
        /\ windows \in [Stores -> [Buckets -> [startedAt : Nat, count : Nat]]]
        /\ admitted \in [Stores -> [Buckets -> [0 .. MaxTime -> Nat]]]
    BY <1>4 DEF LimitsInv, onModuleInit
  <2> DEFINE zeros == [t \in 0 .. MaxTime |-> 0]
  <2>2. /\ windows' = [windows EXCEPT ![r] = [b \in Buckets |-> NoWindow]]
        /\ admitted' = [admitted EXCEPT ![r] = [b \in Buckets |-> zeros]]
        /\ r \in Stores /\ NoWindow \in [startedAt : Nat, count : Nat]
    BY <1>4 DEF onModuleInit, Stores, NoWindow
  <2>3. zeros \in [0 .. MaxTime -> Nat] /\ \A u \in 0 .. MaxTime : zeros[u] = 0
    OBVIOUS
  <2> HIDE DEF zeros
  <2>4. /\ windows' \in [Stores -> [Buckets -> [startedAt : Nat, count : Nat]]]
        /\ admitted' \in [Stores -> [Buckets -> [0 .. MaxTime -> Nat]]]
    BY <2>1, <2>2, <2>3
  <2>5. ASSUME NEW z \in Stores, NEW b \in Buckets
        PROVE  WindowWell(windows'[z][b], admitted'[z][b], now, CeilingOf(b))
    <3>1. CASE z = r
      <4>1. windows'[z][b] = NoWindow /\ admitted'[z][b] = zeros
        BY <2>1, <2>2, <3>1
      <4>2. CeilingOf(b) \in Nat
        BY CeilingPositive
      <4> QED
        BY <2>1, <2>3, <4>1, <4>2, WindowFresh
    <3>2. CASE z # r
      BY <2>1, <2>2, <3>2 DEF LimitsInv
    <3> QED
      BY <3>1, <3>2
  <2> QED
    BY <2>1, <2>4, <2>5 DEF LimitsInv
<1>5. ASSUME Tick PROVE LimitsInv'
  <2>1. now' = now + 1 /\ now + 1 \in 0 .. MaxTime /\ now + 1 <= MaxTime /\ now \in 0 .. MaxTime
    BY <1>5, CeilingPositive DEF LimitsInv, Tick
  <2>2. \A s \in Stores, b \in Buckets :
          WindowWell(windows[s][b], admitted[s][b], now + 1, CeilingOf(b))
    BY <2>1, WindowTicks, CeilingPositive DEF LimitsInv
  <2> QED
    BY <1>5, <2>1, <2>2 DEF LimitsInv, Tick
<1> QED
  BY <1>1, <1>2, <1>3, <1>4, <1>5 DEF LimitsNext, limitVars, Disconnect

(* In each store the checks of each bucket let pass are those of windows    *)
(* that lie apart, each within its ceiling.                                 *)
THEOREM LimitsInvariant == LimitsSpec => []LimitsInv
<1>1. LimitsInit => LimitsInv
  <2> SUFFICES ASSUME LimitsInit PROVE LimitsInv
    OBVIOUS
  <2> DEFINE zeros == [t \in 0 .. MaxTime |-> 0]
  <2>1. zeros \in [0 .. MaxTime -> Nat] /\ \A u \in 0 .. MaxTime : zeros[u] = 0
    OBVIOUS
  <2>2. /\ windows = [s \in Stores |-> [b \in Buckets |-> NoWindow]]
        /\ admitted = [s \in Stores |-> [b \in Buckets |-> zeros]]
        /\ now = 0 /\ now \in 0 .. MaxTime /\ NoWindow \in [startedAt : Nat, count : Nat]
    BY CeilingPositive DEF LimitsInit, NoWindow
  <2> HIDE DEF zeros
  <2>3. ASSUME NEW z \in Stores, NEW b \in Buckets
        PROVE  WindowWell(windows[z][b], admitted[z][b], now, CeilingOf(b))
    <3>1. windows[z][b] = NoWindow /\ admitted[z][b] = zeros /\ CeilingOf(b) \in Nat
      BY <2>2, CeilingPositive
    <3> QED
      BY <2>1, <2>2, <3>1, WindowFresh
  <2>4. /\ windows \in [Stores -> [Buckets -> [startedAt : Nat, count : Nat]]]
        /\ admitted \in [Stores -> [Buckets -> [0 .. MaxTime -> Nat]]]
    BY <2>1, <2>2
  <2> QED
    BY <2>2, <2>3, <2>4 DEF LimitsInv
<1>2. LimitsInv /\ [LimitsNext]_limitVars => LimitsInv'
  BY LimitsStep
<1> QED
  BY <1>1, <1>2, PTL DEF LimitsSpec

(* RateLimitService, AuthRateLimit: a store admits a bucket at most twice   *)
(* its limit in any span as long as a window, for any limits, replicas,     *)
(* late answers, lost connections and restarts.                             *)
THEOREM SpansAreBounded == LimitsSpec => []SpanBound
<1>1. LimitsInv => SpanBound
  BY DEF LimitsInv, WindowWell, SpanBound, Spent
<1> QED
  BY <1>1, LimitsInvariant, PTL
=============================================================================
