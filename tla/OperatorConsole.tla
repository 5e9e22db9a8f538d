-------------------------- MODULE OperatorConsole --------------------------
(***************************************************************************)
(* The test console: the person panel, the order forms and the full user    *)
(* flow, over one browser with one cookie jar.  Every call is sent, served  *)
(* and answered in steps of their own; its answer, or the request, may be   *)
(* lost.  The backend is what the console sees of the gateway: principals,  *)
(* idempotency records and the effects of accepted commands.                *)
(* Mutated forms stand before the definition they mutate.                   *)
(***************************************************************************)
EXTENDS Integers, SequencesExt, AccessPolicy

CONSTANTS
  People,          \* who may sign in
  Developer,       \* dev-user, the owner of VITE_DEV_API_KEY
  None,            \* no session, nobody shown, no order
  MaxFlows,        \* bound: runs of the user flow
  MaxSends         \* bound: manual calls

ASSUME ConsoleAssumption == MaxFlows \in Nat /\ MaxSends \in Nat

VARIABLES
  cookie,          \* the browser's session cookie: [user, session] or None
  shownUser,       \* UserAuthPanel: user
  keyed,           \* apiKey is not empty
  accountId,
  formKey,         \* idempotencyKey of the forms
  placeBody,       \* order of the place form
  cancelOrderId,
  orderRows,       \* orders: [order, status] answered to this console
  flow,            \* flowBusy, the closure of runUserFlow, and flowSteps
  calls,           \* calls under way
  sends,           \* calls made by hand so far; tells sessions and Date.now() apart
  sessions,        \* of the backend: live sessions
  accounts,        \*   owners with an account
  creditsDone,     \*   executed credits, by flow and asset
  book,            \*   order -> [owner, status], for the orders there are
  served           \*   idempotency records: [scope, key, body]

panelVars == <<cookie, shownUser>>
formVars == <<keyed, accountId, formKey, placeBody, cancelOrderId>>
backendVars == <<sessions, accounts, creditsDone, book, served>>
consoleVars == <<panelVars, formVars, orderRows, flow, calls, sends, backendVars>>

FlowSteps == <<"health", "auth", "catalog", "account", "credit-usd", "credit-btc",
               "place", "lookup", "history", "cancel", "balances">>
Cards == ToSet(FlowSteps)
(* Scopes of idempotency: keys of the two roles; sessions are others.       *)
ApiKey == <<"key", 0>>
AdminKey == <<"admin", 0>>

IdleCards == [c \in Cards |-> "idle"]

ConsoleInit ==
  /\ cookie = None /\ shownUser = None
  /\ keyed = TRUE /\ accountId = Developer
  /\ formKey = 0 /\ placeBody = <<"manual", 0>> /\ cancelOrderId = <<"manual", 0>>
  /\ orderRows = {}
  /\ flow = [run |-> 0, busy |-> FALSE, at |-> 0, keyed |-> TRUE, account |-> Developer,
             cards |-> IdleCards]
  /\ calls = {} /\ sends = 0
  /\ sessions = {} /\ accounts = {Developer}
  /\ creditsDone = [f \in 1 .. MaxFlows |-> [c \in {"credit-usd", "credit-btc"} |-> 0]]
  /\ book = <<>> /\ served = {}

----------------------------------------------------------------------------
(* callApi.                                                                 *)

(* The principal of a call: x-api-key, when the configuration the caller    *)
(* captured has a key, comes before the cookie the browser sends with it.   *)
Person(user) ==
  CHOOSE p \in HumanPrincipals({"USER"}, defaultScopes("trader"), user) : TRUE

Principal(withKey) ==
  IF withKey THEN [who |-> MachinePrincipal("trader", Developer), scope |-> ApiKey]
  ELSE IF cookie = None THEN None
  ELSE [who |-> Person(cookie.user), scope |-> cookie.session]

Call(from, step, as, account, order, key, body) ==
  [from |-> from, step |-> step, as |-> as, account |-> account,
   order |-> order, key |-> key, body |-> body, answer |-> "none"]

callApi(from, step, as, account, order, key, body) ==
  calls' = calls \cup {Call(from, step, as, account, order, key, body)}

(* Requests the backend may still serve although nobody waits for them.     *)
Abandoned(cs) == {[c EXCEPT !.from = "gone"] : c \in {d \in cs : d.answer = "none"}}

(* A call made by hand, from a panel or a form.                             *)
ByHand == sends < MaxSends /\ sends' = sends + 1

NoKey == <<"none", 0>>
NoBody == <<"none", 0>>

Panel(step) == {c \in calls : c.from = "panel" /\ c.step = step}
PanelBusy == Panel("login") \cup Panel("logout") # {}

(* UserAuthPanel's effect: me() once, on mount; a reload mounts again with  *)
(* the initial state, and forgets every call.                               *)
me ==
  /\ ByHand
  /\ calls' = Abandoned(calls) \cup {Call("panel", "me", Principal(FALSE), None, None, NoKey, NoBody)}
  /\ shownUser' = None /\ keyed' = TRUE /\ accountId' = Developer
  /\ formKey' = sends + 1
  /\ placeBody' = <<"manual", 0>> /\ cancelOrderId' = <<"manual", 0>>
  /\ orderRows' = {}
  /\ flow' = [flow EXCEPT !.busy = FALSE, !.at = 0, !.cards = IdleCards]
  /\ UNCHANGED <<cookie, backendVars>>

(* submit and logout: the buttons are disabled while either is under way.   *)
submit(p) ==
  /\ ~PanelBusy /\ shownUser = None
  /\ ByHand
  /\ callApi("panel", "login", Principal(FALSE), p, None, NoKey, <<"login", sends + 1>>)
  /\ UNCHANGED <<panelVars, formVars, orderRows, flow, backendVars>>

logout ==
  /\ ~PanelBusy /\ shownUser # None
  /\ ByHand
  /\ callApi("panel", "logout", Principal(FALSE), None, None, NoKey, NoBody)
  /\ UNCHANGED <<panelVars, formVars, orderRows, flow, backendVars>>

NewKey ==
  /\ ByHand
  /\ formKey' = sends + 1
  /\ UNCHANGED <<panelVars, keyed, accountId, placeBody, cancelOrderId, orderRows, flow,
                 calls, backendVars>>

placeOrder ==
  /\ ByHand
  /\ callApi("form", "place", Principal(keyed), accountId, placeBody, <<"form", formKey>>,
             placeBody)
  /\ UNCHANGED <<panelVars, formVars, orderRows, flow, backendVars>>

(* The cancel's command id is new at every press, its key is the form's.    *)
cancelOrder ==
  /\ ByHand
  /\ callApi("form", "cancel", Principal(keyed), accountId, cancelOrderId,
             <<"form", formKey>>, <<"cancel", sends + 1>>)
  /\ UNCHANGED <<panelVars, formVars, orderRows, flow, backendVars>>

----------------------------------------------------------------------------
(* The backend: one call is served in one step, or refused for a reason of  *)
(* its own.                                                                 *)

Owns(c) ==
  c.as # None /\ AuthorizedAction(c.as.who, "trading.write") /\ ObjectAccess(c.as.who, c.account)
Placed(order) == order \in DOMAIN book
Mine(c) == Placed(c.order) /\ ObjectAccess(c.as.who, book[c.order].owner)

Allowed(c) ==
  CASE c.step \in {"health", "login"} -> TRUE
    [] c.step \in {"credit-usd", "credit-btc"} -> c.account \in accounts
    [] c.step \in {"account", "balances"} -> Owns(c)
    [] c.step = "place"  -> Owns(c) /\ c.account \in accounts /\ ~Placed(c.order)
    [] c.step = "lookup" -> c.as # None /\ AuthorizedAction(c.as.who, "trading.read") /\ Mine(c)
    [] c.step = "cancel" -> Owns(c) /\ Mine(c) /\ book[c.order].status = "active"
    [] OTHER -> c.as # None

(* A session that has been logged out is nobody.                            *)
Alive(c) == c.as # None => c.as.scope \in sessions \cup {ApiKey}
Scope(c) == IF c.step \in {"credit-usd", "credit-btc"} THEN AdminKey ELSE c.as.scope

Effects(c) ==
  /\ sessions' = CASE c.step = "login"  -> sessions \cup {c.body}
                   [] c.step = "logout" -> sessions \ {c.as.scope}
                   [] OTHER -> sessions
  /\ accounts' = IF c.step = "account" THEN accounts \cup {c.account} ELSE accounts
  /\ creditsDone' = IF c.step \in {"credit-usd", "credit-btc"}
                    THEN [creditsDone EXCEPT ![c.order[2]][c.step] = @ + 1] ELSE creditsDone
  /\ book' = CASE c.step = "place" ->
                    [o \in DOMAIN book \cup {c.order} |->
                       IF o = c.order THEN [owner |-> c.account, status |-> "active"] ELSE book[o]]
               [] c.step = "cancel" -> [book EXCEPT ![c.order].status = "cancelled"]
               [] OTHER -> book
  /\ served' = IF c.key = NoKey THEN served
               ELSE served \cup {[scope |-> Scope(c), key |-> c.key, body |-> c.body]}

Answered(c, a) ==
  (calls \ {c}) \cup IF c.from = "gone" THEN {} ELSE {[c EXCEPT !.answer = a]}

(* Served whoever calls; credits are made with the administrator's key.     *)
Open == {"credit-usd", "credit-btc", "login", "health"}

Record(c) == {s \in served : s.key = c.key /\ s.scope = Scope(c)}

Serve(c) ==
  /\ c.answer = "none" /\ Alive(c)
  /\ c.as = None => c.step \in Open
  /\ IF c.key # NoKey /\ Record(c) # {}
     THEN /\ calls' = Answered(c, IF \E s \in Record(c) : s.body = c.body THEN "ok" ELSE "refused")
          /\ UNCHANGED backendVars
     ELSE /\ Allowed(c)
          /\ Effects(c)
          /\ calls' = Answered(c, "ok")
  /\ UNCHANGED <<panelVars, formVars, orderRows, flow, sends>>

(* Authorization, rate limits, admission, funds.                            *)
Refuse(c) ==
  /\ c.answer = "none"
  /\ calls' = Answered(c, "refused")
  /\ UNCHANGED <<panelVars, formVars, orderRows, flow, sends, backendVars>>

(* The connection breaks with the request on its way, or with the answer.   *)
BreakOff(c) ==
  /\ c.answer # "broken"
  /\ \/ calls' = Answered(c, "broken")
     \/ calls' = Answered(c, "broken") \cup Abandoned({c})
  /\ UNCHANGED <<panelVars, formVars, orderRows, flow, sends, backendVars>>

----------------------------------------------------------------------------
(* Answers at the console.                                                  *)

(* selectHumanUser: the forms turn to the person, the API key is dropped;   *)
(* handlers under way keep the configuration they began with.               *)
selectHumanUser(p) ==
  /\ shownUser' = p
  /\ keyed' = FALSE /\ accountId' = p
  /\ placeBody' = <<"manual", sends>>
  /\ UNCHANGED <<formKey, cancelOrderId>>

(* Set-Cookie takes effect with the headers: a login whose body is lost may *)
(* have changed the cookie while the panel reports an error.                *)
LoggedIn(c) ==
  /\ c.step = "login"
  /\ \/ c.answer = "ok" /\ selectHumanUser(c.account)
        /\ cookie' = [user |-> c.account, session |-> c.body]
     \/ c.answer # "ok" /\ UNCHANGED <<cookie, shownUser, formVars>>
     \/ c.answer = "broken" /\ c.body \in sessions
        /\ cookie' = [user |-> c.account, session |-> c.body]
        /\ UNCHANGED <<shownUser, formVars>>

(* Nothing orders the answer of me() and that of a login.                   *)
Identified(c) ==
  /\ c.step = "me"
  /\ IF c.answer = "ok" THEN selectHumanUser(c.as.who.user) ELSE UNCHANGED <<shownUser, formVars>>
  /\ UNCHANGED cookie

LoggedOut(c) ==
  /\ c.step = "logout"
  /\ IF c.answer = "ok" THEN cookie' = None /\ shownUser' = None
     ELSE UNCHANGED panelVars
  /\ UNCHANGED formVars

PanelAnswer(c) ==
  /\ c.from = "panel" /\ c.answer # "none"
  /\ calls' = calls \ {c}
  /\ LoggedIn(c) \/ Identified(c) \/ LoggedOut(c)
  /\ UNCHANGED <<orderRows, flow, sends, backendVars>>

StatusOf(c) == IF c.step = "cancel" THEN "CANCEL_ACCEPTED" ELSE "ACCEPTED"

FormAnswer(c) ==
  /\ c.from = "form" /\ c.answer # "none"
  /\ calls' = calls \ {c}
  /\ orderRows' = IF c.answer = "ok"
                  THEN orderRows \cup {[order |-> c.order, status |-> StatusOf(c)]} ELSE orderRows
  /\ cancelOrderId' = IF c.answer = "ok" /\ c.step = "place" THEN c.order ELSE cancelOrderId
  /\ UNCHANGED <<panelVars, keyed, accountId, formKey, placeBody, flow, sends, backendVars>>

----------------------------------------------------------------------------
(* runUserFlow.  The button is disabled while a flow is under way; so is    *)
(* the one that resets the cards.                                           *)

runUserFlow ==
  /\ ~flow.busy /\ flow.run < MaxFlows
  /\ flow' = [run |-> flow.run + 1, busy |-> TRUE, at |-> 1, keyed |-> keyed,
              account |-> accountId, cards |-> IdleCards]
  /\ UNCHANGED <<panelVars, formVars, orderRows, calls, sends, backendVars>>

resetFlowSteps ==
  /\ ~flow.busy /\ flow.cards # IdleCards
  /\ flow' = [flow EXCEPT !.cards = IdleCards]
  /\ UNCHANGED <<panelVars, formVars, orderRows, calls, sends, backendVars>>

FlowOrder == <<"flow", flow.run>>
Card == FlowSteps[flow.at]
Writes == {"account", "credit-usd", "credit-btc", "place", "cancel"}

(* executeFlowStep: the card runs, then its call.                           *)
executeFlowStep ==
  /\ flow.busy /\ flow.cards[Card] = "idle"
  /\ flow' = [flow EXCEPT !.cards[Card] = "running"]
  /\ callApi("flow", Card, Principal(flow.keyed), flow.account, FlowOrder,
             IF Card \in Writes THEN <<Card, flow.run>> ELSE NoKey, <<Card, flow.run>>)
  /\ UNCHANGED <<panelVars, formVars, orderRows, sends, backendVars>>

GoesOnRegardless(ok) == TRUE

(* throw new Error: the first failure ends the flow.                        *)
GoesOn(ok) == ok

FlowAnswer(c) ==
  /\ c.from = "flow" /\ c.answer # "none"
  /\ calls' = calls \ {c}
  /\ LET ok == c.answer = "ok"
         last == flow.at = Len(FlowSteps) \/ ~GoesOn(ok)
     IN /\ flow' = [flow EXCEPT !.cards[Card] = IF ok THEN "success" ELSE "failure",
                                !.busy = ~last,
                                !.at = IF last THEN 0 ELSE @ + 1]
        /\ orderRows' = IF ok /\ c.step \in {"place", "cancel"}
                        THEN orderRows \cup {[order |-> c.order, status |-> StatusOf(c)]}
                        ELSE orderRows
        /\ cancelOrderId' = IF ok /\ c.step = "place" THEN c.order ELSE cancelOrderId
  /\ UNCHANGED <<panelVars, keyed, accountId, formKey, placeBody, sends, backendVars>>

ConsoleNext ==
  \/ me \/ logout \/ \E p \in People : submit(p)
  \/ NewKey \/ placeOrder \/ cancelOrder
  \/ runUserFlow \/ resetFlowSteps \/ executeFlowStep
  \/ \E c \in calls : Serve(c) \/ Refuse(c) \/ BreakOff(c)
                      \/ PanelAnswer(c) \/ FormAnswer(c) \/ FlowAnswer(c)

ConsoleSpec == ConsoleInit /\ [][ConsoleNext]_consoleVars

----------------------------------------------------------------------------

(* What the timeline shows in green has happened, for the account and the   *)
(* order of this very run and in this order, whoever signs in or out while  *)
(* the flow is under way, whatever the forms send between its steps, and    *)
(* whichever answers are lost.  App.tsx runUserFlow, executeFlowStep.       *)
Green(card) == flow.cards[card] = "success"
FlowHonest ==
  /\ \A i, j \in 1 .. Len(FlowSteps) :
       i < j /\ flow.cards[FlowSteps[j]] # "idle" => Green(FlowSteps[i])
  /\ \A card \in {"credit-usd", "credit-btc"} :
       Green(card) => creditsDone[flow.run][card] = 1 /\ flow.account \in accounts
  /\ Green("place") => Placed(FlowOrder) /\ book[FlowOrder].owner = flow.account
  /\ Green("cancel") => book[FlowOrder].status = "cancelled"

(* The person the panel shows is the one whose cookie the browser sends.    *)
ShownIsSignedIn == shownUser # None /\ cookie # None => cookie.user = shownUser
=============================================================================
