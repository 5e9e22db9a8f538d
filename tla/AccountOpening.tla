--------------------------- MODULE AccountOpening ---------------------------
(***************************************************************************)
(* createAccount: an account is opened together with the assets it names    *)
(* and a zero balance in each.                                              *)
(*                                                                         *)
(* With PostgreSQL the whole request is one transaction (the idempotency    *)
(* store's, which the ledger adapter joins), but its statements interleave  *)
(* with those of other requests: registerAsset holds the row of the asset   *)
(* until the end, so two requests that name two assets in opposite orders   *)
(* wait for each other and the database fails one of them.  In memory a     *)
(* request is one turn of the event loop and nothing rolls back.            *)
(* Every request here has an idempotency key of its own (CommandGateway has *)
(* what a repeated key does).                                               *)
(* Mutated forms, named for the bug they introduce, stand before the        *)
(* definition they mutate; no other definition uses them.                   *)
(***************************************************************************)
EXTENDS Integers, Sequences, FiniteSets

CONSTANTS
  Openers,       \* concurrent requests
  Openings,      \* what they ask for: [account, owner, definitions]
  Nobody,        \* no owner; no definition
  MaxOpenings    \* bound on the requests made

(* createAccountSchema: at least one balance, scales of 0 to 18.            *)
ASSUME OpeningAssumption ==
  /\ MaxOpenings \in Nat /\ Nobody \notin 0 .. 18
  /\ \A r \in Openings :
       /\ r.owner # Nobody
       /\ r.definitions \in Seq([asset : STRING, scale : 0 .. 18]) \ {<< >>}

VARIABLES
  keeper,   \* "memory" or "postgres"
  catalog,  \* what is stored: scale of each asset,
  owners,   \*   owner of each account,
  opened,   \*   pairs of account and asset with a balance
  opener,   \* the requests under way
  outcomes  \* history: the answered requests, in order

openingVars == <<keeper, catalog, owners, opened, opener, outcomes>>
stored == <<catalog, owners, opened>>

AssetsNamed == UNION {{r.definitions[i].asset : i \in 1..Len(r.definitions)} : r \in Openings}
OpenerIdle == [at |-> "idle", request |-> Nobody, next |-> 1]

OpeningInit ==
  /\ keeper \in {"memory", "postgres"}
  /\ catalog = [a \in AssetsNamed |-> Nobody]
  /\ owners = [r \in {o.account : o \in Openings} |-> Nobody]
  /\ opened = {}
  /\ opener = [c \in Openers |-> OpenerIdle]
  /\ outcomes = << >>

Answer(r, code) == outcomes' = Append(outcomes, [request |-> r, code |-> code])
OpenerGoto(c, next) == opener' = [opener EXCEPT ![c] = next]

AnyDefinition(d) == TRUE

(* registerAsset: a new asset, or the definition it already has.            *)
Agrees(d) == catalog[d.asset] \in {Nobody, d.scale}

Registered(definitions) ==
  [a \in DOMAIN catalog |->
     IF \E i \in 1..Len(definitions) : definitions[i].asset = a
     THEN definitions[CHOOSE i \in 1..Len(definitions) : definitions[i].asset = a].scale
     ELSE catalog[a]]

(* An asset named twice.                                                    *)
Repeats(r) ==
  \E i, j \in 1..Len(r.definitions) :
    i # j /\ r.definitions[i].asset = r.definitions[j].asset

Balances(r) == {<<r.account, r.definitions[i].asset>> : i \in 1..Len(r.definitions)}
---------------------------------------------------------------------------
(* In memory: the assets before one that conflicts stay registered.         *)
Conflicts(r) == {i \in 1..Len(r.definitions) : ~Agrees(r.definitions[i])}

createInMemory(r) ==
  /\ keeper = "memory" /\ Len(outcomes) < MaxOpenings
  /\ \/ /\ owners[r.account] # Nobody
        /\ Answer(r, "ACCOUNT_ALREADY_EXISTS")
        /\ UNCHANGED stored
     \/ /\ owners[r.account] = Nobody /\ Repeats(r)
        /\ Answer(r, "BALANCE_DEFINITION_INVALID")
        /\ UNCHANGED stored
     \/ /\ owners[r.account] = Nobody /\ ~Repeats(r) /\ Conflicts(r) # {}
        /\ LET first == CHOOSE i \in Conflicts(r) : \A j \in Conflicts(r) : i <= j
           IN catalog' = Registered(SubSeq(r.definitions, 1, first - 1))
        /\ Answer(r, "ASSET_DEFINITION_CONFLICT")
        /\ UNCHANGED <<owners, opened>>
     \/ /\ owners[r.account] = Nobody /\ ~Repeats(r) /\ Conflicts(r) = {}
        /\ catalog' = Registered(r.definitions)
        /\ owners' = [owners EXCEPT ![r.account] = r.owner]
        /\ opened' = opened \cup Balances(r)
        /\ Answer(r, "CREATED")
  /\ UNCHANGED <<keeper, opener>>
---------------------------------------------------------------------------
(* With PostgreSQL: what the statement of a request waits for.              *)
Under(c) == opener[c].request

Holds(c, asset) ==
  \E i \in 1..(opener[c].next - 1) : Under(c).definitions[i].asset = asset

HoldsAccount(c, account) == opener[c].at = "balances" /\ Under(c).account = account

Ahead(c) ==
  {d \in Openers \ {c} :
     \/ /\ opener[c].at = "assets" /\ opener[d].at # "idle"
        /\ Holds(d, Under(c).definitions[opener[c].next].asset)
     \/ opener[c].at = "account" /\ HoldsAccount(d, Under(c).account)}

(* ROLLBACK, and the answer.                                                *)
Abort(c, code) == OpenerGoto(c, OpenerIdle) /\ Answer(Under(c), code) /\ UNCHANGED <<keeper, stored>>

createAccount(c, r) ==
  /\ keeper = "postgres" /\ opener[c].at = "idle"
  /\ Len(outcomes) + Cardinality({d \in Openers : opener[d].at # "idle"}) < MaxOpenings
  /\ OpenerGoto(c, [at |-> "owner", request |-> r, next |-> 1])
  /\ UNCHANGED <<keeper, stored, outcomes>>

getAccountOwner(c) ==
  /\ opener[c].at = "owner"
  /\ \/ owners[Under(c).account] # Nobody /\ Abort(c, "ACCOUNT_ALREADY_EXISTS")
     \/ /\ owners[Under(c).account] = Nobody /\ Repeats(Under(c))
        /\ Abort(c, "BALANCE_DEFINITION_INVALID")
     \/ /\ owners[Under(c).account] = Nobody /\ ~Repeats(Under(c))
        /\ OpenerGoto(c, [opener[c] EXCEPT !.at = "assets"])
        /\ UNCHANGED <<keeper, stored, outcomes>>

registerAsset(c) ==
  LET o == opener[c] IN
  /\ o.at = "assets" /\ Ahead(c) = {}
  /\ \/ ~Agrees(Under(c).definitions[o.next]) /\ Abort(c, "ASSET_DEFINITION_CONFLICT")
     \/ /\ Agrees(Under(c).definitions[o.next])
        /\ OpenerGoto(c, [o EXCEPT !.next = @ + 1,
             !.at = IF o.next = Len(Under(c).definitions) THEN "account" ELSE "assets"])
        /\ UNCHANGED <<keeper, stored, outcomes>>

(* A taken id breaks the primary key, which no handler expects.             *)
registerAccount(c) ==
  /\ opener[c].at = "account" /\ Ahead(c) = {}
  /\ \/ owners[Under(c).account] # Nobody /\ Abort(c, "DUPLICATE_KEY")
     \/ /\ owners[Under(c).account] = Nobody
        /\ OpenerGoto(c, [opener[c] EXCEPT !.at = "balances"])
        /\ UNCHANGED <<keeper, stored, outcomes>>

(* openBalance of each asset, and COMMIT.                                   *)
openBalances(c) ==
  /\ opener[c].at = "balances"
  /\ catalog' = Registered(Under(c).definitions)
  /\ owners' = [owners EXCEPT ![Under(c).account] = Under(c).owner]
  /\ opened' = opened \cup Balances(Under(c))
  /\ OpenerGoto(c, OpenerIdle) /\ Answer(Under(c), "CREATED")
  /\ UNCHANGED keeper

(* run tries a transaction again after a deadlock, but the caller of        *)
(* registerAsset makes a conflict of every error, so run never sees it.     *)
(* Only there can a cycle close: who holds an account waits for nothing.    *)
deadlockDetected(c) ==
  /\ \E S \in SUBSET Openers :
       c \in S /\ \A d \in S : Ahead(d) \cap S # {} /\ \E e \in S : d \in Ahead(e)
  /\ Abort(c, "ASSET_DEFINITION_CONFLICT")

statementFails(c) ==
  /\ opener[c].at # "idle"
  /\ Abort(c, IF opener[c].at = "assets" THEN "ASSET_DEFINITION_CONFLICT" ELSE "FAILED")

(* The process is lost, its transaction with it, and nobody is answered.    *)
processLost(c) ==
  /\ opener[c].at # "idle"
  /\ OpenerGoto(c, OpenerIdle)
  /\ UNCHANGED <<keeper, stored, outcomes>>

OpeningNext ==
  \/ \E r \in Openings : createInMemory(r) \/ \E c \in Openers : createAccount(c, r)
  \/ \E c \in Openers :
       \/ getAccountOwner(c) \/ registerAsset(c) \/ registerAccount(c) \/ openBalances(c)
       \/ deadlockDetected(c) \/ statementFails(c) \/ processLost(c)

OpeningSpec == OpeningInit /\ [][OpeningNext]_openingVars
---------------------------------------------------------------------------
(* getBalances lists the assets of an account.                              *)
Listed(account) == {p[2] : p \in {q \in opened : q[1] = account}}

Created == {i \in 1..Len(outcomes) : outcomes[i].code = "CREATED"}

(* However requests for the same account or the same new assets overlap,    *)
(* wait, deadlock and are cut off: an id is given to one request only, its  *)
(* account has that request's owner and a balance in exactly the assets it  *)
(* named, each with the scale the request knows, and nothing is opened for  *)
(* a request that was refused.                                              *)
OpenedWhole ==
  /\ \A i \in Created :
       LET r == outcomes[i].request IN
       /\ owners[r.account] = r.owner
       /\ \A j \in Created \ {i} : outcomes[j].request.account # r.account
       /\ \A n \in 1..Len(r.definitions) :
            catalog[r.definitions[n].asset] = r.definitions[n].scale
  /\ \A account \in DOMAIN owners :
       Listed(account)
         = UNION {{outcomes[i].request.definitions[n].asset :
                     n \in 1..Len(outcomes[i].request.definitions)} :
                  i \in {j \in Created : outcomes[j].request.account = account}}

(* A request told that an asset is defined otherwise names such an asset    *)
(* (ledger-application.service.ts: conflicts with the catalog).             *)
ConflictsAreReal ==
  \A i \in 1..Len(outcomes) :
    outcomes[i].code = "ASSET_DEFINITION_CONFLICT"
      => \E n \in 1..Len(outcomes[i].request.definitions) :
           LET d == outcomes[i].request.definitions[n]
           IN catalog[d.asset] \notin {Nobody, d.scale}

(* Every conflict is found before the state changes                         *)
(* (ledger-application.service.ts, createAccount): what is in the catalog   *)
(* was named by a request that created its account.                         *)
RefusedLeavesNothing ==
  \A a \in DOMAIN catalog : catalog[a] # Nobody =>
    \E i \in Created : \E n \in 1..Len(outcomes[i].request.definitions) :
      outcomes[i].request.definitions[n].asset = a
=============================================================================
