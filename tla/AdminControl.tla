----------------------------- MODULE AdminControl -----------------------------
(***************************************************************************)
(* Administration: AdminService with its role matrix, dual control, policy  *)
(* registry and instrument catalog, the admission controls and the audit    *)
(* chain.  A request runs in the transaction of its idempotency row: audit  *)
(* records and admission rows appear at COMMIT or not at all, while the     *)
(* maps of the process (results, commands, pending, catalog, policies)      *)
(* change at once and survive a rollback.  In the component profile audit   *)
(* and admission are maps of the process too.  Repetition of answered       *)
(* requests is CommandGateway's subject: here clients use fresh keys.       *)
(* Mutated forms stand before the definition they mutate.                   *)
(***************************************************************************)
EXTENDS Integers, Sequences, FiniteSets, AccessPolicy

CONSTANTS
  Acts,    \* HTTP requests in flight
  NoAct,
  Actors, Nobody,
  Role,        \* of each actor
  AdminCommands, \* [id, type, target, at]
  Reversals,   \* ids for compensation commands
  Targets,     \* admission controls: a user, an instrument
  MaxAudit     \* bound: audit records

CommandIds == {c.id : c \in AdminCommands} \cup Reversals

(* The command types each endpoint can send.                                *)
configureInstrument == {"CONFIGURE_INSTRUMENT"}
changeInstrumentStatus == {"ACTIVATE_INSTRUMENT", "PAUSE_INSTRUMENT"}
changeFreeze == {"FREEZE_USER", "UNFREEZE_USER", "FREEZE_ACCOUNT", "UNFREEZE_ACCOUNT"}
changeCircuitBreaker == {"EMERGENCY_STOP", "RESUME_TRADING"}
changeFeePolicy == {"CHANGE_FEE_POLICY"}
changeRiskPolicy == {"CHANGE_RISK_POLICY"}

DualTypes == configureInstrument \cup changeInstrumentStatus \cup changeCircuitBreaker
               \cup changeFeePolicy \cup changeRiskPolicy
ConfigTypes == configureInstrument \cup changeFeePolicy \cup changeRiskPolicy

ASSUME AdminAssumption ==
  /\ NoAct \notin Acts
  /\ MaxAudit \in Nat
  /\ \A c \in AdminCommands : c.type \in DualTypes \cup changeFreeze /\ c.target \in Targets
  /\ Nobody \notin Actors /\ DOMAIN Role = Actors

VARIABLES
  profile,    \* "durable" or "component", fixed at start
  db,         \* committed: audit, admission_controls, admission_control_history
  chainLock,  \* holder of the advisory lock of the audit chain
  results,    \* AdminService.results
  known,      \* AdminService.commands
  pending,    \* AdminDualControlService.pending
  catalog,    \* status per instrument and last effectiveAt per rules or policy
  order,      \* program counter, locals and uncommitted rows of each request
  told,       \* history: answers clients got, [id, status]
  refused     \* history: forbidden attempts that got their 403, [id, actor]

memory == <<results, known, pending, catalog>>
adminVars == <<profile, db, chainLock, memory, order, told, refused>>

NoCommand == [id |-> 0, type |-> "none", target |-> "none", at |-> 0]
NotPending == [cmd |-> NoCommand, actor |-> Nobody]
AdminQuiet == [pc |-> "idle", kind |-> "none", cmd |-> NoCommand, actor |-> Nobody,
          by |-> Nobody, recs |-> <<>>, row |-> {}]
Registers == {"rules", "CHANGE_FEE_POLICY", "CHANGE_RISK_POLICY"}
Unlisted == [status |-> "NONE", last |-> [x \in Registers |-> 0]]

AdminInit ==
  /\ profile \in {"durable", "component"}
  /\ db = [audit |-> <<>>, history |-> {},
           control |-> [t \in Targets |-> [state |-> "ALLOW", version |-> 0, cmd |-> 0]]]
  /\ chainLock = NoAct
  /\ results = [i \in CommandIds |-> "none"]
  /\ known = {}
  /\ pending = [i \in CommandIds |-> NotPending]
  /\ catalog = Unlisted
  /\ order = [r \in Acts |-> AdminQuiet]
  /\ told = {} /\ refused = {}

AtStep(r, pc) == order[r].pc = pc
StepTo(r, next) == order' = [order EXCEPT ![r] = next]
Durable == profile = "durable"

----------------------------------------------------------------------------
(* Policies.                                                                *)

ALLOWED_ROLES(type) ==
  CASE type = "CHANGE_RISK_POLICY" -> {"RISK_MANAGER"}
    [] type \in {"EMERGENCY_STOP", "RESUME_TRADING"} -> {"ADMIN"}
    [] type = "RECONCILIATION" -> {"ADMIN", "AUDITOR"}
    [] OTHER -> {"ADMIN", "RISK_MANAGER"}

May(a, type) == Role[a] \in ALLOWED_ROLES(type)

requiresDualControl(type) == type \in DualTypes

reverseAdminCommandType ==
  [t \in (changeFreeze \cup DualTypes) \ ConfigTypes |->
     CASE t = "FREEZE_USER" -> "UNFREEZE_USER"       [] t = "UNFREEZE_USER" -> "FREEZE_USER"
       [] t = "FREEZE_ACCOUNT" -> "UNFREEZE_ACCOUNT" [] t = "UNFREEZE_ACCOUNT" -> "FREEZE_ACCOUNT"
       [] t = "EMERGENCY_STOP" -> "RESUME_TRADING"   [] t = "RESUME_TRADING" -> "EMERGENCY_STOP"
       [] t = "ACTIVATE_INSTRUMENT" -> "PAUSE_INSTRUMENT"
       [] t = "PAUSE_INSTRUMENT" -> "ACTIVATE_INSTRUMENT"]

ControlState(type) ==
  CASE type \in {"FREEZE_USER", "FREEZE_ACCOUNT"} -> "FROZEN"
    [] type = "EMERGENCY_STOP" -> "OPEN"
    [] type = "PAUSE_INSTRUMENT" -> "PAUSED"
    [] OTHER -> "ALLOW"

(* assertAllowed: a command in the scope of the target is refused.          *)
Blocked(t) == db.control[t].state # "ALLOW"

----------------------------------------------------------------------------
(* The catalog and the policy registry, in memory.                          *)

Admit(c) == IF c.type = "CONFIGURE_INSTRUMENT" THEN "rules" ELSE c.type

(* register refuses an id it has, addRules and setStatus one it lacks; new  *)
(* rules take effect later than the last.  A CONFIGURE with at = 0 creates. *)
CatalogFits(c) ==
  IF c.type = "CONFIGURE_INSTRUMENT" /\ c.at = 0 THEN catalog.status = "NONE"
  ELSE /\ catalog.status # "NONE"
       /\ c.type = "CONFIGURE_INSTRUMENT" => c.at > catalog.last["rules"]

(* Versions of a policy have growing effectiveAt.                           *)
PolicyFits(c) == c.at > catalog.last[c.type]

MemoryFits(c) ==
  /\ c.type \in configureInstrument \cup changeInstrumentStatus => CatalogFits(c)
  /\ c.type \in changeFeePolicy \cup changeRiskPolicy => PolicyFits(c)

MemoryAfter(c) ==
  [status |-> CASE c.type = "ACTIVATE_INSTRUMENT" -> "ACTIVE"
                [] c.type = "PAUSE_INSTRUMENT" -> "PAUSED"
                [] c.type = "CONFIGURE_INSTRUMENT" /\ c.at = 0 -> "PAUSED"
                [] OTHER -> catalog.status,
   last |-> IF c.type \in ConfigTypes
            THEN [catalog.last EXCEPT ![Admit(c)] = c.at] ELSE catalog.last]

----------------------------------------------------------------------------
(* Audit chain and admission controls.                                      *)

NoLock(r) == TRUE

(* pg_advisory_xact_lock('audit-chain') is held to the end of the           *)
(* transaction; the in-memory chain needs no lock.                          *)
LockFree(r) == Durable => chainLock \in {NoAct, r}

Record(r, type, seq) ==
  [seq |-> seq, type |-> type, id |-> order[r].cmd.id, actor |-> order[r].actor,
   by |-> order[r].by]

(* The next sequence follows the tail the transaction sees.                 *)
Next1(r) == Len(db.audit) + Len(order[r].recs) + 1

NeverDuplicate(c) == FALSE

(* PostgreSQL looks in the history, memory only at the current controls.    *)
Duplicate(c) ==
  IF Durable THEN \E h \in db.history : h.id = c.id
             ELSE \E t \in Targets : db.control[t].cmd = c.id

(* A repeated id with another transition is refused.                        *)
Reused(c) ==
  Durable /\ \E h \in db.history :
               h.id = c.id /\ (h.target # c.target \/ h.state # ControlState(c.type))

Row(c, a, comp) ==
  [id |-> c.id, type |-> c.type, target |-> c.target, state |-> ControlState(c.type),
   version |-> db.control[c.target].version + 1, actor |-> a, comp |-> comp]

(* apply writes history and current state; none for configuration.          *)
Rows(c, a, comp) ==
  IF c.type \in ConfigTypes \/ Duplicate(c) THEN {} ELSE {Row(c, a, comp)}

NoHistory(base, recs, rows) == [base EXCEPT !.audit = @ \o recs]

With(base, recs, rows) ==
  [audit |-> base.audit \o recs, history |-> base.history \cup rows,
   control |-> [t \in Targets |->
     IF \E h \in rows : h.target = t
     THEN LET h == CHOOSE h \in rows : h.target = t
          IN [state |-> h.state, version |-> h.version, cmd |-> h.id]
     ELSE base.control[t]]]

(* What a step writes: into the transaction, or into memory at once.        *)
Write(r, next, recs, rows) ==
  IF Durable
  THEN /\ StepTo(r, [next EXCEPT !.recs = @ \o recs, !.row = @ \cup rows])
       /\ chainLock' = r
       /\ UNCHANGED db
  ELSE /\ StepTo(r, next)
       /\ db' = With(db, recs, rows)
       /\ UNCHANGED chainLock

----------------------------------------------------------------------------
(* AdminService.request and approve.                                        *)

Tell(i, status) == told' = told \cup {[id |-> i, status |-> status]}
MayCall(r) == AtStep(r, "idle") /\ Len(db.audit) + 3 <= MaxAudit

(* execute: what the transport asks of a caller, before the service does.   *)
Transport(a) ==
  \A role \in mapHumanRole({Role[a]}) :
     LET p == MachinePrincipal(role, a) IN AdministrativeAccess(p) /\ AuthorizedAction(p, "admin.write")

(* Up to the first await: results, role, commands.                          *)
Request(r, c, a) ==
  /\ MayCall(r) /\ Transport(a)
  /\ IF results[c.id] # "none"
     THEN Tell(c.id, results[c.id]) /\ UNCHANGED <<order, known>>
     ELSE /\ UNCHANGED told
          /\ IF May(a, c.type)
             THEN /\ known' = known \cup {c}
                  /\ StepTo(r, [AdminQuiet EXCEPT !.pc = "append", !.kind = "REQUEST", !.cmd = c, !.actor = a])
             ELSE /\ StepTo(r, [AdminQuiet EXCEPT !.pc = "reject", !.cmd = c, !.actor = a])
                  /\ UNCHANGED known
  /\ UNCHANGED <<profile, db, chainLock, results, pending, catalog, refused>>

AnyApprover(i, a) == TRUE

(* The second signature is not the first one's.                             *)
Independent(i, a) == pending[i].actor # a

Approve(r, i, a) ==
  /\ MayCall(r) /\ Transport(a)
  /\ IF results[i] = "APPLIED"
     THEN Tell(i, "APPLIED") /\ UNCHANGED order
     ELSE LET p == pending[i] IN
          /\ p # NotPending
          /\ UNCHANGED told
          /\ IF May(a, p.cmd.type)
             THEN /\ Independent(i, a)
                  /\ StepTo(r, [AdminQuiet EXCEPT !.pc = "append", !.kind = "APPROVE", !.cmd = p.cmd,
                                !.actor = a, !.by = p.actor])
             ELSE StepTo(r, [AdminQuiet EXCEPT !.pc = "reject", !.cmd = p.cmd, !.actor = a])
  /\ UNCHANGED <<profile, db, chainLock, memory, refused>>

(* assertAdminRole: the refusal is appended, then thrown: inside the        *)
(* idempotency transaction the throw takes the record with it.              *)
Reject(r) ==
  /\ AtStep(r, "reject")
  /\ LockFree(r)
  /\ db' = IF Durable THEN db
           ELSE With(db, <<Record(r, "ACTION_REJECTED", Next1(r))>>, {})
  /\ refused' = refused \cup {[id |-> order[r].cmd.id, actor |-> order[r].actor]}
  /\ StepTo(r, AdminQuiet)
  /\ UNCHANGED <<profile, chainLock, memory, told>>

(* ACTION_REQUESTED or ACTION_APPROVED is appended; a request under dual    *)
(* control is then registered and answered as pending.                      *)
Append1(r) ==
  LET c == order[r].cmd  wait == order[r].kind = "REQUEST" /\ requiresDualControl(c.type) IN
  /\ AtStep(r, "append")
  /\ LockFree(r)
  /\ Write(r, [order[r] EXCEPT !.pc = IF wait THEN "commit" ELSE "apply"],
           <<Record(r, IF order[r].kind = "REQUEST" THEN "ACTION_REQUESTED" ELSE "ACTION_APPROVED",
                    Next1(r))>>, {})
  /\ IF wait
     THEN /\ pending' = [pending EXCEPT ![c.id] = [cmd |-> c, actor |-> order[r].actor]]
          /\ results' = [results EXCEPT ![c.id] = "PENDING_APPROVAL"]
     ELSE UNCHANGED <<pending, results>>
  /\ UNCHANGED <<profile, known, catalog, told, refused>>

(* apply, then results, then ACTION_APPLIED.                                *)
Apply(r) ==
  LET c == order[r].cmd IN
  /\ AtStep(r, "apply")
  /\ LockFree(r)
  /\ MemoryFits(c) /\ ~Reused(c)
  /\ catalog' = MemoryAfter(c)
  /\ results' = [results EXCEPT ![c.id] = "APPLIED"]
  /\ pending' = [pending EXCEPT ![c.id] = IF order[r].kind = "APPROVE" THEN NotPending ELSE @]
  /\ Write(r, [order[r] EXCEPT !.pc = "commit"],
           <<Record(r, "ACTION_APPLIED", Next1(r))>>, Rows(c, order[r].actor, FALSE))
  /\ UNCHANGED <<profile, known, told, refused>>

(* apply throws: the catalog's refusal, or a failing statement after the    *)
(* catalog has changed.                                                     *)
ApplyFails(r) ==
  LET c == order[r].cmd IN
  /\ AtStep(r, "apply")
  /\ ~MemoryFits(c) \/ Reused(c) \/ (Durable /\ c.type \notin ConfigTypes)
  /\ catalog' = IF MemoryFits(c) THEN MemoryAfter(c) ELSE catalog
  /\ StepTo(r, AdminQuiet)
  /\ chainLock' = IF chainLock = r THEN NoAct ELSE chainLock
  /\ UNCHANGED <<profile, db, results, known, pending, told, refused>>

CommitAudit(r) ==
  /\ AtStep(r, "commit")
  /\ db' = IF Durable THEN With(db, order[r].recs, order[r].row) ELSE db
  /\ Tell(order[r].cmd.id, IF order[r].kind = "REQUEST" /\ requiresDualControl(order[r].cmd.type)
                         THEN "PENDING_APPROVAL" ELSE "APPLIED")
  /\ StepTo(r, AdminQuiet)
  /\ chainLock' = IF chainLock = r THEN NoAct ELSE chainLock
  /\ UNCHANGED <<profile, memory, refused>>

(* A statement or COMMIT fails: rows vanish, the maps stay.                 *)
RollBackAudit(r) ==
  /\ Durable
  /\ order[r].pc \in {"append", "apply", "commit"}
  /\ StepTo(r, AdminQuiet)
  /\ chainLock' = IF chainLock = r THEN NoAct ELSE chainLock
  /\ UNCHANGED <<profile, db, memory, told, refused>>

----------------------------------------------------------------------------
(* compensate, the dashboard, restart.                                      *)

(* No endpoint leads here and no outer transaction: the control commits     *)
(* first, the audit record on its own afterwards.                           *)
Compensate(r, i, o, a) ==
  LET c == [id |-> i, type |-> reverseAdminCommandType[o.type], target |-> o.target, at |-> 0] IN
  /\ MayCall(r)
  /\ results[i] = "none" /\ o \in known /\ o.type \notin ConfigTypes
  /\ May(a, c.type)
  /\ MemoryFits(c) /\ ~Reused(c)
  /\ ~\E q \in Acts : \E h \in order[q].row : h.target = c.target
  /\ db' = With(db, <<>>, Rows(c, a, TRUE))
  /\ catalog' = MemoryAfter(c)
  /\ known' = known \cup {c}
  /\ results' = [results EXCEPT ![i] = "APPLIED"]
  /\ StepTo(r, [AdminQuiet EXCEPT !.pc = "record", !.cmd = c, !.actor = a])
  /\ UNCHANGED <<profile, chainLock, pending, told, refused>>

CompensateRecorded(r, ok) ==
  /\ AtStep(r, "record")
  /\ ok => LockFree(r)
  /\ db' = IF ok THEN With(db, <<Record(r, "COMPENSATION_APPLIED", Next1(r))>>, {}) ELSE db
  /\ ok \/ Durable
  /\ StepTo(r, AdminQuiet)
  /\ UNCHANGED <<profile, chainLock, memory, told, refused>>

(* getDashboard appends in a transaction of its own, a refusal included.    *)
Dashboard(a) ==
  /\ Len(db.audit) + 4 <= MaxAudit
  /\ Durable => chainLock = NoAct
  /\ db' = With(db, <<[seq |-> Len(db.audit) + 1, id |-> 0, actor |-> a, by |-> Nobody,
             type |-> IF May(a, "RECONCILIATION") THEN "RECONCILIATION_EXECUTED"
                      ELSE "ACTION_REJECTED"]>>, {})
  /\ UNCHANGED <<profile, chainLock, memory, order, told, refused>>

Restart ==
  /\ Durable
  /\ chainLock' = NoAct
  /\ results' = [i \in CommandIds |-> "none"] /\ known' = {}
  /\ pending' = [i \in CommandIds |-> NotPending] /\ catalog' = Unlisted
  /\ order' = [r \in Acts |-> AdminQuiet]
  /\ UNCHANGED <<profile, db, told, refused>>

AdminNext ==
  \/ \E r \in Acts, a \in Actors :
       \/ \E c \in AdminCommands : Request(r, c, a)
       \/ \E i \in CommandIds : Approve(r, i, a)
       \/ \E i \in Reversals, o \in known : Compensate(r, i, o, a)
  \/ \E r \in Acts :
       \/ Reject(r) \/ Append1(r) \/ Apply(r) \/ ApplyFails(r) \/ CommitAudit(r) \/ RollBackAudit(r)
       \/ \E ok \in BOOLEAN : CompensateRecorded(r, ok)
  \/ \E a \in Actors : Dashboard(a)
  \/ Restart

AdminSpec == AdminInit /\ [][AdminNext]_adminVars

----------------------------------------------------------------------------
(* Properties.                                                              *)

(* Maps and rows have their types, and the audit chain has no hole and no   *)
(* doubled sequence, whoever appended.                                      *)
AdminTypeOK ==
  /\ results \in [CommandIds -> {"none", "PENDING_APPROVAL", "APPLIED"}]
  /\ known \subseteq {c \in known : c.id \in CommandIds}
  /\ \A i \in CommandIds : pending[i] = NotPending \/ pending[i].cmd.id = i
  /\ chainLock \in Acts \cup {NoAct}
  /\ \A n \in DOMAIN db.audit : db.audit[n].seq = n

(* Every transition of a control that needs two signatures was requested    *)
(* by one actor and approved by another, and its approval is in the audit,  *)
(* through rollbacks, retries and concurrent approvals.                     *)
DualControl ==
  \A h \in db.history : (requiresDualControl(h.type) /\ ~h.comp) =>
    \/ \E n \in DOMAIN db.audit :
         LET e == db.audit[n] IN
         e.type = "ACTION_APPROVED" /\ e.id = h.id /\ e.actor = h.actor /\ e.by # e.actor

(* Each command changes its control once, the versions of a control have    *)
(* no gap, and the control in force is its newest transition.               *)
ControlFollowsHistory ==
  Durable =>
    /\ \A h, g \in db.history : h.id = g.id => h = g
    /\ \A t \in Targets :
         LET hs == {h \in db.history : h.target = t} IN
         /\ {h.version : h \in hs} = 1 .. db.control[t].version
         /\ Cardinality(hs) = db.control[t].version
         /\ \A h \in hs : h.version = db.control[t].version =>
              db.control[t].state = h.state /\ db.control[t].cmd = h.id

(* No control changes without its record in the audit, and no record says   *)
(* APPLIED of a control command that changed nothing.                       *)
TransitionsAudited ==
  Durable =>
    /\ \A h \in db.history : ~h.comp =>
         \E n \in DOMAIN db.audit : db.audit[n].type = "ACTION_APPLIED" /\ db.audit[n].id = h.id
    /\ \A n \in DOMAIN db.audit :
         LET e == db.audit[n]  cs == {c \in AdminCommands : c.id = e.id} IN
         (e.type = "ACTION_APPLIED" /\ \A c \in cs : c.type \notin ConfigTypes)
            => \E h \in db.history : h.id = e.id

(* assertAdminRole promises that a forbidden attempt stays visible in the   *)
(* audit chain.                                                             *)
RefusalsAudited ==
  \A x \in refused : \E n \in DOMAIN db.audit :
    db.audit[n].type = "ACTION_REJECTED" /\ db.audit[n].id = x.id /\ db.audit[n].actor = x.actor

(* A freeze or stop reported as applied has taken effect, at the latest      *)
(* when no request is running any more.                                     *)
ReportedInForce ==
  (\A r \in Acts : AtStep(r, "idle")) =>
  \A x \in told : (x.status = "APPLIED" /\ \A c \in AdminCommands : c.id = x.id => c.type \notin ConfigTypes)
    => \E h \in db.history : h.id = x.id

(* An approved command is applied, and recorded as applied, once.           *)
ApprovedOnce ==
  Durable => \A n, m \in DOMAIN db.audit :
    (db.audit[n].type = "ACTION_APPLIED" /\ db.audit[m].type = "ACTION_APPLIED"
       /\ db.audit[n].id = db.audit[m].id) => n = m

----------------------------------------------------------------------------
(* What makes them inductive.                                               *)

CommandTypes == changeFreeze \cup DualTypes
ControlStates == {"ALLOW", "FROZEN", "OPEN", "PAUSED"}
AuditTypes == {"ACTION_REQUESTED", "ACTION_APPROVED", "ACTION_APPLIED", "ACTION_REJECTED",
               "COMPENSATION_APPLIED", "RECONCILIATION_EXECUTED"}
Compensations == [id : Reversals, type : CommandTypes, target : Targets, at : {0}]
AuditRecord == [seq : Nat, type : AuditTypes, id : CommandIds \cup {0}, actor : Actors,
                by : Actors \cup {Nobody}]
HistoryRow == [id : CommandIds, type : CommandTypes, target : Targets, state : ControlStates,
               version : Nat, actor : Actors, comp : BOOLEAN]
ControlRow == [state : ControlStates, version : Nat, cmd : CommandIds \cup {0}]
RequestRow == [pc : {"idle", "append", "apply", "commit", "reject", "record"},
               kind : {"none", "REQUEST", "APPROVE"},
               cmd : AdminCommands \cup Compensations \cup {NoCommand},
               actor : Actors \cup {Nobody}, by : Actors \cup {Nobody},
               recs : Seq(AuditRecord), row : SUBSET HistoryRow]

(* Tables, maps and requests are of these types.                            *)
AdminTyped ==
  /\ db \in [audit : Seq(AuditRecord), history : SUBSET HistoryRow,
             control : [Targets -> ControlRow]]
  /\ IsFiniteSet(db.history)
  /\ chainLock \in Acts \cup {NoAct}
  /\ results \in [CommandIds -> {"none", "PENDING_APPROVAL", "APPLIED"}]
  /\ known \subseteq AdminCommands \cup Compensations
  /\ pending \in [CommandIds -> [cmd : AdminCommands \cup {NoCommand},
                                 actor : Actors \cup {Nobody}]]
  /\ \A i \in CommandIds : pending[i] # NotPending =>
       pending[i].cmd \in AdminCommands /\ pending[i].cmd.id = i /\ pending[i].actor \in Actors
  /\ order \in [Acts -> RequestRow]

(* A request under way names an actor and a command; it writes under the    *)
(* lock of the chain only; an approval is not the requester's.              *)
RequestsFormed ==
  \A r \in Acts :
    /\ ~AtStep(r, "idle") =>
         order[r].actor \in Actors /\ order[r].cmd \in AdminCommands \cup Compensations
    /\ order[r].pc \in {"append", "apply", "commit"} =>
         order[r].cmd \in AdminCommands /\ order[r].kind \in {"REQUEST", "APPROVE"}
    /\ order[r].pc \notin {"apply", "commit"} \/ ~Durable => order[r].recs = <<>>
    /\ ~AtStep(r, "commit") \/ ~Durable => order[r].row = {}
    /\ Durable /\ order[r].pc \in {"apply", "commit"} => chainLock = r
    /\ AtStep(r, "apply") /\ requiresDualControl(order[r].cmd.type) => order[r].kind = "APPROVE"
    /\ order[r].kind = "APPROVE" => order[r].by # order[r].actor

Signed(log, i, a) ==
  \E n \in DOMAIN log :
    log[n].type = "ACTION_APPROVED" /\ log[n].id = i /\ log[n].actor = a /\ log[n].by # log[n].actor

SaysApplied(log, i) ==
  \E n \in DOMAIN log : log[n].type = "ACTION_APPLIED" /\ log[n].id = i

(* A transition waiting for its COMMIT has its approval and its application *)
(* in the records that commit with it.                                      *)
RowsSigned ==
  \A r \in Acts :
    /\ AtStep(r, "apply") /\ order[r].kind = "APPROVE" =>
         Signed(IF Durable THEN order[r].recs ELSE db.audit, order[r].cmd.id, order[r].actor)
    /\ \A h \in order[r].row :
         /\ requiresDualControl(h.type) => Signed(order[r].recs, h.id, h.actor)
         /\ SaysApplied(order[r].recs, h.id)

(* It is the next version of its control, under an id nobody has used, and  *)
(* memory knows it as applied.                                              *)
RowsNext ==
  \A r \in Acts : \A h \in order[r].row :
    /\ h.version = db.control[h.target].version + 1
    /\ \A g \in db.history : g.id # h.id
    /\ results[h.id] = "APPLIED"
    /\ \A g \in order[r].row : g = h

(* The audit chain and what waits to continue it have no gap.               *)
AuditContiguous ==
  /\ \A n \in DOMAIN db.audit : db.audit[n].seq = n
  /\ \A r \in Acts : \A n \in DOMAIN order[r].recs :
       order[r].recs[n].seq = Len(db.audit) + n

(* A record that says APPLIED of a control command has its transition, in   *)
(* the history or waiting beside it.                                        *)
Controls(i) == \A c \in AdminCommands : c.id = i => c.type \notin ConfigTypes
AppliedHasRow ==
  Durable =>
    /\ \A n \in DOMAIN db.audit :
         db.audit[n].type = "ACTION_APPLIED" /\ Controls(db.audit[n].id) =>
           \E h \in db.history : h.id = db.audit[n].id
    /\ \A r \in Acts : \A n \in DOMAIN order[r].recs :
         order[r].recs[n].type = "ACTION_APPLIED" /\ Controls(order[r].recs[n].id) =>
           \E h \in db.history \cup order[r].row : h.id = order[r].recs[n].id

AdminInv ==
  /\ AdminTyped /\ RequestsFormed /\ RowsSigned /\ RowsNext /\ AuditContiguous
  /\ AppliedHasRow /\ DualControl /\ TransitionsAudited /\ ControlFollowsHistory
=============================================================================
