---------------------------- MODULE HumanSessions ----------------------------
(***************************************************************************)
(* Human authentication of one user: HumanAuthService over the users table  *)
(* of PostgreSQL and the sessions of Redis.  Keys and locks of Redis are    *)
(* per user, so users do not interact.  A request is a chain of awaited     *)
(* commands to two stores; requests of several replicas interleave between  *)
(* any two of them, any command may time out, and the lock of the user may  *)
(* expire under its holder.                                                 *)
(* Mutated forms, named for the bug they introduce, stand before the        *)
(* definition they mutate; no other definition uses them.                   *)
(***************************************************************************)
EXTENDS Integers, FiniteSets

CONSTANTS
  Requests,      \* HTTP requests in flight
  NoReq,
  MaxSessions,   \* AUTH_MAX_SESSIONS_PER_USER
  Challenges,    \* recovery tokens
  MaxIssued,     \* bound: sessions created
  MaxVersion,    \* bound: changes of the credential, the registration included
  MaxRevokeAlls  \* bound: revoke generations

ASSUME SessionsAssumption ==
  /\ NoReq \notin Requests
  /\ MaxSessions \in Nat \ {0}
  /\ MaxIssued \in Nat
  /\ MaxVersion \in Nat \ {0}
  /\ MaxRevokeAlls \in Nat

VARIABLES
  user,        \* row of identity_users; hash 0 before registration
  challenge,   \* rows of identity_challenges
  store,       \* session records of Redis, by order of creation
  generation,  \* revoke-generation key of Redis
  lock,        \* lock key of Redis
  req,         \* program counter and locals of each request
  issued,      \* history: sessions created
  closed,      \* history: revoke-alls that have finished, by generation
  untrimmed    \* history: sessions created since the last complete trim

vars == <<user, challenge, store, generation, lock, req, issued, closed, untrimmed>>

Ids == 1 .. MaxIssued
Versions == 0 .. MaxVersion
Absent == [state |-> "absent", version |-> 0, gen |-> 0]

(* Token key and session key hold the same value and are written together   *)
(* (MULTI, or one script): one record stands for both.  A record with       *)
(* revokedAt set and one whose TTL has ended are the same to every reader.  *)
Records == [state : {"live", "absent"}, version : Versions, gen : 0 .. MaxRevokeAlls]
Users == [hash : Versions, version : Versions, reset : BOOLEAN, verified : BOOLEAN]
NoChallenge == [kind |-> "none", version |-> 0]
NoUser == [hash |-> 0, version |-> 0, reset |-> FALSE, verified |-> FALSE]

Quiet == [pc |-> "idle", s |-> 0, read |-> 0, rec |-> Absent,
          victims |-> {}, keep |-> 0, next |-> "idle",
          floor |-> [version |-> 0, gen |-> 0]]

Init ==
  /\ user = NoUser
  /\ challenge = [c \in Challenges |-> NoChallenge]
  /\ store = [i \in Ids |-> Absent]
  /\ generation = 0
  /\ lock = NoReq
  /\ req = [r \in Requests |-> Quiet]
  /\ issued = 0
  /\ closed = 0
  /\ untrimmed = {}

At(r, pc) == req[r].pc = pc
Goto(r, next) == req' = [req EXCEPT ![r] = next]
Active == {i \in Ids : store[i].state = "live"}
Newer(S, i) == Cardinality({j \in S : j > i})

----------------------------------------------------------------------------
(* Authentication of a request with the token of session s.                 *)

(* The guard takes the token; GET of the token's record.                    *)
Arrive(r, s) ==
  /\ At(r, "idle")
  /\ s <= issued
  /\ store[s].state = "live"
  /\ Goto(r, [Quiet EXCEPT !.pc = "generation", !.s = s, !.rec = store[s],
                            !.floor = [version |-> user.version, gen |-> closed]])
  /\ UNCHANGED <<user, challenge, store, generation, lock, issued, closed, untrimmed>>

AnyGeneration(rec) == TRUE

(* findByTokenDigest: records of an older generation are dead.              *)
Current(rec) == rec.gen >= generation

CheckGeneration(r) ==
  /\ At(r, "generation")
  /\ Goto(r, IF Current(req[r].rec) THEN [req[r] EXCEPT !.pc = "user"] ELSE Quiet)
  /\ UNCHANGED <<user, challenge, store, generation, lock, issued, closed, untrimmed>>

AnyVersion(rec) == ~user.reset

(* authenticate: the live row of the user must match the session.           *)
Matches(rec) == user.version = rec.version /\ ~user.reset

CheckUser(r) ==
  /\ At(r, "user")
  /\ Goto(r, IF Matches(req[r].rec) THEN [req[r] EXCEPT !.pc = "touch"] ELSE Quiet)
  /\ UNCHANGED <<user, challenge, store, generation, lock, issued, closed, untrimmed>>

(* touch: a script that extends the record only if it is still live.        *)
Touch(r) ==
  /\ At(r, "touch")
  /\ LET s == req[r].s IN
     IF store[s].state = "live" /\ store[s].version = req[r].rec.version
     THEN /\ store' = [store EXCEPT ![s] = req[r].rec]
          /\ Goto(r, [req[r] EXCEPT !.pc = "in"])
     ELSE /\ Goto(r, Quiet)
          /\ UNCHANGED store
  /\ UNCHANGED <<user, challenge, generation, lock, issued, closed, untrimmed>>

----------------------------------------------------------------------------
(* The lock of the user (SET NX PX) and what runs under it.                 *)

TakeLock(r) == lock = NoReq /\ lock' = r
FreeLock(r) == lock' = IF lock = r THEN NoReq ELSE lock

(* The lock's PX runs out, under its holder or after the holder has died.   *)
LockExpires ==
  /\ lock # NoReq
  /\ lock' = NoReq
  /\ UNCHANGED <<user, challenge, store, generation, req, issued, closed, untrimmed>>

(* create reads the revoke generation under the lock ...                    *)
CreateRead(r) ==
  /\ At(r, "create")
  /\ TakeLock(r)
  /\ Goto(r, [req[r] EXCEPT !.pc = "write", !.rec =
       [state |-> "live", version |-> req[r].read, gen |-> generation]])
  /\ UNCHANGED <<user, challenge, store, generation, issued, closed, untrimmed>>

(* ... and writes the record with it.                                       *)
CreateWrite(r) ==
  /\ At(r, "write")
  /\ issued < MaxIssued
  /\ issued' = issued + 1
  /\ store' = [store EXCEPT ![issued + 1] = req[r].rec]
  /\ untrimmed' = untrimmed \cup {issued + 1}
  /\ FreeLock(r)
  /\ Goto(r, [Quiet EXCEPT !.pc = "trim"])
  /\ UNCHANGED <<user, challenge, generation, closed>>

OverLimitByOne(S) == {i \in S : Newer(S, i) > MaxSessions}

(* trimToLimit: all but the newest sessions.                                *)
OverLimit(S) == {i \in S : Newer(S, i) >= MaxSessions}

TrimList(r) ==
  /\ At(r, "trim")
  /\ TakeLock(r)
  /\ Goto(r, [req[r] EXCEPT !.pc = "revoke", !.victims = OverLimit(Active),
                            !.next = "trimmed", !.s = issued])
  /\ UNCHANGED <<user, challenge, store, generation, issued, closed, untrimmed>>

(* revokeAll: unless one session is kept, the generation goes up first.     *)
RevokeAllBegin(r) ==
  /\ At(r, "revokeAll")
  /\ req[r].keep = 0 => generation < MaxRevokeAlls
  /\ TakeLock(r)
  /\ generation' = IF req[r].keep = 0 THEN generation + 1 ELSE generation
  /\ Goto(r, [req[r] EXCEPT !.pc = "list",
                            !.rec.gen = IF req[r].keep = 0 THEN generation' ELSE 0])
  /\ UNCHANGED <<user, challenge, store, issued, closed, untrimmed>>

(* listByUser under the lock.                                               *)
RevokeAllList(r) ==
  /\ At(r, "list")
  /\ Goto(r, [req[r] EXCEPT !.pc = "revoke", !.victims = Active \ {req[r].keep}])
  /\ UNCHANGED <<user, challenge, store, generation, lock, issued, closed, untrimmed>>

(* revoke: a script that marks the record if it is still live.              *)
Revoked(s) == [store EXCEPT ![s] = Absent]

RevokeNext(r) ==
  /\ At(r, "revoke")
  /\ \E s \in req[r].victims :
       /\ store' = Revoked(s)
       /\ Goto(r, [req[r] EXCEPT !.victims = @ \ {s}])
  /\ UNCHANGED <<user, challenge, generation, lock, issued, closed, untrimmed>>

(* The end of the section: trim ends the request, revokeAll may go on.      *)
SectionEnd(r) ==
  /\ At(r, "revoke")
  /\ req[r].victims = {}
  /\ FreeLock(r)
  /\ IF req[r].next = "trimmed"
     THEN /\ untrimmed' = {i \in untrimmed : i > req[r].s}
          /\ Goto(r, Quiet)
          /\ UNCHANGED closed
     ELSE /\ closed' = IF req[r].keep = 0 /\ req[r].rec.gen > closed
                       THEN req[r].rec.gen ELSE closed
          /\ Goto(r, IF req[r].next = "idle" THEN Quiet
                     ELSE [req[r] EXCEPT !.pc = req[r].next])
          /\ UNCHANGED untrimmed
  /\ UNCHANGED <<user, challenge, store, generation, issued>>

----------------------------------------------------------------------------
(* Use cases without a session.                                             *)

(* register: the unique email admits one insert.                            *)
Register(r) ==
  /\ At(r, "idle")
  /\ user.hash = 0
  /\ user' = [hash |-> 1, version |-> 1, reset |-> FALSE, verified |-> FALSE]
  /\ Goto(r, [Quiet EXCEPT !.pc = "create", !.read = user'.version])
  /\ UNCHANGED <<challenge, store, generation, lock, issued, closed, untrimmed>>

(* login: the row that is read decides; the session carries its version.    *)
Login(r) ==
  /\ At(r, "idle")
  /\ user.hash # 0
  /\ ~user.reset
  /\ Goto(r, [Quiet EXCEPT !.pc = "create", !.read = user.version])
  /\ UNCHANGED <<user, challenge, store, generation, lock, issued, closed, untrimmed>>

(* requestChallenge: older open challenges of the kind are consumed; a row  *)
(* that a confirmation has locked makes the statement wait.                 *)
RequestChallenge(c, kind) ==
  /\ user.hash # 0
  /\ challenge[c] = NoChallenge
  /\ \A d \in Challenges : challenge[d].kind # "taken"
  /\ challenge' = [d \in Challenges |->
       IF d = c THEN [kind |-> kind, version |-> user.version]
       ELSE IF challenge[d].kind = kind THEN NoChallenge
       ELSE challenge[d]]
  /\ UNCHANGED <<user, store, generation, lock, req, issued, closed, untrimmed>>

(* Delivery fails (invalidateChallenge), the challenge expires, or the      *)
(* retention worker deletes it.                                             *)
ChallengeEnds(c) ==
  /\ challenge[c].kind \in {"verify", "reset"}
  /\ challenge' = [challenge EXCEPT ![c] = NoChallenge]
  /\ UNCHANGED <<user, store, generation, lock, req, issued, closed, untrimmed>>

Usable(c, kind) ==
  challenge[c].kind = kind /\ challenge[c].version = user.version

(* confirmEmail: the challenge is consumed in one transaction, the address  *)
(* confirmed by another statement.                                          *)
ConfirmEmail(r, c) ==
  /\ At(r, "idle")
  /\ Usable(c, "verify")
  /\ challenge' = [challenge EXCEPT ![c] = NoChallenge]
  /\ Goto(r, [Quiet EXCEPT !.pc = "verified"])
  /\ UNCHANGED <<user, store, generation, lock, issued, closed, untrimmed>>

MarkVerified(r) ==
  /\ At(r, "verified")
  /\ user' = [user EXCEPT !.verified = TRUE]
  /\ Goto(r, Quiet)
  /\ UNCHANGED <<challenge, store, generation, lock, issued, closed, untrimmed>>

(* completePasswordReset: consumes the challenge, which locks its row ...   *)
ResetConsume(r, c) ==
  /\ At(r, "idle")
  /\ Usable(c, "reset")
  /\ challenge' = [challenge EXCEPT ![c].kind = "taken"]
  /\ Goto(r, [Quiet EXCEPT !.pc = "reset"])
  /\ UNCHANGED <<user, store, generation, lock, issued, closed, untrimmed>>

(* Every change of the credential stores a hash and a new version.          *)
SetPassword(hash, mustReset) ==
  /\ user.version < MaxVersion
  /\ user' = [user EXCEPT !.hash = hash, !.version = @ + 1, !.reset = mustReset]

(* ... and sets the password in the same transaction; sessions follow.      *)
ResetWrite(r) ==
  /\ At(r, "reset")
  /\ SetPassword(user.version + 1, FALSE)
  /\ challenge' = [c \in Challenges |->
       IF challenge[c].kind \in {"taken", "reset"}
       THEN NoChallenge ELSE challenge[c]]
  /\ Goto(r, [Quiet EXCEPT !.pc = "revokeAll"])
  /\ UNCHANGED <<store, generation, lock, issued, closed, untrimmed>>

(* adminRequirePasswordReset: reads the row, writes back the hash it read.  *)
AdminRead(r) ==
  /\ At(r, "idle")
  /\ user.hash # 0
  /\ Goto(r, [Quiet EXCEPT !.pc = "require", !.read = user.hash])
  /\ UNCHANGED <<user, challenge, store, generation, lock, issued, closed, untrimmed>>

AdminRequire(r) ==
  /\ At(r, "require")
  /\ SetPassword(req[r].read, TRUE)
  /\ Goto(r, [Quiet EXCEPT !.pc = "revokeAll"])
  /\ UNCHANGED <<challenge, store, generation, lock, issued, closed, untrimmed>>

(* adminRevokeAll: straight to the revocation.                              *)
AdminRevokeAll(r) ==
  /\ At(r, "idle")
  /\ user.hash # 0
  /\ Goto(r, [Quiet EXCEPT !.pc = "revokeAll"])
  /\ UNCHANGED <<user, challenge, store, generation, lock, issued, closed, untrimmed>>

(* revokeOwnSession, logout and adminRevoke of one session s.               *)
RevokeOne(r, s) ==
  /\ At(r, "idle") \/ At(r, "in")
  /\ store[s].state = "live"
  /\ store' = Revoked(s)
  /\ Goto(r, Quiet)
  /\ UNCHANGED <<user, challenge, generation, lock, issued, closed, untrimmed>>

----------------------------------------------------------------------------
(* Use cases of an authenticated request.                                   *)

(* logoutAll, of every session including its own.                           *)
LogoutAll(r) ==
  /\ At(r, "in")
  /\ Goto(r, [Quiet EXCEPT !.pc = "revokeAll"])
  /\ UNCHANGED <<user, challenge, store, generation, lock, issued, closed, untrimmed>>

(* changePassword: verifies the current password against the row it reads,  *)
(* then updates the row as it finds it.                                     *)
ChangeRead(r) ==
  /\ At(r, "in")
  /\ Goto(r, [Quiet EXCEPT !.pc = "change", !.s = req[r].s])
  /\ UNCHANGED <<user, challenge, store, generation, lock, issued, closed, untrimmed>>

ChangeWrite(r) ==
  /\ At(r, "change")
  /\ SetPassword(user.version + 1, FALSE)
  /\ \E keep \in {0, req[r].s} :
       Goto(r, [Quiet EXCEPT !.pc = "revokeAll", !.read = user'.version, !.keep = keep,
                             !.next = "create"])
  /\ UNCHANGED <<challenge, store, generation, lock, issued, closed, untrimmed>>

(* Any other handler: the request is answered.                              *)
Answer(r) ==
  /\ At(r, "in")
  /\ Goto(r, Quiet)
  /\ UNCHANGED <<user, challenge, store, generation, lock, issued, closed, untrimmed>>

RowsStayTaken(r) == challenge

(* The transaction a request has open rolls back.                           *)
RolledBack(r) ==
  [c \in Challenges |->
     IF At(r, "reset") /\ challenge[c].kind = "taken"
     THEN [challenge[c] EXCEPT !.kind = "reset"] ELSE challenge[c]]

(* A command fails, its deadline passes, the lock stays taken or the        *)
(* process dies: the request ends where it is.  A holder that is still      *)
(* alive frees the lock.                                                    *)
Fail(r) ==
  /\ ~At(r, "idle") /\ ~At(r, "in")
  /\ lock' \in {lock, IF lock = r THEN NoReq ELSE lock}
  /\ challenge' = RolledBack(r)
  /\ Goto(r, Quiet)
  /\ UNCHANGED <<user, store, generation, issued, closed, untrimmed>>

(* The TTL of a record ends: token key and session key vanish.              *)
SessionExpires(s) ==
  /\ store[s].state = "live"
  /\ store' = Revoked(s)
  /\ UNCHANGED <<user, challenge, generation, lock, req, issued, closed, untrimmed>>

Section(r) ==
  \/ CreateRead(r) \/ CreateWrite(r) \/ TrimList(r)
  \/ RevokeAllBegin(r) \/ RevokeAllList(r) \/ RevokeNext(r) \/ SectionEnd(r)

(* UserAuthenticationController: the use cases that begin without a session *)
(* or end one.                                                              *)
UserAuthentication(r) ==
  \/ Register(r) \/ Login(r) \/ LogoutAll(r) \/ ResetWrite(r) \/ MarkVerified(r)
  \/ \E s \in Ids : RevokeOne(r, s)
  \/ \E c \in Challenges : ConfirmEmail(r, c) \/ ResetConsume(r, c)

(* UsersSelfServiceController: behind the session guard.                    *)
UsersSelfService(r) == ChangeRead(r) \/ ChangeWrite(r) \/ Answer(r)

(* AdminSessionsController.                                                 *)
AdminSessions(r) ==
  \/ AdminRead(r) \/ AdminRequire(r) \/ AdminRevokeAll(r)

Next ==
  \/ \E r \in Requests, s \in Ids : Arrive(r, s)
  \/ \E r \in Requests :
       \/ CheckGeneration(r) \/ CheckUser(r) \/ Touch(r) \/ Section(r)
       \/ UserAuthentication(r) \/ UsersSelfService(r) \/ AdminSessions(r)
       \/ Fail(r)
  \/ \E c \in Challenges, k \in {"verify", "reset"} : RequestChallenge(c, k)
  \/ \E c \in Challenges : ChallengeEnds(c)
  \/ \E s \in Ids : SessionExpires(s)
  \/ LockExpires

Spec == Init /\ [][Next]_vars

----------------------------------------------------------------------------
(* Properties.                                                              *)

(* The rows, keys and requests have their types, and a challenge row is     *)
(* locked only by a reset that is still under way.                          *)
SessionsTypeOK ==
  /\ user \in Users
  /\ \A c \in Challenges : challenge[c] \in
       [kind : {"none", "verify", "reset", "taken"}, version : Versions]
  /\ \A i \in Ids : store[i] \in Records
  /\ lock \in Requests \cup {NoReq}
  /\ issued \in 0 .. MaxIssued
  /\ untrimmed \subseteq 1 .. issued
  /\ closed <= generation
  /\ \A c \in Challenges :
       challenge[c].kind = "taken" => \E r \in Requests : At(r, "reset")

(* A request is admitted only with a session issued under the credential    *)
(* that was current when it arrived, or a later one, and never with one     *)
(* whose issue had begun before a revoke-all that was complete by then,     *)
(* whatever logins, changes and expiring locks went on in between.          *)
AdmittedFresh ==
  \A r \in Requests : At(r, "in") =>
    /\ req[r].rec.version >= req[r].floor.version
    /\ req[r].rec.gen >= req[r].floor.gen

(* Sessions beyond the limit exist only until the trim of their own login   *)
(* ends: concurrent logins do not add up.                                   *)
LimitHolds == Cardinality(Active \ untrimmed) <= MaxSessions
=============================================================================
