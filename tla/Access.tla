------------------------------- MODULE Access -------------------------------
(***************************************************************************)
(* Accounts, logins and sessions: internal/auth/users.go, limiter.go,      *)
(* internal/platform/sessions/store.go, the handlers login, logout,        *)
(* createUser, setUserStatus and resetUserPIN of internal/http/server.go,  *)
(* and the second process, cmd/mgp-admin.                                  *)
(*                                                                         *)
(* Nothing here runs in a transaction: every statement commits by itself,  *)
(* so each is an action, requests interleave between any two of them, and  *)
(* a request that fails, is cancelled or dies with the server leaves what  *)
(* its earlier statements did.                                             *)
(***************************************************************************)
EXTENDS Rbac, Limiter, Sequences

CONSTANTS
  Names,         \* usernames, normalized
  Pins,          \* six-digit PINs
  SessionIds,    \* the ids Sessions.Create can draw (bounds the sessions)
  Requests,      \* requests handled, and runs of mgp-admin, at a time
  Offered,       \* the operations asked for (a choice of inputs)
  NewRoles,      \* the roles the forms ask for (a choice of inputs)
  SessionTicks,  \* the 8 hours of a session
  MaxEvents,     \* bound on the audit events of one account
  FirstAdmin,    \* the administrator mgp-admin has set up
  FirstPin,      \* with this PIN
  NoPin, NoId    \* no PIN; no session

ASSUME AccessAssumption ==
  /\ FirstAdmin \in Names /\ NoUser \notin Names
  /\ FirstPin \in Pins /\ NoPin \notin Pins
  /\ NoId \notin SessionIds
  /\ NewRoles \subseteq Roles
  /\ SessionTicks \in Nat \ {0}

VARIABLES
  accounts,    \* table users, by username
  attempts,    \* table auth_login_attempts, by username
  sessions,    \* table sessions, by id
  events,      \* table audit_events: the account events, by target
  signatures,  \* the accounts whose signature file is on disk
  req          \* the state of each request

tables == <<accounts, attempts, sessions, events, signatures>>
vars   == <<accounts, attempts, sessions, events, signatures, req>>

-----------------------------------------------------------------------------
(* Rows and requests.                                                      *)

NoAccount == [status |-> "none", role |-> "VIEWER", pin |-> NoPin,
              signed |-> FALSE]

NewAccount(role, pin) ==
  [status |-> "active", role |-> role, pin |-> pin, signed |-> FALSE]

Exists(n) == accounts[n].status # "none"
Active(n) == accounts[n].status = "active"

NoSession == [user |-> NoUser, left |-> 0]

(* WHERE id=$1 AND expires_at > now()                                      *)
Live(s) == s # NoId /\ sessions[s].left > 0

AdminOps == {"CREATE_USER", "SET_STATUS", "RESET_PIN"}
Ops == AdminOps \cup {"LOGIN", "LOGOUT", "TOOL"}

(* A request: who sends it (cookie, then user), what about, and what it    *)
(* has read.                                                               *)
Idle == [pc |-> "idle", op |-> "LOGIN", name |-> NoUser, pin |-> NoPin,
         cookie |-> NoId, user |-> NoUser, status |-> "active",
         role |-> "VIEWER", signature |-> FALSE, allowed |-> FALSE]

Goto(r, pc) == req' = [req EXCEPT ![r].pc = pc]
End(r) == req' = [req EXCEPT ![r] = Idle]

-----------------------------------------------------------------------------
(* Requests come in.  A form that names no known role, or carries a wrong  *)
(* CSRF token, ends with nothing done, so it is left out.                  *)

ReceiveLogin(r, n, pin) ==
  /\ req[r].pc = "idle"
  /\ "LOGIN" \in Offered
  /\ req' = [req EXCEPT ![r] = [Idle EXCEPT !.pc = "limit", !.name = n,
                                            !.pin = pin]]
  /\ UNCHANGED tables

ReceiveLogout(r, s) ==
  /\ req[r].pc = "idle"
  /\ "LOGOUT" \in Offered
  /\ req' = [req EXCEPT ![r] = [Idle EXCEPT !.pc = "session",
                                            !.op = "LOGOUT", !.cookie = s]]
  /\ UNCHANGED tables

(* What the form of an operation says, beside the account it is about.     *)
Form(op, q) ==
  CASE op = "SET_STATUS"  -> {[q EXCEPT !.status = status] :
                                status \in {"active", "suspended"}}
    [] op = "RESET_PIN"   -> {[q EXCEPT !.pin = pin] : pin \in Pins}
    [] op = "CREATE_USER" -> {[q EXCEPT !.role = f.role, !.pin = f.pin,
                                        !.signature = f.signature] :
                                f \in [role : NewRoles, pin : Pins,
                                       signature : BOOLEAN]}

ReceiveAdmin(r, s, op, n) ==
  /\ req[r].pc = "idle"
  /\ Len(events[n]) < MaxEvents
  /\ \E q \in Form(op, [Idle EXCEPT !.pc = "session", !.op = op, !.cookie = s,
                                    !.name = n]) :
       req' = [req EXCEPT ![r] = q]
  /\ UNCHANGED tables

(* mgp-admin -username n -pin pin -role role                               *)
RunTool(r, n, role, pin) ==
  /\ req[r].pc = "idle"
  /\ "TOOL" \in Offered
  /\ req' = [req EXCEPT ![r] = [Idle EXCEPT !.pc = "lookup", !.op = "TOOL",
                                  !.name = n, !.role = role, !.pin = pin]]
  /\ UNCHANGED tables

Receive(r) ==
  \/ \E n \in Names, pin \in Pins : ReceiveLogin(r, n, pin)
  \/ \E s \in SessionIds : ReceiveLogout(r, s)
  \/ \E s \in SessionIds, n \in Names, op \in AdminOps \cap Offered :
       ReceiveAdmin(r, s, op, n)
  \/ \E n \in Names, role \in NewRoles, pin \in Pins : RunTool(r, n, role, pin)

-----------------------------------------------------------------------------
(* login                                                                   *)

CheckLimit(r) ==
  /\ req[r].pc = "limit"
  /\ req' = [req EXCEPT ![r].pc = "find",
                        ![r].allowed = LoginAllowed(attempts[req[r].name])]
  /\ UNCHANGED tables

Valid(r) ==
  /\ req[r].allowed
  /\ Active(req[r].name)
  /\ accounts[req[r].name].pin = req[r].pin

(* A lookup that fails counts like a wrong PIN.                            *)
FindUser(r) ==
  /\ req[r].pc = "find"
  /\ \/ Valid(r) /\ Goto(r, "clear")
     \/ Goto(r, "fail")
  /\ UNCHANGED tables

(* The errors of the next two statements are ignored.                      *)
RecordFailure(r) ==
  /\ req[r].pc = "fail"
  /\ attempts' \in {attempts, [attempts EXCEPT ![req[r].name] = AfterFailure(@)]}
  /\ End(r)
  /\ UNCHANGED <<accounts, sessions, events, signatures>>

ClearFailures(r) ==
  /\ req[r].pc = "clear"
  /\ attempts' \in {attempts, [attempts EXCEPT ![req[r].name] = NoAttempts]}
  /\ Goto(r, "create")
  /\ UNCHANGED <<accounts, sessions, events, signatures>>

CreateSession(r) ==
  /\ req[r].pc = "create"
  /\ \E s \in {i \in SessionIds : sessions[i] = NoSession} :
       sessions' = [sessions EXCEPT ![s] = [user |-> req[r].name,
                                            left |-> SessionTicks]]
  /\ End(r)
  /\ UNCHANGED <<accounts, attempts, events, signatures>>

-----------------------------------------------------------------------------
(* currentUser, in front of every other handler.                           *)

ReadSession(r) ==
  /\ req[r].pc = "session"
  /\ IF Live(req[r].cookie)
     THEN req' = [req EXCEPT ![r].pc = "user",
                             ![r].user = sessions[req[r].cookie].user]
     ELSE End(r)
  /\ UNCHANGED tables

(* Mutant: the account's status is not looked at.                          *)
AdmittedAnyStatus(r) ==
  req[r].op \in AdminOps => accounts[req[r].user].role = "ADMIN"

(* Mutant: the administrator's pages ask for an account in use only.       *)
AdmittedAnyRole(r) == Active(req[r].user)

Admitted(r) ==
  /\ Active(req[r].user)
  /\ req[r].op \in AdminOps => accounts[req[r].user].role = "ADMIN"

ReadUser(r) ==
  /\ req[r].pc = "user"
  /\ IF Admitted(r)
     THEN Goto(r, IF req[r].op = "LOGOUT" THEN "delete" ELSE "write")
     ELSE End(r)
  /\ UNCHANGED tables

(* The error of the DELETE is ignored.  A deleted id is not drawn again,   *)
(* so the row stays, as one that has expired.                              *)
DeleteSession(r) ==
  /\ req[r].pc = "delete"
  /\ sessions' \in {sessions, [sessions EXCEPT ![req[r].cookie].left = 0]}
  /\ End(r)
  /\ UNCHANGED <<accounts, attempts, events, signatures>>

-----------------------------------------------------------------------------
(* The administrator's handlers.                                           *)

WriteStatus(r) ==
  /\ req[r].pc = "write"
  /\ req[r].op = "SET_STATUS"
  /\ Exists(req[r].name)
  /\ accounts' = [accounts EXCEPT ![req[r].name].status = req[r].status]
  /\ Goto(r, "audit")
  /\ UNCHANGED <<attempts, sessions, events, signatures>>

WritePin(r) ==
  /\ req[r].pc = "write"
  /\ req[r].op = "RESET_PIN"
  /\ Exists(req[r].name)
  /\ accounts' = [accounts EXCEPT ![req[r].name].pin = req[r].pin]
  /\ Goto(r, "audit")
  /\ UNCHANGED <<attempts, sessions, events, signatures>>

(* Mutant: a new account waits in a status the table does not know.        *)
InsertPending(r) ==
  /\ req[r].pc = "write"
  /\ req[r].op = "CREATE_USER"
  /\ ~Exists(req[r].name)
  /\ accounts' = [accounts EXCEPT ![req[r].name] =
                    [NewAccount(req[r].role, req[r].pin)
                       EXCEPT !.status = "pending"]]
  /\ Goto(r, IF req[r].signature THEN "file" ELSE "audit")
  /\ UNCHANGED <<attempts, sessions, events, signatures>>

InsertAccount(r) ==
  /\ req[r].pc = "write"
  /\ req[r].op = "CREATE_USER"
  /\ ~Exists(req[r].name)
  /\ accounts' = [accounts EXCEPT ![req[r].name] =
                    NewAccount(req[r].role, req[r].pin)]
  /\ Goto(r, IF req[r].signature THEN "file" ELSE "audit")
  /\ UNCHANGED <<attempts, sessions, events, signatures>>

(* Mutant: the error of the INSERT is not looked at before the audit.      *)
WriteFailsAudited(r) ==
  /\ req[r].pc = "write"
  /\ (req[r].op = "CREATE_USER") = Exists(req[r].name)
  /\ Goto(r, "audit")
  /\ UNCHANGED tables

(* "user not found", or the unique index on lower(username).               *)
WriteFails(r) ==
  /\ req[r].pc = "write"
  /\ (req[r].op = "CREATE_USER") = Exists(req[r].name)
  /\ End(r)
  /\ UNCHANGED tables

(* Mutant: the row points to the file although writing it failed.          *)
SkipSignature(r) ==
  /\ req[r].pc = "file"
  /\ signatures' \in {signatures, signatures \cup {req[r].name}}
  /\ Goto(r, "sign")
  /\ UNCHANGED <<accounts, attempts, sessions, events>>

WriteSignature(r) ==
  /\ req[r].pc = "file"
  /\ signatures' = signatures \cup {req[r].name}
  /\ Goto(r, "sign")
  /\ UNCHANGED <<accounts, attempts, sessions, events>>

UpdateSignature(r) ==
  /\ req[r].pc = "sign"
  /\ accounts' = [accounts EXCEPT ![req[r].name].signed = TRUE]
  /\ Goto(r, "audit")
  /\ UNCHANGED <<attempts, sessions, events, signatures>>

Detail(r) ==
  CASE req[r].op = "CREATE_USER" -> req[r].role
    [] req[r].op = "SET_STATUS"  -> req[r].status
    [] req[r].op = "RESET_PIN"   -> ""

RecordAccountAudit(r) ==
  /\ req[r].pc = "audit"
  /\ events' = [events EXCEPT ![req[r].name] = Append(@,
                  [action |-> req[r].op, actor |-> req[r].user,
                   detail |-> Detail(r)])]
  /\ End(r)
  /\ UNCHANGED <<accounts, attempts, sessions, signatures>>

-----------------------------------------------------------------------------
(* mgp-admin: a lookup, then a reset or an insert, and no audit event.     *)

Lookup(r) ==
  /\ req[r].pc = "lookup"
  /\ IF ~Exists(req[r].name) THEN Goto(r, "insert")
     ELSE IF accounts[req[r].name].role = req[r].role THEN Goto(r, "reset")
     ELSE End(r)
  /\ UNCHANGED tables

ToolReset(r) ==
  /\ req[r].pc = "reset"
  /\ accounts' = [accounts EXCEPT ![req[r].name].pin = req[r].pin]
  /\ End(r)
  /\ UNCHANGED <<attempts, sessions, events, signatures>>

(* Mutant: the INSERT became an upsert.                                    *)
ToolUpsert(r) ==
  /\ req[r].pc = "insert"
  /\ accounts' = [accounts EXCEPT ![req[r].name] =
                    NewAccount(req[r].role, req[r].pin)]
  /\ End(r)
  /\ UNCHANGED <<attempts, sessions, events, signatures>>

ToolInsert(r) ==
  /\ req[r].pc = "insert"
  /\ accounts' = IF Exists(req[r].name) THEN accounts
                 ELSE [accounts EXCEPT ![req[r].name] =
                         NewAccount(req[r].role, req[r].pin)]
  /\ End(r)
  /\ UNCHANGED <<attempts, sessions, events, signatures>>

-----------------------------------------------------------------------------
(* A statement fails, the client goes away, the server stops (a run of     *)
(* mgp-admin goes on), time passes.                                        *)

Cancel(r) == req[r].pc # "idle" /\ End(r) /\ UNCHANGED tables

Crash ==
  /\ \E r \in Requests : req[r].pc # "idle" /\ req[r].op # "TOOL"
  /\ req' = [r \in Requests |-> IF req[r].op = "TOOL" THEN req[r] ELSE Idle]
  /\ UNCHANGED tables

Tick ==
  /\ \/ \E n \in Names : Locked(attempts[n])
     \/ \E s \in SessionIds : Live(s)
  /\ attempts' = [n \in Names |-> Elapsed(attempts[n])]
  /\ sessions' = [s \in SessionIds |->
                    [sessions[s] EXCEPT !.left = IF @ > 0 THEN @ - 1 ELSE 0]]
  /\ UNCHANGED <<accounts, events, signatures, req>>

-----------------------------------------------------------------------------
Init ==
  /\ accounts = [n \in Names |->
                   IF n = FirstAdmin THEN NewAccount("ADMIN", FirstPin)
                   ELSE NoAccount]
  /\ attempts = [n \in Names |-> NoAttempts]
  /\ sessions = [s \in SessionIds |-> NoSession]
  /\ events = [n \in Names |-> << >>]
  /\ signatures = {}
  /\ req = [r \in Requests |-> Idle]

Advance(r) ==
  \/ CheckLimit(r) \/ FindUser(r) \/ RecordFailure(r) \/ ClearFailures(r)
  \/ CreateSession(r)
  \/ ReadSession(r) \/ ReadUser(r) \/ DeleteSession(r)
  \/ WriteStatus(r) \/ WritePin(r) \/ InsertAccount(r) \/ WriteFails(r)
  \/ WriteSignature(r) \/ UpdateSignature(r) \/ RecordAccountAudit(r)
  \/ Lookup(r) \/ ToolReset(r) \/ ToolInsert(r)

Next ==
  \/ \E r \in Requests : Receive(r) \/ Advance(r) \/ Cancel(r)
  \/ Crash
  \/ Tick

Spec == Init /\ [][Next]_vars

(* Handlers run on until they answer; a statement here waits for no other. *)
FairSpec == Spec /\ \A r \in Requests : WF_vars(Advance(r))

-----------------------------------------------------------------------------
(* Requirements.                                                           *)

Account == [status : {"none", "active", "suspended"}, role : Roles,
            pin : Pins \cup {NoPin}, signed : BOOLEAN]

SessionRow == [user : Names \cup {NoUser}, left : 0..SessionTicks]

AccountEvent == [action : AdminOps, actor : Names,
                 detail : Roles \cup {"active", "suspended", ""}]

Steps == {"idle", "limit", "find", "fail", "clear", "create",
          "session", "user", "delete", "write", "file", "sign", "audit",
          "lookup", "reset", "insert"}

Request == [pc : Steps, op : Ops, name : Names \cup {NoUser},
            pin : Pins \cup {NoPin}, cookie : SessionIds \cup {NoId},
            user : Names \cup {NoUser}, status : {"active", "suspended"},
            role : Roles, signature : BOOLEAN, allowed : BOOLEAN]

(* The shape of the tables and the requests.                               *)
TypeOK ==
  /\ accounts \in [Names -> Account]
  /\ attempts \in [Names -> AttemptRow]
  /\ sessions \in [SessionIds -> SessionRow]
  /\ events \in [Names -> Seq(AccountEvent)]
  /\ signatures \subseteq Names
  /\ req \in [Requests -> Request]

(* A lock in force runs out at the time it was set for, whatever failed    *)
(* attempts follow or were in flight; only a login that was let in before  *)
(* and gave the right PIN lifts it early (limiter.go:27-33).               *)
LockStands ==
  [][\A n \in Names : Locked(attempts[n]) =>
       \/ attempts'[n].lock \in {attempts[n].lock, Elapsed(attempts[n]).lock}
       \/ /\ attempts'[n] = NoAttempts
          /\ \E r \in Requests :
               req[r].pc = "clear" /\ req[r].name = n /\ req[r].allowed]_vars

(* A lock always comes to an end, however often failures are repeated,     *)
(* unless the clock stops (limiter.go:20).                                 *)
LockoutEnds ==
  WF_vars(Tick) => \A n \in Names : Locked(attempts[n]) ~> ~Locked(attempts[n])

(* An account keeps the role it was created with, and is never removed,    *)
(* although server and mgp-admin look it up and write it in separate       *)
(* statements: what the register takes for granted of RoleOf.              *)
RolesFixed ==
  [][\A n \in Names : Exists(n) =>
       /\ accounts'[n].status # "none"
       /\ accounts'[n].role = accounts[n].role]_vars

(* Of concurrent creations of one username one succeeds, and it alone      *)
(* leaves an event, with the role the account has.                         *)
Creations(n) == {i \in DOMAIN events[n] : events[n][i].action = "CREATE_USER"}

CreatedOnce ==
  \A n \in Names : \A i, j \in Creations(n) :
    /\ i = j
    /\ events[n][i].detail = accounts[n].role

(* What the audit tells of accounts was done: every event is about an      *)
(* account there is, and by one that is an administrator's.                *)
ToldOfAdmins ==
  \A n \in Names : \A i \in DOMAIN events[n] :
    LET actor == events[n][i].actor IN
    Exists(n) /\ Exists(actor) /\ accounts[actor].role = "ADMIN"

(* A recorded signature has its file, whatever failed in between.          *)
SignatureHasFile ==
  \A n \in Names : accounts[n].signed => n \in signatures

(* "Suspended accounts cannot ... continue using an existing session"      *)
(* (PRD.md:33): once an account stays suspended, its last requests end and *)
(* no further one gets past currentUser.                                   *)
Inside(n) ==
  \E r \in Requests :
    /\ req[r].user = n
    /\ req[r].pc \in {"delete", "write", "file", "sign", "audit"}

SuspensionBites ==
  \A n \in Names :
    <>[](accounts[n].status = "suspended") => <>[]~Inside(n)

(* What the code says and does not do.                                     *)

(* An account is locked after maxPINFailures failures (limiter.go:9), so   *)
(* one whose count is below the limit is not locked.                       *)
LockNeedsFailures ==
  \A n \in Names : Locked(attempts[n]) => attempts[n].failed = MaxFailures
=============================================================================
