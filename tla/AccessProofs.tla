---------------------------- MODULE AccessProofs ----------------------------
(***************************************************************************)
(* What holds of accounts, logins and sessions for any number of accounts, *)
(* sessions and requests: proofs of TypeOK, RolesFixed, LockStands,        *)
(* SignatureHasFile, CreatedOnce and ToldOfAdmins of Access.               *)
(*                                                                         *)
(* Every statement commits by itself, so nothing in the tables says what a *)
(* request has done so far: the inductive invariant says it of each        *)
(* request by the statement it has come to.                                *)
(***************************************************************************)
EXTENDS Access, SequenceTheorems, TLAPS

USE DEF Roles, AdminOps, Ops, Steps

-----------------------------------------------------------------------------
(* The inductive invariant: types.                                         *)

(* What a request carries when it has come to its statement.               *)
RequestOK(q) ==
  /\ q.pc \in {"limit", "find", "fail", "clear", "create",
               "lookup", "reset", "insert", "write", "file", "sign", "audit"}
       => q.name \in Names
  /\ q.pc \in {"session", "user"} =>
       \/ q.op = "LOGOUT"
       \/ q.op \in AdminOps /\ q.name \in Names
  /\ q.pc \in {"write", "file", "sign", "audit"} => q.op \in AdminOps
  /\ q.pc \in {"file", "sign"} => q.op = "CREATE_USER"
  /\ q.pc \in {"user", "delete", "write", "file", "sign", "audit"} =>
       q.user \in Names
  /\ q.pc = "clear" => q.allowed

SessionsOwned ==
  \A s \in SessionIds : sessions[s].left > 0 => sessions[s].user \in Names

Inv ==
  /\ TypeOK
  /\ \A r \in Requests : RequestOK(req[r])
  /\ SessionsOwned

-----------------------------------------------------------------------------
(* Steps of a request.                                                     *)

LEMMA IdleOK == Idle \in Request /\ RequestOK(Idle)
  BY DEF Idle, Request, RequestOK

LEMMA IsRequest ==
  ASSUME Inv, NEW r \in Requests
  PROVE  req[r] \in Request /\ RequestOK(req[r])
  BY DEF Inv, TypeOK

(* A request that goes on to another statement keeps all it carries.       *)
LEMMA GotoMoves ==
  ASSUME Inv, NEW r \in Requests, NEW pc \in Steps, Goto(r, pc)
  PROVE  /\ req' \in [Requests -> Request]
         /\ req'[r].pc = pc /\ req'[r].op = req[r].op
         /\ req'[r].name = req[r].name /\ req'[r].user = req[r].user
         /\ req'[r].role = req[r].role /\ req'[r].allowed = req[r].allowed
         /\ \A s \in Requests \ {r} : req'[s] = req[s]
<1>1. req \in [Requests -> Request] /\ req[r] \in Request
  BY DEF Inv, TypeOK
<1>2. req' = [req EXCEPT ![r] = [req[r] EXCEPT !.pc = pc]]
  BY DEF Goto
<1>3. [req[r] EXCEPT !.pc = pc] \in Request
  BY <1>1 DEF Request
<1>4. /\ req'[r] = [req[r] EXCEPT !.pc = pc]
      /\ \A s \in Requests \ {r} : req'[s] = req[s]
      /\ req' \in [Requests -> Request]
  BY <1>1, <1>2, <1>3
<1> QED BY <1>1, <1>4 DEF Request

LEMMA EndMoves ==
  ASSUME Inv, NEW r \in Requests, End(r)
  PROVE  /\ req' \in [Requests -> Request]
         /\ req'[r] = Idle
         /\ \A s \in Requests \ {r} : req'[s] = req[s]
  BY IdleOK DEF End, Inv, TypeOK

(* The requests stay well formed when the one that moves does.             *)
LEMMA OthersStay ==
  ASSUME Inv, NEW r \in Requests,
         \A s \in Requests \ {r} : req'[s] = req[s], RequestOK(req[r])'
  PROVE  (\A s \in Requests : RequestOK(req[s]))'
<1>1. ASSUME NEW s \in Requests PROVE RequestOK(req[s])'
  <2>1. CASE s = r  BY <2>1
  <2>2. CASE s # r
    <3>1. req'[s] = req[s] /\ RequestOK(req[s])  BY <2>2 DEF Inv
    <3> QED BY <3>1 DEF RequestOK
  <2> QED BY <2>1, <2>2
<1> QED BY <1>1

LEMMA EndKeeps ==
  ASSUME Inv, NEW r \in Requests, End(r)
  PROVE  /\ req' \in [Requests -> Request]
         /\ (\A s \in Requests : RequestOK(req[s]))'
<1>1. req'[r] = Idle  BY EndMoves
<1>2. RequestOK(req[r])'  BY <1>1 DEF RequestOK, Idle
<1> QED BY <1>2, EndMoves, OthersStay

(* A step of the requests alone.                                           *)
LEMMA TablesStay ==
  ASSUME Inv, UNCHANGED tables, req' \in [Requests -> Request],
         (\A s \in Requests : RequestOK(req[s]))'
  PROVE  Inv'
  BY DEF Inv, TypeOK, SessionsOwned, tables

LEMMA ReplacedKeeps ==
  ASSUME Inv, NEW r \in Requests, NEW q \in Request, RequestOK(q),
         req' = [req EXCEPT ![r] = q]
  PROVE  /\ req' \in [Requests -> Request]
         /\ (\A s \in Requests : RequestOK(req[s]))'
<1>1. /\ req' \in [Requests -> Request] /\ req'[r] = q
      /\ \A s \in Requests \ {r} : req'[s] = req[s]
  BY DEF Inv, TypeOK
<1>2. RequestOK(req[r])'  BY <1>1 DEF RequestOK
<1> QED BY <1>1, <1>2, OthersStay

(* A request that comes in has its form and is at its first statement.     *)
LEMMA Received ==
  ASSUME NEW r \in Requests, Receive(r)
  PROVE  \E q \in Request : /\ RequestOK(q)
                            /\ q.pc \in {"limit", "session", "lookup"}
                            /\ req' = [req EXCEPT ![r] = q]
                            /\ UNCHANGED tables
<1>1. CASE \E n \in Names, pin \in Pins : ReceiveLogin(r, n, pin)
  <2>1. PICK n \in Names, pin \in Pins : ReceiveLogin(r, n, pin)  BY <1>1
  <2> DEFINE q == [Idle EXCEPT !.pc = "limit", !.name = n, !.pin = pin]
  <2>2. q \in Request /\ q.pc = "limit" /\ RequestOK(q)
    BY DEF Idle, Request, RequestOK
  <2>3. req' = [req EXCEPT ![r] = q] /\ UNCHANGED tables
    BY <2>1 DEF ReceiveLogin
  <2> HIDE DEF q
  <2> QED BY <2>2, <2>3
<1>2. CASE \E s \in SessionIds : ReceiveLogout(r, s)
  <2>1. PICK s \in SessionIds : ReceiveLogout(r, s)  BY <1>2
  <2> DEFINE q == [Idle EXCEPT !.pc = "session", !.op = "LOGOUT", !.cookie = s]
  <2>2. q \in Request /\ q.pc = "session" /\ RequestOK(q)
    <3>1. q \in Request /\ q.pc = "session" /\ q.op = "LOGOUT"
      BY DEF Idle, Request
    <3> HIDE DEF q
    <3> QED BY <3>1 DEF RequestOK
  <2>3. req' = [req EXCEPT ![r] = q] /\ UNCHANGED tables
    BY <2>1 DEF ReceiveLogout
  <2> HIDE DEF q
  <2> QED BY <2>2, <2>3
<1>3. CASE \E s \in SessionIds, n \in Names, op \in AdminOps \cap Offered :
             ReceiveAdmin(r, s, op, n)
  <2>1. PICK s \in SessionIds, n \in Names, op \in AdminOps \cap Offered :
               ReceiveAdmin(r, s, op, n)
    BY <1>3
  <2> DEFINE base == [Idle EXCEPT !.pc = "session", !.op = op, !.cookie = s,
                               !.name = n]
  <2>2. PICK q \in Form(op, base) : req' = [req EXCEPT ![r] = q]
    BY <2>1 DEF ReceiveAdmin
  <2>3. base \in Request /\ base.pc = "session" /\ RequestOK(base)
    BY DEF Idle, Request, RequestOK
  <2> HIDE DEF base
  <2>4. q \in Request /\ q.pc = "session" /\ RequestOK(q)
    <3>1. CASE op = "SET_STATUS"
      BY <2>3, <3>1 DEF Form, Request, RequestOK
    <3>2. CASE op = "RESET_PIN"
      BY <2>3, <3>2 DEF Form, Request, RequestOK
    <3>3. CASE op = "CREATE_USER"
      <4>1. PICK f \in [role : NewRoles, pin : Pins, signature : BOOLEAN] :
              q = [base EXCEPT !.role = f.role, !.pin = f.pin,
                               !.signature = f.signature]
        BY <3>3 DEF Form
      <4>2. /\ q \in Request /\ q.pc = base.pc /\ q.op = base.op
            /\ q.name = base.name /\ q.user = base.user /\ q.allowed = base.allowed
        BY <2>3, <4>1, AccessAssumption DEF Request
      <4> QED BY <2>3, <4>2 DEF RequestOK
    <3> QED BY <3>1, <3>2, <3>3
  <2>5. UNCHANGED tables  BY <2>1 DEF ReceiveAdmin
  <2> QED BY <2>2, <2>4, <2>5
<1>4. CASE \E n \in Names, role \in NewRoles, pin \in Pins :
             RunTool(r, n, role, pin)
  <2>1. PICK n \in Names, role \in NewRoles, pin \in Pins :
               RunTool(r, n, role, pin)
    BY <1>4
  <2> DEFINE q == [Idle EXCEPT !.pc = "lookup", !.op = "TOOL", !.name = n,
                               !.role = role, !.pin = pin]
  <2>2. q \in Request /\ q.pc = "lookup" /\ RequestOK(q)
    BY AccessAssumption DEF Idle, Request, RequestOK
  <2>3. req' = [req EXCEPT ![r] = q] /\ UNCHANGED tables
    BY <2>1 DEF RunTool
  <2> HIDE DEF q
  <2> QED BY <2>2, <2>3
<1> QED BY <1>1, <1>2, <1>3, <1>4 DEF Receive

LEMMA ReceiveKeeps ==
  ASSUME Inv, NEW r \in Requests, Receive(r)
  PROVE  Inv'
  BY Received, ReplacedKeeps, TablesStay

(* The rows of the limiter keep their type.                                *)
LEMMA RowsTyped ==
  ASSUME NEW row \in AttemptRow
  PROVE  /\ AfterFailure(row) \in AttemptRow
         /\ Elapsed(row) \in AttemptRow
         /\ NoAttempts \in AttemptRow
<1>1. row.failed \in 0..MaxFailures /\ row.lock \in {Unset} \cup (0..LockTicks)
  BY DEF AttemptRow
<1>2. AfterFailure(row) \in AttemptRow
  BY <1>1, LimiterAssumption
  DEF AfterFailure, AttemptRow, Expired, Locked, Counted, Unset
<1>3. NoAttempts \in AttemptRow
  BY LimiterAssumption DEF NoAttempts, AttemptRow, Unset
<1>4. Elapsed(row) \in AttemptRow
  BY <1>1, LimiterAssumption DEF Elapsed, AttemptRow, Locked, Unset
<1> QED BY <1>2, <1>3, <1>4

LEMMA LoginKeeps ==
  ASSUME Inv, NEW r \in Requests,
         CheckLimit(r) \/ FindUser(r) \/ RecordFailure(r) \/ ClearFailures(r)
           \/ CreateSession(r)
  PROVE  Inv'
<1>1. CASE CheckLimit(r)
  <2>1. req[r] \in Request /\ RequestOK(req[r]) /\ req[r].pc = "limit"
    BY <1>1, IsRequest DEF CheckLimit
  <2> DEFINE q == [req[r] EXCEPT !.pc = "find",
                     !.allowed = LoginAllowed(attempts[req[r].name])]
  <2>2. LoginAllowed(attempts[req[r].name]) \in BOOLEAN
    BY DEF LoginAllowed, Locked
  <2>3. q \in Request /\ RequestOK(q)
    <3>1. q \in Request
      BY <2>1, <2>2 DEF Request
    <3>2. q.pc = "find" /\ q.name = req[r].name
      BY <2>1 DEF Request
    <3>3. QED BY <2>1, <3>1, <3>2 DEF RequestOK
  <2>4. req' = [req EXCEPT ![r] = q]  BY <1>1 DEF CheckLimit
  <2>5. UNCHANGED tables  BY <1>1 DEF CheckLimit
  <2> HIDE DEF q
  <2> QED BY <2>3, <2>4, <2>5, ReplacedKeeps, TablesStay
<1>2. CASE FindUser(r)
  <2>1. req[r] \in Request /\ RequestOK(req[r]) /\ req[r].pc = "find"
    BY <1>2, IsRequest DEF FindUser
  <2>2. PICK pc \in {"clear", "fail"} :
          Goto(r, pc) /\ (pc = "clear" => req[r].allowed)
    BY <1>2 DEF FindUser, Valid
  <2>3. RequestOK(req[r])' /\ req' \in [Requests -> Request]
    BY <2>1, <2>2, GotoMoves DEF RequestOK
  <2>4. UNCHANGED tables  BY <1>2 DEF FindUser
  <2> QED BY <2>2, <2>3, <2>4, GotoMoves, OthersStay, TablesStay
<1>3. CASE RecordFailure(r)
  <2>1. req[r].name \in Names
    BY <1>3, IsRequest DEF RecordFailure, RequestOK
  <2>2. attempts' \in [Names -> AttemptRow]
    BY <1>3, <2>1, RowsTyped DEF RecordFailure, Inv, TypeOK
  <2> QED BY <1>3, <2>2, EndKeeps DEF RecordFailure, Inv, TypeOK, SessionsOwned
<1>4. CASE ClearFailures(r)
  <2>1. req[r].name \in Names
    BY <1>4, IsRequest DEF ClearFailures, RequestOK
  <2>2. NoAttempts \in AttemptRow
    BY LimiterAssumption DEF NoAttempts, AttemptRow, Unset
  <2>3. attempts' \in [Names -> AttemptRow]
    BY <1>4, <2>1, <2>2 DEF ClearFailures, Inv, TypeOK
  <2>4. Goto(r, "create")  BY <1>4 DEF ClearFailures
  <2>5. RequestOK(req[r])'  BY <2>1, <2>4, GotoMoves DEF RequestOK
  <2> QED BY <1>4, <2>3, <2>4, <2>5, GotoMoves, OthersStay
          DEF ClearFailures, Inv, TypeOK, SessionsOwned
<1>5. CASE CreateSession(r)
  <2>1. req[r].name \in Names
    BY <1>5, IsRequest DEF CreateSession, RequestOK
  <2>2. PICK s \in SessionIds :
          sessions' = [sessions EXCEPT ![s] = [user |-> req[r].name,
                                               left |-> SessionTicks]]
    BY <1>5 DEF CreateSession
  <2>3. [user |-> req[r].name, left |-> SessionTicks] \in SessionRow
    BY <2>1, AccessAssumption DEF SessionRow
  <2>4. sessions' \in [SessionIds -> SessionRow]
    BY <2>2, <2>3 DEF Inv, TypeOK
  <2>5. SessionsOwned'
    BY <2>1, <2>2 DEF SessionsOwned, Inv, TypeOK
  <2> QED BY <1>5, <2>4, <2>5, EndKeeps DEF CreateSession, Inv, TypeOK
<1> QED BY <1>1, <1>2, <1>3, <1>4, <1>5

(* currentUser and logout.                                                 *)
LEMMA SessionKeeps ==
  ASSUME Inv, NEW r \in Requests,
         ReadSession(r) \/ ReadUser(r) \/ DeleteSession(r)
  PROVE  Inv'
<1>1. CASE ReadSession(r)
  <2>1. req[r] \in Request /\ RequestOK(req[r]) /\ req[r].pc = "session"
    BY <1>1, IsRequest DEF ReadSession
  <2>2. UNCHANGED tables  BY <1>1 DEF ReadSession
  <2>3. CASE Live(req[r].cookie)
    <3> DEFINE q == [req[r] EXCEPT !.pc = "user",
                                   !.user = sessions[req[r].cookie].user]
    <3>1. sessions[req[r].cookie].user \in Names
      BY <2>1, <2>3 DEF Live, Request, Inv, SessionsOwned
    <3>2. q \in Request /\ RequestOK(q)
      <4>1. q \in Request
        BY <2>1, <3>1 DEF Request
      <4>2. /\ q.pc = "user" /\ q.op = req[r].op /\ q.name = req[r].name
            /\ q.user \in Names
        BY <2>1, <3>1 DEF Request
      <4>3. QED BY <2>1, <4>1, <4>2 DEF RequestOK
    <3>3. req' = [req EXCEPT ![r] = q]  BY <1>1, <2>3 DEF ReadSession
    <3> HIDE DEF q
    <3> QED BY <2>2, <3>2, <3>3, ReplacedKeeps, TablesStay
  <2>4. CASE ~Live(req[r].cookie)
    BY <1>1, <2>2, <2>4, EndKeeps, TablesStay DEF ReadSession
  <2> QED BY <2>3, <2>4
<1>2. CASE ReadUser(r)
  <2>1. req[r] \in Request /\ RequestOK(req[r]) /\ req[r].pc = "user"
    BY <1>2, IsRequest DEF ReadUser
  <2>2. UNCHANGED tables  BY <1>2 DEF ReadUser
  <2>3. CASE End(r)  BY <2>2, <2>3, EndKeeps, TablesStay
  <2>4. CASE Goto(r, IF req[r].op = "LOGOUT" THEN "delete" ELSE "write")
    <3>1. PICK pc \in {"delete", "write"} :
            Goto(r, pc) /\ (pc = "write" => req[r].op # "LOGOUT")
      BY <2>4
    <3>2. RequestOK(req[r])' /\ req' \in [Requests -> Request]
      BY <2>1, <3>1, GotoMoves DEF RequestOK
    <3> QED BY <2>2, <3>1, <3>2, GotoMoves, OthersStay, TablesStay
  <2> QED BY <1>2, <2>3, <2>4 DEF ReadUser
<1>3. CASE DeleteSession(r)
  <2>1. PICK s \in SessionIds \cup {NoId} :
          \/ sessions' = sessions
          \/ sessions' = [sessions EXCEPT ![s] = [sessions[s] EXCEPT !.left = 0]]
    BY <1>3, IsRequest DEF DeleteSession, Request
  <2>2. sessions' \in [SessionIds -> SessionRow] /\ SessionsOwned'
    <3>1. CASE sessions' = sessions
      BY <3>1 DEF Inv, TypeOK, SessionsOwned
    <3>2. CASE sessions' # sessions /\ s \in SessionIds
      <4>1. sessions[s] \in SessionRow  BY <3>2 DEF Inv, TypeOK
      <4>2. /\ [sessions[s] EXCEPT !.left = 0] \in SessionRow
            /\ [sessions[s] EXCEPT !.left = 0].left = 0
        BY <4>1, AccessAssumption DEF SessionRow
      <4>3. sessions' = [sessions EXCEPT ![s] = [sessions[s] EXCEPT !.left = 0]]
        BY <2>1, <3>2
      <4>4. sessions' \in [SessionIds -> SessionRow]
        BY <4>2, <4>3 DEF Inv, TypeOK
      <4>5. /\ sessions'[s].left = 0
            /\ \A i \in SessionIds \ {s} : sessions'[i] = sessions[i]
        BY <3>2, <4>2, <4>3 DEF Inv, TypeOK
      <4>6. SessionsOwned'
        BY <4>5 DEF Inv, SessionsOwned
      <4> QED BY <4>4, <4>6
    <3>3. CASE s \notin SessionIds
      <4>1. [sessions EXCEPT ![s] = [sessions[s] EXCEPT !.left = 0]] = sessions
        BY <3>3 DEF Inv, TypeOK
      <4> QED BY <2>1, <4>1, <3>1
    <3> QED BY <3>1, <3>2, <3>3
  <2> QED BY <1>3, <2>2, EndKeeps DEF DeleteSession, Inv, TypeOK
<1> QED BY <1>1, <1>2, <1>3

(* A step that writes rows of users, files and events as well.             *)
LEMMA Assembled ==
  ASSUME Inv, accounts' \in [Names -> Account], UNCHANGED <<attempts, sessions>>,
         events' \in [Names -> Seq(AccountEvent)], signatures' \subseteq Names,
         req' \in [Requests -> Request], (\A s \in Requests : RequestOK(req[s]))'
  PROVE  Inv'
  BY DEF Inv, TypeOK, SessionsOwned

LEMMA NewAccountTyped ==
  ASSUME NEW role \in Roles, NEW pin \in Pins \cup {NoPin}
  PROVE  NewAccount(role, pin) \in Account
  BY DEF NewAccount, Account

(* The statements of the administrator's handlers that write users.        *)
LEMMA WriteKeeps ==
  ASSUME Inv, NEW r \in Requests,
         WriteStatus(r) \/ WritePin(r) \/ InsertAccount(r) \/ WriteFails(r)
  PROVE  Inv'
<1>1. req[r] \in Request /\ RequestOK(req[r]) /\ req[r].pc = "write"
  BY IsRequest DEF WriteStatus, WritePin, InsertAccount, WriteFails
<1>2. req[r].name \in Names /\ req[r].user \in Names /\ req[r].op \in AdminOps
  BY <1>1 DEF RequestOK
<1>3. /\ accounts \in [Names -> Account] /\ accounts[req[r].name] \in Account
      /\ events \in [Names -> Seq(AccountEvent)] /\ signatures \subseteq Names
  BY <1>2 DEF Inv, TypeOK
<1>4. req[r].status \in {"active", "suspended"} /\ req[r].role \in Roles
      /\ req[r].pin \in Pins \cup {NoPin}
  BY <1>1 DEF Request
<1>5. CASE WriteStatus(r)
  <2>1. [accounts[req[r].name] EXCEPT !.status = req[r].status] \in Account
    BY <1>3, <1>4 DEF Account
  <2>2. accounts' = [accounts EXCEPT ![req[r].name] =
                       [accounts[req[r].name] EXCEPT !.status = req[r].status]]
    BY <1>5 DEF WriteStatus
  <2>3. accounts' \in [Names -> Account]  BY <1>3, <2>1, <2>2
  <2>4. Goto(r, "audit")  BY <1>5 DEF WriteStatus
  <2>5. RequestOK(req[r])'  BY <1>2, <2>4, GotoMoves DEF RequestOK
  <2> QED BY <1>3, <1>5, <2>3, <2>4, <2>5, GotoMoves, OthersStay, Assembled
          DEF WriteStatus
<1>6. CASE WritePin(r)
  <2>1. [accounts[req[r].name] EXCEPT !.pin = req[r].pin] \in Account
    BY <1>3, <1>4 DEF Account
  <2>2. accounts' = [accounts EXCEPT ![req[r].name] =
                       [accounts[req[r].name] EXCEPT !.pin = req[r].pin]]
    BY <1>6 DEF WritePin
  <2>3. accounts' \in [Names -> Account]  BY <1>3, <2>1, <2>2
  <2>4. Goto(r, "audit")  BY <1>6 DEF WritePin
  <2>5. RequestOK(req[r])'  BY <1>2, <2>4, GotoMoves DEF RequestOK
  <2> QED BY <1>3, <1>6, <2>3, <2>4, <2>5, GotoMoves, OthersStay, Assembled
          DEF WritePin
<1>7. CASE InsertAccount(r)
  <2>1. accounts' \in [Names -> Account]
    BY <1>3, <1>4, <1>7, NewAccountTyped DEF InsertAccount
  <2>2. PICK pc \in {"file", "audit"} : Goto(r, pc)
    BY <1>7 DEF InsertAccount
  <2>3. RequestOK(req[r])'
    BY <1>2, <1>7, <2>2, GotoMoves DEF RequestOK, InsertAccount
  <2> QED BY <1>3, <1>7, <2>1, <2>2, <2>3, GotoMoves, OthersStay, Assembled
          DEF InsertAccount
<1>8. CASE WriteFails(r)
  BY <1>8, EndKeeps, TablesStay DEF WriteFails
<1> QED BY <1>5, <1>6, <1>7, <1>8

(* Signature and audit event.                                              *)
LEMMA FinishKeeps ==
  ASSUME Inv, NEW r \in Requests,
         WriteSignature(r) \/ UpdateSignature(r) \/ RecordAccountAudit(r)
  PROVE  Inv'
<1>1. /\ req[r] \in Request /\ RequestOK(req[r])
      /\ req[r].pc \in {"file", "sign", "audit"}
  BY IsRequest DEF WriteSignature, UpdateSignature, RecordAccountAudit
<1>2. req[r].name \in Names /\ req[r].user \in Names /\ req[r].op \in AdminOps
  BY <1>1 DEF RequestOK
<1>3. /\ accounts \in [Names -> Account] /\ accounts[req[r].name] \in Account
      /\ events \in [Names -> Seq(AccountEvent)] /\ signatures \subseteq Names
  BY <1>2 DEF Inv, TypeOK
<1>4. CASE WriteSignature(r)
  <2>1. signatures' \subseteq Names  BY <1>2, <1>3, <1>4 DEF WriteSignature
  <2>2. Goto(r, "sign") /\ req[r].op = "CREATE_USER"
    BY <1>1, <1>4 DEF WriteSignature, RequestOK
  <2>3. RequestOK(req[r])'  BY <1>2, <2>2, GotoMoves DEF RequestOK
  <2> QED BY <1>3, <1>4, <2>1, <2>2, <2>3, GotoMoves, OthersStay, Assembled
          DEF WriteSignature
<1>5. CASE UpdateSignature(r)
  <2>1. [accounts[req[r].name] EXCEPT !.signed = TRUE] \in Account
    BY <1>3 DEF Account
  <2>2. accounts' = [accounts EXCEPT ![req[r].name] =
                       [accounts[req[r].name] EXCEPT !.signed = TRUE]]
    BY <1>5 DEF UpdateSignature
  <2>3. accounts' \in [Names -> Account]  BY <1>3, <2>1, <2>2
  <2>4. Goto(r, "audit")  BY <1>5 DEF UpdateSignature
  <2>5. RequestOK(req[r])'  BY <1>2, <2>4, GotoMoves DEF RequestOK
  <2> QED BY <1>3, <1>5, <2>3, <2>4, <2>5, GotoMoves, OthersStay, Assembled
          DEF UpdateSignature
<1>6. CASE RecordAccountAudit(r)
  <2> DEFINE e == [action |-> req[r].op, actor |-> req[r].user,
                   detail |-> Detail(r)]
  <2>1. Detail(r) \in Roles \cup {"active", "suspended", ""}
    BY <1>1, <1>2 DEF Detail, Request
  <2>2. e \in AccountEvent  BY <1>2, <2>1 DEF AccountEvent
  <2>3. events' = [events EXCEPT ![req[r].name] =
                     Append(events[req[r].name], e)]
    BY <1>6 DEF RecordAccountAudit
  <2> HIDE DEF e
  <2>4. Append(events[req[r].name], e) \in Seq(AccountEvent)
    BY <1>2, <1>3, <2>2, AppendProperties
  <2>5. events' \in [Names -> Seq(AccountEvent)]  BY <1>3, <2>3, <2>4
  <2> QED BY <1>3, <1>6, <2>5, EndKeeps, Assembled DEF RecordAccountAudit
<1> QED BY <1>4, <1>5, <1>6

(* mgp-admin.                                                              *)
LEMMA ToolKeeps ==
  ASSUME Inv, NEW r \in Requests, Lookup(r) \/ ToolReset(r) \/ ToolInsert(r)
  PROVE  Inv'
<1>1. /\ req[r] \in Request /\ RequestOK(req[r])
      /\ req[r].pc \in {"lookup", "reset", "insert"}
  BY IsRequest DEF Lookup, ToolReset, ToolInsert
<1>2. req[r].name \in Names  BY <1>1 DEF RequestOK
<1>3. /\ accounts \in [Names -> Account] /\ accounts[req[r].name] \in Account
      /\ events \in [Names -> Seq(AccountEvent)] /\ signatures \subseteq Names
  BY <1>2 DEF Inv, TypeOK
<1>4. req[r].role \in Roles /\ req[r].pin \in Pins \cup {NoPin}
  BY <1>1 DEF Request
<1>5. CASE Lookup(r)
  <2>1. UNCHANGED tables  BY <1>5 DEF Lookup
  <2>2. CASE End(r)  BY <2>1, <2>2, EndKeeps, TablesStay
  <2>3. CASE \E pc \in {"insert", "reset"} : Goto(r, pc)
    <3>1. PICK pc \in {"insert", "reset"} : Goto(r, pc)  BY <2>3
    <3>2. RequestOK(req[r])'  BY <1>2, <3>1, GotoMoves DEF RequestOK
    <3> QED BY <2>1, <3>1, <3>2, GotoMoves, OthersStay, TablesStay
  <2> QED BY <1>5, <2>2, <2>3 DEF Lookup
<1>6. CASE ToolReset(r)
  <2>1. [accounts[req[r].name] EXCEPT !.pin = req[r].pin] \in Account
    BY <1>3, <1>4 DEF Account
  <2>2. accounts' = [accounts EXCEPT ![req[r].name] =
                       [accounts[req[r].name] EXCEPT !.pin = req[r].pin]]
    BY <1>6 DEF ToolReset
  <2>3. accounts' \in [Names -> Account]  BY <1>3, <2>1, <2>2
  <2> QED BY <1>3, <1>6, <2>3, EndKeeps, Assembled DEF ToolReset
<1>7. CASE ToolInsert(r)
  <2>1. accounts' \in [Names -> Account]
    BY <1>3, <1>4, <1>7, NewAccountTyped DEF ToolInsert
  <2> QED BY <1>3, <1>7, <2>1, EndKeeps, Assembled DEF ToolInsert
<1> QED BY <1>5, <1>6, <1>7

LEMMA CrashKeeps == ASSUME Inv, Crash PROVE Inv'
<1>1. req' \in [Requests -> Request]
  BY IdleOK DEF Crash, Inv, TypeOK
<1>2. ASSUME NEW s \in Requests PROVE RequestOK(req[s])'
  <2>1. req'[s] \in {req[s], Idle}  BY DEF Crash
  <2>2. RequestOK(req[s]) /\ RequestOK(Idle)  BY IdleOK DEF Inv
  <2>3. CASE req'[s] = req[s]  BY <2>2, <2>3 DEF RequestOK
  <2>4. CASE req'[s] = Idle  BY <2>4 DEF RequestOK, Idle
  <2> QED BY <2>1, <2>3, <2>4
<1> QED BY <1>1, <1>2, TablesStay DEF Crash

LEMMA TickKeeps == ASSUME Inv, Tick PROVE Inv'
<1>1. attempts' \in [Names -> AttemptRow]
  BY RowsTyped DEF Tick, Inv, TypeOK
<1>2. ASSUME NEW s \in SessionIds
      PROVE  /\ sessions'[s] \in SessionRow
             /\ sessions'[s].user = sessions[s].user
             /\ sessions'[s].left > 0 => sessions[s].left > 0
  <2>1. sessions[s] \in SessionRow /\ sessions[s].left \in 0..SessionTicks
    BY DEF Inv, TypeOK, SessionRow
  <2>2. sessions'[s] = [sessions[s] EXCEPT !.left =
                          IF sessions[s].left > 0 THEN sessions[s].left - 1 ELSE 0]
    BY DEF Tick
  <2> QED BY <2>1, <2>2, AccessAssumption DEF SessionRow
<1>3. sessions' \in [SessionIds -> SessionRow]
  BY <1>2 DEF Tick
<1>4. SessionsOwned'  BY <1>2 DEF SessionsOwned, Inv
<1>5. (\A s \in Requests : RequestOK(req[s]))'
  BY DEF Inv, RequestOK, Tick
<1> QED BY <1>1, <1>3, <1>4, <1>5 DEF Tick, Inv, TypeOK

LEMMA InvInit == Init => Inv
<1> SUFFICES ASSUME Init PROVE Inv
  OBVIOUS
<1>1. accounts \in [Names -> Account]
  BY AccessAssumption DEF Init, NewAccount, NoAccount, Account
<1>2. attempts \in [Names -> AttemptRow]
  BY LimiterAssumption DEF Init, NoAttempts, AttemptRow, Unset
<1>3. sessions \in [SessionIds -> SessionRow] /\ SessionsOwned
  BY AccessAssumption DEF Init, NoSession, SessionRow, SessionsOwned
<1>4. events \in [Names -> Seq(AccountEvent)] /\ signatures \subseteq Names
  BY EmptySeq DEF Init
<1>5. req \in [Requests -> Request] /\ \A r \in Requests : RequestOK(req[r])
  BY IdleOK DEF Init
<1> QED BY <1>1, <1>2, <1>3, <1>4, <1>5 DEF Inv, TypeOK

LEMMA InvNext == Inv /\ [Next]_vars => Inv'
<1> SUFFICES ASSUME Inv, [Next]_vars PROVE Inv'
  OBVIOUS
<1>1. ASSUME NEW r \in Requests, Advance(r) PROVE Inv'
  BY <1>1, LoginKeeps, SessionKeeps, WriteKeeps, FinishKeeps, ToolKeeps
  DEF Advance
<1>2. ASSUME NEW r \in Requests, Cancel(r) PROVE Inv'
  BY <1>2, EndKeeps, TablesStay DEF Cancel
<1>3. CASE UNCHANGED vars
  BY <1>3 DEF vars, Inv, TypeOK, SessionsOwned, RequestOK
<1> QED BY <1>1, <1>2, <1>3, ReceiveKeeps, CrashKeeps, TickKeeps DEF Next

(* The tables and requests of Access keep their types; a request that has  *)
(* come to a statement carries what the statement needs.                   *)
THEOREM AccessInvariance == Spec => []Inv
<1> QED BY InvInit, InvNext, PTL DEF Spec

(* Type correctness (users.go, limiter.go, sessions/store.go).             *)
THEOREM AccessTypes == Spec => []TypeOK
<1>1. Inv => TypeOK  BY DEF Inv
<1> QED BY <1>1, AccessInvariance, PTL

-----------------------------------------------------------------------------
(* Accounts stay, with their role.                                         *)

(* A step that writes no row of users, or one of the six that do.          *)
LEMMA AccountsMove ==
  ASSUME [Next]_vars
  PROVE  \/ accounts' = accounts
         \/ \E r \in Requests :
              \/ WriteStatus(r) \/ WritePin(r) \/ InsertAccount(r)
              \/ UpdateSignature(r) \/ ToolReset(r) \/ ToolInsert(r)
<1>1. ASSUME NEW r \in Requests, Receive(r) PROVE accounts' = accounts
  BY <1>1 DEF Receive, ReceiveLogin, ReceiveLogout, ReceiveAdmin, RunTool, tables
<1>2. ASSUME NEW r \in Requests,
             \/ CheckLimit(r) \/ FindUser(r) \/ RecordFailure(r)
             \/ ClearFailures(r) \/ CreateSession(r)
      PROVE  accounts' = accounts
  BY <1>2 DEF CheckLimit, FindUser, RecordFailure, ClearFailures,
              CreateSession, tables
<1>3. ASSUME NEW r \in Requests,
             \/ ReadSession(r) \/ ReadUser(r) \/ DeleteSession(r)
             \/ WriteFails(r) \/ Lookup(r) \/ Cancel(r)
      PROVE  accounts' = accounts
  BY <1>3 DEF ReadSession, ReadUser, DeleteSession, WriteFails, Lookup,
              Cancel, tables
<1>4. ASSUME NEW r \in Requests, WriteSignature(r) \/ RecordAccountAudit(r)
      PROVE  accounts' = accounts
  BY <1>4 DEF WriteSignature, RecordAccountAudit
<1>5. CASE Crash \/ Tick \/ UNCHANGED vars
  BY <1>5 DEF Crash, Tick, vars, tables
<1> QED BY <1>1, <1>2, <1>3, <1>4, <1>5 DEF Next, Advance

LEMMA RolesStay ==
  ASSUME Inv, [Next]_vars, NEW n \in Names, Exists(n)
  PROVE  /\ accounts'[n].status # "none"
         /\ accounts'[n].role = accounts[n].role
<1>1. accounts \in [Names -> Account] /\ accounts[n] \in Account
  BY DEF Inv, TypeOK
<1>2. CASE accounts' = accounts  BY <1>2 DEF Exists
<1>3. ASSUME NEW r \in Requests, WriteStatus(r)
      PROVE  /\ accounts'[n].status # "none"
             /\ accounts'[n].role = accounts[n].role
  <2>1. req[r].status \in {"active", "suspended"}
    BY IsRequest DEF Request
  <2> QED BY <1>1, <1>3, <2>1 DEF WriteStatus, Exists, Account
<1>4. ASSUME NEW r \in Requests,
             WritePin(r) \/ UpdateSignature(r) \/ ToolReset(r)
      PROVE  /\ accounts'[n].status # "none"
             /\ accounts'[n].role = accounts[n].role
  <2>1. CASE WritePin(r)
    BY <1>1, <2>1 DEF WritePin, Exists, Account
  <2>2. CASE UpdateSignature(r)
    BY <1>1, <2>2 DEF UpdateSignature, Exists, Account
  <2>3. CASE ToolReset(r)
    BY <1>1, <2>3 DEF ToolReset, Exists, Account
  <2> QED BY <1>4, <2>1, <2>2, <2>3
<1>5. ASSUME NEW r \in Requests, InsertAccount(r) \/ ToolInsert(r)
      PROVE  accounts'[n] = accounts[n]
  <2>1. CASE InsertAccount(r)
    BY <1>1, <2>1 DEF InsertAccount, Exists
  <2>2. CASE ToolInsert(r)
    BY <1>1, <2>2 DEF ToolInsert, Exists
  <2> QED BY <1>5, <2>1, <2>2
<1> QED BY <1>2, <1>3, <1>4, <1>5, AccountsMove DEF Exists

(* Server and mgp-admin never change a role or remove an account, however  *)
(* their statements interleave (users.go:95, main.go:51): what GatePass-   *)
(* Store takes for granted of RoleOf.                                      *)
THEOREM RolesAreFixed == Spec => RolesFixed
<1>1. Inv /\ [Next]_vars =>
        [\A n \in Names : Exists(n) =>
           /\ accounts'[n].status # "none"
           /\ accounts'[n].role = accounts[n].role]_vars
  BY RolesStay
<1> QED BY <1>1, AccessInvariance, PTL DEF Spec, RolesFixed

-----------------------------------------------------------------------------
(* Locks.                                                                  *)

(* A step that writes no attempt row, or one of the three that do.         *)
LEMMA AttemptsMove ==
  ASSUME [Next]_vars
  PROVE  \/ attempts' = attempts
         \/ Tick
         \/ \E r \in Requests : RecordFailure(r) \/ ClearFailures(r)
<1>1. ASSUME NEW r \in Requests, Receive(r) PROVE attempts' = attempts
  BY <1>1 DEF Receive, ReceiveLogin, ReceiveLogout, ReceiveAdmin, RunTool, tables
<1>2. ASSUME NEW r \in Requests,
             \/ CheckLimit(r) \/ FindUser(r) \/ CreateSession(r)
             \/ ReadSession(r) \/ ReadUser(r) \/ DeleteSession(r)
      PROVE  attempts' = attempts
  BY <1>2 DEF CheckLimit, FindUser, CreateSession, ReadSession, ReadUser,
              DeleteSession, tables
<1>3. ASSUME NEW r \in Requests,
             \/ WriteStatus(r) \/ WritePin(r) \/ InsertAccount(r)
             \/ WriteFails(r) \/ WriteSignature(r) \/ UpdateSignature(r)
             \/ RecordAccountAudit(r)
      PROVE  attempts' = attempts
  BY <1>3 DEF WriteStatus, WritePin, InsertAccount, WriteFails,
              WriteSignature, UpdateSignature, RecordAccountAudit, tables
<1>4. ASSUME NEW r \in Requests,
             Lookup(r) \/ ToolReset(r) \/ ToolInsert(r) \/ Cancel(r)
      PROVE  attempts' = attempts
  BY <1>4 DEF Lookup, ToolReset, ToolInsert, Cancel, tables
<1>5. CASE Crash \/ UNCHANGED vars
  BY <1>5 DEF Crash, vars, tables
<1> QED BY <1>1, <1>2, <1>3, <1>4, <1>5 DEF Next, Advance

LEMMA LockStays ==
  ASSUME Inv, [Next]_vars, NEW n \in Names, Locked(attempts[n])
  PROVE  \/ attempts'[n].lock \in {attempts[n].lock, Elapsed(attempts[n]).lock}
         \/ /\ attempts'[n] = NoAttempts
            /\ \E r \in Requests :
                 req[r].pc = "clear" /\ req[r].name = n /\ req[r].allowed
<1>1. attempts \in [Names -> AttemptRow]
  BY DEF Inv, TypeOK
<1>2. CASE attempts' = attempts  BY <1>2
<1>3. CASE Tick  BY <1>3 DEF Tick
<1>4. ASSUME NEW r \in Requests, RecordFailure(r)
      PROVE  attempts'[n].lock = attempts[n].lock
  <2>1. AfterFailure(attempts[n]).lock = attempts[n].lock
    BY DEF AfterFailure
  <2>2. attempts'[n] \in {attempts[n], AfterFailure(attempts[n])}
    BY <1>1, <1>4 DEF RecordFailure
  <2> QED BY <2>1, <2>2
<1>5. ASSUME NEW r \in Requests, ClearFailures(r)
      PROVE  \/ attempts'[n] = attempts[n]
             \/ /\ attempts'[n] = NoAttempts
                /\ req[r].pc = "clear" /\ req[r].name = n /\ req[r].allowed
  <2>1. req[r].pc = "clear" /\ req[r].allowed
    BY <1>5, IsRequest DEF ClearFailures, RequestOK
  <2>2. CASE req[r].name = n
    BY <1>1, <1>5, <2>1, <2>2 DEF ClearFailures
  <2>3. CASE req[r].name # n
    BY <1>1, <1>5, <2>3 DEF ClearFailures
  <2> QED BY <2>2, <2>3
<1> QED BY <1>2, <1>3, <1>4, <1>5, AttemptsMove

(* A lock is neither extended nor shortened by attempts in flight, for any *)
(* number of concurrent logins, any limit and any length of a lock         *)
(* (limiter.go:27-33).                                                     *)
THEOREM LocksStand == Spec => LockStands
<1>1. Inv /\ [Next]_vars =>
        [\A n \in Names : Locked(attempts[n]) =>
           \/ attempts'[n].lock \in {attempts[n].lock, Elapsed(attempts[n]).lock}
           \/ /\ attempts'[n] = NoAttempts
              /\ \E r \in Requests :
                   req[r].pc = "clear" /\ req[r].name = n /\ req[r].allowed]_vars
  BY LockStays
<1> QED BY <1>1, AccessInvariance, PTL DEF Spec, LockStands

-----------------------------------------------------------------------------
(* What a request carries stays with it.                                   *)

(* A step starts a request afresh, ends it, or moves it on with its form.  *)
LEMMA RequestMoves ==
  ASSUME Inv, [Next]_vars, NEW r \in Requests
  PROVE  \/ req'[r].pc \in {"idle", "limit", "session", "lookup"}
         \/ /\ req'[r].op = req[r].op /\ req'[r].name = req[r].name
            /\ req'[r].role = req[r].role
            /\ req'[r].user = req[r].user \/ req'[r].pc = "user"
            /\ \/ req'[r].pc = req[r].pc
               \/ req'[r].pc \in {"find", "fail", "clear", "create", "user",
                                 "delete", "reset", "insert"}
               \/ ReadUser(r) /\ Admitted(r) /\ req'[r].pc = "write"
               \/ InsertAccount(r) /\ req'[r].pc \in {"file", "audit"}
               \/ WriteSignature(r) /\ req'[r].pc = "sign"
               \/ UpdateSignature(r) /\ req'[r].pc = "audit"
               \/ (WriteStatus(r) \/ WritePin(r)) /\ req'[r].pc = "audit"
<1>1. req \in [Requests -> Request] /\ req[r] \in Request
  BY DEF Inv, TypeOK
<1>2. CASE req'[r] = req[r]  BY <1>2
<1>3. CASE req'[r] = Idle  BY <1>3 DEF Idle
<1>4. CASE Receive(r)
  BY <1>1, <1>4, Received
<1>5. ASSUME NEW pc \in Steps, Goto(r, pc)
      PROVE  /\ req'[r].pc = pc /\ req'[r].op = req[r].op
             /\ req'[r].name = req[r].name /\ req'[r].role = req[r].role
             /\ req'[r].user = req[r].user
  BY <1>5, GotoMoves
<1>6. CASE CheckLimit(r)
  BY <1>1, <1>6 DEF CheckLimit, Request
<1>7. CASE ReadSession(r)
  <2>1. CASE Live(req[r].cookie)
    BY <1>1, <1>7, <2>1 DEF ReadSession, Request
  <2> QED BY <1>3, <1>7, <2>1, EndMoves DEF ReadSession
<1>8. CASE FindUser(r) \/ ClearFailures(r) \/ ReadUser(r) \/ Lookup(r)
  <2>1. \/ End(r)
        \/ \E pc \in {"clear", "fail", "create", "delete", "insert", "reset"} :
             Goto(r, pc)
        \/ ReadUser(r) /\ Admitted(r) /\ Goto(r, "write")
    BY <1>8 DEF FindUser, ClearFailures, ReadUser, Lookup
  <2>2. CASE End(r)
    BY <1>3, <2>2, EndMoves
  <2>3. ASSUME NEW pc \in {"clear", "fail", "create", "delete", "insert", "reset"},
               Goto(r, pc)
        PROVE  /\ req'[r].pc = pc /\ req'[r].op = req[r].op
               /\ req'[r].name = req[r].name /\ req'[r].role = req[r].role
               /\ req'[r].user = req[r].user
    BY <1>5, <2>3
  <2>4. CASE ReadUser(r) /\ Admitted(r) /\ Goto(r, "write")
    <3>1. /\ req'[r].pc = "write" /\ req'[r].op = req[r].op
          /\ req'[r].name = req[r].name /\ req'[r].role = req[r].role
          /\ req'[r].user = req[r].user
      BY <1>5, <2>4
    <3> QED BY <2>4, <3>1
  <2> QED BY <2>1, <2>2, <2>3, <2>4
<1>9. CASE InsertAccount(r) \/ WriteSignature(r) \/ UpdateSignature(r)
  <2>1. CASE InsertAccount(r)
    <3>1. \E pc \in {"file", "audit"} : Goto(r, pc)
      BY <2>1 DEF InsertAccount
    <3> QED BY <1>5, <2>1, <3>1
  <2>2. CASE WriteSignature(r)
    <3>1. Goto(r, "sign")  BY <2>2 DEF WriteSignature
    <3> QED BY <1>5, <2>2, <3>1
  <2>3. CASE UpdateSignature(r)
    <3>1. Goto(r, "audit")  BY <2>3 DEF UpdateSignature
    <3> QED BY <1>5, <2>3, <3>1
  <2> QED BY <1>9, <2>1, <2>2, <2>3
<1>10. CASE WriteStatus(r) \/ WritePin(r)
  <2>1. Goto(r, "audit")  BY <1>10 DEF WriteStatus, WritePin
  <2> QED BY <1>5, <1>10, <2>1
<1>11. CASE \/ RecordFailure(r) \/ CreateSession(r) \/ DeleteSession(r)
            \/ WriteFails(r) \/ RecordAccountAudit(r) \/ ToolReset(r)
            \/ ToolInsert(r) \/ Cancel(r)
  <2>1. End(r)
    BY <1>11 DEF RecordFailure, CreateSession, DeleteSession, WriteFails,
                 RecordAccountAudit, ToolReset, ToolInsert, Cancel
  <2> QED BY <1>3, <2>1, EndMoves
<1>12. ASSUME NEW s \in Requests \ {r}, Receive(s) \/ Advance(s) \/ Cancel(s)
       PROVE  req'[r] = req[r]
  <2>1. PICK q : req' = [req EXCEPT ![s] = q]
    <3>1. CASE Receive(s)
      BY <3>1, Received
    <3>2. CASE \/ CheckLimit(s) \/ FindUser(s) \/ RecordFailure(s)
               \/ ClearFailures(s) \/ CreateSession(s)
      BY <3>2 DEF CheckLimit, FindUser, RecordFailure, ClearFailures,
                  CreateSession, Goto, End
    <3>3. CASE \/ ReadSession(s) \/ ReadUser(s) \/ DeleteSession(s)
               \/ Lookup(s) \/ ToolReset(s) \/ ToolInsert(s) \/ Cancel(s)
      BY <3>3 DEF ReadSession, ReadUser, DeleteSession, Lookup, ToolReset,
                  ToolInsert, Cancel, Goto, End
    <3>4. CASE \/ WriteStatus(s) \/ WritePin(s) \/ InsertAccount(s)
               \/ WriteFails(s) \/ WriteSignature(s) \/ UpdateSignature(s)
               \/ RecordAccountAudit(s)
      BY <3>4 DEF WriteStatus, WritePin, InsertAccount, WriteFails,
                  WriteSignature, UpdateSignature, RecordAccountAudit, Goto, End
    <3> QED BY <1>12, <3>1, <3>2, <3>3, <3>4 DEF Advance
  <2> QED BY <1>1, <2>1
<1>13. CASE Crash \/ Tick \/ UNCHANGED vars
  <2>1. req'[r] \in {req[r], Idle}  BY <1>13 DEF Crash, Tick, vars
  <2> QED BY <1>2, <1>3, <2>1
<1>14. CASE Receive(r) \/ Advance(r) \/ Cancel(r)
  BY <1>4, <1>6, <1>7, <1>8, <1>9, <1>10, <1>11, <1>14 DEF Advance
<1> QED BY <1>2, <1>12, <1>13, <1>14 DEF Next

-----------------------------------------------------------------------------
(* Signatures.                                                             *)

(* A request that is about to record a signature has written its file.     *)
SignatureInv ==
  /\ SignatureHasFile
  /\ \A r \in Requests : req[r].pc = "sign" => req[r].name \in signatures

(* Files of signatures stay.                                               *)
LEMMA FilesStay ==
  ASSUME Inv, [Next]_vars, NEW n \in signatures
  PROVE  n \in signatures'
<1>1. ASSUME NEW r \in Requests, Receive(r) PROVE signatures' = signatures
  BY <1>1, Received DEF tables
<1>2. ASSUME NEW r \in Requests,
             \/ CheckLimit(r) \/ FindUser(r) \/ RecordFailure(r)
             \/ ClearFailures(r) \/ CreateSession(r)
             \/ ReadSession(r) \/ ReadUser(r) \/ DeleteSession(r)
      PROVE  signatures' = signatures
  BY <1>2 DEF CheckLimit, FindUser, RecordFailure, ClearFailures,
              CreateSession, ReadSession, ReadUser, DeleteSession, tables
<1>3. ASSUME NEW r \in Requests,
             \/ WriteStatus(r) \/ WritePin(r) \/ InsertAccount(r)
             \/ WriteFails(r) \/ UpdateSignature(r) \/ RecordAccountAudit(r)
             \/ Lookup(r) \/ ToolReset(r) \/ ToolInsert(r) \/ Cancel(r)
      PROVE  signatures' = signatures
  BY <1>3 DEF WriteStatus, WritePin, InsertAccount, WriteFails,
              UpdateSignature, RecordAccountAudit, Lookup, ToolReset,
              ToolInsert, Cancel, tables
<1>4. ASSUME NEW r \in Requests, WriteSignature(r) PROVE n \in signatures'
  BY <1>4 DEF WriteSignature
<1>5. CASE Crash \/ Tick \/ UNCHANGED vars
  BY <1>5 DEF Crash, Tick, vars, tables
<1> QED BY <1>1, <1>2, <1>3, <1>4, <1>5 DEF Next, Advance

(* The only statement that sets signature_path is UpdateSignature.         *)
LEMMA SignedMoves ==
  ASSUME Inv, [Next]_vars, NEW n \in Names, accounts'[n].signed
  PROVE  \/ accounts[n].signed
         \/ \E r \in Requests : UpdateSignature(r) /\ req[r].name = n
<1>1. accounts \in [Names -> Account] /\ accounts[n] \in Account
  BY DEF Inv, TypeOK
<1>2. CASE accounts' = accounts  BY <1>2
<1>3. ASSUME NEW r \in Requests, WriteStatus(r) \/ WritePin(r) \/ ToolReset(r)
      PROVE  accounts[n].signed
  <2>1. CASE WriteStatus(r)  BY <1>1, <2>1 DEF WriteStatus, Account
  <2>2. CASE WritePin(r)  BY <1>1, <2>2 DEF WritePin, Account
  <2>3. CASE ToolReset(r)  BY <1>1, <2>3 DEF ToolReset, Account
  <2> QED BY <1>3, <2>1, <2>2, <2>3
<1>4. ASSUME NEW r \in Requests, InsertAccount(r) \/ ToolInsert(r)
      PROVE  accounts[n].signed
  <2>1. CASE InsertAccount(r)
    BY <1>1, <2>1 DEF InsertAccount, NewAccount
  <2>2. CASE ToolInsert(r)
    BY <1>1, <2>2 DEF ToolInsert, NewAccount
  <2> QED BY <1>4, <2>1, <2>2
<1>5. ASSUME NEW r \in Requests, UpdateSignature(r)
      PROVE  accounts[n].signed \/ req[r].name = n
  BY <1>1, <1>5 DEF UpdateSignature
<1> QED BY <1>2, <1>3, <1>4, <1>5, AccountsMove

LEMMA SignatureNext == Inv /\ SignatureInv /\ [Next]_vars => SignatureInv'
<1> SUFFICES ASSUME Inv, SignatureInv, [Next]_vars PROVE SignatureInv'
  OBVIOUS
<1>1. ASSUME NEW n \in Names, accounts'[n].signed PROVE n \in signatures'
  <2>1. CASE accounts[n].signed
    BY <2>1, FilesStay DEF SignatureInv, SignatureHasFile
  <2>2. ASSUME NEW r \in Requests, UpdateSignature(r), req[r].name = n
        PROVE  n \in signatures'
    BY <2>2, FilesStay DEF UpdateSignature, SignatureInv
  <2> QED BY <1>1, <2>1, <2>2, SignedMoves
<1>2. ASSUME NEW r \in Requests, req'[r].pc = "sign"
      PROVE  req'[r].name \in signatures'
  <2>1. req'[r].name = req[r].name /\ (req[r].pc = "sign" \/ WriteSignature(r))
    BY <1>2, RequestMoves
  <2>2. CASE req[r].pc = "sign"
    BY <2>1, <2>2, FilesStay DEF SignatureInv
  <2>3. CASE WriteSignature(r)
    BY <2>1, <2>3 DEF WriteSignature
  <2> QED BY <2>1, <2>2, <2>3
<1> QED BY <1>1, <1>2 DEF SignatureInv, SignatureHasFile

(* No account shows a signature whose file was never written, wherever     *)
(* createUser fails, is cancelled or dies (server.go:420-440).             *)
THEOREM SignaturesHaveFiles == Spec => []SignatureHasFile
<1>1. Init => SignatureInv
  BY DEF Init, SignatureInv, SignatureHasFile, NewAccount, NoAccount, Idle
<1>2. SignatureInv => SignatureHasFile  BY DEF SignatureInv
<1> QED BY <1>1, <1>2, SignatureNext, AccessInvariance, PTL DEF Spec

-----------------------------------------------------------------------------
(* Creations.                                                              *)

(* A request that has inserted account n and not written its event yet.    *)
Creating(r, n) ==
  /\ req[r].pc \in {"file", "sign", "audit"}
  /\ req[r].op = "CREATE_USER"
  /\ req[r].name = n

CreationOK(n) ==
  /\ \A r \in Requests : Creating(r, n) =>
       /\ Exists(n) /\ accounts[n].role = req[r].role
       /\ Creations(n) = {}
  /\ \A r, s \in Requests : Creating(r, n) /\ Creating(s, n) => r = s
  /\ Creations(n) # {} => Exists(n)
  /\ \A i, j \in Creations(n) : i = j
  /\ \A i \in Creations(n) : events[n][i].detail = accounts[n].role

(* Only the event changes the events.                                      *)
LEMMA EventsMove ==
  ASSUME Inv, [Next]_vars
  PROVE  events' = events \/ \E r \in Requests : RecordAccountAudit(r)
<1>1. ASSUME NEW r \in Requests, Receive(r) PROVE events' = events
  BY <1>1, Received DEF tables
<1>2. ASSUME NEW r \in Requests,
             \/ CheckLimit(r) \/ FindUser(r) \/ RecordFailure(r)
             \/ ClearFailures(r) \/ CreateSession(r)
             \/ ReadSession(r) \/ ReadUser(r) \/ DeleteSession(r)
      PROVE  events' = events
  BY <1>2 DEF CheckLimit, FindUser, RecordFailure, ClearFailures,
              CreateSession, ReadSession, ReadUser, DeleteSession, tables
<1>3. ASSUME NEW r \in Requests,
             \/ WriteStatus(r) \/ WritePin(r) \/ InsertAccount(r)
             \/ WriteFails(r) \/ WriteSignature(r) \/ UpdateSignature(r)
             \/ Lookup(r) \/ ToolReset(r) \/ ToolInsert(r) \/ Cancel(r)
      PROVE  events' = events
  BY <1>3 DEF WriteStatus, WritePin, InsertAccount, WriteFails,
              WriteSignature, UpdateSignature, Lookup, ToolReset,
              ToolInsert, Cancel, tables
<1>4. CASE Crash \/ Tick \/ UNCHANGED vars
  BY <1>4 DEF Crash, Tick, vars, tables
<1> QED BY <1>1, <1>2, <1>3, <1>4 DEF Next, Advance

(* A request creates what it created before, or has just inserted it.      *)
LEMMA CreatingMoves ==
  ASSUME Inv, [Next]_vars, NEW n \in Names, NEW r \in Requests, Creating(r, n)'
  PROVE  /\ Creating(r, n) \/ (InsertAccount(r) /\ req[r].name = n)
         /\ req'[r].role = req[r].role
<1>1. /\ req'[r].pc \in {"file", "sign", "audit"}
      /\ req'[r].op = "CREATE_USER" /\ req'[r].name = n
  BY DEF Creating
<1>2. /\ req'[r].op = req[r].op /\ req'[r].name = req[r].name
      /\ req'[r].role = req[r].role
      /\ \/ req'[r].pc = req[r].pc \/ InsertAccount(r)
         \/ WriteSignature(r) \/ UpdateSignature(r)
         \/ WriteStatus(r) \/ WritePin(r)
  BY <1>1, RequestMoves
<1>3. CASE req'[r].pc = req[r].pc \/ InsertAccount(r)
  BY <1>1, <1>2, <1>3 DEF Creating
<1>4. CASE WriteSignature(r) \/ UpdateSignature(r)
  BY <1>1, <1>2, <1>4 DEF Creating, WriteSignature, UpdateSignature
<1>5. CASE WriteStatus(r) \/ WritePin(r)
  BY <1>1, <1>2, <1>5 DEF WriteStatus, WritePin
<1> QED BY <1>2, <1>3, <1>4, <1>5

LEMMA EventAppended ==
  ASSUME Inv, NEW r \in Requests, RecordAccountAudit(r)
  PROVE  LET n == req[r].name
             k == Len(events[n]) + 1
         IN  /\ n \in Names /\ k \in Nat
             /\ DOMAIN events[n] = 1..(k - 1)
             /\ DOMAIN events'[n] = 1..k
             /\ \A i \in 1..(k - 1) : events'[n][i] = events[n][i]
             /\ events'[n][k].action = req[r].op
             /\ events'[n][k].actor = req[r].user
             /\ events'[n][k].detail = Detail(r)
             /\ \A m \in Names \ {n} : events'[m] = events[m]
<1> DEFINE n == req[r].name
           k == Len(events[n]) + 1
           e == [action |-> req[r].op, actor |-> req[r].user,
                 detail |-> Detail(r)]
<1>1. n \in Names
  BY IsRequest DEF RecordAccountAudit, RequestOK
<1>2. events \in [Names -> Seq(AccountEvent)] /\ events[n] \in Seq(AccountEvent)
  BY <1>1 DEF Inv, TypeOK
<1>3. e \in AccountEvent
  <2>1. req[r] \in Request /\ req[r].op \in AdminOps /\ req[r].user \in Names
    BY IsRequest DEF RecordAccountAudit, RequestOK
  <2>2. Detail(r) \in Roles \cup {"active", "suspended", ""}
    BY <2>1 DEF Detail, Request
  <2> QED BY <2>1, <2>2 DEF AccountEvent
<1>4. events' = [events EXCEPT ![n] = Append(events[n], e)]
  BY DEF RecordAccountAudit
<1>5. e.action = req[r].op /\ e.actor = req[r].user /\ e.detail = Detail(r)
  OBVIOUS
<1> HIDE DEF n, e
<1>6. /\ Len(Append(events[n], e)) = k /\ Append(events[n], e)[k] = e
      /\ \A i \in 1..Len(events[n]) : Append(events[n], e)[i] = events[n][i]
      /\ Append(events[n], e) \in Seq(AccountEvent)
  BY <1>2, <1>3, AppendProperties
<1>7. /\ events'[n] = Append(events[n], e)
      /\ \A m \in Names \ {n} : events'[m] = events[m]
  BY <1>1, <1>2, <1>4
<1>8. Len(events[n]) \in Nat /\ DOMAIN events[n] = 1..Len(events[n])
  BY <1>2, LenProperties
<1>9. DOMAIN events'[n] = 1..k
  BY <1>6, <1>7, LenProperties
<1> HIDE DEF k
<1>10. k \in Nat /\ k - 1 = Len(events[n])
  BY <1>8 DEF k
<1> QED BY <1>1, <1>5, <1>6, <1>7, <1>8, <1>9, <1>10 DEF n, k

LEMMA CreationNext ==
  ASSUME Inv, [Next]_vars, NEW n \in Names, CreationOK(n)
  PROVE  CreationOK(n)'
<1>1. Exists(n) => Exists(n)' /\ accounts'[n].role = accounts[n].role
  BY RolesStay DEF Exists
<1>2. accounts \in [Names -> Account] /\ events \in [Names -> Seq(AccountEvent)]
  BY DEF Inv, TypeOK
<1>3. ASSUME NEW r \in Requests, InsertAccount(r), req[r].name = n
      PROVE  CreationOK(n)'
  <2>1. ~Exists(n) /\ events' = events
    BY <1>3 DEF InsertAccount
  <2>2. Creations(n) = {} /\ \A s \in Requests : ~Creating(s, n)
    BY <2>1 DEF CreationOK
  <2>3. Creations(n)' = {}  BY <2>1, <2>2 DEF Creations
  <2>4. accounts'[n] = NewAccount(req[r].role, req[r].pin)
    BY <1>2, <1>3 DEF InsertAccount
  <2>5. Exists(n)' /\ accounts'[n].role = req[r].role
    BY <2>4 DEF Exists, NewAccount
  <2>6. ASSUME NEW s \in Requests, Creating(s, n)' PROVE s = r
    <3>1. PICK pc \in {"file", "audit"} : Goto(r, pc)
      BY <1>3 DEF InsertAccount
    <3>2. CASE s # r
      <4>1. req'[s] = req[s]  BY <3>1, <3>2, GotoMoves
      <4>2. Creating(s, n)  BY <2>6, <4>1 DEF Creating
      <4> QED BY <2>2, <4>2
    <3> QED BY <3>2
  <2>7. Creating(r, n)' => req'[r].role = req[r].role
    BY CreatingMoves
  <2> QED BY <2>3, <2>5, <2>6, <2>7 DEF CreationOK
<1>4. ASSUME NEW r \in Requests, RecordAccountAudit(r), req[r].name = n
      PROVE  CreationOK(n)'
  <2>1. PICK k \in Nat :
          /\ DOMAIN events[n] = 1..(k - 1) /\ DOMAIN events'[n] = 1..k
          /\ \A i \in 1..(k - 1) : events'[n][i] = events[n][i]
          /\ events'[n][k].action = req[r].op
          /\ events'[n][k].detail = Detail(r)
    BY <1>4, EventAppended
  <2>2. accounts' = accounts /\ req[r].pc = "audit" /\ End(r)
    BY <1>4 DEF RecordAccountAudit
  <2>3. ASSUME NEW s \in Requests, Creating(s, n)'
        PROVE  s # r /\ Creating(s, n) /\ req'[s] = req[s]
    <3>1. s # r
      BY <2>2, <2>3, EndMoves DEF Creating, Idle
    <3>2. req'[s] = req[s]  BY <2>2, <3>1, EndMoves
    <3> QED BY <2>3, <3>1, <3>2 DEF Creating
  <2>4. CASE req[r].op = "CREATE_USER"
    <3>1. Creating(r, n)  BY <1>4, <2>2, <2>4 DEF Creating
    <3>2. /\ Exists(n) /\ accounts[n].role = req[r].role /\ Creations(n) = {}
          /\ \A s \in Requests : Creating(s, n) => s = r
      BY <3>1 DEF CreationOK
    <3>3. \A s \in Requests : ~Creating(s, n)'
      BY <2>3, <3>2
    <3>4. \A i \in Creations(n)' : i = k
      <4>1. ASSUME NEW i \in Creations(n)', i # k PROVE FALSE
        <5>1. i \in 1..(k - 1) /\ events'[n][i].action = "CREATE_USER"
          BY <2>1, <4>1 DEF Creations
        <5>2. i \in Creations(n)  BY <2>1, <5>1 DEF Creations
        <5> QED BY <3>2, <5>2
      <4> QED BY <4>1
    <3>5. events'[n][k].detail = accounts'[n].role
      BY <2>1, <2>2, <2>4, <3>2 DEF Detail
    <3>6. \A i, j \in Creations(n)' : i = j
      BY <3>4
    <3>7. \A i \in Creations(n)' : events'[n][i].detail = accounts'[n].role
      BY <3>4, <3>5
    <3>8. Exists(n)'  BY <2>2, <3>2 DEF Exists
    <3> QED BY <3>3, <3>6, <3>7, <3>8 DEF CreationOK
  <2>5. CASE req[r].op # "CREATE_USER"
    <3>1. Creations(n)' = Creations(n)
      <4>1. ASSUME NEW i \in Creations(n)' PROVE i \in Creations(n)
        <5>1. i \in 1..k /\ events'[n][i].action = "CREATE_USER"
          BY <2>1, <4>1 DEF Creations
        <5>2. i \in 1..(k - 1)  BY <2>1, <2>5, <5>1
        <5> QED BY <2>1, <5>1, <5>2 DEF Creations
      <4>2. ASSUME NEW i \in Creations(n) PROVE i \in Creations(n)'
        <5>1. i \in 1..(k - 1) /\ events[n][i].action = "CREATE_USER"
          BY <2>1, <4>2 DEF Creations
        <5> QED BY <2>1, <5>1 DEF Creations
      <4> QED BY <4>1, <4>2
    <3>2. \A i \in Creations(n) : events'[n][i] = events[n][i]
      BY <2>1 DEF Creations
    <3> QED BY <2>2, <2>3, <3>1, <3>2 DEF CreationOK, Exists
  <2> QED BY <2>4, <2>5
<1>5. CASE /\ \A r \in Requests : ~(InsertAccount(r) /\ req[r].name = n)
           /\ \A r \in Requests : ~(RecordAccountAudit(r) /\ req[r].name = n)
  <2>1. events'[n] = events[n]
    BY <1>5, EventsMove, EventAppended
  <2>2. Creations(n)' = Creations(n)  BY <2>1 DEF Creations
  <2>3. \A r \in Requests :
          Creating(r, n)' => Creating(r, n) /\ req'[r].role = req[r].role
    BY <1>5, CreatingMoves
  <2> QED BY <1>1, <2>1, <2>2, <2>3 DEF CreationOK
<1> QED BY <1>3, <1>4, <1>5

CreationInv == \A n \in Names : CreationOK(n)

(* Of any number of requests, and runs of mgp-admin, that create one       *)
(* username, at most one records a creation, with the role the account     *)
(* has (users.go:95, server.go:447).                                       *)
THEOREM CreatedJustOnce == Spec => []CreatedOnce
<1>1. Init => CreationInv
  BY DEF Init, CreationInv, CreationOK, Creating, Creations, Idle
<1>2. Inv /\ CreationInv /\ [Next]_vars => CreationInv'
  BY CreationNext DEF CreationInv
<1>3. CreationInv => CreatedOnce
  BY DEF CreationInv, CreationOK, CreatedOnce
<1> QED BY <1>1, <1>2, <1>3, AccessInvariance, PTL DEF Spec

-----------------------------------------------------------------------------
(* Who is told to have changed accounts.                                   *)

Admin(n) == Exists(n) /\ accounts[n].role = "ADMIN"

(* Past currentUser a request is an administrator's; once it has written,  *)
(* the account it is about exists.                                         *)
ToldInv ==
  /\ \A n \in Names : \A i \in DOMAIN events[n] :
       Exists(n) /\ Admin(events[n][i].actor)
  /\ \A r \in Requests :
       /\ req[r].pc \in {"write", "file", "sign", "audit"} => Admin(req[r].user)
       /\ req[r].pc \in {"file", "sign", "audit"} => Exists(req[r].name)

LEMMA AdminsStay ==
  ASSUME Inv, [Next]_vars, NEW n \in Names
  PROVE  (Exists(n) => Exists(n)') /\ (Admin(n) => Admin(n)')
BY RolesStay DEF Admin, Exists

(* A handler that has written its row leaves the account in the table.     *)
LEMMA WrittenExists ==
  ASSUME Inv, NEW r \in Requests,
         InsertAccount(r) \/ WriteStatus(r) \/ WritePin(r)
  PROVE  Exists(req[r].name)'
<1>1. accounts \in [Names -> Account] /\ req[r].name \in Names /\ req[r] \in Request
  <2>1. req[r].pc = "write"
    BY DEF InsertAccount, WriteStatus, WritePin
  <2> QED BY <2>1, IsRequest DEF Inv, TypeOK, RequestOK
<1>2. req'[r].name = req[r].name
  <2>1. \E pc \in {"file", "audit"} : Goto(r, pc)
    BY DEF InsertAccount, WriteStatus, WritePin
  <2> QED BY <2>1, GotoMoves
<1>3. CASE InsertAccount(r)
  <2>1. accounts'[req[r].name] = NewAccount(req[r].role, req[r].pin)
    BY <1>1, <1>3 DEF InsertAccount
  <2> QED BY <1>2, <2>1 DEF Exists, NewAccount
<1>4. CASE WriteStatus(r)
  <2>1. accounts'[req[r].name].status = req[r].status
    BY <1>1, <1>4 DEF WriteStatus, Account
  <2> QED BY <1>1, <1>2, <2>1 DEF Exists, Request
<1>5. CASE WritePin(r)
  <2>1. accounts'[req[r].name].status = accounts[req[r].name].status
    BY <1>1, <1>5 DEF WritePin, Account
  <2> QED BY <1>2, <1>5, <2>1 DEF Exists, WritePin
<1> QED BY <1>3, <1>4, <1>5

LEMMA ToldNext == Inv /\ ToldInv /\ [Next]_vars => ToldInv'
<1> SUFFICES ASSUME Inv, ToldInv, [Next]_vars PROVE ToldInv'
  OBVIOUS
<1>0. Inv'
  BY InvNext
<1>1. ASSUME NEW r \in Requests, req'[r].pc \in {"write", "file", "sign", "audit"}
      PROVE  Admin(req[r].user)'
  <2>1. /\ req'[r].user = req[r].user
        /\ \/ req[r].pc \in {"write", "file", "sign", "audit"}
           \/ ReadUser(r) /\ Admitted(r)
    <3>1. /\ req'[r].user = req[r].user
          /\ \/ req'[r].pc = req[r].pc
             \/ ReadUser(r) /\ Admitted(r)
             \/ InsertAccount(r) \/ WriteSignature(r) \/ UpdateSignature(r)
             \/ WriteStatus(r) \/ WritePin(r)
      BY <1>1, RequestMoves
    <3>2. InsertAccount(r) \/ WriteStatus(r) \/ WritePin(r) => req[r].pc = "write"
      BY DEF InsertAccount, WriteStatus, WritePin
    <3>3. /\ WriteSignature(r) => req[r].pc = "file"
          /\ UpdateSignature(r) => req[r].pc = "sign"
      BY DEF WriteSignature, UpdateSignature
    <3> QED BY <1>1, <3>1, <3>2, <3>3
  <2>2. req[r].user \in Names
    BY <2>1, IsRequest DEF RequestOK, ReadUser
  <2>3. CASE req[r].pc \in {"write", "file", "sign", "audit"}
    BY <2>1, <2>2, <2>3, AdminsStay DEF ToldInv
  <2>4. CASE ReadUser(r) /\ Admitted(r)
    <3>1. req[r].op \in AdminOps
      <4>1. req'[r].op \in AdminOps /\ req'[r].op = req[r].op
        BY <1>0, <1>1, RequestMoves DEF Inv, RequestOK
      <4> QED BY <4>1
    <3>2. Admin(req[r].user)
      BY <2>4, <3>1 DEF Admitted, Admin, Active, Exists
    <3> QED BY <2>1, <2>2, <3>2, AdminsStay
  <2> QED BY <2>1, <2>3, <2>4
<1>2. ASSUME NEW r \in Requests, req'[r].pc \in {"file", "sign", "audit"}
      PROVE  Exists(req[r].name)'
  <2>1. /\ req'[r].name = req[r].name
        /\ \/ req[r].pc \in {"file", "sign", "audit"}
           \/ InsertAccount(r) \/ WriteStatus(r) \/ WritePin(r)
    <3>1. /\ req'[r].name = req[r].name
          /\ \/ req'[r].pc = req[r].pc
             \/ InsertAccount(r) \/ WriteStatus(r) \/ WritePin(r)
             \/ WriteSignature(r) \/ UpdateSignature(r)
      BY <1>2, RequestMoves
    <3>2. /\ WriteSignature(r) => req[r].pc = "file"
          /\ UpdateSignature(r) => req[r].pc = "sign"
      BY DEF WriteSignature, UpdateSignature
    <3> QED BY <1>2, <3>1, <3>2
  <2>2. CASE req[r].pc \in {"file", "sign", "audit"}
    <3>1. req[r].name \in Names /\ Exists(req[r].name)
      BY <2>2, IsRequest DEF RequestOK, ToldInv
    <3> QED BY <2>1, <3>1, AdminsStay
  <2> QED BY <2>1, <2>2, WrittenExists
<1>3. ASSUME NEW n \in Names, NEW i \in DOMAIN events'[n]
      PROVE  Exists(n)' /\ Admin(events[n][i].actor)'
  <2> DEFINE actor == events'[n][i].actor
  <2>1. actor \in Names
    <3>1. events'[n] \in Seq(AccountEvent)
      BY <1>0 DEF Inv, TypeOK
    <3>2. events'[n][i] \in AccountEvent
      BY <1>3, <3>1
    <3> QED BY <3>2 DEF AccountEvent
  <2>2. Exists(n) /\ Admin(actor)
    <3>1. CASE i \in DOMAIN events[n] /\ events'[n][i] = events[n][i]
      BY <3>1 DEF ToldInv
    <3>2. ASSUME NEW r \in Requests, RecordAccountAudit(r), req[r].name = n,
                 events'[n][i].actor = req[r].user
          PROVE  Exists(n) /\ Admin(actor)
      BY <3>2 DEF ToldInv, RecordAccountAudit
    <3>3. ASSUME NEW r \in Requests, RecordAccountAudit(r)
          PROVE  \/ i \in DOMAIN events[n] /\ events'[n][i] = events[n][i]
                 \/ req[r].name = n /\ events'[n][i].actor = req[r].user
      <4>1. CASE req[r].name = n
        <5>1. PICK k \in Nat :
                /\ DOMAIN events[n] = 1..(k - 1) /\ DOMAIN events'[n] = 1..k
                /\ \A j \in 1..(k - 1) : events'[n][j] = events[n][j]
                /\ events'[n][k].actor = req[r].user
          BY <3>3, <4>1, EventAppended
        <5>2. i \in 1..(k - 1) \/ i = k
          BY <1>3, <5>1
        <5> QED BY <4>1, <5>1, <5>2
      <4>2. CASE req[r].name # n
        <5>1. events'[n] = events[n]
          BY <3>3, <4>2, EventAppended
        <5> QED BY <1>3, <5>1
      <4> QED BY <4>1, <4>2
    <3>4. CASE events' = events
      BY <1>3, <3>1, <3>4
    <3> QED BY <3>1, <3>2, <3>3, <3>4, EventsMove
  <2> QED BY <2>1, <2>2, AdminsStay DEF Admin, Exists
<1> QED BY <1>1, <1>2, <1>3 DEF ToldInv

(* However log-ins, suspensions, creations and mgp-admin interleave, each  *)
(* account event names an administrator's account as its actor and tells   *)
(* of an account that exists (server.go:447, 471, 496).                    *)
THEOREM AccountEventsAreAdmins == Spec => []ToldOfAdmins
<1>1. Init => ToldInv
  BY DEF Init, ToldInv, Idle
<1>2. ToldInv => ToldOfAdmins
  BY DEF ToldInv, ToldOfAdmins, Admin
<1> QED BY <1>1, <1>2, ToldNext, AccessInvariance, PTL DEF Spec
=============================================================================
