--------------------------- MODULE GatePassStore ----------------------------
(***************************************************************************)
(* The gate-pass register: internal/gatepass/store.go, the tables and the  *)
(* numbering function of db/migrations/001_foundation.sql, and the HTTP    *)
(* handlers of internal/http/server.go that drive them.                    *)
(*                                                                         *)
(* Every mutation is one PostgreSQL transaction.  A request that works on  *)
(* an existing pass takes the row lock with SELECT ... FOR UPDATE, reads   *)
(* the row, asks the policy, writes, and commits; a request that inserts a *)
(* pass holds the pass_sequences row of its scope from next_pass_number    *)
(* to the end of the transaction.  Requests interleave between any two of  *)
(* these statements; a statement may fail, the client may go away, and the *)
(* server may stop: in each case the transaction is rolled back and what   *)
(* it wrote was never visible.                                             *)
(*                                                                         *)
(* The writes of a transaction therefore appear at its commit, computed    *)
(* from the row it holds locked.                                           *)
(***************************************************************************)
EXTENDS Domain, FiniteSets

CONSTANTS
  PassIds,     \* the ids gen_random_uuid can yield (bounds the passes)
  Requests,    \* the HTTP requests the server handles at the same time
  Users,       \* the rows of the users table
  RoleOf,      \* their roles: no statement updates the role column
  Headers,     \* the values of (pass date, directorate, project, consignee)
  Scopes,      \* the values of (directorate, project, year)
  ScopeOf,     \* the scope of a header
  Prefixes,    \* the texts "directorate/project/year"
  PrefixOf,    \* the text of a scope, not always injective: "A/B"+"C"
  Drafts,      \* the drafts the forms submit (a finite choice of inputs)
  PadLimit,    \* the last number lpad(n, 4, '0') leaves whole (9999)
  Base,        \* what lpad divides by when it cuts the last digit (10)
  MaxEdits,    \* bound on the edits of one pass
  NoPass, Free \* no pass id; a lock nobody holds

ASSUME UsersAssumption ==
  /\ NoUser \notin Users
  /\ RoleOf \in [Users -> Roles]

ASSUME ScopesAssumption ==
  /\ ScopeOf \in [Headers -> Scopes]
  /\ PrefixOf \in [Scopes -> Prefixes]

ASSUME DraftsAssumption == Drafts # {} /\ Drafts \subseteq Draft(Headers)

ASSUME NumbersAssumption == PadLimit \in Nat /\ Base \in Nat \ {0}

ASSUME NamesAssumption == NoPass \notin PassIds /\ Free \notin Requests

VARIABLES
  gatePasses,  \* table gate_passes: the committed row of each id
  items,       \* table gate_pass_items: the committed lines of each pass
  trail,       \* table audit_events: the committed events of each pass
  seq,         \* table pass_sequences: current_number of each scope
  rowLock,     \* the request that holds the row of a pass
  seqLock,     \* the request that holds the counter of a scope
  req          \* the state of each request

tables == <<gatePasses, items, trail, seq>>
locks  == <<rowLock, seqLock>>
vars   == <<gatePasses, items, trail, seq, rowLock, seqLock, req>>

-----------------------------------------------------------------------------
(* Rows, labels and events.                                                *)

(* lpad pads short numbers and TRUNCATES long ones: lpad('10000',4,'0') is *)
(* '1000'.                                                                 *)
Lpad(n) == IF n <= PadLimit THEN n ELSE n \div Base

Label(scope, n) == <<PrefixOf[scope], Lpad(n)>>
NoLabel == << >>

NoRow == [status |-> "NONE", passType |-> "NON_RETURNABLE", expected |-> FALSE,
          header |-> CHOOSE h \in Headers : TRUE, passNo |-> NoLabel,
          revisionOf |-> NoPass, revisionNo |-> 0,
          createdBy |-> NoUser, approvedBy |-> NoUser,
          securityOfficer |-> NoUser, returnedBy |-> NoUser,
          controlNo |-> FALSE, rejected |-> FALSE, recordHash |-> << >>]

(* encode(digest(concat(pass_no, ..., consignee_name), 'sha256'), 'hex')   *)
Digest(row) == <<row.passNo, row.passType, row.header>>

(* The columns FOR UPDATE reads into Go variables.                         *)
Context(row) ==
  [status |-> row.status, passType |-> row.passType,
   createdBy |-> row.createdBy, approvedBy |-> row.approvedBy,
   securityOfficer |-> row.securityOfficer, returnedBy |-> row.returnedBy,
   revisionNo |-> row.revisionNo]

NotRead == Context(NoRow)

Used == {p \in PassIds : gatePasses[p].status # "NONE"}
Labels == {gatePasses[p].passNo : p \in Used}

(* The positions of the events of some actions in a trail.                 *)
Done(t, acts) == {i \in DOMAIN t : t[i].action \in acts}

Edits(p) == Cardinality(Done(trail[p], {"EDIT_DRAFT"}))

-----------------------------------------------------------------------------
(* Requests.                                                               *)

(* A request that is not being handled.                                    *)
Idle == [pc |-> "idle", user |-> NoUser, op |-> "SUBMIT", target |-> NoPass,
         fresh |-> NoPass, draft |-> CHOOSE d \in Drafts : TRUE,
         reason |-> FALSE, submitAfter |-> FALSE, seen |-> NotRead,
         number |-> 0]

Actor(u) == [id |-> u, role |-> RoleOf[u]]

InsertScope(r) == ScopeOf[req[r].draft.header]
PassNumber(r) == Label(InsertScope(r), req[r].number)

Claimed == {req[r].fresh : r \in Requests}

(* Another transaction has inserted the label and not ended yet: the       *)
(* unique index makes this insert wait for it.                             *)
HoldsLabelOf(s, r) ==
  /\ req[s].pc = "write"
  /\ req[s].fresh # NoPass
  /\ PassNumber(s) = PassNumber(r)

LabelPending(r) == \E s \in Requests \ {r} : HoldsLabelOf(s, r)

(* Mutant: the counter stays held.                                         *)
ReleaseRow(r) ==
  /\ rowLock' = [p \in PassIds |-> IF rowLock[p] = r THEN Free ELSE rowLock[p]]
  /\ UNCHANGED seqLock

(* ROLLBACK or COMMIT lets go of every lock of the request.                *)
ReleaseLocks(r) ==
  /\ rowLock' = [p \in PassIds |-> IF rowLock[p] = r THEN Free ELSE rowLock[p]]
  /\ seqLock' = [s \in Scopes |-> IF seqLock[s] = r THEN Free ELSE seqLock[s]]

Rollback(r) ==
  /\ ReleaseLocks(r)
  /\ req' = [req EXCEPT ![r] = Idle]
  /\ UNCHANGED tables

-----------------------------------------------------------------------------
(* The handlers, up to the first statement that can wait.  A form that     *)
(* cannot be read or that ValidateDraft refuses, a role that may not draft *)
(* and an unknown id end the request with nothing done, so they are guards *)
(* here.                                                                   *)

ReceiveCreate(r, u, d, submit) ==
  /\ req[r].pc = "idle"
  /\ DraftFromForm(d) /\ ValidateDraft(d)
  /\ MayCreate(Actor(u))
  /\ \E id \in PassIds \ (Used \cup Claimed) :
       req' = [req EXCEPT ![r] = [Idle EXCEPT !.pc = "number", !.user = u,
                 !.op = "CREATE_DRAFT", !.fresh = id, !.draft = d,
                 !.submitAfter = submit]]
  /\ UNCHANGED <<tables, locks>>

(* submit_after_save is not read on the revision path.                     *)
ReceiveRevision(r, u, d, p) ==
  /\ req[r].pc = "idle"
  /\ DraftFromForm(d) /\ ValidateDraft(d)
  /\ p \in Used
  /\ \E id \in PassIds \ (Used \cup Claimed) :
       req' = [req EXCEPT ![r] = [Idle EXCEPT !.pc = "lock", !.user = u,
                 !.op = "CREATE_REVISION", !.target = p, !.fresh = id,
                 !.draft = d]]
  /\ UNCHANGED <<tables, locks>>

ReceiveEdit(r, u, d, p) ==
  /\ req[r].pc = "idle"
  /\ DraftFromForm(d) /\ ValidateDraft(d)
  /\ p \in Used
  /\ Edits(p) < MaxEdits
  /\ req' = [req EXCEPT ![r] = [Idle EXCEPT !.pc = "lock", !.user = u,
                !.op = "EDIT_DRAFT", !.target = p, !.draft = d]]
  /\ UNCHANGED <<tables, locks>>

(* reason is the trimmed form field: TRUE when something is left of it.    *)
(* Only the rejection and the pass-out look at it.                         *)
ReceiveWorkflow(r, u, action, p, reason) ==
  /\ req[r].pc = "idle"
  /\ p \in Used
  /\ reason => action \in {"REJECT", "PASS_OUT"}
  /\ req' = [req EXCEPT ![r] = [Idle EXCEPT !.pc = "lock", !.user = u,
                !.op = action, !.target = p, !.reason = reason]]
  /\ UNCHANGED <<tables, locks>>

Receive(r) ==
  \E u \in Users :
    \/ \E d \in Drafts, submit \in BOOLEAN : ReceiveCreate(r, u, d, submit)
    \/ \E p \in Used, d \in Drafts :
         ReceiveRevision(r, u, d, p) \/ ReceiveEdit(r, u, d, p)
    \/ \E p \in Used, action \in Workflow, reason \in BOOLEAN :
         ReceiveWorkflow(r, u, action, p, reason)

-----------------------------------------------------------------------------
(* The transaction, statement by statement.                                *)

(* Mutant: a plain SELECT, without FOR UPDATE.                             *)
ReadRow(r) ==
  /\ req[r].pc = "lock"
  /\ req' = [req EXCEPT ![r].pc = "check",
                        ![r].seen = Context(gatePasses[req[r].target])]
  /\ UNCHANGED <<tables, locks>>

(* SELECT ... FOR UPDATE: waits for the lock, then reads the newest        *)
(* committed row.                                                          *)
LockRow(r) ==
  /\ req[r].pc = "lock"
  /\ rowLock[req[r].target] = Free
  /\ rowLock' = [rowLock EXCEPT ![req[r].target] = r]
  /\ req' = [req EXCEPT ![r].pc = "check",
                        ![r].seen = Context(gatePasses[req[r].target])]
  /\ UNCHANGED <<tables, seqLock>>

(* The policy on the row just read; only a rejection needs a reason.       *)
Accepted(r) ==
  /\ Allows(Actor(req[r].user), req[r].op, req[r].seen)
  /\ req[r].op = "REJECT" => req[r].reason

Permit(r) ==
  /\ req[r].pc = "check"
  /\ Accepted(r)
  /\ req' = [req EXCEPT ![r].pc =
               IF req[r].op = "CREATE_REVISION" THEN "number" ELSE "write"]
  /\ UNCHANGED <<tables, locks>>

Refuse(r) ==
  /\ req[r].pc = "check"
  /\ ~Accepted(r)
  /\ Rollback(r)

(* Mutant: a counter outside the transaction, like nextval.                *)
NextValue(r) ==
  /\ req[r].pc = "number"
  /\ seq' = [seq EXCEPT ![InsertScope(r)] = @ + 1]
  /\ req' = [req EXCEPT ![r].pc = "insert", ![r].number = seq'[InsertScope(r)]]
  /\ UNCHANGED <<gatePasses, items, trail, locks>>

(* SELECT next_pass_number(...): the upsert waits for the counter's row,   *)
(* and its increment is part of this transaction.                          *)
NextNumber(r) ==
  /\ req[r].pc = "number"
  /\ seqLock[InsertScope(r)] = Free
  /\ seqLock' = [seqLock EXCEPT ![InsertScope(r)] = r]
  /\ req' = [req EXCEPT ![r].pc = "insert",
                        ![r].number = seq[InsertScope(r)] + 1]
  /\ UNCHANGED <<tables, rowLock>>

(* Mutant: no UNIQUE constraint on pass_no.                                *)
InsertAnyLabel(r) ==
  /\ req[r].pc = "insert"
  /\ req' = [req EXCEPT ![r].pc = "write"]
  /\ UNCHANGED <<tables, locks>>

(* INSERT INTO gate_passes.                                                *)
Insert(r) ==
  /\ req[r].pc = "insert"
  /\ PassNumber(r) \notin Labels
  /\ ~LabelPending(r)
  /\ req' = [req EXCEPT ![r].pc = "write"]
  /\ UNCHANGED <<tables, locks>>

(* UNIQUE (pass_no) refuses the row, or CHECK (quantity > 0) an item.      *)
StatementFails(r) ==
  /\ \/ req[r].pc = "insert" /\ PassNumber(r) \in Labels
     \/ /\ req[r].pc = "write"
        /\ req[r].op \in Drafting
        /\ ~ItemsFit(req[r].draft)
  /\ Rollback(r)

-----------------------------------------------------------------------------
(* Commits.                                                                *)

Event(r, from, to) ==
  [action |-> req[r].op, from |-> from, to |-> to, actor |-> req[r].user]

(* Mutant: the return overwrites the officer who passed the material out.  *)
AppliedToOfficer(row, r) ==
  LET u == req[r].user
      next == [row EXCEPT !.status = NextStatus(req[r].op)]
  IN CASE req[r].op = "SUBMIT"   -> [next EXCEPT !.rejected = FALSE]
       [] req[r].op = "APPROVE"  -> [next EXCEPT !.approvedBy = u,
                                                 !.recordHash = Digest(row)]
       [] req[r].op = "REJECT"   -> [next EXCEPT !.rejected = req[r].reason]
       [] req[r].op \in {"PASS_OUT", "RETURN"} ->
            [next EXCEPT !.securityOfficer = u, !.controlNo = req[r].reason]

(* The SET list of transition: status and the columns of the action.       *)
Applied(row, r) ==
  LET u == req[r].user
      next == [row EXCEPT !.status = NextStatus(req[r].op)]
  IN CASE req[r].op = "SUBMIT"   -> [next EXCEPT !.rejected = FALSE]
       [] req[r].op = "APPROVE"  -> [next EXCEPT !.approvedBy = u,
                                                 !.recordHash = Digest(row)]
       [] req[r].op = "REJECT"   -> [next EXCEPT !.rejected = req[r].reason]
       [] req[r].op = "PASS_OUT" -> [next EXCEPT !.securityOfficer = u,
                                                 !.controlNo = req[r].reason]
       [] req[r].op = "RETURN"   -> [next EXCEPT !.returnedBy = u]

CommitTransition(r) ==
  /\ req[r].pc = "write"
  /\ req[r].op \in Workflow
  /\ LET p == req[r].target IN
       /\ gatePasses' = [gatePasses EXCEPT ![p] = Applied(@, r)]
       /\ trail' = [trail EXCEPT ![p] = Append(@,
                      Event(r, req[r].seen.status, NextStatus(req[r].op)))]
  /\ ReleaseLocks(r)
  /\ req' = [req EXCEPT ![r] = Idle]
  /\ UNCHANGED <<items, seq>>

(* UpdateDraft rewrites the header but never pass_no.                      *)
Rewritten(row, d) ==
  [row EXCEPT !.passType = d.passType, !.expected = d.expected,
              !.header = d.header]

(* Mutant: the DELETE of the old lines is missing.                         *)
AppendedItems(old, d) == old \o StoredItems(d)

(* DELETE every old line, then one INSERT per item of the draft.           *)
ReplacedItems(old, d) == StoredItems(d)

CommitEdit(r) ==
  /\ req[r].pc = "write"
  /\ req[r].op = "EDIT_DRAFT"
  /\ ItemsFit(req[r].draft)
  /\ LET p == req[r].target IN
       /\ gatePasses' = [gatePasses EXCEPT ![p] = Rewritten(@, req[r].draft)]
       /\ items' = [items EXCEPT ![p] = ReplacedItems(@, req[r].draft)]
       /\ trail' = [trail EXCEPT ![p] = Append(@,
                      Event(r, req[r].seen.status, req[r].seen.status))]
  /\ ReleaseLocks(r)
  /\ req' = [req EXCEPT ![r] = Idle]
  /\ UNCHANGED seq

(* The row CreateDraft or CreateRevision inserts.                          *)
Inserted(r) ==
  LET d == req[r].draft IN
  [NoRow EXCEPT !.status = "DRAFT", !.passType = d.passType,
                !.expected = d.expected, !.header = d.header,
                !.passNo = PassNumber(r), !.createdBy = req[r].user,
                !.revisionOf = req[r].target,
                !.revisionNo = IF req[r].op = "CREATE_REVISION"
                               THEN req[r].seen.revisionNo + 1 ELSE 0]

(* After "save and submit" the handler goes on with a second transaction   *)
(* on the pass it has just committed.                                      *)
AfterInsert(r) ==
  IF req[r].submitAfter
  THEN [Idle EXCEPT !.pc = "lock", !.user = req[r].user, !.op = "SUBMIT",
                    !.target = req[r].fresh]
  ELSE Idle

CommitInsert(r) ==
  /\ req[r].pc = "write"
  /\ req[r].op \in {"CREATE_DRAFT", "CREATE_REVISION"}
  /\ ItemsFit(req[r].draft)
  /\ LET id == req[r].fresh IN
       /\ gatePasses' = [gatePasses EXCEPT ![id] = Inserted(r)]
       /\ items' = [items EXCEPT ![id] = StoredItems(req[r].draft)]
       /\ trail' = [trail EXCEPT ![id] = << Event(r,
            IF req[r].op = "CREATE_REVISION" THEN "NOT_APPROVED" ELSE "NONE",
            "DRAFT") >>]
  /\ seq' = [seq EXCEPT ![InsertScope(r)] = req[r].number]
  /\ ReleaseLocks(r)
  /\ req' = [req EXCEPT ![r] = AfterInsert(r)]

-----------------------------------------------------------------------------
(* Failures: the client goes away or a statement errs (the context ends    *)
(* and database/sql rolls back); the server stops and PostgreSQL rolls     *)
(* back every open transaction.                                            *)

Cancel(r) == req[r].pc # "idle" /\ Rollback(r)

Crash ==
  /\ \E r \in Requests : req[r].pc # "idle"
  /\ req' = [r \in Requests |-> Idle]
  /\ rowLock' = [p \in PassIds |-> Free]
  /\ seqLock' = [s \in Scopes |-> Free]
  /\ UNCHANGED tables

-----------------------------------------------------------------------------
Init ==
  /\ gatePasses = [p \in PassIds |-> NoRow]
  /\ items = [p \in PassIds |-> << >>]
  /\ trail = [p \in PassIds |-> << >>]
  /\ seq = [s \in Scopes |-> 0]
  /\ rowLock = [p \in PassIds |-> Free]
  /\ seqLock = [s \in Scopes |-> Free]
  /\ req = [r \in Requests |-> Idle]

(* What the server does for a request without the outside world.           *)
Advance(r) ==
  \/ LockRow(r) \/ Permit(r) \/ Refuse(r)
  \/ NextNumber(r) \/ Insert(r) \/ StatementFails(r)
  \/ CommitTransition(r) \/ CommitEdit(r) \/ CommitInsert(r)

Next ==
  \/ \E r \in Requests : Receive(r) \/ Advance(r) \/ Cancel(r)
  \/ Crash

Spec == Init /\ [][Next]_vars

(* The handler runs on until it answers (weak fairness); a request waiting *)
(* for a lock is in PostgreSQL's queue for it, so it is served if the lock *)
(* becomes free again and again (strong fairness).                         *)
Fairness == \A r \in Requests : SF_vars(Advance(r))

FairSpec == Spec /\ Fairness

-----------------------------------------------------------------------------
(* Requirements.                                                           *)

LabelSet == {NoLabel} \cup (Prefixes \X Nat)

Row ==
  [status : Statuses \cup {"NONE"}, passType : PassTypes, expected : BOOLEAN,
   header : Headers, passNo : LabelSet, revisionOf : PassIds \cup {NoPass},
   revisionNo : Nat, createdBy : Users \cup {NoUser},
   approvedBy : Users \cup {NoUser}, securityOfficer : Users \cup {NoUser},
   returnedBy : Users \cup {NoUser}, controlNo : BOOLEAN, rejected : BOOLEAN,
   recordHash : {<< >>} \cup (LabelSet \X PassTypes \X Headers)]

PassContext ==
  [status : Statuses \cup {"NONE"}, passType : PassTypes,
   createdBy : Users \cup {NoUser}, approvedBy : Users \cup {NoUser},
   securityOfficer : Users \cup {NoUser}, returnedBy : Users \cup {NoUser},
   revisionNo : Nat]

Request ==
  [pc : {"idle", "lock", "check", "number", "insert", "write"},
   user : Users \cup {NoUser}, op : Actions, target : PassIds \cup {NoPass},
   fresh : PassIds \cup {NoPass}, draft : Drafts, reason : BOOLEAN,
   submitAfter : BOOLEAN, seen : PassContext, number : Nat]

AuditEvent ==
  [action : Actions, from : Statuses \cup {"NONE"}, to : Statuses, actor : Users]

(* The shape of the tables, the locks and the requests.                    *)
TypeOK ==
  /\ gatePasses \in [PassIds -> Row]
  /\ items \in [PassIds -> Seq(Int \cup {NaN})]
  /\ trail \in [PassIds -> Seq(AuditEvent)]
  /\ seq \in [Scopes -> Nat]
  /\ rowLock \in [PassIds -> Requests \cup {Free}]
  /\ seqLock \in [Scopes -> Requests \cup {Free}]
  /\ req \in [Requests -> Request]

(* A request past its FOR UPDATE works on the row as it is now, holds it   *)
(* alone, and once the policy has said yes the policy would still say yes  *)
(* of the current row: nothing a concurrent request does between the read  *)
(* and the write makes the decision stale (workflow.md:33).                *)
Holding(r) ==
  /\ req[r].pc \in {"check", "number", "insert", "write"}
  /\ req[r].op # "CREATE_DRAFT"

Permitted(r) == Holding(r) /\ req[r].pc # "check"

DecisionCurrent(r) ==
  /\ Holding(r) =>
       /\ rowLock[req[r].target] = r
       /\ req[r].seen = Context(gatePasses[req[r].target])
  /\ Permitted(r) =>
       Allows(Actor(req[r].user), req[r].op, gatePasses[req[r].target])

PolicyHoldsAtWrite == \A r \in Requests : DecisionCurrent(r)

(* What a request is about fits the step it is at: it has a user, the      *)
(* locked pass exists, the id of an insert is not taken, and no two        *)
(* requests insert the same id.  The induction for the properties below    *)
(* rests on it.                                                            *)
Inserting == {"CREATE_DRAFT", "CREATE_REVISION"}

WellFormed(q) ==
  IF q.pc = "idle" THEN q = Idle
  ELSE /\ q.user \in Users
       /\ IF q.op = "CREATE_DRAFT" THEN q.target = NoPass ELSE q.target \in Used
       /\ IF q.op \in Inserting THEN q.fresh \in PassIds \ Used
                               ELSE q.fresh = NoPass
       /\ q.op \in Drafting => ValidateDraft(q.draft)
       /\ q.pc \in {"lock", "check"} => q.op # "CREATE_DRAFT"
       /\ q.pc \in {"number", "insert"} => q.op \in Inserting
       /\ q.pc = "write" /\ q.op = "REJECT" => q.reason

RequestsWellFormed ==
  /\ \A r \in Requests : WellFormed(req[r])
  /\ \A r, s \in Requests :
       req[r].fresh = req[s].fresh => r = s \/ req[r].fresh = NoPass

Inv == TypeOK /\ RequestsWellFormed /\ PolicyHoldsAtWrite

(* The next stage of a pass after the draft needs another person: nobody   *)
(* decides on a pass they created, and an administrator who created,       *)
(* approved or passed out a pass does none of its later stages, whatever   *)
(* requests of theirs were in flight together (workflow.md:48).  Read off  *)
(* the audit trail, not off the columns the policy looks at.               *)
Separated(t) ==
  \A i, j \in DOMAIN t :
    /\ i < j
    /\ \/ /\ t[i].action \in Inserting
          /\ t[j].action \in {"APPROVE", "REJECT"}
       \/ /\ t[i].action \in Inserting \cup {"APPROVE", "PASS_OUT"}
          /\ t[j].action \in {"APPROVE", "REJECT", "PASS_OUT", "RETURN"}
          /\ RoleOf[t[j].actor] = "ADMIN"
    => t[i].actor # t[j].actor

SeparationOfDuty == \A p \in PassIds : Separated(trail[p])

(* The audit events of a pass, read in the order they were committed, are  *)
(* a path of statuses that ends in the status of the row.                  *)
PathTo(t, status) ==
  /\ status = IF t = << >> THEN "NONE" ELSE t[Len(t)].to
  /\ \A i \in 1..(Len(t) - 1) : t[i].to = t[i + 1].from

TrailIsPath == \A p \in PassIds : PathTo(trail[p], gatePasses[p].status)

(* The actors the row names are those of the audit events, and no stage    *)
(* was done twice: a repeated or concurrent request leaves one event.      *)
StampedBy(t, acts, user) ==
  IF Done(t, acts) = {} THEN user = NoUser
  ELSE \E i \in DOMAIN t : Done(t, acts) = {i} /\ t[i].actor = user

Named(t, row) ==
  /\ StampedBy(t, Inserting, row.createdBy)
  /\ StampedBy(t, {"APPROVE"}, row.approvedBy)
  /\ StampedBy(t, {"PASS_OUT"}, row.securityOfficer)
  /\ StampedBy(t, {"RETURN"}, row.returnedBy)

TrailNamesActors == \A p \in PassIds : Named(trail[p], gatePasses[p])

(* The record hash an approval wrote is still the hash of the row: no      *)
(* draft edit that was in flight lands on an approved pass, and a pass     *)
(* that was not approved carries no hash.                                  *)
Sealed(row) ==
  row.recordHash = IF row.status \in {"APPROVED", "PASSED_OUT", "RETURNED"}
                   THEN Digest(row) ELSE << >>

SealIntact == \A p \in PassIds : Sealed(gatePasses[p])

(* A pass at the end of its life.                                          *)
Settled(row) ==
  \/ row.status \in {"NOT_APPROVED", "RETURNED"}
  \/ row.status = "PASSED_OUT" /\ row.passType = "NON_RETURNABLE"

(* Once submitted, neither the header nor the lines of a pass change, and  *)
(* its number never does.  A pass that was rejected, returned or passed    *)
(* out for good is left alone, row, lines and trail, also by the requests  *)
(* in flight when it got there and by those that revise it.                *)
FormKept(p) ==
  /\ gatePasses'[p].passNo = gatePasses[p].passNo
  /\ gatePasses[p].status # "DRAFT" =>
       /\ gatePasses'[p].header = gatePasses[p].header
       /\ gatePasses'[p].passType = gatePasses[p].passType
       /\ items'[p] = items[p]
  /\ Settled(gatePasses[p]) =>
       gatePasses'[p] = gatePasses[p] /\ trail'[p] = trail[p]

FrozenAfterSubmit == [][\A p \in Used : FormKept(p)]_vars

(* Pass numbers are unique and gapless: the labels in the register are     *)
(* exactly those of the numbers 1..current_number of the scopes, one pass  *)
(* each, whatever transactions failed, were cancelled or crashed.          *)
NumbersGapless ==
  /\ Labels = UNION {{Label(s, n) : n \in 1..seq[s]} : s \in Scopes}
  /\ \A p, q \in Used : gatePasses[p].passNo = gatePasses[q].passNo => p = q

(* A revision points to a pass that was rejected for a stated reason, is   *)
(* numbered one above it, and what it revises stays rejected.              *)
RevisionLineage ==
  \A p \in Used :
    LET o == gatePasses[p].revisionOf IN
    IF o = NoPass THEN gatePasses[p].revisionNo = 0
    ELSE /\ o \in Used \ {p}
         /\ gatePasses[o].status = "NOT_APPROVED"
         /\ gatePasses[o].rejected
         /\ gatePasses[p].revisionNo = gatePasses[o].revisionNo + 1

(* What is stored of a pass is one form, whole: header and lines come from *)
(* the same accepted draft, even after edits that raced or failed midway,  *)
(* and every stored line satisfies the table's CHECK.                      *)
SavedWhole ==
  \A p \in Used :
    \E d \in Drafts :
      /\ ValidateDraft(d)
      /\ gatePasses[p] = Rewritten(gatePasses[p], d)
      /\ items[p] = StoredItems(d)
      /\ ItemsFit(d)

(* The register implements the state machine of domain.go.                 *)
Book ==
  [p \in PassIds |->
     [status |-> gatePasses[p].status, passType |-> gatePasses[p].passType,
      createdBy |-> gatePasses[p].createdBy,
      approvedBy |-> gatePasses[p].approvedBy]]

Abstract == INSTANCE Lifecycle WITH book <- Book

ImplementsLifecycle == Abstract!Spec

(* Requests wait for each other along the stages of a transaction only:    *)
(* whoever has what another waits for, a row, a counter or a label, is     *)
(* further on than the one that waits.  So no circle of requests waits,    *)
(* and no lock is left with a request that has ended.                      *)
Stage(r) ==
  CASE req[r].pc = "idle"   -> 0
    [] req[r].pc = "lock"   -> 1
    [] req[r].pc = "check"  -> 2
    [] req[r].pc = "number" -> 3
    [] req[r].pc = "insert" -> 4
    [] req[r].pc = "write"  -> 5

WaitsFor(r, s) ==
  \/ req[r].pc = "lock" /\ rowLock[req[r].target] = s
  \/ req[r].pc = "number" /\ seqLock[InsertScope(r)] = s
  \/ req[r].pc = "insert" /\ s # r /\ HoldsLabelOf(s, r)

WaitsOnward == \A r, s \in Requests : WaitsFor(r, s) => Stage(r) < Stage(s)

(* Every request ends: locks are taken in an order that cannot deadlock    *)
(* and every path through a handler gives them back.                       *)
RequestsEnd ==
  \A r \in Requests : req[r].pc # "idle" ~> req[r].pc = "idle"

(* What the documents say and the code does not do.                        *)

(* "The database allocates a unique pass number atomically by directorate, *)
(* project, and year." (PRD.md:39): the number just allocated is not the   *)
(* number of another pass.                                                 *)
AllocatedNumberIsNew ==
  \A r \in Requests : req[r].pc = "insert" => PassNumber(r) \notin Labels
=============================================================================
