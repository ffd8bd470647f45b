------------------------- MODULE GatePassStoreProofs ------------------------
(***************************************************************************)
(* Theorems of GatePassStore, for every set of users, passes, requests,    *)
(* scopes and drafts.                                                      *)
(***************************************************************************)
EXTENDS GatePassStore, TLAPS, SequenceTheorems

-----------------------------------------------------------------------------
(* Typing.                                                                 *)

USE DEF Roles, Statuses, PassTypes, Workflow, Drafting, Actions

LEMMA HeaderChosen == (CHOOSE h \in Headers : TRUE) \in Headers
BY DraftsAssumption DEF Draft

LEMMA NoRowType == NoRow \in Row
BY HeaderChosen DEF NoRow, Row, NoLabel, LabelSet

LEMMA ContextType == ASSUME NEW row \in Row PROVE Context(row) \in PassContext
BY DEF Context, PassContext, Row

LEMMA IdleType == Idle \in Request
<1>1. (CHOOSE d \in Drafts : TRUE) \in Drafts
  BY DraftsAssumption
<1>2. NotRead \in PassContext
  BY NoRowType, ContextType DEF NotRead
<1> QED
  BY <1>1, <1>2 DEF Idle, Request

LEMMA LabelType ==
  ASSUME NEW s \in Scopes, NEW n \in Nat PROVE Label(s, n) \in LabelSet \ {NoLabel}
<1>1. Lpad(n) \in Nat
  BY NumbersAssumption DEF Lpad
<1> QED
  BY <1>1, ScopesAssumption DEF Label, LabelSet, NoLabel

LEMMA DraftType ==
  ASSUME NEW d \in Drafts
  PROVE  /\ d.header \in Headers
         /\ d.expected \in BOOLEAN
         /\ ValidateDraft(d) => d.passType \in PassTypes
         /\ StoredItems(d) \in Seq(Int \cup {NaN})
<1>1. d \in Draft(Headers)
  BY DraftsAssumption
<1>2. StoredItems(d) \in Seq(Int \cup {NaN})
  <2>1. d.items \in Seq(Item)
    BY <1>1 DEF Draft
  <2>2. \A i \in DOMAIN d.items : Stored(d.items[i].quantity) \in Int \cup {NaN}
    <3> SUFFICES ASSUME NEW i \in DOMAIN d.items
                 PROVE  Stored(d.items[i].quantity) \in Int \cup {NaN}
      OBVIOUS
    <3>1. d.items[i] \in Item
      BY <2>1
    <3>2. d.items[i].quantity \in Int \cup {NaN}
      BY <3>1 DEF Item
    <3> QED
      BY <3>2 DEF Stored
  <2>3. DOMAIN d.items = 1..Len(d.items) /\ Len(d.items) \in Nat
    BY <2>1
  <2>4. StoredItems(d) = [i \in 1..Len(d.items) |-> Stored(d.items[i].quantity)]
    BY <2>3 DEF StoredItems
  <2> QED
    BY <2>2, <2>3, <2>4, IsASeq
<1> QED
  BY <1>1, <1>2 DEF Draft, ValidateDraft

(* Every action of the workflow has a next status.                         *)
LEMMA NextStatusType ==
  ASSUME NEW action \in Workflow PROVE NextStatus(action) \in Statuses \ {"DRAFT"}
BY DEF NextStatus

(* The columns a transition sets keep a row a row.                         *)
LEMMA ColumnsSet ==
  ASSUME NEW row \in Row, NEW s \in Statuses, NEW u \in Users \cup {NoUser},
         NEW b \in BOOLEAN, NEW h \in LabelSet \X PassTypes \X Headers
  PROVE  /\ [row EXCEPT !.status = s, !.rejected = b] \in Row
         /\ [row EXCEPT !.status = s, !.approvedBy = u, !.recordHash = h] \in Row
         /\ [row EXCEPT !.status = s, !.securityOfficer = u, !.controlNo = b] \in Row
         /\ [row EXCEPT !.status = s, !.returnedBy = u] \in Row
<1> HIDE DEF Statuses, PassTypes
<1>1. [row EXCEPT !.status = s, !.rejected = b] \in Row
  BY DEF Row
<1>2. [row EXCEPT !.status = s, !.approvedBy = u, !.recordHash = h] \in Row
  BY DEF Row
<1>3. [row EXCEPT !.status = s, !.securityOfficer = u, !.controlNo = b] \in Row
  BY DEF Row
<1>4. [row EXCEPT !.status = s, !.returnedBy = u] \in Row
  BY DEF Row
<1> QED
  BY <1>1, <1>2, <1>3, <1>4

LEMMA AppliedType ==
  ASSUME NEW r \in Requests, req[r] \in Request, req[r].op \in Workflow,
         NEW row \in Row
  PROVE  /\ Applied(row, r) \in Row
         /\ Applied(row, r).status = NextStatus(req[r].op)
<1> DEFINE s == NextStatus(req[r].op)
           u == req[r].user
           b == req[r].reason
           h == Digest(row)
<1>1. s \in Statuses
  BY NextStatusType
<1>2. h \in LabelSet \X PassTypes \X Headers
  BY DEF Digest, Row
<1>3. u \in Users \cup {NoUser} /\ b \in BOOLEAN
  BY DEF Request
<1>4. Applied(row, r) \in
        {[row EXCEPT !.status = s, !.rejected = FALSE],
         [row EXCEPT !.status = s, !.rejected = b],
         [row EXCEPT !.status = s, !.approvedBy = u, !.recordHash = h],
         [row EXCEPT !.status = s, !.securityOfficer = u, !.controlNo = b],
         [row EXCEPT !.status = s, !.returnedBy = u]}
  BY DEF Applied
<1> HIDE DEF s, u, b, h
<1>5. Applied(row, r) \in Row
  <2>1. [row EXCEPT !.status = s, !.rejected = FALSE] \in Row
    BY <1>1, <1>2, <1>3, ColumnsSet
  <2>2. /\ [row EXCEPT !.status = s, !.rejected = b] \in Row
        /\ [row EXCEPT !.status = s, !.approvedBy = u, !.recordHash = h] \in Row
        /\ [row EXCEPT !.status = s, !.securityOfficer = u, !.controlNo = b] \in Row
        /\ [row EXCEPT !.status = s, !.returnedBy = u] \in Row
    BY <1>1, <1>2, <1>3, ColumnsSet, ZenonT(60)
  <2> QED
    BY <1>4, <2>1, <2>2, Zenon
<1>6. Applied(row, r).status = s
  BY <1>4 DEF Row
<1> QED
  BY <1>5, <1>6 DEF s

LEMMA RewrittenType ==
  ASSUME NEW d \in Drafts, ValidateDraft(d), NEW row \in Row
  PROVE  /\ Rewritten(row, d) \in Row
         /\ Context(Rewritten(row, d)) = [Context(row) EXCEPT !.passType = d.passType]
         /\ Rewritten(row, d).status = row.status
<1>1. /\ d.passType \in PassTypes
      /\ d.expected \in BOOLEAN
      /\ d.header \in Headers
  BY DraftType
<1>2. Rewritten(row, d) \in Row
  BY <1>1 DEF Rewritten, Row
<1>3. Context(Rewritten(row, d)) = [Context(row) EXCEPT !.passType = d.passType]
  BY <1>1 DEF Rewritten, Row, Context
<1>4. Rewritten(row, d).status = row.status
  BY DEF Rewritten, Row
<1> QED
  BY <1>2, <1>3, <1>4

LEMMA InsertedType ==
  ASSUME NEW r \in Requests, req[r] \in Request, ValidateDraft(req[r].draft)
  PROVE  /\ Inserted(r) \in Row
         /\ Inserted(r).status = "DRAFT"
<1>1. InsertScope(r) \in Scopes /\ req[r].number \in Nat /\ req[r].draft \in Drafts
  BY DraftType, ScopesAssumption DEF InsertScope, Request
<1>2. PassNumber(r) \in LabelSet
  BY <1>1, LabelType DEF PassNumber
<1>3. /\ req[r].draft.passType \in PassTypes
      /\ req[r].draft.expected \in BOOLEAN
      /\ req[r].draft.header \in Headers
  BY <1>1, DraftType
<1>4. /\ req[r].user \in Users \cup {NoUser}
      /\ req[r].target \in PassIds \cup {NoPass}
      /\ req[r].seen.revisionNo \in Nat
  BY DEF Request, PassContext
<1> QED
  <2> DEFINE number == IF req[r].op = "CREATE_REVISION"
                        THEN req[r].seen.revisionNo + 1 ELSE 0
  <2>1. number \in Nat
    BY <1>4
  <2> DEFINE part == [NoRow EXCEPT !.status = "DRAFT",
                        !.passType = req[r].draft.passType,
                        !.expected = req[r].draft.expected,
                        !.header = req[r].draft.header,
                        !.passNo = PassNumber(r)]
  <2>2. Inserted(r) = [part EXCEPT !.createdBy = req[r].user,
                         !.revisionOf = req[r].target, !.revisionNo = number]
    BY DEF Inserted
  <2> HIDE DEF number
  <2>3. NoRow \in Row
    BY NoRowType
  <2>4. part \in Row /\ part.status = "DRAFT"
    BY <1>2, <1>3, <2>3 DEF Row
  <2> HIDE DEF part
  <2>5. [part EXCEPT !.createdBy = req[r].user] \in Row
    BY <1>4, <2>4 DEF Row
  <2>6. ASSUME NEW row \in Row
        PROVE  [row EXCEPT !.revisionOf = req[r].target, !.revisionNo = number] \in Row
    BY <1>4, <2>1 DEF Row
  <2>7. Inserted(r) \in Row
    BY <2>2, <2>5, <2>6
  <2>8. Inserted(r).status = "DRAFT"
    BY DEF Inserted, NoRow
  <2> QED BY <2>7, <2>8

-----------------------------------------------------------------------------
(* What a step of request r leaves alone of the other requests.            *)

LEMMA OthersKeepDecision ==
  ASSUME Inv, NEW r \in Requests,
         \A s \in Requests \ {r} : req'[s] = req[s],
         \A p \in PassIds, s \in Requests \ {r} :
           rowLock[p] = s => rowLock'[p] = s,
         \A p \in Used : rowLock[p] # r => gatePasses'[p] = gatePasses[p]
  PROVE  \A s \in Requests \ {r} : DecisionCurrent(s)'
<1> SUFFICES ASSUME NEW s \in Requests \ {r}, Holding(s)'
             PROVE  DecisionCurrent(s)'
  BY DEF DecisionCurrent, Permitted
<1>1. req'[s] = req[s] /\ Holding(s)
  BY DEF Holding
<1>2. req[s].target \in Used
  BY <1>1 DEF Inv, RequestsWellFormed, WellFormed, Holding
<1>3. DecisionCurrent(s) /\ rowLock[req[s].target] = s
  BY <1>1 DEF Inv, PolicyHoldsAtWrite, DecisionCurrent
<1>4. /\ rowLock'[req[s].target] = s
      /\ gatePasses'[req[s].target] = gatePasses[req[s].target]
  BY <1>2, <1>3 DEF Used
<1> QED
  BY <1>1, <1>3, <1>4 DEF DecisionCurrent, Permitted, Holding

LEMMA OthersKeepForm ==
  ASSUME Inv, NEW r \in Requests,
         \A s \in Requests \ {r} : req'[s] = req[s],
         Used \subseteq Used', Used' \subseteq Used \cup {req[r].fresh}
  PROVE  \A s \in Requests \ {r} : WellFormed(req[s])'
<1> SUFFICES ASSUME NEW s \in Requests \ {r} PROVE WellFormed(req[s])'
  OBVIOUS
<1>1. req'[s] = req[s] /\ WellFormed(req[s])
  BY DEF Inv, RequestsWellFormed
<1>2. req[s].fresh \in PassIds => req[s].fresh # req[r].fresh
  BY NamesAssumption DEF Inv, RequestsWellFormed
<1> QED
  BY <1>1, <1>2 DEF WellFormed

(* A step that writes no table: only request r and the locks change.       *)
LEMMA RequestMoves ==
  ASSUME Inv, NEW r \in Requests, NEW q \in Request,
         UNCHANGED tables,
         req' = [req EXCEPT ![r] = q],
         rowLock' \in [PassIds -> Requests \cup {Free}],
         seqLock' \in [Scopes -> Requests \cup {Free}],
         \A p \in PassIds, s \in Requests \ {r} :
           rowLock[p] = s => rowLock'[p] = s,
         WellFormed(q),
         q.fresh \in {NoPass, req[r].fresh} \cup (PassIds \ Claimed),
         DecisionCurrent(r)'
  PROVE  Inv'
<1>1. TypeOK'
  BY DEF Inv, TypeOK, tables
<1>2. \A s \in Requests \ {r} : req'[s] = req[s]
  BY DEF Inv, TypeOK
<1>3. req'[r] = q
  BY DEF Inv, TypeOK
<1>4. Used' = Used
  BY DEF Used, tables
<1>5. \A s \in Requests \ {r} : DecisionCurrent(s)'
  <2>1. \A p \in Used : rowLock[p] # r => gatePasses'[p] = gatePasses[p]
    BY DEF tables
  <2> QED
    BY <1>2, <2>1, OthersKeepDecision
<1>6. \A s \in Requests \ {r} : WellFormed(req[s])'
  BY <1>2, <1>4, OthersKeepForm
<1>7. WellFormed(req[r])'
  BY <1>3, <1>4 DEF WellFormed
<1>8. ASSUME NEW s \in Requests, NEW t \in Requests,
             req'[s].fresh = req'[t].fresh
      PROVE  s = t \/ req'[s].fresh = NoPass
  BY <1>2, <1>3, <1>8 DEF Inv, RequestsWellFormed, Claimed
<1> QED
  BY <1>1, <1>5, <1>6, <1>7, <1>8 DEF Inv, RequestsWellFormed, PolicyHoldsAtWrite

-----------------------------------------------------------------------------
(* The steps, one lemma each.                                              *)

LEMMA ReceiveInv ==
  ASSUME Inv, NEW r \in Requests, Receive(r) PROVE Inv'
<1>0. PICK u \in Users :
        \/ \E d \in Drafts, submit \in BOOLEAN : ReceiveCreate(r, u, d, submit)
        \/ \E p \in Used, d \in Drafts :
             ReceiveRevision(r, u, d, p) \/ ReceiveEdit(r, u, d, p)
        \/ \E p \in Used, action \in Workflow, reason \in BOOLEAN :
             ReceiveWorkflow(r, u, action, p, reason)
  BY DEF Receive
<1>1. /\ rowLock' = rowLock /\ seqLock' = seqLock /\ UNCHANGED tables
      /\ rowLock' \in [PassIds -> Requests \cup {Free}]
      /\ seqLock' \in [Scopes -> Requests \cup {Free}]
  BY <1>0 DEF ReceiveCreate, ReceiveRevision, ReceiveEdit, ReceiveWorkflow,
              locks, Inv, TypeOK
<1>2. ASSUME NEW q \in Request, req' = [req EXCEPT ![r] = q],
             WellFormed(q), q.pc = "lock" \/ q.op = "CREATE_DRAFT",
             q.fresh \in {NoPass} \cup (PassIds \ Claimed)
      PROVE  Inv'
  <2>1. req'[r] = q
    BY <1>2 DEF Inv, TypeOK
  <2>2. DecisionCurrent(r)'
    BY <2>1, <1>2 DEF DecisionCurrent, Permitted, Holding
  <2> QED
    BY <1>1, <1>2, <2>2, RequestMoves
<1>3. ASSUME NEW d \in Drafts, NEW submit \in BOOLEAN,
             ReceiveCreate(r, u, d, submit)
      PROVE  Inv'
  <2>1. PICK id \in PassIds \ (Used \cup Claimed) :
          req' = [req EXCEPT ![r] = [Idle EXCEPT !.pc = "number", !.user = u,
                    !.op = "CREATE_DRAFT", !.fresh = id, !.draft = d,
                    !.submitAfter = submit]]
    BY <1>3 DEF ReceiveCreate
  <2> DEFINE q == [Idle EXCEPT !.pc = "number", !.user = u,
                     !.op = "CREATE_DRAFT", !.fresh = id, !.draft = d,
                     !.submitAfter = submit]
  <2>2. q \in Request
    BY IdleType DEF Request
  <2>3. WellFormed(q) /\ q.op = "CREATE_DRAFT" /\ q.fresh \in PassIds \ Claimed
    BY <1>3 DEF WellFormed, Idle, ReceiveCreate, Inserting
  <2> QED
    BY <1>2, <2>1, <2>2, <2>3
<1>4. ASSUME NEW p \in Used, NEW d \in Drafts, ReceiveRevision(r, u, d, p)
      PROVE  Inv'
  <2>1. PICK id \in PassIds \ (Used \cup Claimed) :
          req' = [req EXCEPT ![r] = [Idle EXCEPT !.pc = "lock", !.user = u,
                    !.op = "CREATE_REVISION", !.target = p, !.fresh = id,
                    !.draft = d]]
    BY <1>4 DEF ReceiveRevision
  <2> DEFINE q == [Idle EXCEPT !.pc = "lock", !.user = u,
                     !.op = "CREATE_REVISION", !.target = p, !.fresh = id,
                     !.draft = d]
  <2>2. q \in Request
    BY IdleType DEF Request, Used
  <2>3. WellFormed(q) /\ q.pc = "lock" /\ q.fresh \in PassIds \ Claimed
    BY <1>4 DEF WellFormed, Idle, ReceiveRevision, Inserting
  <2> QED
    BY <1>2, <2>1, <2>2, <2>3
<1>5. ASSUME NEW p \in Used, NEW d \in Drafts, ReceiveEdit(r, u, d, p)
      PROVE  Inv'
  <2> DEFINE q == [Idle EXCEPT !.pc = "lock", !.user = u,
                     !.op = "EDIT_DRAFT", !.target = p, !.draft = d]
  <2>1. req' = [req EXCEPT ![r] = q]
    BY <1>5 DEF ReceiveEdit
  <2>2. q \in Request
    BY IdleType DEF Request, Used
  <2>3. WellFormed(q) /\ q.pc = "lock" /\ q.fresh = NoPass
    BY <1>5 DEF WellFormed, Idle, ReceiveEdit, Inserting
  <2> QED
    BY <1>2, <2>1, <2>2, <2>3
<1>6. ASSUME NEW p \in Used, NEW action \in Workflow, NEW reason \in BOOLEAN,
             ReceiveWorkflow(r, u, action, p, reason)
      PROVE  Inv'
  <2> DEFINE q == [Idle EXCEPT !.pc = "lock", !.user = u,
                     !.op = action, !.target = p, !.reason = reason]
  <2>1. req' = [req EXCEPT ![r] = q]
    BY <1>6 DEF ReceiveWorkflow
  <2>2. q \in Request
    BY IdleType DEF Request, Used
  <2>3. WellFormed(q) /\ q.pc = "lock" /\ q.fresh = NoPass
    BY <1>6 DEF WellFormed, Idle, Inserting
  <2> QED
    BY <1>2, <2>1, <2>2, <2>3
<1> QED
  BY <1>0, <1>3, <1>4, <1>5, <1>6

LEMMA LockRowInv ==
  ASSUME Inv, NEW r \in Requests, LockRow(r) PROVE Inv'
<1> DEFINE p == req[r].target
           q == [req[r] EXCEPT !.pc = "check", !.seen = Context(gatePasses[p])]
<1>1. p \in Used /\ p \in PassIds /\ req[r] \in Request
  BY DEF Inv, RequestsWellFormed, WellFormed, LockRow, TypeOK, Used
<1>2. q \in Request
  BY <1>1, ContextType DEF Request, Inv, TypeOK
<1>3. req' = [req EXCEPT ![r] = q]
  BY DEF LockRow
<1>4. WellFormed(q)
  BY <1>1 DEF Inv, RequestsWellFormed, WellFormed, LockRow, Request
<1>5. req'[r] = q /\ rowLock'[p] = r
  BY <1>1, <1>3 DEF Inv, TypeOK, LockRow
<1>6. DecisionCurrent(r)'
  <2>1. /\ q.pc = "check" /\ q.target = p /\ q.seen = Context(gatePasses[p])
    BY <1>1 DEF Request
  <2>2. gatePasses' = gatePasses
    BY DEF LockRow, tables
  <2> QED
    BY <1>5, <2>1, <2>2 DEF DecisionCurrent, Permitted, Holding, Context
<1>7. /\ UNCHANGED tables
      /\ rowLock' \in [PassIds -> Requests \cup {Free}]
      /\ seqLock' \in [Scopes -> Requests \cup {Free}]
      /\ \A i \in PassIds, s \in Requests \ {r} :
           rowLock[i] = s => rowLock'[i] = s
  BY <1>1, NamesAssumption DEF LockRow, Inv, TypeOK
<1>8. q.fresh = req[r].fresh
  BY <1>1 DEF Request
<1> QED
  BY <1>2, <1>3, <1>4, <1>6, <1>7, <1>8, RequestMoves

(* The policy looks at nothing but the columns FOR UPDATE reads.           *)
LEMMA ContextSuffices ==
  ASSUME NEW actor, NEW op, NEW row, Allows(actor, op, Context(row))
  PROVE  Allows(actor, op, row)
BY DEF Context, Allows, MayCreate, MayDraft, MayDecide, MayPassOut, MayReturn,
       MayRevise, Owns, Independent, HasOperationalStage

LEMMA PermitInv ==
  ASSUME Inv, NEW r \in Requests, Permit(r) PROVE Inv'
<1> DEFINE next == IF req[r].op = "CREATE_REVISION" THEN "number" ELSE "write"
           q == [req[r] EXCEPT !.pc = next]
<1>1. req[r] \in Request /\ req[r].pc = "check" /\ Accepted(r)
  BY DEF Inv, TypeOK, Permit
<1>2. q \in Request
  BY <1>1 DEF Request
<1>3. req' = [req EXCEPT ![r] = q]
  BY DEF Permit
<1>4. WellFormed(req[r]) /\ req[r].op # "CREATE_DRAFT"
  BY <1>1 DEF Inv, RequestsWellFormed, WellFormed
<1>5. WellFormed(q)
  BY <1>1, <1>4 DEF WellFormed, Accepted, Request, Inserting
<1>6. DecisionCurrent(r) /\ Holding(r)
  BY <1>1, <1>4 DEF Inv, PolicyHoldsAtWrite, Holding
<1>7. DecisionCurrent(r)'
  <2>1. Allows(Actor(req[r].user), req[r].op, gatePasses[req[r].target])
    <3>1. /\ Allows(Actor(req[r].user), req[r].op, req[r].seen)
          /\ req[r].seen = Context(gatePasses[req[r].target])
      BY <1>1, <1>6 DEF DecisionCurrent, Accepted
    <3>2. QED BY <3>1, ContextSuffices
  <2>2. req'[r] = q /\ q.user = req[r].user /\ q.op = req[r].op
        /\ q.target = req[r].target /\ q.seen = req[r].seen
    BY <1>1, <1>3 DEF Inv, TypeOK, Request
  <2>3. gatePasses' = gatePasses /\ rowLock' = rowLock
    BY DEF Permit, tables, locks
  <2> QED
    BY <1>6, <2>1, <2>2, <2>3 DEF DecisionCurrent
<1>8. /\ UNCHANGED tables
      /\ rowLock' \in [PassIds -> Requests \cup {Free}]
      /\ seqLock' \in [Scopes -> Requests \cup {Free}]
      /\ \A i \in PassIds, s \in Requests \ {r} :
           rowLock[i] = s => rowLock'[i] = s
  BY DEF Permit, locks, Inv, TypeOK
<1>9. q.fresh = req[r].fresh
  BY <1>1 DEF Request
<1> QED
  BY <1>2, <1>3, <1>5, <1>7, <1>8, <1>9, RequestMoves

LEMMA NextNumberInv ==
  ASSUME Inv, NEW r \in Requests, NextNumber(r) PROVE Inv'
<1> DEFINE n == seq[InsertScope(r)] + 1
           q == [req[r] EXCEPT !.pc = "insert", !.number = n]
<1>1. req[r] \in Request /\ req[r].pc = "number" /\ WellFormed(req[r])
  BY DEF Inv, TypeOK, NextNumber, RequestsWellFormed
<1>2. InsertScope(r) \in Scopes
  BY <1>1, DraftType, ScopesAssumption DEF InsertScope, Request
<1>3. q \in Request
  <2>1. n \in Nat
    BY <1>2 DEF Inv, TypeOK
  <2> HIDE DEF n
  <2> QED
    BY <1>1, <2>1 DEF Request
<1>4. req' = [req EXCEPT ![r] = q]
  BY DEF NextNumber
<1>5. WellFormed(q)
  BY <1>1 DEF WellFormed, Request
<1>6. DecisionCurrent(r)'
  <2>1. /\ req'[r] = q /\ q.user = req[r].user /\ q.op = req[r].op
        /\ q.target = req[r].target /\ q.seen = req[r].seen /\ q.pc = "insert"
    BY <1>1, <1>4 DEF Inv, TypeOK, Request
  <2>2. gatePasses' = gatePasses /\ rowLock' = rowLock
    BY DEF NextNumber, tables
  <2>3. DecisionCurrent(r)
    BY DEF Inv, PolicyHoldsAtWrite
  <2> QED
    BY <1>1, <2>1, <2>2, <2>3 DEF DecisionCurrent, Permitted, Holding
<1>7. /\ UNCHANGED tables
      /\ rowLock' \in [PassIds -> Requests \cup {Free}]
      /\ seqLock' \in [Scopes -> Requests \cup {Free}]
      /\ \A i \in PassIds, s \in Requests \ {r} :
           rowLock[i] = s => rowLock'[i] = s
  BY DEF NextNumber, Inv, TypeOK
<1>8. q.fresh = req[r].fresh
  BY <1>1 DEF Request
<1> QED
  BY <1>3, <1>4, <1>5, <1>6, <1>7, <1>8, RequestMoves

LEMMA InsertInv ==
  ASSUME Inv, NEW r \in Requests, Insert(r) PROVE Inv'
<1> DEFINE q == [req[r] EXCEPT !.pc = "write"]
<1>1. req[r] \in Request /\ req[r].pc = "insert" /\ WellFormed(req[r])
  BY DEF Inv, TypeOK, Insert, RequestsWellFormed
<1>2. q \in Request
  BY <1>1 DEF Request
<1>3. req' = [req EXCEPT ![r] = q]
  BY DEF Insert
<1>4. WellFormed(q)
  BY <1>1 DEF WellFormed, Request, Inserting
<1>5. DecisionCurrent(r)'
  <2>1. /\ req'[r] = q /\ q.user = req[r].user /\ q.op = req[r].op
        /\ q.target = req[r].target /\ q.seen = req[r].seen /\ q.pc = "write"
    BY <1>1, <1>3 DEF Inv, TypeOK, Request
  <2>2. gatePasses' = gatePasses /\ rowLock' = rowLock
    BY DEF Insert, tables, locks
  <2>3. DecisionCurrent(r)
    BY DEF Inv, PolicyHoldsAtWrite
  <2> QED
    BY <1>1, <2>1, <2>2, <2>3 DEF DecisionCurrent, Permitted, Holding
<1>6. /\ UNCHANGED tables
      /\ rowLock' \in [PassIds -> Requests \cup {Free}]
      /\ seqLock' \in [Scopes -> Requests \cup {Free}]
      /\ \A i \in PassIds, s \in Requests \ {r} :
           rowLock[i] = s => rowLock'[i] = s
  BY DEF Insert, locks, Inv, TypeOK
<1>7. q.fresh = req[r].fresh
  BY <1>1 DEF Request
<1> QED
  BY <1>2, <1>3, <1>4, <1>5, <1>6, <1>7, RequestMoves

LEMMA LocksReleased ==
  ASSUME Inv, NEW r \in Requests, ReleaseLocks(r)
  PROVE  /\ rowLock' \in [PassIds -> Requests \cup {Free}]
         /\ seqLock' \in [Scopes -> Requests \cup {Free}]
         /\ \A p \in PassIds, s \in Requests \ {r} :
              rowLock[p] = s => rowLock'[p] = s
BY DEF ReleaseLocks, Inv, TypeOK

LEMMA IdleWellFormed == WellFormed(Idle) /\ Idle.pc = "idle" /\ Idle.fresh = NoPass
BY DEF WellFormed, Idle

LEMMA RollbackInv ==
  ASSUME Inv, NEW r \in Requests, Rollback(r) PROVE Inv'
<1>1. req'[r] = Idle
  BY DEF Rollback, Inv, TypeOK
<1>2. DecisionCurrent(r)'
  BY <1>1, IdleWellFormed DEF DecisionCurrent, Permitted, Holding
<1> QED
  BY <1>2, IdleType, IdleWellFormed, LocksReleased, RequestMoves DEF Rollback

LEMMA CrashInv ==
  ASSUME Inv, Crash PROVE Inv'
<1>1. TypeOK'
  BY IdleType DEF Crash, Inv, TypeOK, tables
<1>2. RequestsWellFormed'
  <2>1. \A r \in Requests : req'[r] = Idle
    BY DEF Crash
  <2>2. ASSUME NEW r \in Requests PROVE WellFormed(req[r])'
    BY <2>1, IdleWellFormed DEF WellFormed
  <2> QED
    BY <2>1, <2>2, IdleWellFormed DEF RequestsWellFormed
<1>3. PolicyHoldsAtWrite'
  BY IdleWellFormed
  DEF Crash, PolicyHoldsAtWrite, DecisionCurrent, Permitted, Holding
<1> QED
  BY <1>1, <1>2, <1>3 DEF Inv

(* A commit of request r writes rows r holds, or the row it inserts, lets  *)
(* go of the locks, and leaves r idle or about to lock a pass.             *)
LEMMA CommitMoves ==
  ASSUME Inv, NEW r \in Requests, NEW q \in Request,
         req' = [req EXCEPT ![r] = q],
         ReleaseLocks(r),
         gatePasses' \in [PassIds -> Row],
         items' \in [PassIds -> Seq(Int \cup {NaN})],
         trail' \in [PassIds -> Seq(AuditEvent)],
         seq' \in [Scopes -> Nat],
         Used \subseteq Used', Used' \subseteq Used \cup {req[r].fresh},
         \A p \in Used : rowLock[p] # r => gatePasses'[p] = gatePasses[p],
         WellFormed(q)', q.pc \in {"idle", "lock"}, q.fresh = NoPass
  PROVE  Inv'
<1>1. /\ \A s \in Requests \ {r} : req'[s] = req[s]
      /\ req'[r] = q
      /\ req' \in [Requests -> Request]
  BY DEF Inv, TypeOK
<1>2. TypeOK'
  BY <1>1, LocksReleased DEF TypeOK
<1>3. \A s \in Requests \ {r} : DecisionCurrent(s)'
  BY <1>1, LocksReleased, OthersKeepDecision
<1>4. DecisionCurrent(r)'
  BY <1>1 DEF DecisionCurrent, Permitted, Holding
<1>5. \A s \in Requests \ {r} : WellFormed(req[s])'
  BY <1>1, OthersKeepForm
<1>6. WellFormed(req[r])'
  BY <1>1 DEF WellFormed
<1>7. ASSUME NEW s \in Requests, NEW t \in Requests,
             req'[s].fresh = req'[t].fresh
      PROVE  s = t \/ req'[s].fresh = NoPass
  BY <1>1, <1>7 DEF Inv, RequestsWellFormed
<1> QED
  BY <1>2, <1>3, <1>4, <1>5, <1>6, <1>7
  DEF Inv, RequestsWellFormed, PolicyHoldsAtWrite

(* What request r knows when it commits on a pass it has locked.           *)
LEMMA AtWrite ==
  ASSUME Inv, NEW r \in Requests, req[r].pc = "write",
         req[r].op # "CREATE_DRAFT"
  PROVE  /\ req[r] \in Request
         /\ req[r].user \in Users
         /\ req[r].target \in Used /\ req[r].target \in PassIds
         /\ rowLock[req[r].target] = r
         /\ req[r].seen = Context(gatePasses[req[r].target])
         /\ req[r].seen.status = gatePasses[req[r].target].status
         /\ Allows(Actor(req[r].user), req[r].op, gatePasses[req[r].target])
<1>1. req[r] \in Request
  BY DEF Inv, TypeOK
<1>2. Holding(r) /\ Permitted(r) /\ DecisionCurrent(r)
  BY DEF Holding, Permitted, Inv, PolicyHoldsAtWrite
<1>3. WellFormed(req[r])
  BY DEF Inv, RequestsWellFormed
<1> QED
  BY <1>1, <1>2, <1>3 DEF WellFormed, DecisionCurrent, Context, Used

LEMMA CommitTransitionInv ==
  ASSUME Inv, NEW r \in Requests, CommitTransition(r) PROVE Inv'
<1> DEFINE p == req[r].target
           ev == Event(r, req[r].seen.status, NextStatus(req[r].op))
<1>1. /\ req[r].pc = "write" /\ req[r].op \in Workflow
      /\ req[r].op # "CREATE_DRAFT"
  BY DEF CommitTransition
<1>2. /\ req[r] \in Request /\ req[r].user \in Users
      /\ p \in Used /\ p \in PassIds /\ rowLock[p] = r
      /\ gatePasses[p] \in Row
  BY <1>1, AtWrite DEF Inv, TypeOK
<1>3. /\ Applied(gatePasses[p], r) \in Row
      /\ Applied(gatePasses[p], r).status \in Statuses
  BY <1>1, <1>2, AppliedType, NextStatusType
<1>4. gatePasses' = [gatePasses EXCEPT ![p] = Applied(gatePasses[p], r)]
  BY DEF CommitTransition
<1>5. gatePasses' \in [PassIds -> Row]
  BY <1>3, <1>4 DEF Inv, TypeOK
<1>6. Used' = Used
  BY <1>2, <1>3, <1>4 DEF Used, Inv, TypeOK
<1>7. trail' \in [PassIds -> Seq(AuditEvent)]
  <2>1. ev \in AuditEvent
    BY <1>1, <1>2, NextStatusType DEF Event, AuditEvent, Request, PassContext
  <2>2. trail' = [trail EXCEPT ![p] = Append(trail[p], ev)]
    BY DEF CommitTransition
  <2> HIDE DEF ev
  <2> QED
    BY <1>2, <2>1, <2>2 DEF Inv, TypeOK
<1>8. items' \in [PassIds -> Seq(Int \cup {NaN})] /\ seq' \in [Scopes -> Nat]
  BY DEF CommitTransition, Inv, TypeOK
<1>9. \A i \in Used : rowLock[i] # r => gatePasses'[i] = gatePasses[i]
  BY <1>2, <1>4 DEF Inv, TypeOK, Used
<1>10. WellFormed(Idle)' /\ Idle.pc = "idle" /\ Idle.fresh = NoPass
  BY IdleWellFormed DEF WellFormed
<1> QED
  BY <1>5, <1>6, <1>7, <1>8, <1>9, <1>10, IdleType, CommitMoves
  DEF CommitTransition

LEMMA CommitEditInv ==
  ASSUME Inv, NEW r \in Requests, CommitEdit(r) PROVE Inv'
<1> DEFINE p == req[r].target
           d == req[r].draft
           ev == Event(r, req[r].seen.status, req[r].seen.status)
<1>1. req[r].pc = "write" /\ req[r].op = "EDIT_DRAFT"
  BY DEF CommitEdit
<1>2. /\ req[r] \in Request /\ req[r].user \in Users
      /\ p \in Used /\ p \in PassIds /\ rowLock[p] = r
      /\ gatePasses[p] \in Row
      /\ gatePasses[p].status = "DRAFT" /\ req[r].seen.status = "DRAFT"
  BY <1>1, AtWrite DEF Inv, TypeOK, Allows, MayDraft
<1>3. d \in Drafts /\ ValidateDraft(d)
  BY <1>1, <1>2 DEF Inv, RequestsWellFormed, WellFormed, Request
<1>4. /\ Rewritten(gatePasses[p], d) \in Row
      /\ Rewritten(gatePasses[p], d).status = "DRAFT"
  BY <1>2, <1>3, RewrittenType
<1>5. gatePasses' = [gatePasses EXCEPT ![p] = Rewritten(gatePasses[p], d)]
  BY DEF CommitEdit
<1>6. gatePasses' \in [PassIds -> Row]
  BY <1>4, <1>5 DEF Inv, TypeOK
<1>7. Used' = Used
  BY <1>2, <1>4, <1>5 DEF Used, Inv, TypeOK
<1>8. trail' \in [PassIds -> Seq(AuditEvent)]
  <2>1. ev \in AuditEvent
    BY <1>1, <1>2 DEF Event, AuditEvent
  <2>2. trail' = [trail EXCEPT ![p] = Append(trail[p], ev)]
    BY DEF CommitEdit
  <2> HIDE DEF ev
  <2> QED
    BY <1>2, <2>1, <2>2 DEF Inv, TypeOK
<1>9. items' \in [PassIds -> Seq(Int \cup {NaN})] /\ seq' \in [Scopes -> Nat]
  BY <1>3, DraftType DEF CommitEdit, ReplacedItems, Inv, TypeOK
<1>10. \A i \in Used : rowLock[i] # r => gatePasses'[i] = gatePasses[i]
  BY <1>2, <1>5 DEF Inv, TypeOK, Used
<1>11. WellFormed(Idle)' /\ Idle.pc = "idle" /\ Idle.fresh = NoPass
  BY IdleWellFormed DEF WellFormed
<1> QED
  BY <1>6, <1>7, <1>8, <1>9, <1>10, <1>11, IdleType, CommitMoves
  DEF CommitEdit

LEMMA CommitInsertInv ==
  ASSUME Inv, NEW r \in Requests, CommitInsert(r) PROVE Inv'
<1> DEFINE id == req[r].fresh
           d == req[r].draft
           q == AfterInsert(r)
<1>1. req[r].pc = "write" /\ req[r].op \in Inserting
  BY DEF CommitInsert, Inserting
<1>2. /\ req[r] \in Request /\ req[r].user \in Users
      /\ id \in PassIds \ Used
      /\ d \in Drafts /\ ValidateDraft(d)
  BY <1>1 DEF Inv, TypeOK, RequestsWellFormed, WellFormed, Request, Inserting
<1>3. Inserted(r) \in Row /\ Inserted(r).status = "DRAFT"
  BY <1>2, InsertedType
<1>4. gatePasses' = [gatePasses EXCEPT ![id] = Inserted(r)]
  BY DEF CommitInsert
<1>5. gatePasses' \in [PassIds -> Row]
  BY <1>3, <1>4 DEF Inv, TypeOK
<1>6. Used' = Used \cup {id}
  BY <1>2, <1>3, <1>4 DEF Used, Inv, TypeOK
<1>7. trail' \in [PassIds -> Seq(AuditEvent)]
  <2> DEFINE from == IF req[r].op = "CREATE_REVISION" THEN "NOT_APPROVED" ELSE "NONE"
             ev == Event(r, from, "DRAFT")
  <2>1. ev \in AuditEvent
    BY <1>1, <1>2 DEF Event, AuditEvent, Request
  <2>2. trail' = [trail EXCEPT ![id] = <<ev>>]
    BY DEF CommitInsert
  <2> HIDE DEF ev
  <2> QED
    BY <1>2, <2>1, <2>2 DEF Inv, TypeOK
<1>8. items' \in [PassIds -> Seq(Int \cup {NaN})]
  BY <1>2, DraftType DEF CommitInsert, Inv, TypeOK
<1>9. seq' \in [Scopes -> Nat]
  BY <1>2 DEF CommitInsert, Inv, TypeOK, Request
<1>10. \A i \in Used : rowLock[i] # r => gatePasses'[i] = gatePasses[i]
  BY <1>2, <1>4 DEF Inv, TypeOK, Used
<1>11. CASE req[r].submitAfter
  <2>1. q = [Idle EXCEPT !.pc = "lock", !.user = req[r].user, !.op = "SUBMIT",
                         !.target = id]
    BY <1>11 DEF AfterInsert
  <2>2. q \in Request
    BY <1>2, <2>1, IdleType DEF Request
  <2>3. PICK k \in Request : k = q
    BY <2>2
  <2>4. /\ k.pc = "lock" /\ k.user \in Users /\ k.op = "SUBMIT"
        /\ k.target = id /\ k.fresh = NoPass
    BY <1>2, <2>1, <2>3 DEF Idle
  <2>5. k.target \in Used'
    BY <1>6, <2>4
  <2>6. WellFormed(k)'
    BY <2>4, <2>5 DEF WellFormed, Inserting
  <2>7. req' = [req EXCEPT ![r] = k] /\ ReleaseLocks(r)
    BY <2>3 DEF CommitInsert
  <2> HIDE DEF q
  <2> QED
    BY <1>5, <1>6, <1>7, <1>8, <1>9, <1>10, <2>4, <2>6, <2>7, CommitMoves
<1>12. CASE ~req[r].submitAfter
  <2>1. q = Idle
    BY <1>12 DEF AfterInsert
  <2>2. WellFormed(Idle)' /\ Idle.pc = "idle" /\ Idle.fresh = NoPass
    BY IdleWellFormed DEF WellFormed
  <2>3. req' = [req EXCEPT ![r] = Idle] /\ ReleaseLocks(r)
    BY <2>1 DEF CommitInsert
  <2> QED
    BY <1>5, <1>6, <1>7, <1>8, <1>9, <1>10, <2>2, <2>3, IdleType, CommitMoves
<1> QED
  BY <1>11, <1>12

LEMMA InitInv == Init => Inv
<1> SUFFICES ASSUME Init PROVE Inv
  OBVIOUS
<1>1. TypeOK
  BY NoRowType, IdleType DEF Init, TypeOK
<1>2. RequestsWellFormed
  BY IdleWellFormed DEF Init, RequestsWellFormed
<1>3. PolicyHoldsAtWrite
  BY IdleWellFormed
  DEF Init, PolicyHoldsAtWrite, DecisionCurrent, Permitted, Holding
<1> QED
  BY <1>1, <1>2, <1>3 DEF Inv

LEMMA StutterInv == ASSUME Inv, UNCHANGED vars PROVE Inv'
<1>1. Used' = Used
  BY DEF vars, Used
<1>2. TypeOK'
  BY DEF vars, Inv, TypeOK
<1>3. RequestsWellFormed'
  BY <1>1 DEF vars, Inv, RequestsWellFormed, WellFormed
<1>4. PolicyHoldsAtWrite'
  BY DEF vars, Inv, PolicyHoldsAtWrite, DecisionCurrent, Permitted, Holding
<1> QED
  BY <1>2, <1>3, <1>4 DEF Inv

LEMMA NextInv == Inv /\ [Next]_vars => Inv'
<1> SUFFICES ASSUME Inv, [Next]_vars PROVE Inv'
  OBVIOUS
<1>1. ASSUME NEW r \in Requests, Receive(r) PROVE Inv'
  BY <1>1, ReceiveInv
<1>2. ASSUME NEW r \in Requests, Advance(r) PROVE Inv'
  BY <1>2, LockRowInv, PermitInv, RollbackInv, NextNumberInv, InsertInv,
     CommitTransitionInv, CommitEditInv, CommitInsertInv
  DEF Advance, Refuse, StatementFails
<1>3. ASSUME NEW r \in Requests, Cancel(r) PROVE Inv'
  BY <1>3, RollbackInv DEF Cancel
<1>4. CASE Crash
  BY <1>4, CrashInv
<1>5. CASE UNCHANGED vars
  BY <1>5, StutterInv
<1> QED
  BY <1>1, <1>2, <1>3, <1>4, <1>5 DEF Next

(* The induction the other theorems rest on.                               *)
THEOREM Invariance == Spec => []Inv
<1> QED
  BY InitInv, NextInv, PTL DEF Spec

(* Tables, locks and requests keep their types.                            *)
THEOREM TypeCorrect == Spec => []TypeOK
<1>1. Inv => TypeOK
  BY DEF Inv
<1> QED
  BY <1>1, Invariance, PTL

(* The decision a request commits is one the policy still makes of the     *)
(* current row: workflow.md:33.                                            *)
THEOREM PolicyHolds == Spec => []PolicyHoldsAtWrite
<1>1. Inv => PolicyHoldsAtWrite
  BY DEF Inv
<1> QED
  BY <1>1, Invariance, PTL
=============================================================================
