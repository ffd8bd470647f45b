--------------------------- MODULE RegisterProofs ---------------------------
(***************************************************************************)
(* What the register keeps across passes and against its abstract          *)
(* specification: proofs of SavedWhole, RevisionLineage, NumbersGapless,   *)
(* WaitsOnward and ImplementsLifecycle of GatePassStore.                   *)
(*                                                                         *)
(* Only three actions write the tables, so each proof looks at the three   *)
(* commits, with the facts about them collected in one lemma each.         *)
(***************************************************************************)
EXTENDS AuditProofs

USE DEF Roles, Statuses, PassTypes, Workflow, Drafting, Actions

-----------------------------------------------------------------------------
(* The commits.                                                            *)

(* A step writes no table, or is one of the three commits.                 *)
LEMMA TablesMove ==
  ASSUME [Next]_vars
  PROVE  \/ UNCHANGED tables
         \/ \E r \in Requests :
              CommitTransition(r) \/ CommitEdit(r) \/ CommitInsert(r)
<1>1. ASSUME NEW r \in Requests, Receive(r) PROVE UNCHANGED tables
  BY <1>1
  DEF Receive, ReceiveCreate, ReceiveRevision, ReceiveEdit, ReceiveWorkflow
<1>2. ASSUME NEW r \in Requests, Rollback(r) PROVE UNCHANGED tables
  BY <1>2 DEF Rollback
<1>3. ASSUME NEW r \in Requests,
             LockRow(r) \/ Permit(r) \/ Insert(r) \/ NextNumber(r)
      PROVE  UNCHANGED tables
  BY <1>3 DEF LockRow, Permit, NextNumber, Insert
<1>4. CASE Crash \/ UNCHANGED vars
  BY <1>4 DEF Crash, vars, tables
<1> QED
  BY <1>1, <1>2, <1>3, <1>4 DEF Next, Advance, Refuse, StatementFails, Cancel

LEMMA TransitionFacts ==
  ASSUME Inv, NEW r \in Requests, CommitTransition(r)
  PROVE  LET p == req[r].target IN
         /\ req[r] \in Request /\ req[r].op \in Workflow /\ req[r].user \in Users
         /\ p \in Used /\ p \in PassIds /\ gatePasses[p] \in Row
         /\ Allows(Actor(req[r].user), req[r].op, gatePasses[p])
         /\ req[r].op = "REJECT" => req[r].reason
         /\ gatePasses' = [gatePasses EXCEPT ![p] = Applied(gatePasses[p], r)]
         /\ gatePasses'[p] = Applied(gatePasses[p], r)
         /\ Applied(gatePasses[p], r) \in Row
         /\ \A q \in PassIds \ {p} : gatePasses'[q] = gatePasses[q]
         /\ items' = items /\ seq' = seq
<1>1. /\ req[r].pc = "write" /\ req[r].op \in Workflow
      /\ req[r].op # "CREATE_DRAFT" /\ items' = items /\ seq' = seq
      /\ gatePasses' = [gatePasses EXCEPT ![req[r].target] =
                                      Applied(gatePasses[req[r].target], r)]
  BY DEF CommitTransition
<1>2. /\ req[r] \in Request /\ req[r].user \in Users
      /\ req[r].target \in Used /\ req[r].target \in PassIds
      /\ Allows(Actor(req[r].user), req[r].op, gatePasses[req[r].target])
  BY <1>1, AtWrite
<1>3. gatePasses \in [PassIds -> Row] /\ WellFormed(req[r])
  BY DEF Inv, TypeOK, RequestsWellFormed
<1>4. req[r].op = "REJECT" => req[r].reason
  BY <1>1, <1>3 DEF WellFormed
<1>5. Applied(gatePasses[req[r].target], r) \in Row
  BY <1>1, <1>2, <1>3, AppliedType
<1> QED
  BY <1>1, <1>2, <1>3, <1>4, <1>5

LEMMA EditFacts ==
  ASSUME Inv, NEW r \in Requests, CommitEdit(r)
  PROVE  LET p == req[r].target
             d == req[r].draft
         IN
         /\ p \in Used /\ p \in PassIds /\ gatePasses[p] \in Row
         /\ gatePasses[p].status = "DRAFT"
         /\ d \in Drafts /\ ValidateDraft(d) /\ ItemsFit(d)
         /\ gatePasses' = [gatePasses EXCEPT ![p] = Rewritten(gatePasses[p], d)]
         /\ gatePasses'[p] = Rewritten(gatePasses[p], d)
         /\ \A q \in PassIds \ {p} : gatePasses'[q] = gatePasses[q]
         /\ items'[p] = StoredItems(d)
         /\ \A q \in PassIds \ {p} : items'[q] = items[q]
         /\ seq' = seq
<1>1. /\ req[r].pc = "write" /\ req[r].op = "EDIT_DRAFT"
      /\ ItemsFit(req[r].draft) /\ seq' = seq
      /\ gatePasses' = [gatePasses EXCEPT ![req[r].target] =
                          Rewritten(gatePasses[req[r].target], req[r].draft)]
      /\ items' = [items EXCEPT ![req[r].target] = StoredItems(req[r].draft)]
  BY DEF CommitEdit, ReplacedItems
<1>2. /\ req[r] \in Request
      /\ req[r].target \in Used /\ req[r].target \in PassIds
      /\ gatePasses[req[r].target].status = "DRAFT"
  BY <1>1, AtWrite DEF Allows, MayDraft
<1>3. /\ gatePasses \in [PassIds -> Row] /\ WellFormed(req[r])
      /\ items \in [PassIds -> Seq(Int \cup {NaN})]
  BY DEF Inv, TypeOK, RequestsWellFormed
<1>4. req[r].draft \in Drafts /\ ValidateDraft(req[r].draft)
  BY <1>1, <1>2, <1>3 DEF WellFormed, Request
<1> QED
  BY <1>1, <1>2, <1>3, <1>4

LEMMA InsertFacts ==
  ASSUME Inv, NEW r \in Requests, CommitInsert(r)
  PROVE  LET p == req[r].fresh
             d == req[r].draft
         IN
         /\ req[r] \in Request /\ req[r].user \in Users /\ req[r].pc = "write"
         /\ req[r].op \in Inserting
         /\ p \in PassIds \ Used /\ p # NoPass /\ gatePasses[p].status = "NONE"
         /\ d \in Drafts /\ ValidateDraft(d) /\ ItemsFit(d)
         /\ gatePasses' = [gatePasses EXCEPT ![p] = Inserted(r)]
         /\ gatePasses'[p] = Inserted(r)
         /\ Inserted(r) \in Row /\ Inserted(r).status = "DRAFT"
         /\ \A q \in PassIds \ {p} : gatePasses'[q] = gatePasses[q]
         /\ items'[p] = StoredItems(d)
         /\ \A q \in PassIds \ {p} : items'[q] = items[q]
         /\ seq' = [seq EXCEPT ![InsertScope(r)] = req[r].number]
<1>1. /\ req[r].pc = "write" /\ req[r].op \in Inserting
      /\ ItemsFit(req[r].draft)
      /\ gatePasses' = [gatePasses EXCEPT ![req[r].fresh] = Inserted(r)]
      /\ items' = [items EXCEPT ![req[r].fresh] = StoredItems(req[r].draft)]
      /\ seq' = [seq EXCEPT ![InsertScope(r)] = req[r].number]
  BY DEF CommitInsert, Inserting
<1>2. /\ gatePasses \in [PassIds -> Row] /\ WellFormed(req[r])
      /\ items \in [PassIds -> Seq(Int \cup {NaN})]
      /\ req[r] \in Request
  BY DEF Inv, TypeOK, RequestsWellFormed
<1>3. /\ req[r].user \in Users /\ req[r].fresh \in PassIds \ Used
      /\ req[r].draft \in Drafts /\ ValidateDraft(req[r].draft)
  BY <1>1, <1>2 DEF WellFormed, Request, Inserting
<1>4. gatePasses[req[r].fresh].status = "NONE" /\ req[r].fresh # NoPass
  BY <1>3, NamesAssumption DEF Used
<1>5. Inserted(r) \in Row /\ Inserted(r).status = "DRAFT"
  BY <1>2, <1>3, InsertedType
<1> QED
  BY <1>1, <1>2, <1>3, <1>4, <1>5

-----------------------------------------------------------------------------
(* The register implements the state machine of domain.go.                 *)

LEMMA BookRow ==
  ASSUME NEW p \in PassIds
  PROVE  Book[p] = [status |-> gatePasses[p].status,
                    passType |-> gatePasses[p].passType,
                    createdBy |-> gatePasses[p].createdBy,
                    approvedBy |-> gatePasses[p].approvedBy]
BY DEF Book

(* What the abstract specification can see of a row.                       *)
LEMMA BookColumns ==
  ASSUME NEW p \in PassIds
  PROVE  /\ Book[p].status = gatePasses[p].status
         /\ Book[p].passType = gatePasses[p].passType
         /\ Book[p].createdBy = gatePasses[p].createdBy
         /\ Book[p].approvedBy = gatePasses[p].approvedBy
BY DEF Book

(* One row written: the book changes there and nowhere else.               *)
LEMMA BookMoves ==
  ASSUME NEW p \in PassIds, NEW row,
         gatePasses'[p] = row,
         \A q \in PassIds \ {p} : gatePasses'[q] = gatePasses[q]
  PROVE  Book' = [Book EXCEPT ![p] =
                    [status |-> row.status, passType |-> row.passType,
                     createdBy |-> row.createdBy, approvedBy |-> row.approvedBy]]
BY DEF Book

(* Records of the abstract book, compared column by column.                *)
PassOf(S) == [status : S, passType : S, createdBy : S, approvedBy : S]
LEMMA SamePass ==
  ASSUME NEW S, NEW m \in PassOf(S), NEW n \in PassOf(S),
         m.status = n.status, m.passType = n.passType,
         m.createdBy = n.createdBy, m.approvedBy = n.approvedBy
  PROVE  m = n
BY DEF PassOf
(* A transition sets two columns, a creation three.                        *)
LEMMA TransitionedColumns ==
  ASSUME NEW S, NEW b \in PassOf(S), NEW op, NEW u \in S,
         Abstract!NextStatus(op) \in S
  PROVE  Abstract!Transitioned(b, op, u) =
           [status |-> Abstract!NextStatus(op), passType |-> b.passType,
            createdBy |-> b.createdBy,
            approvedBy |-> IF op = "APPROVE" THEN u ELSE b.approvedBy]
<1> DEFINE m == Abstract!Transitioned(b, op, u)
           n == [status |-> Abstract!NextStatus(op), passType |-> b.passType,
                 createdBy |-> b.createdBy,
                 approvedBy |-> IF op = "APPROVE" THEN u ELSE b.approvedBy]
<1>1. /\ m \in PassOf(S)
      /\ m.status = n.status /\ m.passType = n.passType
      /\ m.createdBy = n.createdBy /\ m.approvedBy = n.approvedBy
  BY DEF PassOf, Abstract!Transitioned
<1>2. n \in PassOf(S)
  BY DEF PassOf
<1> HIDE DEF m, n
<1>3. m = n
  BY <1>1, <1>2, SamePass
<1> QED
  BY <1>3 DEF m, n

LEMMA DraftedColumns ==
  ASSUME NEW t, NEW u
  PROVE  Abstract!Drafted(u, t) =
           [status |-> "DRAFT", passType |-> t, createdBy |-> u,
            approvedBy |-> NoUser]
<1> DEFINE S == {"NONE", "NON_RETURNABLE", "DRAFT", NoUser, t, u}
           m == Abstract!Drafted(u, t)
           n == [status |-> "DRAFT", passType |-> t, createdBy |-> u,
                 approvedBy |-> NoUser]
<1>1. Abstract!Blank \in PassOf(S) /\ Abstract!Blank.approvedBy = NoUser
  BY DEF Abstract!Blank, PassOf
<1>2. /\ m \in PassOf(S)
      /\ m.status = n.status /\ m.passType = n.passType
      /\ m.createdBy = n.createdBy /\ m.approvedBy = n.approvedBy
  BY <1>1 DEF PassOf, Abstract!Drafted
<1>3. n \in PassOf(S)
  BY DEF PassOf
<1> HIDE DEF m, n, S
<1>4. m = n
  BY <1>2, <1>3, SamePass
<1> QED
  BY <1>4 DEF m, n

LEMMA TransitionIsAbstract ==
  ASSUME Inv, NEW r \in Requests, CommitTransition(r) PROVE Abstract!Next
<1> DEFINE p == req[r].target
           op == req[r].op
           u == req[r].user
           row == gatePasses[p]
           new == Applied(row, r)
<1>1. /\ req[r] \in Request /\ op \in Workflow /\ u \in Users
      /\ p \in PassIds /\ row \in Row
      /\ Allows(Actor(u), op, row)
      /\ gatePasses'[p] = new
      /\ \A q \in PassIds \ {p} : gatePasses'[q] = gatePasses[q]
  BY TransitionFacts
<1>2. /\ new.createdBy = row.createdBy
      /\ new.approvedBy = IF op = "APPROVE" THEN u ELSE row.approvedBy
      /\ new.status = NextStatus(op)
      /\ new.passType = row.passType
  BY <1>1, AppliedColumns DEF Digest
<1>3. Abstract!CanTransition(Book[p], op)
  <2>1. Book[p].status = row.status /\ Book[p].passType = row.passType
    BY <1>1, BookColumns
  <2>2. op = "RETURN" => row.passType = "RETURNABLE"
    BY <1>1 DEF Allows, MayReturn
  <2> QED
    BY <1>1, <2>1, <2>2, AllowedStatus DEF Abstract!CanTransition
<1>4. Abstract!Transitioned(Book[p], op, u) =
        [status |-> new.status, passType |-> new.passType,
         createdBy |-> new.createdBy, approvedBy |-> new.approvedBy]
  <2>1. NextStatus(op) = Abstract!NextStatus(op)
    BY <1>1 DEF NextStatus, Abstract!NextStatus
  <2>2. /\ Book[p].passType = row.passType
        /\ Book[p].createdBy = row.createdBy
        /\ Book[p].approvedBy = row.approvedBy
    BY <1>1, BookColumns
  <2> DEFINE S == {row.status, row.passType, row.createdBy, row.approvedBy,
                   NextStatus(op), u}
  <2>3. Book[p] \in PassOf(S)
    BY <1>1 DEF Book, PassOf
  <2>4. u \in S /\ NextStatus(op) \in S
    OBVIOUS
  <2> HIDE DEF p, op, u, row, new, S
  <2> QED
    BY <1>2, <2>1, <2>2, <2>3, <2>4, TransitionedColumns
<1>5. Book' = [Book EXCEPT ![p] = Abstract!Transitioned(Book[p], op, u)]
  BY <1>1, <1>4, BookMoves
<1>6. Abstract!TransitionPass(p, op)
  BY <1>1, <1>3, <1>5 DEF Abstract!TransitionPass
<1> QED
  BY <1>1, <1>6 DEF Abstract!Next, Abstract!Workflow

LEMMA EditIsAbstract ==
  ASSUME Inv, NEW r \in Requests, CommitEdit(r) PROVE Abstract!Next
<1> DEFINE p == req[r].target
           d == req[r].draft
           row == gatePasses[p]
           new == Rewritten(row, d)
<1>1. /\ p \in PassIds /\ row \in Row /\ row.status = "DRAFT"
      /\ d \in Drafts /\ ValidateDraft(d)
      /\ gatePasses'[p] = new
      /\ \A q \in PassIds \ {p} : gatePasses'[q] = gatePasses[q]
  BY EditFacts
<1>2. /\ new.status = row.status /\ new.passType = d.passType
      /\ new.createdBy = row.createdBy /\ new.approvedBy = row.approvedBy
  BY <1>1 DEF Rewritten, Row
<1>3. d.passType \in PassTypes
  BY <1>1, DraftType
<1>4. Book' = [Book EXCEPT ![p].passType = d.passType]
  <2>1. Book' = [Book EXCEPT ![p] =
                   [status |-> new.status, passType |-> new.passType,
                    createdBy |-> new.createdBy, approvedBy |-> new.approvedBy]]
    BY <1>1, BookMoves
  <2>2. Book[p] = [status |-> row.status, passType |-> row.passType,
                   createdBy |-> row.createdBy, approvedBy |-> row.approvedBy]
    BY <1>1, BookRow
  <2> HIDE DEF p, d, row, new
  <2>3. [Book[p] EXCEPT !.passType = d.passType] =
          [status |-> new.status, passType |-> new.passType,
           createdBy |-> new.createdBy, approvedBy |-> new.approvedBy]
    BY <1>2, <2>2
  <2> QED
    BY <2>1, <2>3
<1>5. Abstract!EditPass(p)
  BY <1>1, <1>3, <1>4, BookColumns DEF Abstract!EditPass, Abstract!PassTypes
<1> QED
  BY <1>1, <1>5 DEF Abstract!Next

LEMMA InsertIsAbstract ==
  ASSUME Inv, NEW r \in Requests, CommitInsert(r) PROVE Abstract!Next
<1> DEFINE p == req[r].fresh
           d == req[r].draft
           u == req[r].user
           new == Inserted(r)
<1>1. /\ p \in PassIds /\ u \in Users /\ gatePasses[p].status = "NONE"
      /\ d \in Drafts /\ ValidateDraft(d)
      /\ gatePasses'[p] = new
      /\ \A q \in PassIds \ {p} : gatePasses'[q] = gatePasses[q]
  BY InsertFacts
<1>2. d.passType \in PassTypes
  BY <1>1, DraftType
<1>3. /\ new.status = "DRAFT" /\ new.passType = d.passType
      /\ new.createdBy = u /\ new.approvedBy = NoUser
  BY DEF Inserted, NoRow
<1>4. Abstract!Drafted(u, d.passType) =
        [status |-> new.status, passType |-> new.passType,
         createdBy |-> new.createdBy, approvedBy |-> new.approvedBy]
  BY <1>3, DraftedColumns
<1>5. Book' = [Book EXCEPT ![p] = Abstract!Drafted(u, d.passType)]
  BY <1>1, <1>4, BookMoves
<1>6. Abstract!CreatePass(p)
  BY <1>1, <1>2, <1>5, BookColumns DEF Abstract!CreatePass, Abstract!PassTypes
<1> QED
  BY <1>1, <1>6 DEF Abstract!Next

(* Every behaviour of the register, its requests, transactions, failures   *)
(* and crashes left out, is a behaviour of the state machine of domain.go. *)
THEOREM RegisterImplementsLifecycle == Spec => ImplementsLifecycle
<1>1. Init => Abstract!Init
  BY DEF Init, Abstract!Init, Abstract!Blank, Book, NoRow
<1>2. Inv /\ [Next]_vars => [Abstract!Next]_Book
  <2> SUFFICES ASSUME Inv, [Next]_vars PROVE [Abstract!Next]_Book
    OBVIOUS
  <2>1. CASE UNCHANGED tables
    BY <2>1 DEF tables, Book
  <2>2. ASSUME NEW r \in Requests,
               CommitTransition(r) \/ CommitEdit(r) \/ CommitInsert(r)
        PROVE  Abstract!Next
    BY <2>2, TransitionIsAbstract, EditIsAbstract, InsertIsAbstract
  <2> QED
    BY <2>1, <2>2, TablesMove
<1> QED
  BY <1>1, <1>2, Invariance, PTL DEF Spec, ImplementsLifecycle, Abstract!Spec

-----------------------------------------------------------------------------
(* What is stored of a pass is one form.                                   *)

HasForm(row, d) ==
  row.passType = d.passType /\ row.expected = d.expected /\ row.header = d.header

LEMMA SameRow ==
  ASSUME NEW m \in Row, NEW n \in Row,
         m.status = n.status, m.passType = n.passType, m.expected = n.expected,
         m.header = n.header, m.passNo = n.passNo,
         m.revisionOf = n.revisionOf, m.revisionNo = n.revisionNo,
         m.createdBy = n.createdBy, m.approvedBy = n.approvedBy,
         m.securityOfficer = n.securityOfficer, m.returnedBy = n.returnedBy,
         m.controlNo = n.controlNo, m.rejected = n.rejected,
         m.recordHash = n.recordHash
  PROVE  m = n
<1> HIDE DEF Statuses, PassTypes
<1> QED
  BY DEF Row

LEMMA FormColumns ==
  ASSUME NEW row \in Row, NEW d \in Drafts, ValidateDraft(d)
  PROVE  row = Rewritten(row, d) <=> HasForm(row, d)
<1> DEFINE new == Rewritten(row, d)
<1>1. /\ new \in Row
      /\ new.passType = d.passType /\ new.expected = d.expected
      /\ new.header = d.header
  BY RewrittenType DEF Rewritten, Row
<1>2. /\ new.status = row.status /\ new.passNo = row.passNo
      /\ new.revisionOf = row.revisionOf /\ new.revisionNo = row.revisionNo
      /\ new.createdBy = row.createdBy /\ new.approvedBy = row.approvedBy
      /\ new.securityOfficer = row.securityOfficer
      /\ new.returnedBy = row.returnedBy /\ new.controlNo = row.controlNo
      /\ new.rejected = row.rejected /\ new.recordHash = row.recordHash
  BY DEF Rewritten, Row
<1> HIDE DEF new
<1>3. ASSUME HasForm(row, d) PROVE row = new
  BY <1>1, <1>2, <1>3, SameRow DEF HasForm
<1>4. ASSUME row = new PROVE HasForm(row, d)
  BY <1>1, <1>4 DEF HasForm
<1> QED
  BY <1>3, <1>4 DEF new

(* SavedWhole with the columns of the form spelt out.                      *)
Saved(row, lines) ==
  \E d \in Drafts :
    ValidateDraft(d) /\ HasForm(row, d) /\ lines = StoredItems(d) /\ ItemsFit(d)

AllSaved == \A p \in Used : Saved(gatePasses[p], items[p])

LEMMA SavedColumns == ASSUME TypeOK PROVE AllSaved <=> SavedWhole
<1> SUFFICES ASSUME NEW p \in Used
             PROVE  Saved(gatePasses[p], items[p]) <=>
                      \E d \in Drafts :
                        /\ ValidateDraft(d)
                        /\ gatePasses[p] = Rewritten(gatePasses[p], d)
                        /\ items[p] = StoredItems(d)
                        /\ ItemsFit(d)
  BY DEF AllSaved, SavedWhole
<1>1. gatePasses[p] \in Row
  BY DEF TypeOK, Used
<1> QED
  BY <1>1, FormColumns DEF Saved

(* What a transition leaves alone of the rest of the row.                  *)
LEMMA AppliedRest ==
  ASSUME NEW r \in Requests, req[r] \in Request, req[r].op \in Workflow,
         NEW row \in Row
  PROVE  LET new == Applied(row, r) IN
         /\ new.passType = row.passType /\ new.expected = row.expected
         /\ new.header = row.header /\ new.passNo = row.passNo
         /\ new.revisionOf = row.revisionOf /\ new.revisionNo = row.revisionNo
         /\ req[r].op = "REJECT" => new.rejected = req[r].reason
<1> DEFINE u == req[r].user
           s == NextStatus(req[r].op)
           b == req[r].reason
           h == Digest(row)
<1>1. \/ req[r].op # "REJECT" /\ Applied(row, r) \in
           {[row EXCEPT !.status = s, !.rejected = FALSE],
            [row EXCEPT !.status = s, !.approvedBy = u, !.recordHash = h],
            [row EXCEPT !.status = s, !.securityOfficer = u, !.controlNo = b],
            [row EXCEPT !.status = s, !.returnedBy = u]}
      \/ /\ req[r].op = "REJECT"
         /\ Applied(row, r) = [row EXCEPT !.status = s, !.rejected = b]
  BY DEF Applied
<1> HIDE DEF u, s, b, h
<1>2. CASE req[r].op # "REJECT"
  BY <1>1, <1>2 DEF Row
<1>3. CASE req[r].op = "REJECT"
  BY <1>1, <1>3 DEF Row, b
<1> QED
  BY <1>2, <1>3

LEMMA SavedNext == Inv /\ AllSaved /\ [Next]_vars => AllSaved'
<1> SUFFICES ASSUME Inv, AllSaved, [Next]_vars, NEW p \in Used'
             PROVE  Saved(gatePasses[p], items[p])'
  BY DEF AllSaved
<1>0. p \in PassIds
  BY DEF Used
<1>1. CASE UNCHANGED tables
  BY <1>1 DEF tables, AllSaved, Saved, Used
<1>2. ASSUME p \in Used, gatePasses'[p] = gatePasses[p], items'[p] = items[p]
      PROVE  Saved(gatePasses[p], items[p])'
  BY <1>2 DEF AllSaved, Saved
<1>3. ASSUME gatePasses'[p] = gatePasses[p] PROVE p \in Used
  BY <1>0, <1>3 DEF Used
<1>4. ASSUME NEW r \in Requests, CommitTransition(r)
      PROVE  Saved(gatePasses[p], items[p])'
  <2> DEFINE i == req[r].target
  <2>1. CASE p # i
    BY <1>0, <1>2, <1>3, <1>4, <2>1, TransitionFacts
  <2>2. CASE p = i
    <3>1. /\ p \in Used /\ items'[p] = items[p]
          /\ gatePasses'[p] = Applied(gatePasses[p], r)
          /\ gatePasses[p] \in Row /\ req[r] \in Request
          /\ req[r].op \in Workflow
      BY <1>4, <2>2, TransitionFacts
    <3>2. Saved(gatePasses[p], items[p])
      BY <3>1 DEF AllSaved
    <3>3. \A d \in Drafts : HasForm(gatePasses[p], d) => HasForm(gatePasses[p], d)'
      BY <3>1, AppliedRest DEF HasForm
    <3> QED
      BY <3>1, <3>2, <3>3 DEF Saved, HasForm
  <2> QED
    BY <2>1, <2>2
<1>5. ASSUME NEW r \in Requests, CommitEdit(r)
      PROVE  Saved(gatePasses[p], items[p])'
  <2> DEFINE i == req[r].target
             d == req[r].draft
  <2>1. CASE p # i
    BY <1>0, <1>2, <1>3, <1>5, <2>1, EditFacts
  <2>2. CASE p = i
    <3>1. /\ d \in Drafts /\ ValidateDraft(d) /\ ItemsFit(d)
          /\ gatePasses[p] \in Row
          /\ gatePasses'[p] = Rewritten(gatePasses[p], d)
          /\ items'[p] = StoredItems(d)
      BY <1>5, <2>2, EditFacts
    <3>2. HasForm(Rewritten(gatePasses[p], d), d)
      BY <3>1 DEF HasForm, Rewritten, Row
    <3> QED
      BY <3>1, <3>2 DEF Saved, HasForm
  <2> QED
    BY <2>1, <2>2
<1>6. ASSUME NEW r \in Requests, CommitInsert(r)
      PROVE  Saved(gatePasses[p], items[p])'
  <2> DEFINE i == req[r].fresh
             d == req[r].draft
  <2>1. CASE p # i
    BY <1>0, <1>2, <1>3, <1>6, <2>1, InsertFacts
  <2>2. CASE p = i
    <3>1. /\ d \in Drafts /\ ValidateDraft(d) /\ ItemsFit(d)
          /\ gatePasses'[p] = Inserted(r)
          /\ items'[p] = StoredItems(d)
      BY <1>6, <2>2, InsertFacts
    <3>2. HasForm(Inserted(r), d)
      BY DEF HasForm, Inserted, NoRow
    <3> QED
      BY <3>1, <3>2 DEF Saved, HasForm
  <2> QED
    BY <2>1, <2>2
<1> QED
  BY <1>1, <1>4, <1>5, <1>6, TablesMove

(* Header and lines of a stored pass are those of one accepted form.       *)
THEOREM FormsWhole == Spec => []SavedWhole
<1>1. Init => AllSaved
  BY DEF Init, AllSaved, Used, NoRow
<1>2. Inv /\ AllSaved => SavedWhole
  BY SavedColumns DEF Inv
<1> QED
  BY <1>1, <1>2, SavedNext, Invariance, PTL DEF Spec

-----------------------------------------------------------------------------
(* Revisions hang off rejected passes.                                     *)

(* A rejected pass has a reason; with it the lineage is inductive.         *)
LineageInv ==
  /\ RevisionLineage
  /\ \A p \in Used : gatePasses[p].status = "NOT_APPROVED" => gatePasses[p].rejected

(* RevisionLineage of one pass.                                            *)
Descends(p) ==
  LET o == gatePasses[p].revisionOf IN
  IF o = NoPass THEN gatePasses[p].revisionNo = 0
  ELSE /\ o \in Used \ {p}
       /\ gatePasses[o].status = "NOT_APPROVED"
       /\ gatePasses[o].rejected
       /\ gatePasses[p].revisionNo = gatePasses[o].revisionNo + 1

Reasoned(p) == gatePasses[p].status = "NOT_APPROVED" => gatePasses[p].rejected

LEMMA LineageParts ==
  LineageInv <=> \A p \in Used : Descends(p) /\ Reasoned(p)
BY DEF LineageInv, RevisionLineage, Descends, Reasoned

(* A pass whose lineage columns are kept still descends from its origin,   *)
(* when no rejected pass changes.                                          *)
LEMMA DescentKept ==
  ASSUME NEW p \in Used, Descends(p),
         gatePasses'[p].revisionOf = gatePasses[p].revisionOf,
         gatePasses'[p].revisionNo = gatePasses[p].revisionNo,
         Used \subseteq Used',
         \A o \in Used : gatePasses[o].status = "NOT_APPROVED"
                        => gatePasses'[o] = gatePasses[o]
  PROVE  Descends(p)'
<1> DEFINE o == gatePasses[p].revisionOf
<1>1. CASE o = NoPass
  BY <1>1 DEF Descends
<1>2. CASE o # NoPass
  <2>1. o \in Used /\ o \in Used' /\ o # p /\ gatePasses'[o] = gatePasses[o]
    BY <1>2 DEF Descends
  <2> QED
    BY <1>2, <2>1 DEF Descends
<1> QED
  BY <1>1, <1>2

LEMMA LineageTransition ==
  ASSUME Inv, LineageInv, NEW r \in Requests, CommitTransition(r)
  PROVE  LineageInv'
<1> DEFINE i == req[r].target
<1>1. /\ req[r] \in Request /\ req[r].op \in Workflow
      /\ i \in Used /\ i \in PassIds /\ gatePasses[i] \in Row
      /\ Allows(Actor(req[r].user), req[r].op, gatePasses[i])
      /\ req[r].op = "REJECT" => req[r].reason
      /\ gatePasses'[i] = Applied(gatePasses[i], r)
      /\ \A q \in PassIds \ {i} : gatePasses'[q] = gatePasses[q]
  BY TransitionFacts
<1>2. /\ gatePasses'[i].status = NextStatus(req[r].op)
      /\ gatePasses'[i].revisionOf = gatePasses[i].revisionOf
      /\ gatePasses'[i].revisionNo = gatePasses[i].revisionNo
      /\ req[r].op = "REJECT" => gatePasses'[i].rejected
  BY <1>1, AppliedColumns, AppliedRest
<1>3. gatePasses[i].status # "NOT_APPROVED"
  BY <1>1, AllowedStatus
<1>4. Used' = Used
  BY <1>1, <1>2, NextStatusType DEF Used
<1>5. \A o \in Used : gatePasses[o].status = "NOT_APPROVED"
                    => gatePasses'[o] = gatePasses[o]
  BY <1>1, <1>3 DEF Used
<1>6. ASSUME NEW p \in Used' PROVE Descends(p)' /\ Reasoned(p)'
  <2>1. p \in Used /\ p \in PassIds /\ Descends(p) /\ Reasoned(p)
    BY <1>4, <1>6, LineageParts DEF Used
  <2>2. Descends(p)'
    BY <1>1, <1>2, <1>4, <1>5, <2>1, DescentKept
  <2>3. ASSUME p = i PROVE Reasoned(p)'
    <3>1. NextStatus(req[r].op) = "NOT_APPROVED" => req[r].op = "REJECT"
      BY <1>1 DEF NextStatus
    <3> QED
      BY <1>2, <2>3, <3>1 DEF Reasoned
  <2>4. ASSUME p # i PROVE Reasoned(p)'
    BY <1>1, <2>1, <2>4 DEF Reasoned
  <2> QED
    BY <2>2, <2>3, <2>4
<1> QED
  BY <1>6, LineageParts DEF LineageInv, RevisionLineage, Descends, Reasoned

LEMMA LineageEdit ==
  ASSUME Inv, LineageInv, NEW r \in Requests, CommitEdit(r)
  PROVE  LineageInv'
<1> DEFINE i == req[r].target
           d == req[r].draft
<1>1. /\ i \in Used /\ i \in PassIds /\ gatePasses[i] \in Row
      /\ gatePasses[i].status = "DRAFT"
      /\ gatePasses'[i] = Rewritten(gatePasses[i], d)
      /\ \A q \in PassIds \ {i} : gatePasses'[q] = gatePasses[q]
  BY EditFacts
<1>2. /\ gatePasses'[i].status = "DRAFT"
      /\ gatePasses'[i].revisionOf = gatePasses[i].revisionOf
      /\ gatePasses'[i].revisionNo = gatePasses[i].revisionNo
  BY <1>1 DEF Rewritten, Row
<1>3. Used' = Used
  BY <1>1, <1>2 DEF Used
<1>4. \A o \in Used : gatePasses[o].status = "NOT_APPROVED"
                    => gatePasses'[o] = gatePasses[o]
  BY <1>1 DEF Used
<1>5. ASSUME NEW p \in Used' PROVE Descends(p)' /\ Reasoned(p)'
  <2>1. p \in Used /\ p \in PassIds /\ Descends(p) /\ Reasoned(p)
    BY <1>3, <1>5, LineageParts DEF Used
  <2>2. Descends(p)'
    BY <1>1, <1>2, <1>3, <1>4, <2>1, DescentKept
  <2>3. Reasoned(p)'
    BY <1>1, <1>2, <2>1 DEF Reasoned
  <2> QED
    BY <2>2, <2>3
<1> QED
  BY <1>5 DEF LineageInv, RevisionLineage, Descends, Reasoned

LEMMA LineageInsert ==
  ASSUME Inv, LineageInv, NEW r \in Requests, CommitInsert(r)
  PROVE  LineageInv'
<1>0. PICK i \in PassIds, o \in PassIds \cup {NoPass} :
        i = req[r].fresh /\ o = req[r].target
  BY InsertFacts DEF Request
<1>1. /\ req[r] \in Request /\ req[r].pc = "write" /\ req[r].op \in Inserting
      /\ i \in PassIds \ Used
      /\ gatePasses'[i] = Inserted(r)
      /\ \A q \in PassIds \ {i} : gatePasses'[q] = gatePasses[q]
  BY <1>0, InsertFacts
<1>2. /\ gatePasses'[i].status = "DRAFT"
      /\ gatePasses'[i].revisionOf = o
      /\ gatePasses'[i].revisionNo = IF req[r].op = "CREATE_REVISION"
                                     THEN req[r].seen.revisionNo + 1 ELSE 0
  BY <1>0, <1>1 DEF Inserted, NoRow
<1>3. Used' = Used \cup {i}
  BY <1>1, <1>2 DEF Used
<1>4. \A q \in Used : gatePasses'[q] = gatePasses[q]
  BY <1>1 DEF Used
<1>5. ASSUME req[r].op = "CREATE_DRAFT" PROVE Descends(i)'
  <2>1. o = NoPass
    BY <1>0, <1>1, <1>5 DEF Inv, RequestsWellFormed, WellFormed
  <2> QED
    BY <1>2, <1>5, <2>1 DEF Descends
<1>6. ASSUME req[r].op = "CREATE_REVISION" PROVE Descends(i)'
  <2>1. /\ o \in Used /\ o \in PassIds
        /\ req[r].seen = Context(gatePasses[o])
        /\ gatePasses[o].status = "NOT_APPROVED"
    BY <1>0, <1>1, <1>6, AtWrite DEF Allows, MayRevise
  <2>2. req[r].seen.revisionNo = gatePasses[o].revisionNo
    BY <2>1 DEF Context
  <2>3. gatePasses[o].rejected /\ gatePasses'[o] = gatePasses[o]
    BY <1>4, <2>1, LineageParts DEF Reasoned
  <2>4. o # NoPass /\ o # i /\ o \in Used'
    BY <1>1, <1>3, <2>1, NamesAssumption
  <2> QED
    BY <1>2, <1>6, <2>1, <2>2, <2>3, <2>4 DEF Descends
<1>7. Descends(i)'
  BY <1>1, <1>5, <1>6 DEF Inserting
<1>8. ASSUME NEW p \in Used' PROVE Descends(p)' /\ Reasoned(p)'
  <2>1. CASE p = i
    BY <1>2, <1>7, <2>1 DEF Reasoned
  <2>2. CASE p # i
    <3>1. p \in Used /\ Descends(p) /\ Reasoned(p) /\ gatePasses'[p] = gatePasses[p]
      BY <1>3, <1>4, <1>8, <2>2, LineageParts
    <3>2. Descends(p)'
      BY <1>3, <1>4, <3>1, DescentKept
    <3> QED
      BY <3>1, <3>2 DEF Reasoned
  <2> QED
    BY <2>1, <2>2
<1> QED
  BY <1>8 DEF LineageInv, RevisionLineage, Descends, Reasoned

LEMMA LineageNext == Inv /\ LineageInv /\ [Next]_vars => LineageInv'
<1> SUFFICES ASSUME Inv, LineageInv, [Next]_vars PROVE LineageInv'
  OBVIOUS
<1>1. CASE UNCHANGED tables
  BY <1>1 DEF tables, LineageInv, RevisionLineage, Used
<1> QED
  BY <1>1, TablesMove, LineageTransition, LineageEdit, LineageInsert

(* A revision points to a pass that was rejected for a reason and stays    *)
(* rejected, whatever requests revise it or work on it at the same time.   *)
THEOREM LineageHolds == Spec => []RevisionLineage
<1>1. Init => LineageInv
  BY DEF Init, LineageInv, RevisionLineage, Used, NoRow
<1>2. LineageInv => RevisionLineage
  BY DEF LineageInv
<1> QED
  BY <1>1, <1>2, LineageNext, Invariance, PTL DEF Spec

-----------------------------------------------------------------------------
(* Pass numbers have no gap and no double.                                 *)

(* A request that has drawn a number holds its counter until it ends, and  *)
(* one that has inserted its row holds the label in the unique index.      *)
Drawn(r) == req[r].fresh # NoPass /\ req[r].pc \in {"insert", "write"}

Placed(r) == req[r].fresh # NoPass /\ req[r].pc = "write"

CounterHeld(r) ==
  Drawn(r) => /\ seqLock[InsertScope(r)] = r
              /\ req[r].number = seq[InsertScope(r)] + 1

LabelNew(r) ==
  Placed(r) =>
    /\ PassNumber(r) \notin Labels
    /\ \A s \in Requests \ {r} : Placed(s) => PassNumber(s) # PassNumber(r)

NumbersInv ==
  /\ NumbersGapless
  /\ \A r \in Requests : CounterHeld(r) /\ LabelNew(r)

(* A step of request r that leaves the numbers of the register alone.      *)
LEMMA NumbersKept ==
  ASSUME Inv, NumbersInv, NEW r \in Requests,
         \A s \in Requests \ {r} : req'[s] = req[s],
         \A k \in Scopes, s \in Requests \ {r} :
           seqLock[k] = s => seqLock'[k] = s,
         Used' = Used, seq' = seq,
         \A p \in Used : gatePasses'[p].passNo = gatePasses[p].passNo,
         CounterHeld(r)', LabelNew(r)'
  PROVE  NumbersInv'
<1>1. Labels' = Labels
  BY DEF Labels
<1>2. NumbersGapless'
  BY <1>1 DEF NumbersInv, NumbersGapless
<1>3. ASSUME NEW s \in Requests \ {r} PROVE CounterHeld(s)' /\ LabelNew(s)'
  <2>1. /\ req'[s] = req[s] /\ InsertScope(s)' = InsertScope(s)
        /\ PassNumber(s)' = PassNumber(s)
        /\ Drawn(s)' <=> Drawn(s)
        /\ Placed(s)' <=> Placed(s)
    BY DEF InsertScope, PassNumber, Drawn, Placed
  <2>2. InsertScope(s) \in Scopes
    BY DraftType, ScopesAssumption DEF InsertScope, Inv, TypeOK, Request
  <2>3. CounterHeld(s)'
    BY <2>1, <2>2 DEF NumbersInv, CounterHeld
  <2>4. ASSUME Placed(s), NEW t \in Requests \ {s}, Placed(t)'
        PROVE  PassNumber(t)' # PassNumber(s)'
    <3>1. CASE t = r
      BY <2>1, <2>4, <3>1 DEF LabelNew
    <3>2. CASE t # r
      <4>1. Placed(t) /\ PassNumber(t)' = PassNumber(t)
        BY <2>4, <3>2 DEF Placed, PassNumber, InsertScope
      <4> QED
        BY <2>1, <2>4, <4>1 DEF NumbersInv, LabelNew
    <3> QED
      BY <3>1, <3>2
  <2>5. Placed(s) => PassNumber(s) \notin Labels
    BY DEF NumbersInv, LabelNew
  <2>6. LabelNew(s)'
    BY <1>1, <2>1, <2>4, <2>5 DEF LabelNew
  <2> QED
    BY <2>3, <2>6
<1> QED
  BY <1>2, <1>3 DEF NumbersInv

(* Request r holds no number after the step.                               *)
LEMMA NumbersReleased ==
  ASSUME Inv, NumbersInv, NEW r \in Requests,
         \A s \in Requests \ {r} : req'[s] = req[s],
         \/ req'[r].fresh = NoPass
         \/ req'[r].pc \in {"idle", "lock", "check", "number"},
         \A k \in Scopes, s \in Requests \ {r} :
           seqLock[k] = s => seqLock'[k] = s,
         Used' = Used, seq' = seq,
         \A p \in Used : gatePasses'[p].passNo = gatePasses[p].passNo
  PROVE  NumbersInv'
<1>1. CounterHeld(r)' /\ LabelNew(r)'
  BY DEF CounterHeld, LabelNew, Drawn, Placed
<1> QED
  BY <1>1, NumbersKept

LEMMA NumbersReceive ==
  ASSUME Inv, NumbersInv, NEW r \in Requests, Receive(r) PROVE NumbersInv'
<1>1. /\ UNCHANGED tables /\ UNCHANGED locks
      /\ \A s \in Requests \ {r} : req'[s] = req[s]
  BY DEF Receive, ReceiveCreate, ReceiveRevision, ReceiveEdit, ReceiveWorkflow,
         Inv, TypeOK
<1>2. req \in [Requests -> Request]
  BY DEF Inv, TypeOK
<1>3. ASSUME NEW u, NEW d, NEW submit, ReceiveCreate(r, u, d, submit)
      PROVE  req'[r].pc = "number"
  BY <1>2, <1>3 DEF ReceiveCreate, Idle
<1>4. ASSUME NEW u, NEW d, NEW p,
             ReceiveRevision(r, u, d, p) \/ ReceiveEdit(r, u, d, p)
      PROVE  req'[r].pc = "lock"
  <2>1. CASE ReceiveRevision(r, u, d, p)
    BY <1>2, <2>1 DEF ReceiveRevision, Idle
  <2>2. CASE ReceiveEdit(r, u, d, p)
    BY <1>2, <2>2 DEF ReceiveEdit, Idle
  <2>3. QED BY <1>4, <2>1, <2>2
<1>5. ASSUME NEW u, NEW a, NEW p, NEW reason, ReceiveWorkflow(r, u, a, p, reason)
      PROVE  req'[r].pc = "lock"
  BY <1>2, <1>5 DEF ReceiveWorkflow, Idle
<1>6. req'[r].pc \in {"lock", "number"}
  BY <1>3, <1>4, <1>5 DEF Receive
<1> QED
  BY <1>1, <1>6, NumbersReleased DEF tables, locks, Used

LEMMA NumbersRollback ==
  ASSUME Inv, NumbersInv, NEW r \in Requests, Rollback(r) PROVE NumbersInv'
<1>1. /\ UNCHANGED tables
      /\ \A s \in Requests \ {r} : req'[s] = req[s]
      /\ req'[r] = Idle
      /\ \A k \in Scopes, s \in Requests \ {r} :
           seqLock[k] = s => seqLock'[k] = s
  BY DEF Rollback, ReleaseLocks, Inv, TypeOK
<1> QED
  BY <1>1, IdleWellFormed, NumbersReleased DEF tables, Used

LEMMA NumbersLock ==
  ASSUME Inv, NumbersInv, NEW r \in Requests, LockRow(r) \/ Permit(r)
  PROVE  NumbersInv'
<1>1. /\ UNCHANGED tables /\ seqLock' = seqLock
      /\ \A s \in Requests \ {r} : req'[s] = req[s]
  BY DEF LockRow, Permit, locks, Inv, TypeOK
<1>2. req[r] \in Request /\ WellFormed(req[r])
  BY DEF Inv, TypeOK, RequestsWellFormed
<1>3. CASE LockRow(r)
  <2>1. req'[r].pc = "check"
    BY <1>3 DEF LockRow, Inv, TypeOK, Request
  <2> QED
    BY <1>1, <2>1, NumbersReleased DEF tables, Used
<1>4. CASE Permit(r)
  <2>1. \/ req'[r].pc = "number"
        \/ req'[r].fresh = req[r].fresh /\ req[r].op # "CREATE_REVISION"
    BY <1>4 DEF Permit, Inv, TypeOK, Request
  <2>2. req[r].op # "CREATE_REVISION" => req[r].fresh = NoPass
    BY <1>2, <1>4 DEF Permit, WellFormed, Inserting
  <2> QED
    BY <1>1, <2>1, <2>2, NumbersReleased DEF tables, Used
<1> QED
  BY <1>3, <1>4

LEMMA NumbersNext ==
  ASSUME Inv, NumbersInv, NEW r \in Requests, NextNumber(r) PROVE NumbersInv'
<1> DEFINE k == InsertScope(r)
<1>1. /\ req[r] \in Request /\ req[r].pc = "number"
      /\ seqLock[k] = Free
      /\ seqLock' = [seqLock EXCEPT ![k] = r]
      /\ req' = [req EXCEPT ![r].pc = "insert", ![r].number = seq[k] + 1]
      /\ UNCHANGED tables
  BY DEF NextNumber, Inv, TypeOK
<1>2. k \in Scopes
  BY <1>1, DraftType, ScopesAssumption DEF InsertScope, Request
<1>3. /\ \A s \in Requests \ {r} : req'[s] = req[s]
      /\ req'[r].pc = "insert" /\ req'[r].number = seq[k] + 1
      /\ req'[r].draft = req[r].draft
  BY <1>1 DEF Inv, TypeOK, Request
<1>4. \A j \in Scopes, s \in Requests \ {r} : seqLock[j] = s => seqLock'[j] = s
  BY <1>1, NamesAssumption DEF Inv, TypeOK
<1>5. CounterHeld(r)'
  <2>1. InsertScope(r)' = k
    BY <1>3 DEF InsertScope
  <2>2. seqLock'[k] = r /\ seq' = seq
    BY <1>1, <1>2 DEF Inv, TypeOK, tables
  <2> QED
    BY <1>3, <2>1, <2>2 DEF CounterHeld
<1>6. LabelNew(r)'
  BY <1>3 DEF LabelNew, Placed
<1> QED
  BY <1>1, <1>3, <1>4, <1>5, <1>6, NumbersKept DEF tables, Used

LEMMA NumbersInsert ==
  ASSUME Inv, NumbersInv, NEW r \in Requests, Insert(r) PROVE NumbersInv'
<1>1. /\ req[r] \in Request /\ req[r].pc = "insert"
      /\ PassNumber(r) \notin Labels /\ ~LabelPending(r)
      /\ req' = [req EXCEPT ![r].pc = "write"]
      /\ UNCHANGED tables /\ UNCHANGED locks
  BY DEF Insert, Inv, TypeOK
<1>2. /\ \A s \in Requests \ {r} : req'[s] = req[s]
      /\ req'[r].number = req[r].number /\ req'[r].draft = req[r].draft
      /\ req'[r].fresh = req[r].fresh
  BY <1>1 DEF Inv, TypeOK, Request
<1>3. PassNumber(r)' = PassNumber(r) /\ InsertScope(r)' = InsertScope(r)
  BY <1>2 DEF PassNumber, InsertScope
<1>4. CounterHeld(r)'
  BY <1>1, <1>2, <1>3 DEF NumbersInv, CounterHeld, Drawn, tables, locks
<1>5. Labels' = Labels
  BY <1>1 DEF Labels, Used, tables
<1>6. ASSUME NEW s \in Requests \ {r}, Placed(s)'
      PROVE  PassNumber(s)' # PassNumber(r)'
  <2>1. Placed(s) /\ PassNumber(s)' = PassNumber(s)
    BY <1>2, <1>6 DEF Placed, PassNumber, InsertScope
  <2> QED
    BY <1>1, <1>3, <2>1 DEF LabelPending, HoldsLabelOf, Placed
<1>7. LabelNew(r)'
  BY <1>1, <1>3, <1>5, <1>6 DEF LabelNew
<1> QED
  BY <1>1, <1>2, <1>4, <1>7, NumbersKept DEF tables, locks, Used

LEMMA NumbersTransition ==
  ASSUME Inv, NumbersInv, NEW r \in Requests, CommitTransition(r)
  PROVE  NumbersInv'
<1> DEFINE i == req[r].target
<1>1. /\ req[r] \in Request /\ req[r].op \in Workflow
      /\ i \in Used /\ i \in PassIds /\ gatePasses[i] \in Row
      /\ gatePasses'[i] = Applied(gatePasses[i], r)
      /\ \A q \in PassIds \ {i} : gatePasses'[q] = gatePasses[q]
      /\ seq' = seq
  BY TransitionFacts
<1>2. /\ gatePasses'[i].status = NextStatus(req[r].op)
      /\ gatePasses'[i].passNo = gatePasses[i].passNo
  BY <1>1, AppliedColumns, AppliedRest
<1>3. Used' = Used
  BY <1>1, <1>2, NextStatusType DEF Used
<1>4. \A p \in Used : gatePasses'[p].passNo = gatePasses[p].passNo
  BY <1>1, <1>2 DEF Used
<1>5. /\ ReleaseLocks(r) /\ req'[r] = Idle
      /\ \A s \in Requests \ {r} : req'[s] = req[s]
  BY DEF CommitTransition, Inv, TypeOK
<1>6. \A k \in Scopes, s \in Requests \ {r} : seqLock[k] = s => seqLock'[k] = s
  BY <1>5 DEF ReleaseLocks, Inv, TypeOK
<1> QED
  BY <1>1, <1>3, <1>4, <1>5, <1>6, IdleWellFormed, NumbersReleased

LEMMA NumbersEdit ==
  ASSUME Inv, NumbersInv, NEW r \in Requests, CommitEdit(r)
  PROVE  NumbersInv'
<1> DEFINE i == req[r].target
           d == req[r].draft
<1>1. /\ i \in Used /\ i \in PassIds /\ gatePasses[i] \in Row
      /\ gatePasses[i].status = "DRAFT"
      /\ gatePasses'[i] = Rewritten(gatePasses[i], d)
      /\ \A q \in PassIds \ {i} : gatePasses'[q] = gatePasses[q]
      /\ seq' = seq
  BY EditFacts
<1>2. /\ gatePasses'[i].status = "DRAFT"
      /\ gatePasses'[i].passNo = gatePasses[i].passNo
  BY <1>1 DEF Rewritten, Row
<1>3. Used' = Used
  BY <1>1, <1>2 DEF Used
<1>4. \A p \in Used : gatePasses'[p].passNo = gatePasses[p].passNo
  BY <1>1, <1>2 DEF Used
<1>5. /\ ReleaseLocks(r) /\ req'[r] = Idle
      /\ \A s \in Requests \ {r} : req'[s] = req[s]
  BY DEF CommitEdit, Inv, TypeOK
<1>6. \A k \in Scopes, s \in Requests \ {r} : seqLock[k] = s => seqLock'[k] = s
  BY <1>5 DEF ReleaseLocks, Inv, TypeOK
<1> QED
  BY <1>1, <1>3, <1>4, <1>5, <1>6, IdleWellFormed, NumbersReleased

(* The insert fills the next number of its scope: the labels grow by one,  *)
(* which was not there, and no other request holds that counter or label.  *)
LEMMA NumbersCommit ==
  ASSUME Inv, NumbersInv, NEW r \in Requests, CommitInsert(r)
  PROVE  NumbersInv'
<1>a. PICK i \in PassIds, k \in Scopes : i = req[r].fresh /\ k = InsertScope(r)
  BY InsertFacts, DraftType, ScopesAssumption DEF InsertScope
<1>b. PICK l : l = PassNumber(r)
  OBVIOUS
<1>0. i = req[r].fresh /\ k = InsertScope(r) /\ l = PassNumber(r)
  BY <1>a, <1>b
<1>1. /\ Placed(r) /\ Drawn(r)
      /\ req[r].op \in Inserting
      /\ i \notin Used
      /\ gatePasses'[i] = Inserted(r) /\ Inserted(r).status = "DRAFT"
      /\ \A q \in PassIds \ {i} : gatePasses'[q] = gatePasses[q]
      /\ seq' = [seq EXCEPT ![k] = req[r].number]
  BY <1>0, InsertFacts DEF Placed, Drawn
<1>2. /\ req[r].number = seq[k] + 1 /\ seqLock[k] = r
      /\ l \notin Labels
      /\ \A s \in Requests \ {r} : Placed(s) => PassNumber(s) # l
  BY <1>0, <1>1 DEF NumbersInv, CounterHeld, LabelNew
<1>3. seq[k] \in Nat /\ seq'[k] = seq[k] + 1 /\ l = Label(k, seq[k] + 1)
      /\ \A j \in Scopes \ {k} : seq'[j] = seq[j]
  BY <1>0, <1>1, <1>2 DEF Inv, TypeOK, PassNumber
<1>4. gatePasses'[i].status = "DRAFT" /\ gatePasses'[i].passNo = l
  BY <1>0, <1>1 DEF Inserted, NoRow
<1>5. Used' = Used \cup {i}
  BY <1>1, <1>4 DEF Used
<1>6. \A p \in Used : gatePasses'[p].passNo = gatePasses[p].passNo /\ p # i
  BY <1>1 DEF Used
<1>7. Labels' = Labels \cup {l}
  BY <1>4, <1>5, <1>6 DEF Labels
<1>8. NumbersGapless'
  <2> DEFINE Issued(s) == {Label(s, n) : n \in 1..seq[s]}
             Issued1(s) == {Label(s, n) : n \in 1..seq'[s]}
  <2>1. Issued1(k) = Issued(k) \cup {l}
    <3>1. 1..(seq[k] + 1) = (1..seq[k]) \cup {seq[k] + 1}
      BY <1>3
    <3> QED
      BY <1>3, <3>1
  <2>2. \A j \in Scopes \ {k} : Issued1(j) = Issued(j)
    BY <1>3
  <2>3. Labels = UNION {Issued(s) : s \in Scopes}
    BY DEF NumbersInv, NumbersGapless
  <2> HIDE DEF Issued, Issued1
  <2>4. UNION {Issued1(s) : s \in Scopes}
          = (UNION {Issued(s) : s \in Scopes}) \cup {l}
    BY <2>1, <2>2
  <2>5. Labels' = UNION {Issued1(s) : s \in Scopes}
    BY <1>7, <2>3, <2>4
  <2>6. ASSUME NEW p \in Used', NEW q \in Used',
               gatePasses'[p].passNo = gatePasses'[q].passNo
        PROVE  p = q
    <3>1. \A u \in Used : gatePasses[u].passNo # l
      BY <1>2 DEF Labels
    <3>2. \A u, v \in Used : gatePasses[u].passNo = gatePasses[v].passNo => u = v
      BY DEF NumbersInv, NumbersGapless
    <3> QED
      BY <1>4, <1>5, <1>6, <2>6, <3>1, <3>2
  <2> QED
    BY <2>5, <2>6 DEF NumbersGapless, Issued1
<1>9. /\ ReleaseLocks(r) /\ req'[r] = AfterInsert(r)
      /\ \A s \in Requests \ {r} : req'[s] = req[s]
  BY DEF CommitInsert, Inv, TypeOK
<1>10. CounterHeld(r)' /\ LabelNew(r)'
  <2>1. AfterInsert(r).fresh = NoPass
    BY DEF AfterInsert, Idle
  <2> QED
    BY <1>9, <2>1 DEF CounterHeld, LabelNew, Drawn, Placed
<1>11. ASSUME NEW s \in Requests \ {r} PROVE CounterHeld(s)' /\ LabelNew(s)'
  <2>1. /\ req'[s] = req[s] /\ InsertScope(s)' = InsertScope(s)
        /\ PassNumber(s)' = PassNumber(s)
        /\ Drawn(s)' <=> Drawn(s)
        /\ Placed(s)' <=> Placed(s)
    BY <1>9 DEF InsertScope, PassNumber, Drawn, Placed
  <2>2. InsertScope(s) \in Scopes
    BY DraftType, ScopesAssumption DEF InsertScope, Inv, TypeOK, Request
  <2>3. Drawn(s) => /\ seqLock[InsertScope(s)] = s /\ InsertScope(s) # k
                    /\ req[s].number = seq[InsertScope(s)] + 1
    BY <1>2 DEF NumbersInv, CounterHeld
  <2>4. Drawn(s) => seqLock'[InsertScope(s)] = s
    BY <1>9, <2>2, <2>3 DEF ReleaseLocks
  <2>5. CounterHeld(s)'
    BY <1>3, <2>1, <2>2, <2>3, <2>4 DEF CounterHeld
  <2>6. ASSUME Placed(s), NEW t \in Requests \ {s}, Placed(t)'
        PROVE  PassNumber(t)' # PassNumber(s)'
    <3>1. t # r /\ Placed(t) /\ PassNumber(t)' = PassNumber(t)
      <4>1. AfterInsert(r).fresh = NoPass
        BY DEF AfterInsert, Idle
      <4>2. t # r
        BY <1>9, <2>6, <4>1 DEF Placed
      <4> QED
        BY <1>9, <2>6, <4>2 DEF Placed, PassNumber, InsertScope
    <3> QED
      BY <2>1, <2>6, <3>1 DEF NumbersInv, LabelNew
  <2>7. Placed(s) => PassNumber(s) \notin Labels /\ PassNumber(s) # l
    BY <1>2 DEF NumbersInv, LabelNew
  <2>8. LabelNew(s)'
    BY <1>7, <2>1, <2>6, <2>7 DEF LabelNew
  <2> QED
    BY <2>5, <2>8
<1> QED
  BY <1>8, <1>10, <1>11 DEF NumbersInv

LEMMA NumbersNothing ==
  ASSUME Inv, NumbersInv, Crash \/ UNCHANGED vars PROVE NumbersInv'
<1>1. UNCHANGED tables
  BY DEF Crash, vars, tables
<1>2. NumbersGapless'
  BY <1>1 DEF NumbersInv, NumbersGapless, Labels, Used, tables
<1>3. CASE Crash
  <2>1. \A r \in Requests : req'[r] = Idle
    BY <1>3 DEF Crash
  <2> QED
    BY <1>2, <2>1, IdleWellFormed
    DEF NumbersInv, CounterHeld, LabelNew, Drawn, Placed
<1>4. CASE UNCHANGED vars
  BY <1>2, <1>4
  DEF NumbersInv, CounterHeld, LabelNew, Drawn, Placed, InsertScope, PassNumber,
      Labels, Used, vars
<1> QED
  BY <1>3, <1>4

LEMMA NumbersStep == Inv /\ NumbersInv /\ [Next]_vars => NumbersInv'
<1> SUFFICES ASSUME Inv, NumbersInv, [Next]_vars PROVE NumbersInv'
  OBVIOUS
<1>1. ASSUME NEW r \in Requests, Advance(r) PROVE NumbersInv'
  BY <1>1, NumbersLock, NumbersRollback, NumbersNext, NumbersInsert,
     NumbersTransition, NumbersEdit, NumbersCommit
  DEF Advance, Refuse, StatementFails
<1>2. ASSUME NEW r \in Requests, Receive(r) \/ Cancel(r) PROVE NumbersInv'
  BY <1>2, NumbersReceive, NumbersRollback DEF Cancel
<1> QED
  BY <1>1, <1>2, NumbersNothing DEF Next

LEMMA NumbersStart == Init => NumbersInv
<1> SUFFICES ASSUME Init PROVE NumbersInv
  OBVIOUS
<1>1. Used = {} /\ Labels = {}
  BY DEF Init, Used, Labels, NoRow
<1>2. \A s \in Scopes : 1..seq[s] = {}
  BY DEF Init
<1>3. NumbersGapless
  BY <1>1, <1>2 DEF NumbersGapless
<1> QED
  BY <1>3, IdleWellFormed
  DEF Init, NumbersInv, CounterHeld, LabelNew, Drawn, Placed

(* The numbers in the register are 1 to current_number of each scope, one  *)
(* pass each, whatever transactions collided, failed or crashed.           *)
THEOREM NumbersHold == Spec => []NumbersGapless
<1>1. NumbersInv => NumbersGapless
  BY DEF NumbersInv
<1> QED
  BY <1>1, NumbersStart, NumbersStep, Invariance, PTL DEF Spec

(* The collisions of AllocatedNumberIsNew have two causes and no other:    *)
(* scopes that write the same text, and numbers lpad cuts.  Without them   *)
(* the number a request has drawn is on no pass, for any number of         *)
(* concurrent drawings, failures and crashes.                              *)
THEOREM NumbersNewWithin ==
  ASSUME \A k, l \in Scopes : PrefixOf[k] = PrefixOf[l] => k = l
  PROVE  Spec => []((\A k \in Scopes : seq[k] < PadLimit) => AllocatedNumberIsNew)
<1>1. Inv /\ NumbersInv
        => ((\A k \in Scopes : seq[k] < PadLimit) => AllocatedNumberIsNew)
  <2> SUFFICES ASSUME Inv, NumbersInv, \A k \in Scopes : seq[k] < PadLimit,
                      NEW r \in Requests, req[r].pc = "insert",
                      PassNumber(r) \in Labels
               PROVE  FALSE
    BY DEF AllocatedNumberIsNew
  <2> DEFINE k == InsertScope(r)
  <2>1. /\ req[r] \in Request /\ k \in Scopes /\ seq \in [Scopes -> Nat]
        /\ WellFormed(req[r])
    BY DraftType, ScopesAssumption
    DEF Inv, TypeOK, RequestsWellFormed, InsertScope, Request
  <2>2. req[r].number = seq[k] + 1
    BY <2>1, NamesAssumption DEF WellFormed, NumbersInv, CounterHeld, Drawn
  <2>3. PICK l \in Scopes : \E n \in 1..seq[l] : Label(k, seq[k] + 1) = Label(l, n)
    BY <2>2 DEF NumbersInv, NumbersGapless, PassNumber
  <2>4. PICK n \in 1..seq[l] : Label(k, seq[k] + 1) = Label(l, n)
    BY <2>3
  <2>5. l = k /\ Lpad(seq[k] + 1) = Lpad(n)
    BY <2>1, <2>4 DEF Label
  <2>6. seq[k] + 1 <= PadLimit /\ n <= PadLimit /\ n # seq[k] + 1
    BY <2>1, <2>5, <2>4, NumbersAssumption
  <2> QED BY <2>5, <2>6 DEF Lpad
<1> QED
  BY <1>1, NumbersStart, NumbersStep, Invariance, PTL DEF Spec

-----------------------------------------------------------------------------
(* Nobody waits in a circle.                                               *)

(* A request has the lock of a row from its FOR UPDATE to its end, the     *)
(* lock of a counter from its number to its end, and no other.             *)
LocksOwned(r) ==
  /\ \A p \in PassIds : rowLock[p] = r => Holding(r) /\ req[r].target = p
  /\ \A k \in Scopes : seqLock[k] = r => Drawn(r) /\ InsertScope(r) = k

LocksInv == \A r \in Requests : LocksOwned(r)

(* A step of request r.                                                    *)
LEMMA LocksKept ==
  ASSUME LocksInv, NEW r \in Requests, LocksOwned(r)',
         \A s \in Requests \ {r} : req'[s] = req[s],
         \A p \in PassIds, s \in Requests \ {r} :
           rowLock'[p] = s => rowLock[p] = s,
         \A k \in Scopes, s \in Requests \ {r} :
           seqLock'[k] = s => seqLock[k] = s
  PROVE  LocksInv'
<1> SUFFICES ASSUME NEW s \in Requests \ {r} PROVE LocksOwned(s)'
  BY DEF LocksInv
<1>1. LocksOwned(s)
  BY DEF LocksInv
<1>2. /\ Holding(s)' <=> Holding(s)
      /\ Drawn(s)' <=> Drawn(s)
      /\ InsertScope(s)' = InsertScope(s)
      /\ req'[s].target = req[s].target
  BY DEF Holding, Drawn, InsertScope
<1> QED
  BY <1>1, <1>2 DEF LocksOwned

(* Whoever ends a transaction has no lock.                                 *)
LEMMA LocksLeft ==
  ASSUME Inv, LocksInv, NEW r \in Requests, ReleaseLocks(r),
         \A s \in Requests \ {r} : req'[s] = req[s]
  PROVE  LocksInv'
<1>1. /\ \A p \in PassIds : rowLock'[p] = IF rowLock[p] = r THEN Free ELSE rowLock[p]
      /\ \A k \in Scopes : seqLock'[k] = IF seqLock[k] = r THEN Free ELSE seqLock[k]
  BY DEF ReleaseLocks
<1>2. LocksOwned(r)'
  BY <1>1, NamesAssumption DEF LocksOwned
<1>3. \A s \in Requests \ {r} : s # Free
  BY NamesAssumption
<1> QED
  BY <1>1, <1>2, <1>3, LocksKept

LEMMA LocksReceive ==
  ASSUME Inv, LocksInv, NEW r \in Requests, Receive(r) PROVE LocksInv'
<1>1. /\ UNCHANGED locks /\ req[r].pc = "idle"
      /\ \A s \in Requests \ {r} : req'[s] = req[s]
  BY DEF Receive, ReceiveCreate, ReceiveRevision, ReceiveEdit, ReceiveWorkflow,
         Inv, TypeOK
<1>2. LocksOwned(r)'
  BY <1>1 DEF LocksInv, LocksOwned, Holding, Drawn, locks
<1> QED
  BY <1>1, <1>2, LocksKept DEF locks

(* The statements that go on without ending the transaction.               *)
LEMMA LocksTaken ==
  ASSUME Inv, LocksInv, NEW r \in Requests,
         LockRow(r) \/ Permit(r) \/ NextNumber(r) \/ Insert(r)
  PROVE  LocksInv'
<1>1. /\ req[r] \in Request /\ WellFormed(req[r]) /\ LocksOwned(r)
      /\ rowLock \in [PassIds -> Requests \cup {Free}]
      /\ seqLock \in [Scopes -> Requests \cup {Free}]
  BY DEF Inv, TypeOK, RequestsWellFormed, LocksInv
<1>2. /\ \A s \in Requests \ {r} : req'[s] = req[s]
      /\ req'[r].target = req[r].target /\ req'[r].op = req[r].op
      /\ req'[r].fresh = req[r].fresh /\ InsertScope(r)' = InsertScope(r)
  <2>1. req \in [Requests -> Request]
    BY DEF Inv, TypeOK
  <2> DEFINE same(q) == /\ q.target = req[r].target /\ q.op = req[r].op
                        /\ q.fresh = req[r].fresh /\ q.draft = req[r].draft
  <2>2. CASE LockRow(r)
    <3>1. req'[r] = [req[r] EXCEPT !.pc = "check",
                              !.seen = Context(gatePasses[req[r].target])]
      BY <2>1, <2>2 DEF LockRow
    <3>2. \A s \in Requests \ {r} : req'[s] = req[s]
      BY <2>1, <2>2 DEF LockRow
    <3>3. same(req'[r])
      BY <1>1, <3>1 DEF Request
    <3> QED BY <3>2, <3>3 DEF InsertScope
  <2>3. CASE Permit(r)
    <3>1. req'[r] = [req[r] EXCEPT !.pc =
                 IF req[r].op = "CREATE_REVISION" THEN "number" ELSE "write"]
      BY <2>1, <2>3 DEF Permit
    <3>2. \A s \in Requests \ {r} : req'[s] = req[s]
      BY <2>1, <2>3 DEF Permit
    <3>3. same(req'[r])
      BY <1>1, <3>1 DEF Request
    <3> QED BY <3>2, <3>3 DEF InsertScope
  <2>4. CASE NextNumber(r)
    <3>1. req'[r] = [req[r] EXCEPT !.pc = "insert",
                              !.number = seq[InsertScope(r)] + 1]
      BY <2>1, <2>4 DEF NextNumber
    <3>2. \A s \in Requests \ {r} : req'[s] = req[s]
      BY <2>1, <2>4 DEF NextNumber
    <3>3. same(req'[r])
      BY <1>1, <3>1 DEF Request
    <3> QED BY <3>2, <3>3 DEF InsertScope
  <2>5. CASE Insert(r)
    <3>1. req'[r] = [req[r] EXCEPT !.pc = "write"]
      BY <2>1, <2>5 DEF Insert
    <3>2. \A s \in Requests \ {r} : req'[s] = req[s]
      BY <2>1, <2>5 DEF Insert
    <3>3. same(req'[r])
      BY <1>1, <3>1 DEF Request
    <3> QED BY <3>2, <3>3 DEF InsertScope
  <2> QED BY <2>2, <2>3, <2>4, <2>5
<1>3. CASE LockRow(r)
  <2>1. /\ req[r].pc = "lock" /\ req'[r].pc = "check"
        /\ rowLock' = [rowLock EXCEPT ![req[r].target] = r] /\ seqLock' = seqLock
    BY <1>3 DEF LockRow, Inv, TypeOK, Request
  <2>2. Holding(r)'
    BY <1>1, <1>2, <2>1 DEF Holding, WellFormed
  <2>3. LocksOwned(r)'
    BY <1>1, <1>2, <2>1, <2>2 DEF LocksOwned, Holding, Drawn
  <2> QED
    BY <1>1, <1>2, <2>1, <2>3, LocksKept
<1>4. CASE Permit(r)
  <2>1. /\ req[r].pc = "check" /\ req'[r].pc \in {"number", "write"}
        /\ rowLock' = rowLock /\ seqLock' = seqLock
    BY <1>4 DEF Permit, locks, Inv, TypeOK, Request
  <2>2. LocksOwned(r)'
    BY <1>1, <1>2, <2>1 DEF LocksOwned, Holding, Drawn
  <2> QED
    BY <1>2, <2>1, <2>2, LocksKept
<1>5. CASE NextNumber(r)
  <2>1. /\ req[r].pc = "number" /\ req'[r].pc = "insert" /\ rowLock' = rowLock
        /\ seqLock' = [seqLock EXCEPT ![InsertScope(r)] = r]
    BY <1>5 DEF NextNumber, Inv, TypeOK, Request
  <2>2. Drawn(r)'
    BY <1>1, <1>2, <2>1, NamesAssumption DEF Drawn, WellFormed
  <2>3. \A p \in PassIds : rowLock'[p] = r => Holding(r)' /\ req'[r].target = p
    BY <1>1, <1>2, <2>1 DEF LocksOwned, Holding
  <2>4. \A k \in Scopes : seqLock'[k] = r => InsertScope(r)' = k
    BY <1>1, <1>2, <2>1 DEF LocksOwned, Drawn
  <2> QED
    <3>1. LocksOwned(r)'
      BY <2>2, <2>3, <2>4 DEF LocksOwned
    <3> QED
      BY <1>1, <1>2, <2>1, <3>1, LocksKept
<1>6. CASE Insert(r)
  <2>1. /\ req[r].pc = "insert" /\ req'[r].pc = "write"
        /\ rowLock' = rowLock /\ seqLock' = seqLock
    BY <1>6 DEF Insert, locks, Inv, TypeOK, Request
  <2>2. LocksOwned(r)'
    BY <1>1, <1>2, <2>1 DEF LocksOwned, Holding, Drawn
  <2> QED
    BY <1>2, <2>1, <2>2, LocksKept
<1> QED
  BY <1>3, <1>4, <1>5, <1>6

LEMMA LocksNext == Inv /\ LocksInv /\ [Next]_vars => LocksInv'
<1> SUFFICES ASSUME Inv, LocksInv, [Next]_vars PROVE LocksInv'
  OBVIOUS
<1>1. ASSUME NEW r \in Requests, Receive(r) PROVE LocksInv'
  BY <1>1, LocksReceive
<1>2. ASSUME NEW r \in Requests, Rollback(r) PROVE LocksInv'
  <2>1. \A s \in Requests \ {r} : req'[s] = req[s]
    BY <1>2 DEF Rollback, Inv, TypeOK
  <2> QED
    BY <1>2, <2>1, LocksLeft DEF Rollback
<1>3. ASSUME NEW r \in Requests,
             CommitTransition(r) \/ CommitEdit(r) \/ CommitInsert(r)
      PROVE  LocksInv'
  <2>1. ReleaseLocks(r) /\ \A s \in Requests \ {r} : req'[s] = req[s]
    BY <1>3 DEF CommitTransition, CommitEdit, CommitInsert, Inv, TypeOK
  <2> QED
    BY <2>1, LocksLeft
<1>4. ASSUME NEW r \in Requests, Advance(r) PROVE LocksInv'
  BY <1>2, <1>3, <1>4, LocksTaken DEF Advance, Refuse, StatementFails
<1>5. ASSUME NEW r \in Requests, Cancel(r) PROVE LocksInv'
  BY <1>2, <1>5 DEF Cancel
<1>6. CASE Crash
  BY <1>6, NamesAssumption DEF Crash, LocksInv, LocksOwned
<1>7. CASE UNCHANGED vars
  BY <1>7 DEF vars, LocksInv, LocksOwned, Holding, Drawn, InsertScope
<1> QED
  BY <1>1, <1>4, <1>5, <1>6, <1>7 DEF Next

LEMMA LocksStart == Init => LocksInv
BY NamesAssumption DEF Init, LocksInv, LocksOwned

(* A request that waits for another is behind it in the order of the       *)
(* statements, so the waiting never closes a circle.                       *)
THEOREM WaitingIsOrdered == Spec => []WaitsOnward
<1>1. Inv /\ LocksInv => WaitsOnward
  <2> SUFFICES ASSUME Inv, LocksInv, NEW r \in Requests, NEW s \in Requests,
                      WaitsFor(r, s)
               PROVE  Stage(r) < Stage(s)
    BY DEF WaitsOnward
  <2>1. /\ req[r] \in Request /\ WellFormed(req[r]) /\ LocksOwned(s)
        /\ InsertScope(r) \in Scopes
    BY DraftType, ScopesAssumption
    DEF Inv, TypeOK, RequestsWellFormed, LocksInv, InsertScope, Request
  <2>2. CASE req[r].pc = "lock" /\ rowLock[req[r].target] = s
    <3>1. Holding(s)
      BY <2>1, <2>2 DEF WellFormed, Used, LocksOwned
    <3> QED
      BY <2>2, <3>1 DEF Holding, Stage
  <2>3. CASE req[r].pc = "number" /\ seqLock[InsertScope(r)] = s
    <3>1. Drawn(s)
      BY <2>1, <2>3 DEF LocksOwned
    <3> QED
      BY <2>3, <3>1 DEF Drawn, Stage
  <2>4. CASE req[r].pc = "insert" /\ HoldsLabelOf(s, r)
    BY <2>4 DEF HoldsLabelOf, Stage
  <2> QED
    BY <2>2, <2>3, <2>4 DEF WaitsFor
<1> QED
  BY <1>1, LocksStart, LocksNext, Invariance, PTL DEF Spec

(* The guards of the statements: r can go on.                              *)
CanGoOn(r) ==
  \/ req[r].pc \in {"check", "write"}
  \/ req[r].pc = "lock" /\ rowLock[req[r].target] = Free
  \/ req[r].pc = "number" /\ seqLock[InsertScope(r)] = Free
  \/ req[r].pc = "insert" /\ (PassNumber(r) \in Labels \/ ~LabelPending(r))

SomeoneGoesOn ==
  (\E r \in Requests : req[r].pc # "idle") => \E r \in Requests : CanGoOn(r)

(* While a request is open the server is never stuck: some request has the *)
(* statement in front of it free, however many wait.                       *)
THEOREM NeverStuck == Spec => []SomeoneGoesOn
<1>1. Inv /\ WaitsOnward => SomeoneGoesOn
  <2> SUFFICES ASSUME Inv, WaitsOnward, \A r \in Requests : ~CanGoOn(r),
                      NEW r0 \in Requests, req[r0].pc # "idle"
               PROVE  FALSE
    BY DEF SomeoneGoesOn
  <2>1. ASSUME NEW r \in Requests, req[r].pc # "idle"
        PROVE  \E s \in Requests : WaitsFor(r, s)
    <3>1. /\ req[r] \in Request /\ WellFormed(req[r]) /\ InsertScope(r) \in Scopes
          /\ rowLock \in [PassIds -> Requests \cup {Free}]
          /\ seqLock \in [Scopes -> Requests \cup {Free}]
      BY DraftType, ScopesAssumption
      DEF Inv, TypeOK, RequestsWellFormed, InsertScope, Request
    <3>2. req[r].pc \in {"lock", "number", "insert"}
      BY <2>1, <3>1 DEF CanGoOn, Request
    <3>3. CASE req[r].pc = "lock"
      <4>1. req[r].target \in PassIds /\ rowLock[req[r].target] # Free
        BY <3>1, <3>3 DEF WellFormed, Used, CanGoOn
      <4> QED BY <3>1, <3>3, <4>1 DEF WaitsFor
    <3>4. CASE req[r].pc = "number"
      <4>1. seqLock[InsertScope(r)] # Free
        BY <3>4 DEF CanGoOn
      <4> QED BY <3>1, <3>4, <4>1 DEF WaitsFor
    <3>5. CASE req[r].pc = "insert"
      BY <3>5 DEF CanGoOn, LabelPending, WaitsFor
    <3> QED BY <3>2, <3>3, <3>4, <3>5
  <2>2. ASSUME NEW r \in Requests, req[r].pc # "idle"
        PROVE  \E s \in Requests : req[s].pc # "idle" /\ Stage(r) < Stage(s)
    <3>1. PICK s \in Requests : WaitsFor(r, s)
      BY <2>1, <2>2
    <3>2. Stage(r) < Stage(s)
      BY <3>1 DEF WaitsOnward
    <3>3. Stage(r) \in 1..5
      BY <2>2 DEF Stage, Inv, TypeOK, Request
    <3>4. req[s].pc = "idle" => Stage(s) = 0
      BY DEF Stage
    <3> QED BY <3>2, <3>3, <3>4
  <2>3. \A r \in Requests : Stage(r) \in 0..5
    BY DEF Stage, Inv, TypeOK, Request
  <2>4. \A r \in Requests : req[r].pc # "idle" => Stage(r) < 5
    BY <2>2, <2>3
  <2>5. \A r \in Requests : req[r].pc # "idle" => Stage(r) < 4
    BY <2>2, <2>3, <2>4
  <2>6. \A r \in Requests : req[r].pc # "idle" => Stage(r) < 3
    BY <2>2, <2>3, <2>5
  <2>7. \A r \in Requests : req[r].pc # "idle" => Stage(r) < 2
    BY <2>2, <2>3, <2>6
  <2>8. \A r \in Requests : req[r].pc # "idle" => Stage(r) < 1
    BY <2>2, <2>3, <2>7
  <2> QED BY <2>2, <2>3, <2>8
<1> QED
  BY <1>1, WaitingIsOrdered, Invariance, PTL
=============================================================================
