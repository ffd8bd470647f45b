---------------------------- MODULE AuditProofs -----------------------------
(***************************************************************************)
(* The audit trail and the row of a pass agree, and duties stay separate:  *)
(* proofs of TrailIsPath, TrailNamesActors, SeparationOfDuty, SealIntact   *)
(* and FrozenAfterSubmit of GatePassStore.                                 *)
(*                                                                         *)
(* The argument is about one pass at a time: AuditOK(t, row) relates its   *)
(* trail to its row, and every commit appends one event to the trail and   *)
(* moves the row accordingly, on the row the policy has just accepted      *)
(* (PolicyHoldsAtWrite, from the invariant of GatePassStoreProofs).        *)
(***************************************************************************)
EXTENDS GatePassStoreProofs

USE DEF Roles, Statuses, PassTypes, Workflow, Drafting, Actions

-----------------------------------------------------------------------------
(* What a status says of the stages done so far; the part that makes the   *)
(* audit properties inductive.                                             *)
Reached(t, status) ==
  /\ status = "NONE" <=> t = << >>
  /\ \A i \in DOMAIN t : t[i].action \in Inserting <=> i = 1
  /\ Done(t, {"APPROVE"}) # {} => status \in {"APPROVED", "PASSED_OUT", "RETURNED"}
  /\ Done(t, {"PASS_OUT"}) # {} => status \in {"PASSED_OUT", "RETURNED"}
  /\ Done(t, {"RETURN"}) # {} => status = "RETURNED"

AuditOK(t, row) ==
  /\ Reached(t, row.status)
  /\ PathTo(t, row.status)
  /\ Named(t, row)
  /\ Separated(t)
  /\ Sealed(row)

AuditInv == \A p \in PassIds : AuditOK(trail[p], gatePasses[p])

-----------------------------------------------------------------------------
(* Appending one event.                                                    *)

LEMMA AppendFacts ==
  ASSUME NEW t \in Seq(AuditEvent), NEW e \in AuditEvent
  PROVE  LET u == Append(t, e)
             n == Len(t) + 1
         IN /\ DOMAIN u = DOMAIN t \cup {n} /\ n \notin DOMAIN t /\ n \in Nat
            /\ Len(u) = n /\ u # << >>
            /\ u[n] = e
            /\ \A i \in DOMAIN t : u[i] = t[i] /\ i < n /\ i \in 1..Len(t)
            /\ DOMAIN t = 1..Len(t)
OBVIOUS

LEMMA AppendDone ==
  ASSUME NEW t \in Seq(AuditEvent), NEW e \in AuditEvent, NEW acts
  PROVE  Done(Append(t, e), acts) =
           Done(t, acts) \cup (IF e.action \in acts THEN {Len(t) + 1} ELSE {})
BY AppendFacts DEF Done

LEMMA OtherEvent ==
  ASSUME NEW t \in Seq(AuditEvent), NEW e \in AuditEvent, NEW acts,
         e.action \notin acts
  PROVE  Done(Append(t, e), acts) = Done(t, acts)
<1>1. Done(Append(t, e), acts) = Done(t, acts) \cup {}
  BY AppendDone, Zenon
<1> QED
  BY <1>1

(* An event of another action leaves a stamp as it was.                    *)
LEMMA StampKept ==
  ASSUME NEW t \in Seq(AuditEvent), NEW e \in AuditEvent, NEW acts, NEW user,
         StampedBy(t, acts, user), e.action \notin acts
  PROVE  StampedBy(Append(t, e), acts, user)
<1>1. Done(Append(t, e), acts) = Done(t, acts)
  BY OtherEvent
<1> QED
  BY <1>1, AppendFacts DEF StampedBy

(* The first event of an action sets its stamp.                            *)
LEMMA StampSet ==
  ASSUME NEW t \in Seq(AuditEvent), NEW e \in AuditEvent, NEW acts,
         Done(t, acts) = {}, e.action \in acts
  PROVE  StampedBy(Append(t, e), acts, e.actor)
<1>1. Done(Append(t, e), acts) = {Len(t) + 1}
  BY AppendDone
<1> QED
  BY <1>1, AppendFacts DEF StampedBy

LEMMA PathExtends ==
  ASSUME NEW t \in Seq(AuditEvent), NEW e \in AuditEvent,
         PathTo(t, e.from), t # << >>
  PROVE  PathTo(Append(t, e), e.to)
<1> DEFINE u == Append(t, e)
<1>1. Len(t) \in Nat /\ Len(t) > 0
  OBVIOUS
<1>2. u[Len(u)].to = e.to /\ u # << >>
  BY AppendFacts
<1>3. ASSUME NEW i \in 1..(Len(u) - 1) PROVE u[i].to = u[i + 1].from
  <2>1. CASE i = Len(t)
    BY <1>1, <2>1, AppendFacts DEF PathTo
  <2>2. CASE i # Len(t)
    BY <1>1, <1>3, <2>2, AppendFacts DEF PathTo
  <2> QED
    BY <2>1, <2>2
<1> QED
  BY <1>2, <1>3 DEF PathTo

(* A new event keeps duties apart if it keeps them apart from the stamps.  *)
LEMMA SeparationExtends ==
  ASSUME NEW t \in Seq(AuditEvent), NEW e \in AuditEvent, NEW row \in Row,
         Separated(t), Named(t, row),
         e.action \in {"APPROVE", "REJECT"} => e.actor # row.createdBy,
         /\ e.action \in {"APPROVE", "REJECT", "PASS_OUT", "RETURN"}
         /\ RoleOf[e.actor] = "ADMIN"
         => e.actor \notin {row.createdBy, row.approvedBy, row.securityOfficer}
  PROVE  Separated(Append(t, e))
<1> DEFINE u == Append(t, e)
           n == Len(t) + 1
<1>1. \A i \in DOMAIN t :
        /\ t[i].action \in Inserting => t[i].actor = row.createdBy
        /\ t[i].action = "APPROVE" => t[i].actor = row.approvedBy
        /\ t[i].action = "PASS_OUT" => t[i].actor = row.securityOfficer
  BY DEF Named, StampedBy, Done
<1>2. /\ DOMAIN u = DOMAIN t \cup {n} /\ u[n] = e
      /\ \A i \in DOMAIN t : u[i] = t[i] /\ i < n /\ i \in Nat
      /\ n \in Nat
  BY AppendFacts
<1> HIDE DEF u, n
<1>3. \A i \in DOMAIN t, j \in DOMAIN t :
        /\ i < j
        /\ \/ /\ t[i].action \in Inserting
              /\ t[j].action \in {"APPROVE", "REJECT"}
           \/ /\ t[i].action \in Inserting \cup {"APPROVE", "PASS_OUT"}
              /\ t[j].action \in {"APPROVE", "REJECT", "PASS_OUT", "RETURN"}
              /\ RoleOf[t[j].actor] = "ADMIN"
        => t[i].actor # t[j].actor
  BY DEF Separated
<1>4. \A i \in DOMAIN t :
        \/ /\ t[i].action \in Inserting
           /\ e.action \in {"APPROVE", "REJECT"}
        \/ /\ t[i].action \in Inserting \cup {"APPROVE", "PASS_OUT"}
           /\ e.action \in {"APPROVE", "REJECT", "PASS_OUT", "RETURN"}
           /\ RoleOf[e.actor] = "ADMIN"
        => t[i].actor # e.actor
  BY <1>1
<1>5. Separated(u)
  BY <1>2, <1>3, <1>4 DEF Separated
<1> QED
  BY <1>5 DEF u

-----------------------------------------------------------------------------
(* The three commits, on one pass.                                         *)

(* The columns a transition leaves alone or sets.                          *)
LEMMA AppliedColumns ==
  ASSUME NEW r \in Requests, req[r] \in Request, req[r].op \in Workflow,
         NEW row \in Row
  PROVE  LET new == Applied(row, r)
             u == req[r].user
             op == req[r].op
         IN /\ new.createdBy = row.createdBy
            /\ new.approvedBy = IF op = "APPROVE" THEN u ELSE row.approvedBy
            /\ new.securityOfficer = IF op = "PASS_OUT" THEN u ELSE row.securityOfficer
            /\ new.returnedBy = IF op = "RETURN" THEN u ELSE row.returnedBy
            /\ new.recordHash = IF op = "APPROVE" THEN Digest(row) ELSE row.recordHash
            /\ Digest(new) = Digest(row)
            /\ new.status = NextStatus(op)
<1>1. CASE req[r].op = "SUBMIT"
  <2>1. Applied(row, r) = [row EXCEPT !.status = NextStatus(req[r].op),
                                      !.rejected = FALSE]
    BY <1>1 DEF Applied
  <2> QED
    BY <1>1, <2>1 DEF Row, Digest
<1>2. CASE req[r].op = "APPROVE"
  <2>1. Applied(row, r) = [row EXCEPT !.status = NextStatus(req[r].op),
                                      !.approvedBy = req[r].user,
                                      !.recordHash = Digest(row)]
    BY <1>2 DEF Applied
  <2> QED
    BY <1>2, <2>1 DEF Row, Digest
<1>3. CASE req[r].op = "REJECT"
  <2>1. Applied(row, r) = [row EXCEPT !.status = NextStatus(req[r].op),
                                      !.rejected = req[r].reason]
    BY <1>3 DEF Applied
  <2> QED
    BY <1>3, <2>1 DEF Row, Digest
<1>4. CASE req[r].op = "PASS_OUT"
  <2>1. Applied(row, r) = [row EXCEPT !.status = NextStatus(req[r].op),
                                      !.securityOfficer = req[r].user,
                                      !.controlNo = req[r].reason]
    BY <1>4 DEF Applied
  <2> QED
    BY <1>4, <2>1 DEF Row, Digest
<1>5. CASE req[r].op = "RETURN"
  <2>1. Applied(row, r) = [row EXCEPT !.status = NextStatus(req[r].op),
                                      !.returnedBy = req[r].user]
    BY <1>5 DEF Applied
  <2> QED
    BY <1>5, <2>1 DEF Row, Digest
<1> QED
  BY <1>1, <1>2, <1>3, <1>4, <1>5

(* What the policy asks of the status, action by action.                   *)
LEMMA AllowedStatus ==
  ASSUME NEW actor, NEW op \in Workflow, NEW row \in Row, Allows(actor, op, row)
  PROVE  /\ op = "SUBMIT" => row.status = "DRAFT"
         /\ op \in {"APPROVE", "REJECT"} => row.status = "SUBMITTED"
         /\ op = "PASS_OUT" => row.status = "APPROVED"
         /\ op = "RETURN" => row.status = "PASSED_OUT"
BY DEF Allows, MayDraft, MayDecide, MayPassOut, MayReturn

LEMMA TransitionAudit ==
  ASSUME NEW r \in Requests, req[r] \in Request, req[r].op \in Workflow,
         req[r].user \in Users,
         NEW row \in Row, NEW t \in Seq(AuditEvent), AuditOK(t, row),
         Allows(Actor(req[r].user), req[r].op, row),
         NEW e \in AuditEvent, e = Event(r, row.status, NextStatus(req[r].op))
  PROVE  AuditOK(Append(t, e), Applied(row, r))
<1> DEFINE op == req[r].op
           u == req[r].user
           new == Applied(row, r)
           s == Append(t, e)
<1>1. /\ e.action = op /\ e.from = row.status /\ e.actor = u
      /\ e.to = NextStatus(op) /\ new.status = NextStatus(op)
  BY AppliedColumns DEF Event
<1>2. /\ op = "SUBMIT" => row.status = "DRAFT" /\ new.status = "SUBMITTED"
      /\ op = "APPROVE" => row.status = "SUBMITTED" /\ new.status = "APPROVED"
      /\ op = "REJECT" => row.status = "SUBMITTED" /\ new.status = "NOT_APPROVED"
      /\ op = "PASS_OUT" => row.status = "APPROVED" /\ new.status = "PASSED_OUT"
      /\ op = "RETURN" => row.status = "PASSED_OUT" /\ new.status = "RETURNED"
  BY <1>1, AllowedStatus DEF NextStatus
<1>3. op \in Workflow /\ op \notin Inserting /\ row.status # "NONE"
  BY <1>2 DEF Inserting
<1>4. t # << >> /\ s # << >>
  BY <1>3, AppendFacts DEF AuditOK, Reached
<1>5. Reached(s, new.status)
  <2>1. \A i \in DOMAIN s : s[i].action \in Inserting <=> i = 1
    BY <1>1, <1>3, <1>4, AppendFacts DEF AuditOK, Reached
  <2>2. /\ Done(s, {"APPROVE"}) # {} => Done(t, {"APPROVE"}) # {} \/ op = "APPROVE"
        /\ Done(s, {"PASS_OUT"}) # {} => Done(t, {"PASS_OUT"}) # {} \/ op = "PASS_OUT"
        /\ Done(s, {"RETURN"}) # {} => Done(t, {"RETURN"}) # {} \/ op = "RETURN"
    BY <1>1, AppendDone
  <2> HIDE DEF op, new, s
  <2> QED
    BY <1>2, <1>3, <1>4, <2>1, <2>2 DEF AuditOK, Reached
<1>6. PathTo(s, new.status)
  BY <1>1, <1>4, PathExtends DEF AuditOK
<1>7. Named(s, new)
  <2>1. /\ op = "APPROVE" => Done(t, {"APPROVE"}) = {}
        /\ op = "PASS_OUT" => Done(t, {"PASS_OUT"}) = {}
        /\ op = "RETURN" => Done(t, {"RETURN"}) = {}
    BY <1>2 DEF AuditOK, Reached
  <2>2. StampedBy(s, Inserting, new.createdBy)
    BY <1>1, <1>3, StampKept, AppliedColumns DEF AuditOK, Named
  <2>3. StampedBy(s, {"APPROVE"}, new.approvedBy)
    <3>1. CASE op = "APPROVE"
      BY <1>1, <2>1, <3>1, StampSet, AppliedColumns
    <3>2. CASE op # "APPROVE"
      BY <1>1, <3>2, StampKept, AppliedColumns DEF AuditOK, Named
    <3> QED
      BY <3>1, <3>2
  <2>4. StampedBy(s, {"PASS_OUT"}, new.securityOfficer)
    <3>1. CASE op = "PASS_OUT"
      BY <1>1, <2>1, <3>1, StampSet, AppliedColumns
    <3>2. CASE op # "PASS_OUT"
      BY <1>1, <3>2, StampKept, AppliedColumns DEF AuditOK, Named
    <3> QED
      BY <3>1, <3>2
  <2>5. StampedBy(s, {"RETURN"}, new.returnedBy)
    <3>1. CASE op = "RETURN"
      BY <1>1, <2>1, <3>1, StampSet, AppliedColumns
    <3>2. CASE op # "RETURN"
      BY <1>1, <3>2, StampKept, AppliedColumns DEF AuditOK, Named
    <3> QED
      BY <3>1, <3>2
  <2> QED
    BY <2>2, <2>3, <2>4, <2>5 DEF Named
<1>8. Separated(s)
  <2>1. op \in {"APPROVE", "REJECT"} => u # row.createdBy
    BY DEF Allows, MayDecide, Actor
  <2>2. /\ op \in {"APPROVE", "REJECT", "PASS_OUT", "RETURN"}
        /\ RoleOf[u] = "ADMIN"
        => u \notin {row.createdBy, row.approvedBy, row.securityOfficer}
    BY UsersAssumption
    DEF Allows, MayDecide, MayPassOut, MayReturn, Independent,
        HasOperationalStage, Actor
  <2> QED
    BY <1>1, <2>1, <2>2, SeparationExtends DEF AuditOK
<1>9. Sealed(new)
  BY <1>2, AppliedColumns DEF AuditOK, Sealed
<1> QED
  BY <1>5, <1>6, <1>7, <1>8, <1>9 DEF AuditOK

(* An edit appends one event of its own kind and rewrites the form of a    *)
(* pass that is still a draft.                                             *)
LEMMA EditAudit ==
  ASSUME NEW row \in Row, NEW t \in Seq(AuditEvent), AuditOK(t, row),
         row.status = "DRAFT", NEW d \in Drafts, ValidateDraft(d),
         NEW e \in AuditEvent, e.action = "EDIT_DRAFT",
         e.from = "DRAFT", e.to = "DRAFT"
  PROVE  AuditOK(Append(t, e), Rewritten(row, d))
<1> DEFINE new == Rewritten(row, d)
           s == Append(t, e)
<1>1. /\ new.status = "DRAFT"
      /\ new.createdBy = row.createdBy
      /\ new.approvedBy = row.approvedBy
      /\ new.securityOfficer = row.securityOfficer
      /\ new.returnedBy = row.returnedBy
      /\ new.recordHash = row.recordHash
  BY DEF Rewritten, Row
<1>2. e.action \notin Inserting
  BY DEF Inserting
<1>3. t # << >> /\ s # << >>
  BY AppendFacts DEF AuditOK, Reached
<1>4. Reached(s, "DRAFT")
  <2>1. \A i \in DOMAIN s : s[i].action \in Inserting <=> i = 1
    BY <1>2, <1>3, AppendFacts DEF AuditOK, Reached
  <2>2. /\ Done(s, {"APPROVE"}) = Done(t, {"APPROVE"})
        /\ Done(s, {"PASS_OUT"}) = Done(t, {"PASS_OUT"})
        /\ Done(s, {"RETURN"}) = Done(t, {"RETURN"})
    <3>1. ASSUME NEW acts, e.action \notin acts
          PROVE  Done(s, acts) = Done(t, acts)
      BY <3>1, OtherEvent
    <3> QED
      BY <3>1
  <2> HIDE DEF s
  <2> QED
    BY <1>3, <2>1, <2>2 DEF AuditOK, Reached
<1>5. PathTo(s, "DRAFT")
  BY <1>3, PathExtends DEF AuditOK
<1>6. Named(s, row)
  BY <1>2, StampKept DEF AuditOK, Named
<1>7. Separated(s)
  BY SeparationExtends DEF AuditOK
<1>8. Sealed(new)
  BY <1>1 DEF AuditOK, Sealed
<1> HIDE DEF s, new
<1>9. Named(s, new)
  BY <1>1, <1>6 DEF Named
<1>10. AuditOK(s, new)
  BY <1>1, <1>4, <1>5, <1>7, <1>8, <1>9 DEF AuditOK
<1> QED
  BY <1>10 DEF s, new

(* A new pass has one event, its creator's.                                *)
LEMMA InsertAudit ==
  ASSUME NEW e \in AuditEvent, e.action \in Inserting, e.to = "DRAFT",
         NEW row \in Row, row.status = "DRAFT", row.createdBy = e.actor,
         row.approvedBy = NoUser, row.securityOfficer = NoUser,
         row.returnedBy = NoUser, row.recordHash = << >>
  PROVE  AuditOK(<< e >>, row)
<1> DEFINE s == << e >>
<1>1. DOMAIN s = {1} /\ s[1] = e /\ Len(s) = 1 /\ s # << >>
  OBVIOUS
<1> HIDE DEF s
<1>2. /\ Done(s, {"APPROVE"}) = {}
      /\ Done(s, {"PASS_OUT"}) = {}
      /\ Done(s, {"RETURN"}) = {}
      /\ Done(s, Inserting) = {1}
  BY <1>1 DEF Done, Inserting
<1>3. Reached(s, row.status)
  BY <1>1, <1>2 DEF Reached
<1>4. PathTo(s, row.status)
  BY <1>1 DEF PathTo
<1>5. Named(s, row)
  BY <1>1, <1>2 DEF Named, StampedBy
<1>6. Separated(s)
  BY <1>1 DEF Separated
<1>7. Sealed(row)
  BY DEF Sealed
<1>8. AuditOK(s, row)
  BY <1>3, <1>4, <1>5, <1>6, <1>7 DEF AuditOK
<1> QED
  BY <1>8 DEF s

-----------------------------------------------------------------------------
(* The steps of the register.                                              *)

LEMMA CommitTransitionAudit ==
  ASSUME Inv, AuditInv, NEW r \in Requests, CommitTransition(r)
  PROVE  AuditInv'
<1> DEFINE p == req[r].target
           e == Event(r, req[r].seen.status, NextStatus(req[r].op))
<1>1. /\ req[r].pc = "write" /\ req[r].op \in Workflow
      /\ req[r].op # "CREATE_DRAFT"
  BY DEF CommitTransition
<1>2. /\ req[r] \in Request /\ req[r].user \in Users /\ p \in PassIds
      /\ req[r].seen.status = gatePasses[p].status
      /\ Allows(Actor(req[r].user), req[r].op, gatePasses[p])
  BY <1>1, AtWrite
<1>3. /\ gatePasses[p] \in Row /\ trail[p] \in Seq(AuditEvent)
      /\ AuditOK(trail[p], gatePasses[p])
  BY <1>2 DEF Inv, TypeOK, AuditInv
<1>4. e \in AuditEvent
  BY <1>1, <1>2, NextStatusType DEF Event, AuditEvent, Request, PassContext
<1>5. AuditOK(Append(trail[p], e), Applied(gatePasses[p], r))
  BY <1>1, <1>2, <1>3, <1>4, TransitionAudit
<1>6. /\ trail' = [trail EXCEPT ![p] = Append(trail[p], e)]
      /\ gatePasses' = [gatePasses EXCEPT ![p] = Applied(gatePasses[p], r)]
  BY DEF CommitTransition
<1> HIDE DEF e
<1> QED
  BY <1>2, <1>5, <1>6 DEF AuditInv, Inv, TypeOK

LEMMA CommitEditAudit ==
  ASSUME Inv, AuditInv, NEW r \in Requests, CommitEdit(r)
  PROVE  AuditInv'
<1> DEFINE p == req[r].target
           d == req[r].draft
           e == Event(r, req[r].seen.status, req[r].seen.status)
<1>1. req[r].pc = "write" /\ req[r].op = "EDIT_DRAFT"
  BY DEF CommitEdit
<1>2. /\ req[r] \in Request /\ req[r].user \in Users /\ p \in PassIds
      /\ gatePasses[p].status = "DRAFT" /\ req[r].seen.status = "DRAFT"
  BY <1>1, AtWrite DEF Allows, MayDraft
<1>3. /\ gatePasses[p] \in Row /\ trail[p] \in Seq(AuditEvent)
      /\ AuditOK(trail[p], gatePasses[p])
  BY <1>2 DEF Inv, TypeOK, AuditInv
<1>4. d \in Drafts /\ ValidateDraft(d)
  BY <1>1, <1>2 DEF Inv, RequestsWellFormed, WellFormed, Request
<1>5. /\ e \in AuditEvent /\ e.action = "EDIT_DRAFT"
      /\ e.from = "DRAFT" /\ e.to = "DRAFT"
  BY <1>1, <1>2 DEF Event, AuditEvent
<1>6. AuditOK(Append(trail[p], e), Rewritten(gatePasses[p], d))
  BY <1>2, <1>3, <1>4, <1>5, EditAudit
<1>7. /\ trail' = [trail EXCEPT ![p] = Append(trail[p], e)]
      /\ gatePasses' = [gatePasses EXCEPT ![p] = Rewritten(gatePasses[p], d)]
  BY DEF CommitEdit
<1> HIDE DEF e
<1> QED
  BY <1>2, <1>6, <1>7 DEF AuditInv, Inv, TypeOK

LEMMA CommitInsertAudit ==
  ASSUME Inv, AuditInv, NEW r \in Requests, CommitInsert(r)
  PROVE  AuditInv'
<1> DEFINE id == req[r].fresh
           from == IF req[r].op = "CREATE_REVISION" THEN "NOT_APPROVED" ELSE "NONE"
           e == Event(r, from, "DRAFT")
<1>1. req[r].pc = "write" /\ req[r].op \in Inserting
  BY DEF CommitInsert, Inserting
<1>2. /\ req[r] \in Request /\ req[r].user \in Users /\ id \in PassIds
      /\ ValidateDraft(req[r].draft)
  BY <1>1 DEF Inv, TypeOK, RequestsWellFormed, WellFormed, Inserting
<1>3. /\ e \in AuditEvent /\ e.action \in Inserting /\ e.to = "DRAFT"
      /\ e.actor = req[r].user
  BY <1>1, <1>2 DEF Event, AuditEvent, Request
<1>4. Inserted(r) \in Row /\ Inserted(r).status = "DRAFT"
  BY <1>2, InsertedType
<1>5. /\ Inserted(r).createdBy = req[r].user
      /\ Inserted(r).approvedBy = NoUser
      /\ Inserted(r).securityOfficer = NoUser
      /\ Inserted(r).returnedBy = NoUser
      /\ Inserted(r).recordHash = << >>
  BY DEF Inserted, NoRow
<1>6. AuditOK(<< e >>, Inserted(r))
  BY <1>3, <1>4, <1>5, InsertAudit
<1>7. /\ trail' = [trail EXCEPT ![id] = << e >>]
      /\ gatePasses' = [gatePasses EXCEPT ![id] = Inserted(r)]
  BY DEF CommitInsert
<1> HIDE DEF e
<1> QED
  BY <1>2, <1>6, <1>7 DEF AuditInv, Inv, TypeOK

LEMMA AuditInit == Init => AuditInv
<1> SUFFICES ASSUME Init, NEW p \in PassIds
             PROVE  AuditOK(trail[p], gatePasses[p])
  BY DEF AuditInv
<1>1. trail[p] = << >> /\ gatePasses[p] = NoRow
  BY DEF Init
<1>2. /\ NoRow.status = "NONE" /\ NoRow.recordHash = << >>
      /\ NoRow.createdBy = NoUser /\ NoRow.approvedBy = NoUser
      /\ NoRow.securityOfficer = NoUser /\ NoRow.returnedBy = NoUser
  BY DEF NoRow
<1>3. \A acts : Done(<< >>, acts) = {}
  BY DEF Done
<1>4. Reached(<< >>, "NONE") /\ PathTo(<< >>, "NONE") /\ Separated(<< >>)
  BY <1>3 DEF Reached, PathTo, Separated
<1>5. Named(<< >>, NoRow)
  BY <1>2, <1>3 DEF Named, StampedBy
<1>6. Sealed(NoRow)
  BY <1>2 DEF Sealed
<1> QED
  BY <1>1, <1>2, <1>4, <1>5, <1>6 DEF AuditOK

LEMMA AuditKept ==
  ASSUME AuditInv, UNCHANGED <<gatePasses, trail>> PROVE AuditInv'
BY DEF AuditInv

LEMMA AuditNext == Inv /\ AuditInv /\ [Next]_vars => AuditInv'
<1> SUFFICES ASSUME Inv, AuditInv, [Next]_vars PROVE AuditInv'
  OBVIOUS
<1>1. ASSUME NEW r \in Requests, Receive(r) PROVE AuditInv'
  BY <1>1, AuditKept
  DEF Receive, ReceiveCreate, ReceiveRevision, ReceiveEdit, ReceiveWorkflow,
      tables
<1>2. ASSUME NEW r \in Requests, Rollback(r) PROVE AuditInv'
  BY <1>2, AuditKept DEF Rollback, tables
<1>3. ASSUME NEW r \in Requests,
             LockRow(r) \/ Permit(r) \/ NextNumber(r) \/ Insert(r)
      PROVE  AuditInv'
  BY <1>3, AuditKept DEF LockRow, Permit, NextNumber, Insert, tables
<1>4. ASSUME NEW r \in Requests, Advance(r) PROVE AuditInv'
  BY <1>2, <1>3, <1>4, CommitTransitionAudit, CommitEditAudit,
     CommitInsertAudit
  DEF Advance, Refuse, StatementFails
<1>5. ASSUME NEW r \in Requests, Cancel(r) PROVE AuditInv'
  BY <1>2, <1>5 DEF Cancel
<1>6. CASE Crash
  BY <1>6, AuditKept DEF Crash, tables
<1>7. CASE UNCHANGED vars
  BY <1>7, AuditKept DEF vars
<1> QED
  BY <1>1, <1>4, <1>5, <1>6, <1>7 DEF Next

THEOREM AuditInvariance == Spec => []AuditInv
<1> QED
  BY Invariance, AuditInit, AuditNext, PTL DEF Spec

(* Nobody does two stages of a pass that need two people, whatever         *)
(* requests of theirs run together: workflow.md:48.                        *)
THEOREM DutiesSeparate == Spec => []SeparationOfDuty
<1>1. AuditInv => SeparationOfDuty
  BY DEF AuditInv, AuditOK, SeparationOfDuty
<1> QED
  BY <1>1, AuditInvariance, PTL

(* The audit events of a pass are a path of statuses that ends in its row. *)
THEOREM TrailConnected == Spec => []TrailIsPath
<1>1. AuditInv => TrailIsPath
  BY DEF AuditInv, AuditOK, TrailIsPath
<1> QED
  BY <1>1, AuditInvariance, PTL

(* The stamps of a row are the actors of its audit events, each done once. *)
THEOREM StampsMatchTrail == Spec => []TrailNamesActors
<1>1. AuditInv => TrailNamesActors
  BY DEF AuditInv, AuditOK, TrailNamesActors
<1> QED
  BY <1>1, AuditInvariance, PTL

(* The record hash of an approved pass stays the hash of its row.          *)
THEOREM SealHolds == Spec => []SealIntact
<1>1. AuditInv => SealIntact
  BY DEF AuditInv, AuditOK, SealIntact
<1> QED
  BY <1>1, AuditInvariance, PTL

-----------------------------------------------------------------------------
(* What a step may not change of a pass.                                   *)

(* Whatever the policy of rbac/policy.go lets an actor do to a pass, the   *)
(* state machine of domain.go provides for.  The store asks the policy     *)
(* alone (Transition of domain.go is called by tests only), so nothing     *)
(* else keeps it within the state machine.                                 *)
THEOREM PolicyWithinLifecycle ==
  ASSUME NEW actor, NEW row, NEW action \in Workflow,
         Allows(actor, action, row)
  PROVE  CanTransition(row, action)
BY DEF Allows, MayDraft, MayDecide, MayPassOut, MayReturn, CanTransition

LEMMA SettledRefuses ==
  ASSUME NEW actor, NEW row, Settled(row),
         NEW action \in Workflow \cup {"EDIT_DRAFT"}
  PROVE  ~Allows(actor, action, row)
<1>1. \A a \in Workflow : ~CanTransition(row, a)
  BY DEF Settled, CanTransition
<1>2. row.status # "DRAFT"
  BY DEF Settled
<1> QED
  BY <1>1, <1>2, PolicyWithinLifecycle DEF Allows, MayDraft

LEMMA FormsKept ==
  ASSUME Inv, [Next]_vars, NEW p \in Used PROVE FormKept(p)
<1>0. p \in PassIds /\ gatePasses[p] \in Row
  BY DEF Used, Inv, TypeOK
<1>1. ASSUME UNCHANGED <<gatePasses, items, trail>> PROVE FormKept(p)
  BY <1>1 DEF FormKept
<1>2. ASSUME NEW r \in Requests, CommitTransition(r) PROVE FormKept(p)
  <2> DEFINE i == req[r].target
  <2>1. /\ req[r].pc = "write" /\ req[r].op \in Workflow
        /\ req[r].op # "CREATE_DRAFT" /\ items' = items
        /\ gatePasses' = [gatePasses EXCEPT ![i] = Applied(gatePasses[i], r)]
    BY <1>2 DEF CommitTransition
  <2>2. req[r] \in Request /\ i \in PassIds
    BY <2>1, AtWrite
  <2>3. Digest(Applied(gatePasses[p], r)) = Digest(gatePasses[p])
    BY <1>0, <2>1, <2>2, AppliedColumns
  <2>4. gatePasses'[p] \in {gatePasses[p], Applied(gatePasses[p], r)}
    BY <1>0, <2>1, <2>2 DEF Inv, TypeOK
  <2>5. Digest(gatePasses'[p]) = Digest(gatePasses[p])
    BY <2>3, <2>4
  <2>6. Settled(gatePasses[p]) => p # i
    BY <2>1, AtWrite, SettledRefuses
  <2>7. p # i => gatePasses'[p] = gatePasses[p] /\ trail'[p] = trail[p]
    BY <1>0, <1>2, <2>1, <2>2 DEF CommitTransition, Inv, TypeOK
  <2> QED
    BY <2>1, <2>5, <2>6, <2>7 DEF Digest, FormKept
<1>3. ASSUME NEW r \in Requests, CommitEdit(r) PROVE FormKept(p)
  <2> DEFINE i == req[r].target
             d == req[r].draft
  <2>1. /\ req[r].pc = "write" /\ req[r].op = "EDIT_DRAFT"
        /\ gatePasses' = [gatePasses EXCEPT ![i] = Rewritten(gatePasses[i], d)]
        /\ items' = [items EXCEPT ![i] = ReplacedItems(items[i], d)]
        /\ \E e : trail' = [trail EXCEPT ![i] = Append(trail[i], e)]
    BY <1>3 DEF CommitEdit
  <2>2. i \in PassIds /\ gatePasses[i].status = "DRAFT"
    BY <2>1, AtWrite DEF Allows, MayDraft
  <2>3. CASE p # i
    BY <1>0, <2>1, <2>3 DEF FormKept, Inv, TypeOK
  <2>4. CASE p = i
    <3>1. gatePasses'[p] = Rewritten(gatePasses[p], d)
      BY <2>1, <2>2, <2>4 DEF Inv, TypeOK
    <3>2. Rewritten(gatePasses[p], d).passNo = gatePasses[p].passNo
      BY <1>0 DEF Rewritten, Row
    <3> QED
      BY <2>2, <2>4, <3>1, <3>2 DEF FormKept, Settled
  <2> QED
    BY <2>3, <2>4
<1>4. ASSUME NEW r \in Requests, CommitInsert(r) PROVE FormKept(p)
  <2> DEFINE i == req[r].fresh
  <2>1. p # i
    BY <1>4 DEF CommitInsert, Inv, RequestsWellFormed, WellFormed, Inserting
  <2>2. /\ gatePasses' = [gatePasses EXCEPT ![i] = Inserted(r)]
        /\ items' = [items EXCEPT ![i] = StoredItems(req[r].draft)]
        /\ \E t : trail' = [trail EXCEPT ![i] = t]
    BY <1>4 DEF CommitInsert
  <2> QED
    BY <1>0, <2>1, <2>2 DEF FormKept, Inv, TypeOK
<1>5. ASSUME NEW r \in Requests, Receive(r) PROVE FormKept(p)
  BY <1>1, <1>5
  DEF Receive, ReceiveCreate, ReceiveRevision, ReceiveEdit, ReceiveWorkflow,
      tables
<1>6. ASSUME NEW r \in Requests, Rollback(r) PROVE FormKept(p)
  BY <1>1, <1>6 DEF Rollback, tables
<1>7. ASSUME NEW r \in Requests,
             LockRow(r) \/ Permit(r) \/ NextNumber(r) \/ Insert(r)
      PROVE  FormKept(p)
  BY <1>1, <1>7 DEF LockRow, Permit, NextNumber, Insert, tables
<1>8. ASSUME NEW r \in Requests, Advance(r) PROVE FormKept(p)
  BY <1>2, <1>3, <1>4, <1>6, <1>7, <1>8 DEF Advance, Refuse, StatementFails
<1>9. ASSUME NEW r \in Requests, Cancel(r) PROVE FormKept(p)
  BY <1>6, <1>9 DEF Cancel
<1>10. CASE Crash \/ UNCHANGED vars
  BY <1>1, <1>10 DEF Crash, vars, tables
<1> QED
  BY <1>5, <1>8, <1>9, <1>10 DEF Next

(* Once submitted, the form of a pass is final, and its number always is;  *)
(* a pass at the end of its life is final altogether.                      *)
THEOREM FormsFrozen == Spec => FrozenAfterSubmit
<1>1. Inv /\ [Next]_vars => [\A p \in Used : FormKept(p)]_vars
  BY FormsKept
<1> QED
  BY <1>1, Invariance, PTL DEF Spec, FrozenAfterSubmit
=============================================================================
