-------------------------------- MODULE Rbac --------------------------------
(***************************************************************************)
(* The authorization policy of internal/rbac/policy.go: which actor may    *)
(* perform which action on a gate pass.                                    *)
(*                                                                         *)
(* An actor is a record [id, role]; a pass context is a record with at     *)
(* least the fields status, passType, createdBy, approvedBy,               *)
(* securityOfficer and returnedBy.  A column that is NULL reads as NoUser, *)
(* the empty string of the Go code.                                        *)
(***************************************************************************)
EXTENDS Naturals

CONSTANT NoUser

Roles == {"ADMIN", "INVENTORY", "ISSUING", "SECURITY", "VIEWER"}

Statuses == {"DRAFT", "SUBMITTED", "APPROVED", "NOT_APPROVED",
             "PASSED_OUT", "RETURNED"}

PassTypes == {"RETURNABLE", "NON_RETURNABLE"}

Workflow == {"SUBMIT", "APPROVE", "REJECT", "PASS_OUT", "RETURN"}
Drafting == {"CREATE_DRAFT", "EDIT_DRAFT", "CREATE_REVISION"}
Actions  == Workflow \cup Drafting

-----------------------------------------------------------------------------

(* The users recorded on the row.  Who submitted, edited or rejected the   *)
(* pass is not a column, so those stages are invisible to the policy.      *)
HasOperationalStage(actor, pass) ==
  /\ actor.id # NoUser
  /\ actor.id \in {pass.createdBy, pass.approvedBy,
                   pass.securityOfficer, pass.returnedBy}

(* Mutant: approving and passing out are not compared.                     *)
IndependentOfCreator(actor, pass) ==
  actor.role = "ADMIN" => actor.id # pass.createdBy

(* Only administrators can hold two stages, so only they are compared.     *)
Independent(actor, pass) ==
  actor.role = "ADMIN" => ~HasOperationalStage(actor, pass)

MayCreate(actor) == actor.role \in {"ADMIN", "INVENTORY"}

Owns(actor, pass) ==
  \/ actor.role = "ADMIN"
  \/ actor.role = "INVENTORY" /\ pass.createdBy = actor.id

(* Mutant: a draft stays editable until the pass leaves the gate.          *)
MayDraftUntilApproved(actor, pass) ==
  pass.status \in {"DRAFT", "SUBMITTED", "APPROVED"} /\ Owns(actor, pass)

MayDraft(actor, pass) == pass.status = "DRAFT" /\ Owns(actor, pass)

MayDecide(actor, pass) ==
  /\ pass.status = "SUBMITTED"
  /\ pass.createdBy # actor.id
  /\ actor.role \in {"ISSUING", "ADMIN"}
  /\ Independent(actor, pass)

MayPassOut(actor, pass) ==
  /\ pass.status = "APPROVED"
  /\ actor.role \in {"SECURITY", "ADMIN"}
  /\ Independent(actor, pass)

(* Mutant: the pass type is not looked at.                                 *)
MayReturnAnyType(actor, pass) ==
  /\ pass.status = "PASSED_OUT"
  /\ actor.role \in {"SECURITY", "ADMIN"}
  /\ Independent(actor, pass)

MayReturn(actor, pass) ==
  /\ pass.status = "PASSED_OUT"
  /\ pass.passType = "RETURNABLE"
  /\ actor.role \in {"SECURITY", "ADMIN"}
  /\ Independent(actor, pass)

(* Mutant: a revision may be opened before the decision.                   *)
MayReviseSubmitted(actor, pass) ==
  pass.status \in {"SUBMITTED", "NOT_APPROVED"} /\ Owns(actor, pass)

MayRevise(actor, pass) == pass.status = "NOT_APPROVED" /\ Owns(actor, pass)

Allows(actor, action, pass) ==
  \/ action = "CREATE_DRAFT" /\ MayCreate(actor)
  \/ action \in {"EDIT_DRAFT", "SUBMIT"} /\ MayDraft(actor, pass)
  \/ action \in {"APPROVE", "REJECT"} /\ MayDecide(actor, pass)
  \/ action = "PASS_OUT" /\ MayPassOut(actor, pass)
  \/ action = "RETURN" /\ MayReturn(actor, pass)
  \/ action = "CREATE_REVISION" /\ MayRevise(actor, pass)
=============================================================================
