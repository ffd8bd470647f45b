------------------------------- MODULE Domain -------------------------------
(***************************************************************************)
(* The pure rules of internal/gatepass/domain.go (ValidateDraft,           *)
(* Transition) and the CHECK constraints of the tables a draft is stored   *)
(* in (db/migrations/001_foundation.sql).                                  *)
(*                                                                         *)
(* A draft is what draftFromForm hands to the store: whether its dates     *)
(* were given, which of the required texts are non-blank, the package      *)
(* count and the item lines.  The header stands for the free content the   *)
(* record hash seals: pass date, directorate, project and consignee.       *)
(* A quantity is counted in ten-thousandths, or is NaN (ParseFloat accepts *)
(* it); the column is numeric(18,3), so storing a number rounds it to      *)
(* thousandths.                                                            *)
(***************************************************************************)
EXTENDS Rbac, Integers, Sequences

CONSTANT NaN

RequiredTexts == {"directorate", "project", "consignee", "purpose", "authority"}

Item == [named : BOOLEAN, quantity : Int \cup {NaN}]

Draft(headers) ==
  [passType : PassTypes \cup {"OTHER"}, dated : BOOLEAN, expected : BOOLEAN,
   packages : Int, texts : SUBSET RequiredTexts, header : headers,
   items : Seq(Item)]

(* item.Quantity <= 0 on a float64: false of NaN.                          *)
NotPositive(q) == q # NaN /\ q <= 0

ItemRejected(item) == ~item.named \/ NotPositive(item.quantity)

(* draftFromForm of server.go, in front of every ValidateDraft: the date   *)
(* parses, there is a row, and every quantity is a number above zero.      *)
DraftFromForm(draft) ==
  /\ draft.dated
  /\ draft.items # << >>
  /\ \A i \in DOMAIN draft.items : ~NotPositive(draft.items[i].quantity)

ValidateDraft(draft) ==
  /\ draft.passType \in PassTypes
  /\ draft.dated
  /\ draft.passType = "RETURNABLE" => draft.expected
  /\ draft.packages >= 1
  /\ draft.texts = RequiredTexts
  /\ draft.items # << >>
  /\ \A i \in DOMAIN draft.items : ~ItemRejected(draft.items[i])

(* What numeric(18,3) keeps of a quantity, in thousandths.                 *)
Stored(q) == IF q = NaN THEN NaN ELSE (q + 5) \div 10

(* CHECK (quantity > 0); PostgreSQL orders NaN above every number.         *)
QuantityFits(q) == Stored(q) = NaN \/ Stored(q) > 0

ItemsFit(draft) ==
  \A i \in DOMAIN draft.items : QuantityFits(draft.items[i].quantity)

StoredItems(draft) ==
  [i \in DOMAIN draft.items |-> Stored(draft.items[i].quantity)]

-----------------------------------------------------------------------------
(* Transition(pass, action, actorID) of domain.go.                         *)

CanTransition(pass, action) ==
  \/ action = "SUBMIT" /\ pass.status = "DRAFT"
  \/ action \in {"APPROVE", "REJECT"} /\ pass.status = "SUBMITTED"
  \/ action = "PASS_OUT" /\ pass.status = "APPROVED"
  \/ /\ action = "RETURN"
     /\ pass.status = "PASSED_OUT"
     /\ pass.passType = "RETURNABLE"

(* Mutant: a return closes the pass under a name the table does not know.  *)
NextStatusClosed(action) ==
  CASE action = "SUBMIT"   -> "SUBMITTED"
    [] action = "APPROVE"  -> "APPROVED"
    [] action = "REJECT"   -> "NOT_APPROVED"
    [] action = "PASS_OUT" -> "PASSED_OUT"
    [] action = "RETURN"   -> "CLOSED"

NextStatus(action) ==
  CASE action = "SUBMIT"   -> "SUBMITTED"
    [] action = "APPROVE"  -> "APPROVED"
    [] action = "REJECT"   -> "NOT_APPROVED"
    [] action = "PASS_OUT" -> "PASSED_OUT"
    [] action = "RETURN"   -> "RETURNED"

Transitioned(pass, action, actorID) ==
  [pass EXCEPT !.status = NextStatus(action),
               !.approvedBy = IF action = "APPROVE" THEN actorID ELSE @]
=============================================================================
