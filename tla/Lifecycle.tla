----------------------------- MODULE Lifecycle ------------------------------
(***************************************************************************)
(* What the gate-pass register promises, as the state machine of           *)
(* internal/gatepass/domain.go: a book of passes, each drafted by an       *)
(* actor, editable while it is a draft, and moved by one whole transition  *)
(* at a time.  There are no requests, transactions or locks here; the      *)
(* detailed specification GatePassStore is shown to implement it.          *)
(***************************************************************************)
EXTENDS Domain

CONSTANTS PassIds, Users

VARIABLE book

(* A pass that was never created.                                          *)
Blank == [status |-> "NONE", passType |-> "NON_RETURNABLE",
          createdBy |-> NoUser, approvedBy |-> NoUser]

Pass == [status : Statuses \cup {"NONE"}, passType : PassTypes,
         createdBy : Users \cup {NoUser}, approvedBy : Users \cup {NoUser}]

Init == book = [p \in PassIds |-> Blank]

Drafted(u, type) ==
  [Blank EXCEPT !.status = "DRAFT", !.passType = type, !.createdBy = u]

CreatePass(p) ==
  /\ book[p].status = "NONE"
  /\ \E u \in Users, type \in PassTypes :
       book' = [book EXCEPT ![p] = Drafted(u, type)]

EditPass(p) ==
  /\ book[p].status = "DRAFT"
  /\ \E type \in PassTypes : book' = [book EXCEPT ![p].passType = type]

TransitionPass(p, action) ==
  /\ CanTransition(book[p], action)
  /\ \E u \in Users : book' = [book EXCEPT ![p] = Transitioned(@, action, u)]

Next ==
  \E p \in PassIds :
    \/ CreatePass(p)
    \/ EditPass(p)
    \/ \E action \in Workflow : TransitionPass(p, action)

Spec == Init /\ [][Next]_book
=============================================================================
