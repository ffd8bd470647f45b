-------------------------- MODULE MCGatePassStore ---------------------------
(***************************************************************************)
(* Small instances of the gate-pass register for TLC.                      *)
(***************************************************************************)
EXTENDS GatePassStore, TLC

CONSTANTS adm, inv, iss, sec   \* users, one of each role that acts

(* Roles of the users of every instance.                                   *)
MCRoleOf ==
  [u \in Users |-> CASE u = adm -> "ADMIN"
                     [] u = inv -> "INVENTORY"
                     [] u = iss -> "ISSUING"
                     [] u = sec -> "SECURITY"]

(* A form as a clerk fills it in; quantities in ten-thousandths.           *)
Form(type, header, quantities) ==
  [passType |-> type, dated |-> TRUE, expected |-> type = "RETURNABLE",
   packages |-> 1, texts |-> RequiredTexts, header |-> header,
   items |-> [i \in DOMAIN quantities |->
                [named |-> TRUE, quantity |-> quantities[i]]]]

(* The stages of a pass: a returnable and a non-returnable form, which     *)
(* differ in header and lines, one whose second quantity, 0.0004, rounds   *)
(* to zero in the column, and one ValidateDraft refuses.                   *)
WorkflowHeaders == {"h1", "h2"}
WorkflowScopes  == {"s1"}
WorkflowScopeOf == [h \in WorkflowHeaders |-> "s1"]
WorkflowPrefixOf == [s \in WorkflowScopes |-> s]
WorkflowDrafts  == {Form("RETURNABLE", "h1", <<10000>>),
                    Form("NON_RETURNABLE", "h2", <<20000, 10000>>),
                    Form("NON_RETURNABLE", "h1", <<10000, 4>>),
                    Form("RETURNABLE", "h2", <<10000, 0>>)}

(* Numbering: one scope or two, a form for each, and one that the column   *)
(* refuses after the number was drawn.                                     *)
RegisterHeaders == {"h1", "h2"}
RegisterScopes  == {"s1", "s2"}
RegisterScopeOf == [h \in RegisterHeaders |-> IF h = "h1" THEN "s1" ELSE "s2"]
OneScopeDrafts  == {Form("RETURNABLE", "h1", <<10000>>),
                    Form("NON_RETURNABLE", "h1", <<10000, 4>>)}
TwoScopeDrafts  == {Form("RETURNABLE", "h1", <<10000>>),
                    Form("RETURNABLE", "h2", <<10000>>)}

(* One text per scope, or one text for both: "A/B"+"C" and "A"+"B/C".      *)
DistinctPrefixOf == [s \in RegisterScopes |-> s]
SharedPrefixOf   == [s \in RegisterScopes |-> "s1"]

Sym == Permutations(Requests) \cup Permutations(PassIds)
=============================================================================
