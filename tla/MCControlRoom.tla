--------------------------- MODULE MCControlRoom ----------------------------
(***************************************************************************)
(* Small instances of the control room for TLC.                            *)
(***************************************************************************)
EXTENDS ControlRoom

CONSTANTS adm, inv, iss, sec   \* users, one of each role that acts

RoomRoleOf ==
  [u \in Users |-> CASE u = adm -> "ADMIN"
                     [] u = inv -> "INVENTORY"
                     [] u = iss -> "ISSUING"
                     [] u = sec -> "SECURITY"]

RoomForm(type, header, quantity) ==
  [passType |-> type, dated |-> TRUE, expected |-> type = "RETURNABLE",
   packages |-> 1, texts |-> RequiredTexts, header |-> header,
   items |-> <<[named |-> TRUE, quantity |-> quantity]>>]

(* Two forms that differ in type, scope and lines; the numbers of one      *)
(* scope hold a character that a link does not escape.                     *)
RoomHeaders  == {"h1", "h2"}
RoomScopes   == {"s1", "s2"}
RoomScopeOf  == [h \in RoomHeaders |-> IF h = "h1" THEN "s1" ELSE "s2"]
RoomPrefixOf == [s \in RoomScopes |-> s]
RoomDrafts   == {RoomForm("RETURNABLE", "h1", 10000),
                 RoomForm("NON_RETURNABLE", "h2", 20000)}
=============================================================================
