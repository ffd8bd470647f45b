---------------------------- MODULE MCMasterData ----------------------------
(***************************************************************************)
(* Small instances of MasterData for TLC.                                  *)
(***************************************************************************)
EXTENDS MasterData

MasterRow(key, quantity) == [key |-> key, named |-> TRUE, quantity |-> quantity]

(* Two items and a consignee.                                              *)
MasterKeys  == {"i1", "i2", "c1"}
MasterForms == {MasterRow("i1", "fine"), MasterRow("i2", "negative"),
                MasterRow("c1", "fine"),
                [MasterRow("c1", "fine") EXCEPT !.named = FALSE]}

(* Two files in opposite orders, one that repeats a row, two that fail:    *)
(* one in the table, one before it gets there.                             *)
MasterFiles ==
  {<<MasterRow("i1", "fine"), MasterRow("i2", "fine")>>,
   <<MasterRow("i2", "fine"), MasterRow("i1", "fine")>>,
   <<MasterRow("i1", "fine"), MasterRow("i1", "fine")>>,
   <<MasterRow("i2", "fine"), MasterRow("i1", "negative")>>,
   <<MasterRow("i2", "fine"), MasterRow("i1", "text")>>,
   << >>}
=============================================================================
