---------------------------- MODULE MCDocuments -----------------------------
(***************************************************************************)
(* Small instances of Documents for TLC.                                   *)
(***************************************************************************)
EXTENDS Documents, TLC

CONSTANTS p1, p2, j1, j2

(* Project C of directorate A-B, and project B-C of directorate A: two     *)
(* numbers, one file name.                                                 *)
Numbers ==
  p1 :> <<"A", "-", "B", "/", "C", "/", "2026", "/", "0001">> @@
  p2 :> <<"A", "/", "B", "-", "C", "/", "2026", "/", "0001">>

OneNumber == p1 :> <<"A", "/", "B", "/", "2026", "/", "0001">>

(* The first download is asked for the PDF of p1, the second for the PDF   *)
(* or the preview of p2.                                                   *)
Clients == j1 :> {<<p1, FALSE>>} @@ j2 :> {<<p2, FALSE>>, <<p2, TRUE>>}

OneClient == j1 :> {<<p1, draft>> : draft \in Kinds}

(* One pass is edited once before it is decided, the other is not.         *)
Edits == p1 :> 1 @@ p2 :> 0

NoEdit == p1 :> 0
=============================================================================
