------------------------------ MODULE MCAccess ------------------------------
(***************************************************************************)
(* Small instances of accounts, logins and sessions for TLC.               *)
(***************************************************************************)
EXTENDS Access, TLC

Sym == Permutations(Requests) \cup Permutations(SessionIds)
=============================================================================
