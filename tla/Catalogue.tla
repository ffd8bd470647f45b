----------------------------- MODULE Catalogue ------------------------------
(***************************************************************************)
(* What the master data promises: a catalogue of active entries.  A client *)
(* asks for entries to be added; they are all added, each new, or the      *)
(* client is turned away with none of them.  Entries are withdrawn one by  *)
(* one.  No rows, transactions or locks here; the detailed specification   *)
(* MasterData is shown to implement it.                                    *)
(***************************************************************************)
CONSTANTS
  Requests,
  Keys      \* identities: an item's code, serial and batch; a name

VARIABLES active, asked

vars == <<active, asked>>

Init ==
  /\ active = {}
  /\ asked = [r \in Requests |-> {}]

Ask(r, batch) ==
  /\ asked[r] = {}
  /\ asked' = [asked EXCEPT ![r] = batch]
  /\ UNCHANGED active

Add(r) ==
  /\ asked[r] \cap active = {}
  /\ active' = active \cup asked[r]
  /\ asked' = [asked EXCEPT ![r] = {}]

(* Some clients are turned away, all of them when the server stops.        *)
TurnAway(clients) ==
  /\ asked' = [r \in Requests |-> IF r \in clients THEN {} ELSE asked[r]]
  /\ UNCHANGED active

Withdraw(key) ==
  /\ key \in active
  /\ active' = active \ {key}
  /\ UNCHANGED asked

Next ==
  \/ \E r \in Requests : Add(r) \/ \E batch \in SUBSET Keys : Ask(r, batch)
  \/ \E clients \in SUBSET Requests : TurnAway(clients)
  \/ \E key \in Keys : Withdraw(key)

Spec == Init /\ [][Next]_vars
=============================================================================
