-------------------------- MODULE MasterDataProofs --------------------------
(***************************************************************************)
(* Proofs about MasterData, for every number of requests, files and rows.  *)
(***************************************************************************)
EXTENDS MasterData, SequenceTheorems, FiniteSetTheorems,
        WellFoundedInduction, TLAPS

Entry == [key : Keys, archived : BOOLEAN]

ReqState ==
  [op : {"none", "insert", "archive"}, rows : Seq(Row),
   inserted : Nat, id : Nat]

(* A transaction has inserted no more than its file, and each identity     *)
(* once; no active row and no other transaction has any of them.           *)
Apart(r) ==
  /\ req[r].inserted <= Len(req[r].rows)
  /\ req[r].op # "insert" => req[r].inserted = 0 /\ req[r].rows = << >>
  /\ req[r].op = "archive" => req[r].id \in DOMAIN table
  /\ \A i \in 1..req[r].inserted :
       /\ \A k \in ActiveRows : table[k].key # req[r].rows[i].key
       /\ \A k \in 1..req[r].inserted :
            req[r].rows[k].key = req[r].rows[i].key => k = i
       /\ \A s \in Requests \ {r} : \A k \in 1..req[s].inserted :
            req[s].rows[k].key # req[r].rows[i].key

MInv == MasterTypeOK /\ ActiveOnce /\ \A r \in Requests : Apart(r)

(* A step that leaves the table alone and holds no new identity.           *)
LEMMA ReqOnly ==
  ASSUME MInv, NEW r \in Requests, NEW s \in ReqState,
         req' = [req EXCEPT ![r] = s], table' = table,
         s.inserted = 0, s.op # "insert" => s.rows = << >>,
         s.op = "archive" => s.id \in DOMAIN table
  PROVE  MInv'
<1>1. MasterTypeOK'
  BY DEF MInv, MasterTypeOK, ReqState
<1>2. ActiveOnce'
  BY DEF MInv, ActiveOnce, ActiveRows
<1>3. ASSUME NEW q \in Requests PROVE Apart(q)'
  <2>1. \A t \in Requests : req'[t] = IF t = r THEN s ELSE req[t]
    BY DEF MInv, MasterTypeOK
  <2>2. \A t \in Requests : 1..req'[t].inserted \subseteq 1..req[t].inserted
    BY <2>1 DEF MInv, MasterTypeOK
  <2>3. CASE q = r
    <3>1. 1..req'[r].inserted = {} /\ req'[r].inserted = 0
      BY <2>1
    <3>2. req'[r].inserted <= Len(req'[r].rows)
      BY <2>1, <3>1 DEF ReqState
    <3>3. QED BY <2>1, <2>3, <3>1, <3>2 DEF Apart
  <2>4. CASE q # r
    <3>1. req'[q] = req[q] /\ Apart(q)
      BY <2>1, <2>4 DEF MInv
    <3>2. \A t \in Requests \ {q} : \A k \in 1..req'[t].inserted :
            k \in 1..req[t].inserted /\ req'[t].rows[k] = req[t].rows[k]
      <4> SUFFICES ASSUME NEW t \in Requests \ {q}, NEW k \in 1..req'[t].inserted
                   PROVE  k \in 1..req[t].inserted /\ req'[t].rows[k] = req[t].rows[k]
        OBVIOUS
      <4>1. t # r
        BY <2>1
      <4>2. QED BY <2>1, <4>1
    <3>3. QED BY <3>1, <3>2 DEF Apart, ActiveRows
  <2>5. QED BY <2>3, <2>4
<1>4. QED BY <1>1, <1>2, <1>3 DEF MInv

LEMMA EndKeeps ==
  ASSUME MInv, NEW r \in Requests, End(r), table' = table
  PROVE  MInv'
<1>1. /\ Idle \in ReqState /\ Idle.inserted = 0 /\ Idle.op = "none"
      /\ Idle.rows = << >>
  BY DEF Idle, ReqState
<1>2. QED BY <1>1, ReqOnly DEF End

LEMMA ReceiveKeeps ==
  ASSUME MInv, NEW r \in Requests, Receive(r)
  PROVE  MInv'
<1>1. ASSUME NEW rows \in Files, ReceiveImport(r, rows) PROVE MInv'
  <2> DEFINE s == [Idle EXCEPT !.op = "insert", !.rows = rows]
  <2>1. s \in ReqState /\ s.inserted = 0 /\ s.op = "insert"
    BY MasterAssumption DEF ReqState, Idle
  <2>2. req' = [req EXCEPT ![r] = s] /\ table' = table
    BY <1>1 DEF ReceiveImport
  <2>3. QED BY <2>1, <2>2, ReqOnly
<1>2. ASSUME NEW row \in Forms, ReceiveForm(r, row) PROVE MInv'
  <2> DEFINE s == [Idle EXCEPT !.op = "insert", !.rows = <<row>>]
  <2>1. s \in ReqState /\ s.inserted = 0 /\ s.op = "insert"
    <3>1. <<row>> \in Seq(Row)
      BY MasterAssumption
    <3>2. QED BY <3>1 DEF ReqState, Idle
  <2>2. req' = [req EXCEPT ![r] = s] /\ table' = table
    BY <1>2 DEF ReceiveForm
  <2>3. QED BY <2>1, <2>2, ReqOnly
<1>3. ASSUME NEW id \in DOMAIN table, ReceiveArchive(r, id) PROVE MInv'
  <2> DEFINE s == [Idle EXCEPT !.op = "archive", !.id = id]
  <2>1. s \in ReqState /\ s.inserted = 0 /\ s.id = id /\ s.rows = << >>
    <3>1. id \in Nat
      BY DEF MInv, MasterTypeOK
    <3>2. Idle \in ReqState /\ Idle.inserted = 0 /\ Idle.rows = << >>
      BY DEF Idle, ReqState
    <3>3. QED BY <3>1, <3>2 DEF ReqState
  <2>2. req' = [req EXCEPT ![r] = s] /\ table' = table
    BY <1>3 DEF ReceiveArchive
  <2>3. QED BY <2>1, <2>2, ReqOnly
<1>4. QED BY <1>1, <1>2, <1>3 DEF Receive

(* The row that is inserted next is held by nobody.                        *)
LEMMA InsertKeeps ==
  ASSUME MInv, NEW r \in Requests, InsertRow(r)
  PROVE  MInv'
<1> DEFINE n == req[r].inserted + 1
           s == [req[r] EXCEPT !.inserted = n]
           key == req[r].rows[n].key
<1>1. req \in [Requests -> ReqState]
  BY DEF MInv, MasterTypeOK, ReqState
<1>2. /\ req[r].op = "insert" /\ n \in 1..Len(req[r].rows) /\ n \in Nat
      /\ req[r].inserted \in Nat
  BY <1>1 DEF InsertRow, More, Doing, ReqState
<1>3. req' = [req EXCEPT ![r] = s] /\ table' = table
  BY <1>1 DEF InsertRow
<1>4. /\ \A t \in Requests : req'[t] = IF t = r THEN s ELSE req[t]
      /\ s.inserted = n /\ s.rows = req[r].rows /\ s.op = "insert" /\ s.id = req[r].id
  BY <1>1, <1>2, <1>3 DEF ReqState
<1>5. \A k \in ActiveRows : table[k].key # key
  BY DEF InsertRow, InsertFails, Taken, NextRow, ActiveKeys
<1>6. \A k \in 1..req[r].inserted : req[r].rows[k].key # key
  BY DEF InsertRow, InsertFails, Taken, NextRow, Pending
<1>7. \A t \in Requests \ {r} : \A k \in 1..req[t].inserted :
        req[t].rows[k].key # key
  BY DEF InsertRow, Waiting, Holders, NextRow, Pending
<1>8. MasterTypeOK'
  <2>1. s \in ReqState
    BY <1>1, <1>2 DEF ReqState
  <2>2. req' \in [Requests -> ReqState]
    BY <1>1, <1>3, <2>1
  <2>3. QED BY <1>3, <2>2 DEF MInv, MasterTypeOK, ReqState
<1>9. ActiveOnce'
  BY <1>3 DEF MInv, ActiveOnce, ActiveRows
<1>10. ASSUME NEW q \in Requests PROVE Apart(q)'
  <2>1. ActiveRows' = ActiveRows /\ Apart(q)
    BY <1>3 DEF ActiveRows, MInv
  <2>2. CASE q = r
    <3>1. \A i \in 1..n : i = n \/ i \in 1..req[r].inserted
      BY <1>2
    <3>2. req'[r] = s /\ \A t \in Requests \ {r} : req'[t] = req[t]
      BY <1>4
    <3>3. ASSUME NEW i \in 1..n
          PROVE  /\ \A k \in ActiveRows : table[k].key # req[r].rows[i].key
                 /\ \A k \in 1..n : req[r].rows[k].key = req[r].rows[i].key => k = i
                 /\ \A t \in Requests \ {r} : \A k \in 1..req[t].inserted :
                      req[t].rows[k].key # req[r].rows[i].key
      <4>1. CASE i = n
        BY <1>5, <1>6, <1>7, <3>1, <4>1
      <4>2. CASE i \in 1..req[r].inserted
        BY <1>6, <2>1, <2>2, <3>1, <4>2 DEF Apart
      <4>3. QED BY <3>1, <4>1, <4>2
    <3>4. QED BY <1>2, <1>3, <2>1, <2>2, <3>2, <3>3 DEF Apart
  <2>3. CASE q # r
    <3>1. req'[q] = req[q]
      BY <1>4, <2>3
    <3>2. ASSUME NEW i \in 1..req[q].inserted, NEW t \in Requests \ {q},
                 NEW k \in 1..req'[t].inserted
          PROVE  req'[t].rows[k].key # req[q].rows[i].key
      <4>1. CASE t = r
        <5>1. req'[t].rows[k] = req[r].rows[k] /\ k \in 1..n
          BY <1>4, <4>1
        <5>2. k = n \/ k \in 1..req[r].inserted
          BY <1>2, <5>1
        <5>3. QED BY <1>7, <2>1, <2>3, <4>1, <5>1, <5>2 DEF Apart
      <4>2. CASE t # r
        BY <1>4, <2>1, <4>2 DEF Apart
      <4>3. QED BY <4>1, <4>2
    <3>3. \A i \in 1..req[q].inserted :
            \A t \in Requests \ {q} : \A k \in 1..req'[t].inserted :
              req'[t].rows[k].key # req[q].rows[i].key
      BY <3>2
    <3>4. ASSUME NEW i \in 1..req[q].inserted
          PROVE  /\ \A k \in ActiveRows : table[k].key # req[q].rows[i].key
                 /\ \A k \in 1..req[q].inserted :
                      req[q].rows[k].key = req[q].rows[i].key => k = i
      BY <2>1 DEF Apart
    <3>5. /\ req[q].inserted <= Len(req[q].rows)
          /\ req[q].op # "insert" => req[q].inserted = 0 /\ req[q].rows = << >>
          /\ req[q].op = "archive" => req[q].id \in DOMAIN table
      BY <2>1 DEF Apart
    <3>6. table' = table /\ DOMAIN table' = DOMAIN table /\ ActiveRows' = ActiveRows
      BY <1>3, <2>1
    <3>7. \A i \in 1..req'[q].inserted :
            /\ \A k \in ActiveRows' : table'[k].key # req'[q].rows[i].key
            /\ \A k \in 1..req'[q].inserted :
                 req'[q].rows[k].key = req'[q].rows[i].key => k = i
            /\ \A t \in Requests \ {q} : \A k \in 1..req'[t].inserted :
                 req'[t].rows[k].key # req'[q].rows[i].key
      BY <3>1, <3>3, <3>4, <3>6
    <3>8. QED BY <3>1, <3>5, <3>6, <3>7 DEF Apart
  <2>4. QED BY <2>2, <2>3
<1>11. QED BY <1>8, <1>9, <1>10 DEF MInv

(* The commit makes what the transaction holds the table's.                *)
LEMMA CommitKeeps ==
  ASSUME MInv, NEW r \in Requests, Commit(r)
  PROVE  MInv'
<1> DEFINE rows == req[r].rows
           new == Stored(rows)
<1>1. /\ req \in [Requests -> ReqState] /\ table \in Seq(Entry)
      /\ rows \in Seq(Row)
  BY DEF MInv, MasterTypeOK, ReqState, Entry
<1>2. req[r].inserted = Len(rows)
  BY <1>1 DEF Commit, Doing, More, MInv, Apart, ReqState
<1>3. new \in Seq(Entry) /\ Len(new) = Len(rows)
  <2>1. \A i \in 1..Len(rows) : rows[i] \in Row
    BY <1>1
  <2>2. new \in [1..Len(rows) -> Entry]
    BY <1>1, <2>1 DEF Stored, Entry, Row
  <2>3. QED BY <1>1, <2>2
<1>4. \A i \in 1..Len(rows) : new[i].key = rows[i].key /\ new[i].archived = FALSE
  BY <1>1 DEF Stored
<1>5. /\ table' = table \o new
      /\ req' = [req EXCEPT ![r] = Idle]
      /\ \A t \in Requests : req'[t] = IF t = r THEN Idle ELSE req[t]
  BY <1>1 DEF Commit, End
<1>6. /\ table' \in Seq(Entry) /\ Len(table') = Len(table) + Len(rows)
      /\ \A i \in 1..Len(table') :
           table'[i] = IF i <= Len(table) THEN table[i] ELSE new[i - Len(table)]
  <2> HIDE DEF new
  <2>1. table' \in Seq(Entry) /\ Len(table') = Len(table) + Len(new)
    <3> HIDE DEF rows
    <3>1. table \in Seq(Entry) /\ new \in Seq(Entry)
      BY <1>1, <1>3
    <3>2. table \o new \in Seq(Entry) /\ Len(table \o new) = Len(table) + Len(new)
      BY ONLY <3>1, ConcatProperties
    <3>3. QED BY ONLY <1>5, <3>2
  <2>2. \A i \in 1..(Len(table) + Len(new)) :
          (table \o new)[i] = IF i <= Len(table) THEN table[i] ELSE new[i - Len(table)]
    BY <1>1, <1>3, ConcatProperties
  <2>3. QED BY <1>3, <1>5, <2>1, <2>2
<1>7. MasterTypeOK'
  <2>1. Idle \in ReqState
    BY DEF Idle, ReqState
  <2>2. req' \in [Requests -> ReqState]
    BY <1>1, <1>5, <2>1
  <2>3. QED BY <1>6, <2>2 DEF MasterTypeOK, ReqState, Entry
<1>8. ASSUME NEW i \in ActiveRows'
      PROVE  \/ i \in ActiveRows /\ table'[i] = table[i]
             \/ /\ i - Len(table) \in 1..Len(rows) /\ i > Len(table)
                /\ table'[i].key = rows[i - Len(table)].key
  <2>1. i \in 1..Len(table') /\ i \in Nat /\ Len(table) \in Nat /\ Len(rows) \in Nat
    BY <1>1, <1>6 DEF ActiveRows
  <2>2. CASE i <= Len(table)
    BY <1>1, <1>6, <2>1, <2>2 DEF ActiveRows
  <2>3. CASE i > Len(table)
    <3>1. i - Len(table) \in 1..Len(rows)
      BY <1>6, <2>1, <2>3
    <3>2. QED BY <1>4, <1>6, <2>1, <2>3, <3>1
  <2>4. QED BY <2>1, <2>2, <2>3
<1>9. Apart(r)
  BY DEF MInv
<1>10. ActiveOnce'
  <2> SUFFICES ASSUME NEW i \in ActiveRows', NEW k \in ActiveRows',
                      table'[i].key = table'[k].key
               PROVE  i = k
    BY DEF ActiveOnce
  <2>1. CASE i \in ActiveRows /\ table'[i] = table[i]
    BY <1>2, <1>8, <1>9, <2>1 DEF Apart, MInv, ActiveOnce
  <2>2. CASE k \in ActiveRows /\ table'[k] = table[k]
    BY <1>2, <1>8, <1>9, <2>2 DEF Apart, MInv, ActiveOnce
  <2>3. CASE /\ i - Len(table) \in 1..Len(rows) /\ k - Len(table) \in 1..Len(rows)
             /\ table'[i].key = rows[i - Len(table)].key
             /\ table'[k].key = rows[k - Len(table)].key
    <3>1. i - Len(table) = k - Len(table)
      BY <1>2, <1>9, <2>3 DEF Apart
    <3>2. i \in Int /\ k \in Int /\ Len(table) \in Int
      BY <1>1, <1>6 DEF ActiveRows
    <3>3. QED BY <3>1, <3>2
  <2>4. QED BY <1>8, <2>1, <2>2, <2>3
<1>11. ASSUME NEW q \in Requests PROVE Apart(q)'
  <2>1. CASE q = r
    BY <1>5, <2>1 DEF Apart, Idle
  <2>2. CASE q # r
    <3>1. req'[q] = req[q] /\ Apart(q)
      BY <1>5, <2>2 DEF MInv
    <3>2. ASSUME NEW i \in 1..req[q].inserted, NEW k \in ActiveRows'
          PROVE  table'[k].key # req[q].rows[i].key
      BY <1>2, <1>8, <2>2, <3>1 DEF Apart
    <3>3. \A t \in Requests : \A k \in 1..req'[t].inserted :
            k \in 1..req[t].inserted /\ req'[t].rows[k] = req[t].rows[k]
      BY <1>5 DEF Idle
    <3>4. DOMAIN table \subseteq DOMAIN table'
      BY <1>1, <1>6
    <3>5. QED BY <3>1, <3>2, <3>3, <3>4 DEF Apart
  <2>3. QED BY <2>1, <2>2
<1>12. QED BY <1>7, <1>10, <1>11 DEF MInv

LEMMA ArchiveKeeps ==
  ASSUME MInv, NEW r \in Requests, Archive(r)
  PROVE  MInv'
<1> DEFINE id == req[r].id
<1>1. req \in [Requests -> ReqState] /\ table \in Seq(Entry)
  BY DEF MInv, MasterTypeOK, ReqState, Entry
<1>2. id \in DOMAIN table
  BY DEF Archive, Doing, MInv, Apart
<1>3. /\ table' = [table EXCEPT ![id].archived = TRUE]
      /\ req' = [req EXCEPT ![r] = Idle]
      /\ \A t \in Requests : req'[t] = IF t = r THEN Idle ELSE req[t]
  BY <1>1 DEF Archive, End
<1>4. table' \in Seq(Entry) /\ DOMAIN table' = DOMAIN table
  <2>1. [table[id] EXCEPT !.archived = TRUE] \in Entry
    <3>1. table[id] \in Entry
      BY <1>1, <1>2
    <3>2. QED BY <3>1, Zenon DEF Entry
  <2>2. table' = [table EXCEPT ![id] = [table[id] EXCEPT !.archived = TRUE]]
    BY <1>3
  <2>3. QED BY <1>1, <1>2, <2>1, <2>2
<1>5. \A i \in ActiveRows' : i \in ActiveRows /\ table'[i] = table[i]
  BY <1>1, <1>2, <1>3, <1>4 DEF ActiveRows, Entry
<1>6. MasterTypeOK'
  <2>1. Idle \in ReqState
    BY DEF Idle, ReqState
  <2>2. req' \in [Requests -> ReqState]
    BY <1>1, <1>3, <2>1
  <2>3. QED BY <1>4, <2>2 DEF MasterTypeOK, ReqState, Entry
<1>7. ActiveOnce'
  BY <1>5 DEF MInv, ActiveOnce
<1>8. ASSUME NEW q \in Requests PROVE Apart(q)'
  <2>1. CASE q = r
    BY <1>3, <2>1 DEF Apart, Idle
  <2>2. CASE q # r
    <3>1. req'[q] = req[q] /\ Apart(q)
      BY <1>3, <2>2 DEF MInv
    <3>2. \A t \in Requests : \A k \in 1..req'[t].inserted :
            k \in 1..req[t].inserted /\ req'[t].rows[k] = req[t].rows[k]
      BY <1>3 DEF Idle
    <3>3. QED BY <1>4, <1>5, <3>1, <3>2 DEF Apart
  <2>3. QED BY <2>1, <2>2
<1>9. QED BY <1>6, <1>7, <1>8 DEF MInv

(* The server stops: no transaction holds anything.                        *)
LEMMA CrashKeeps == ASSUME MInv, Crash PROVE MInv'
<1>1. req' = [r \in Requests |-> Idle] /\ table' = table
  BY DEF Crash
<1>2. Idle \in ReqState
  BY DEF Idle, ReqState
<1>3. MasterTypeOK'
  BY <1>1, <1>2 DEF MInv, MasterTypeOK, ReqState
<1>4. ActiveOnce'
  BY <1>1 DEF MInv, ActiveOnce, ActiveRows
<1>5. \A r \in Requests : Apart(r)'
  BY <1>1 DEF Apart, Idle
<1>6. QED BY <1>3, <1>4, <1>5 DEF MInv

(* The invariant holds in every reachable state.                           *)
THEOREM MasterInvariant == Spec => []MInv
<1>1. Init => MInv
  <2> SUFFICES ASSUME Init PROVE MInv
    OBVIOUS
  <2>1. Idle \in ReqState /\ << >> \in Seq(Entry)
    BY DEF Idle, ReqState
  <2>2. MasterTypeOK
    BY <2>1 DEF Init, MasterTypeOK, ReqState, Entry
  <2>3. ActiveOnce
    BY DEF Init, ActiveOnce, ActiveRows
  <2>4. \A r \in Requests : Apart(r)
    BY DEF Init, Apart, Idle
  <2>5. QED BY <2>2, <2>3, <2>4 DEF MInv
<1>2. MInv /\ [Next]_vars => MInv'
  <2> SUFFICES ASSUME MInv, [Next]_vars PROVE MInv'
    OBVIOUS
  <2>1. ASSUME NEW r \in Requests, Receive(r) PROVE MInv'
    BY <2>1, ReceiveKeeps
  <2>2. ASSUME NEW r \in Requests, InsertRow(r) PROVE MInv'
    BY <2>2, InsertKeeps
  <2>3. ASSUME NEW r \in Requests, ImportFails(r) \/ Cancel(r) PROVE MInv'
    BY <2>3, EndKeeps DEF ImportFails, Cancel
  <2>4. ASSUME NEW r \in Requests, Commit(r) PROVE MInv'
    BY <2>4, CommitKeeps
  <2>5. ASSUME NEW r \in Requests, Archive(r) PROVE MInv'
    BY <2>5, ArchiveKeeps
  <2>6. CASE DeadlockDetected
    BY <2>6, EndKeeps DEF DeadlockDetected
  <2>7. CASE Crash
    BY <2>7, CrashKeeps
  <2>8. CASE UNCHANGED vars
    BY <2>8 DEF vars, MInv, MasterTypeOK, ActiveOnce, ActiveRows, Apart
  <2>9. QED BY <2>1, <2>2, <2>3, <2>4, <2>5, <2>6, <2>7, <2>8 DEF Next, Advance
<1>3. QED BY <1>1, <1>2, PTL DEF Spec

(* The type invariant of the table and the requests.                       *)
THEOREM MasterTypes == Spec => []MasterTypeOK
BY MasterInvariant, PTL DEF MInv

(* No identity is active twice, however many requests insert and archive.  *)
THEOREM IdentityActiveOnce == Spec => []ActiveOnce
BY MasterInvariant, PTL DEF MInv

-----------------------------------------------------------------------------
(* No deadlock goes unseen.                                                *)

(* Among the nonempty sets of a finite family one has fewest members.      *)
LEMMA Fewest ==
  ASSUME NEW T, IsFiniteSet(T), NEW F \in SUBSET SUBSET T, F # {}
  PROVE  \E S \in F : \A U \in F : Cardinality(S) <= Cardinality(U)
<1> DEFINE sizes == {Cardinality(S) : S \in F}
<1>1. \A S \in F : Cardinality(S) \in Nat
  BY FS_Subset, FS_CardinalityType
<1>2. sizes \subseteq Nat /\ sizes # {}
  BY <1>1
<1>3. PICK n \in sizes : \A m \in sizes : ~(m < n)
  <2> DEFINE R == OpToRel(<, Nat)
  <2>1. IsWellFoundedOn(R, Nat)
    BY NatLessThanWellFounded
  <2>2. \A m, n \in Nat : m < n => <<m, n>> \in R
    BY DEF OpToRel
  <2> HIDE DEF R, sizes
  <2>3. PICK n \in sizes : \A m \in sizes : ~(<<m, n>> \in R)
    BY <1>2, <2>1, WFMin
  <2>4. QED BY <1>2, <2>2, <2>3
<1>4. PICK S \in F : Cardinality(S) = n
  BY <1>3
<1>5. \A U \in F : Cardinality(S) <= Cardinality(U)
  BY <1>1, <1>3, <1>4
<1>6. QED BY <1>5

(* Only a transaction that inserts holds an identity.                      *)
LEMMA HoldersInsert ==
  ASSUME MInv, NEW r \in Requests, NEW s \in Holders(r)
  PROVE  s \in Requests /\ Doing(s, "insert")
<1>1. s \in Requests /\ Pending(s) # {}
  BY DEF Holders
<1>2. req[s].inserted # 0
  BY <1>1 DEF Pending
<1>3. QED BY <1>1, <1>2 DEF MInv, Apart, Doing

(* Follow the waits: the requests that insert are closed under "waits      *)
(* for", and a smallest nonempty closed set is a cycle.                    *)
THEOREM StuckMeansCycle ==
  ASSUME IsFiniteSet(Requests) PROVE Spec => []StuckIsACycle
<1>1. ASSUME MInv PROVE StuckIsACycle
  <2> DEFINE Inserting == {r \in Requests : Doing(r, "insert")}
             After(S) == UNION {Holders(s) : s \in S}
             Closed == {S \in SUBSET Inserting : S # {} /\ After(S) \subseteq S}
  <2> SUFFICES ASSUME Inserting # {}, \A r \in Inserting : Waiting(r)
               PROVE  \E r \in Inserting : InCycle(r)
    BY DEF StuckIsACycle
  <2>1. \A r \in Inserting : Holders(r) # {} /\ Holders(r) \subseteq Inserting
    BY <1>1, HoldersInsert DEF Waiting
  <2>2. Inserting \in Closed
    BY <2>1
  <2>3. \A S \in Closed : After(S) \in Closed
    <3> SUFFICES ASSUME NEW S \in Closed PROVE After(S) \in Closed
      OBVIOUS
    <3>1. S \subseteq Inserting /\ After(S) \subseteq S
      OBVIOUS
    <3>2. After(S) # {}
      BY <2>1
    <3>3. After(After(S)) \subseteq After(S)
      BY <3>1
    <3>4. QED BY <3>1, <3>2, <3>3
  <2>4. IsFiniteSet(Inserting)
    BY FS_Subset
  <2>5. PICK S \in Closed : \A U \in Closed : Cardinality(S) <= Cardinality(U)
    <3>1. Closed \in SUBSET SUBSET Inserting /\ Closed # {}
      BY <2>2
    <3> HIDE DEF Closed
    <3>2. QED BY <2>4, <3>1, Fewest
  <2>6. After(S) = S
    <3>1. After(S) \in Closed /\ After(S) \in SUBSET S /\ IsFiniteSet(S)
      BY <2>3, <2>4, FS_Subset
    <3>2. Cardinality(S) <= Cardinality(After(S))
      BY <2>5, <3>1
    <3>3. Cardinality(After(S)) <= Cardinality(S)
      BY <3>1, FS_Subset
    <3>4. Cardinality(S) \in Nat /\ Cardinality(After(S)) \in Nat
      BY <3>1, FS_Subset, FS_CardinalityType
    <3>5. QED BY <3>1, <3>2, <3>3, <3>4, FS_Subset
  <2>7. PICK r : r \in S
    OBVIOUS
  <2>8. r \in Inserting /\ S \in SUBSET Requests
    BY <2>7
  <2>9. InCycle(r)
    BY <2>6, <2>7, <2>8 DEF InCycle
  <2>10. QED BY <2>8, <2>9
<1>2. QED BY <1>1, MasterInvariant, PTL

-----------------------------------------------------------------------------
(* The refinement: what every step is in the catalogue.                    *)

AskedBy == [r \in Requests |-> Asked(r)]

(* A step of one request that leaves the table alone.                      *)
LEMMA AskedMoves ==
  ASSUME MInv, NEW r \in Requests, NEW s, req' = [req EXCEPT ![r] = s]
  PROVE  AskedBy' = [AskedBy EXCEPT ![r] = KeysOf(s.rows)]
<1>1. \A t \in Requests : req'[t] = IF t = r THEN s ELSE req[t]
  BY DEF MInv, MasterTypeOK
<1>2. \A t \in Requests : Asked(t)' =
        IF t = r THEN KeysOf(s.rows) ELSE Asked(t)
  BY <1>1 DEF Asked
<1>3. QED BY <1>2 DEF AskedBy

LEMMA TableKept == ASSUME table' = table PROVE ActiveKeys' = ActiveKeys
BY DEF ActiveKeys, ActiveRows

(* A request that ends without a change of the table is turned away.       *)
LEMMA EndIsTurnAway ==
  ASSUME MInv, NEW r \in Requests, End(r), table' = table
  PROVE  Promise!Next
<1>1. AskedBy' = [AskedBy EXCEPT ![r] = {}]
  <2>1. KeysOf(Idle.rows) = {}
    BY DEF Idle, KeysOf
  <2>2. QED BY <2>1, AskedMoves DEF End
<1>2. AskedBy' = [t \in Requests |-> IF t \in {r} THEN {} ELSE AskedBy[t]]
  BY <1>1 DEF AskedBy
<1>3. Promise!TurnAway({r})
  BY <1>2, TableKept DEF Promise!TurnAway, AskedBy
<1>4. QED BY <1>3 DEF Promise!Next

(* A file or a form that is received is asked for as a whole.              *)
LEMMA ReceiveIsAsk ==
  ASSUME MInv, NEW r \in Requests, NEW rows \in Seq(Row), NEW s,
         Doing(r, "none"), s.rows = rows, req' = [req EXCEPT ![r] = s],
         table' = table
  PROVE  Promise!Next
<1> DEFINE batch == KeysOf(rows)
<1>1. batch \in SUBSET Keys
  <2>1. \A i \in DOMAIN rows : rows[i] \in Row
    OBVIOUS
  <2>2. QED BY <2>1 DEF KeysOf, Row
<1>2. AskedBy' = [AskedBy EXCEPT ![r] = batch]
  BY AskedMoves
<1>3. AskedBy[r] = {}
  <2>1. req[r].rows = << >>
    BY DEF MInv, Apart, Doing
  <2>2. QED BY <2>1 DEF AskedBy, Asked, KeysOf
<1>4. Promise!Ask(r, batch)
  BY <1>2, <1>3, TableKept DEF Promise!Ask, AskedBy
<1>5. QED BY <1>1, <1>4 DEF Promise!Next

LEMMA CommitIsAdd ==
  ASSUME MInv, MInv', NEW r \in Requests, Commit(r)
  PROVE  Promise!Next
<1> DEFINE rows == req[r].rows
           new == Stored(rows)
<1>1. /\ req \in [Requests -> ReqState] /\ table \in Seq(Entry)
      /\ rows \in Seq(Row) /\ Apart(r)
  BY DEF MInv, MasterTypeOK, ReqState, Entry
<1>2. req[r].inserted = Len(rows)
  BY <1>1 DEF Commit, Doing, More, Apart, ReqState
<1>3. new \in Seq(Entry) /\ Len(new) = Len(rows)
  <2>1. \A i \in 1..Len(rows) : rows[i] \in Row
    BY <1>1
  <2>2. new \in [1..Len(rows) -> Entry]
    BY <1>1, <2>1 DEF Stored, Entry, Row
  <2>3. QED BY <1>1, <2>2
<1>4. \A i \in 1..Len(rows) : new[i].key = rows[i].key /\ new[i].archived = FALSE
  BY <1>1 DEF Stored
<1>5. AskedBy[r] \cap ActiveKeys = {}
  BY <1>1, <1>2 DEF Apart, AskedBy, Asked, KeysOf, ActiveKeys
<1>6. ActiveKeys' = ActiveKeys \cup AskedBy[r]
  <2> HIDE DEF new
  <2>1. /\ Len(table') = Len(table) + Len(rows) /\ table' \in Seq(Entry)
        /\ \A i \in 1..(Len(table) + Len(rows)) :
             table'[i] = IF i <= Len(table) THEN table[i] ELSE new[i - Len(table)]
    <3>1. table' = table \o new
      BY DEF Commit, new
    <3>2. table' \in Seq(Entry) /\ Len(table') = Len(table) + Len(new)
      BY <1>1, <1>3, <3>1, ConcatProperties
    <3>3. \A i \in 1..(Len(table) + Len(new)) :
            (table \o new)[i] = IF i <= Len(table) THEN table[i] ELSE new[i - Len(table)]
      BY <1>1, <1>3, ConcatProperties
    <3>4. QED BY <1>3, <3>1, <3>2, <3>3
  <2>2. ASSUME NEW i \in ActiveRows'
        PROVE  table'[i].key \in ActiveKeys \cup AskedBy[r]
    <3>1. i \in 1..(Len(table) + Len(rows)) /\ Len(table) \in Nat /\ Len(rows) \in Nat
      BY <1>1, <2>1 DEF ActiveRows
    <3>2. CASE i <= Len(table)
      BY <1>1, <2>1, <2>2, <3>1, <3>2 DEF ActiveKeys, ActiveRows
    <3>3. CASE i > Len(table)
      <4>1. i - Len(table) \in 1..Len(rows)
        BY <3>1, <3>3
      <4>2. table'[i].key = rows[i - Len(table)].key
        <5>1. table'[i] = new[i - Len(table)]
          BY ONLY <2>1, <3>1, <3>3
        <5>2. QED BY ONLY <1>4, <4>1, <5>1
      <4>3. QED BY <1>1, <4>1, <4>2 DEF AskedBy, Asked, KeysOf
    <3>4. QED BY <3>1, <3>2, <3>3
  <2>3. ASSUME NEW i \in ActiveRows PROVE table[i].key \in ActiveKeys'
    <3>1. i \in 1..Len(table) /\ i \in 1..(Len(table) + Len(rows))
      BY <1>1 DEF ActiveRows
    <3>2. i \in ActiveRows' /\ table'[i] = table[i]
      BY <2>1, <2>3, <3>1 DEF ActiveRows
    <3>3. QED BY <3>2 DEF ActiveKeys
  <2>4. ASSUME NEW i \in DOMAIN rows PROVE rows[i].key \in ActiveKeys'
    <3> DEFINE k == Len(table) + i
    <3>1. k \in 1..(Len(table) + Len(rows)) /\ k > Len(table) /\ k - Len(table) = i
      BY <1>1
    <3>2. table'[k] = new[i]
      BY <2>1, <3>1
    <3>3. k \in ActiveRows' /\ table'[k].key = rows[i].key
      BY <1>1, <1>4, <2>1, <3>1, <3>2 DEF ActiveRows
    <3>4. QED BY <3>3 DEF ActiveKeys
  <2>5. ActiveKeys' \subseteq ActiveKeys \cup AskedBy[r]
    BY <2>2 DEF ActiveKeys
  <2>6. ActiveKeys \subseteq ActiveKeys'
    BY <2>3 DEF ActiveKeys
  <2>7. AskedBy[r] \subseteq ActiveKeys'
    BY <2>4 DEF AskedBy, Asked, KeysOf
  <2>8. QED BY <2>5, <2>6, <2>7
<1>7. AskedBy' = [AskedBy EXCEPT ![r] = {}]
  <2>1. KeysOf(Idle.rows) = {}
    BY DEF Idle, KeysOf
  <2>2. QED BY <2>1, AskedMoves DEF Commit, End
<1>8. Promise!Add(r)
  BY <1>5, <1>6, <1>7 DEF Promise!Add, AskedBy
<1>9. QED BY <1>8 DEF Promise!Next

LEMMA ArchiveIsWithdraw ==
  ASSUME MInv, NEW r \in Requests, Archive(r)
  PROVE  [Promise!Next]_(Promise!vars)
<1> DEFINE id == req[r].id
<1>1. req \in [Requests -> ReqState] /\ table \in Seq(Entry) /\ Apart(r)
  BY DEF MInv, MasterTypeOK, ReqState, Entry
<1>2. id \in DOMAIN table /\ req[r].rows = << >>
  BY <1>1 DEF Archive, Doing, Apart
<1>3. table' = [table EXCEPT ![id].archived = TRUE] /\ DOMAIN table' = DOMAIN table
  BY <1>1 DEF Archive
<1>4. AskedBy' = AskedBy
  <2>1. KeysOf(Idle.rows) = {} /\ AskedBy[r] = {}
    BY <1>2 DEF Idle, AskedBy, Asked, KeysOf
  <2>2. AskedBy' = [AskedBy EXCEPT ![r] = {}]
    BY <2>1, AskedMoves DEF Archive, End
  <2>3. QED BY <2>1, <2>2 DEF AskedBy
<1>5. ActiveRows' = ActiveRows \ {id} /\ \A i \in ActiveRows' : table'[i] = table[i]
  BY <1>1, <1>2, <1>3 DEF ActiveRows, Entry
<1>6. CASE id \in ActiveRows
  <2>1. table[id].key \in ActiveKeys /\ table[id].key \in Keys
    <3>1. table[id] \in Entry
      BY <1>1, <1>2
    <3>2. QED BY <1>6, <3>1 DEF ActiveKeys, Entry
  <2>2. \A i \in ActiveRows : table[i].key = table[id].key => i = id
    BY <1>6 DEF MInv, ActiveOnce
  <2>3. ActiveKeys' = ActiveKeys \ {table[id].key}
    BY <1>5, <2>2 DEF ActiveKeys
  <2>4. Promise!Withdraw(table[id].key)
    BY <1>4, <2>1, <2>3 DEF Promise!Withdraw, AskedBy
  <2>5. QED BY <2>1, <2>4 DEF Promise!Next
<1>7. CASE id \notin ActiveRows
  <2>1. ActiveKeys' = ActiveKeys
    BY <1>5, <1>7 DEF ActiveKeys
  <2>2. QED BY <1>4, <2>1 DEF Promise!vars, AskedBy
<1>8. QED BY <1>6, <1>7

(* Every behaviour of the master data is one of the catalogue.             *)
THEOREM MasterImplementsCatalogue == Spec => ImplementsCatalogue
<1>1. Init => Promise!Init
  BY DEF Init, Promise!Init, ActiveKeys, ActiveRows, Asked, KeysOf, Idle
<1>2. MInv /\ MInv' /\ [Next]_vars => [Promise!Next]_(Promise!vars)
  <2> SUFFICES ASSUME MInv, MInv', [Next]_vars
               PROVE  [Promise!Next]_(Promise!vars)
    OBVIOUS
  <2>1. ASSUME NEW r \in Requests, NEW rows \in Files, ReceiveImport(r, rows)
        PROVE  Promise!Next
    <3>1. rows \in Seq(Row)
      BY MasterAssumption
    <3>2. [Idle EXCEPT !.op = "insert", !.rows = rows].rows = rows
      BY DEF Idle
    <3>3. QED BY <2>1, <3>1, <3>2, ReceiveIsAsk DEF ReceiveImport
  <2>2. ASSUME NEW r \in Requests, NEW row \in Forms, ReceiveForm(r, row)
        PROVE  Promise!Next
    <3>1. <<row>> \in Seq(Row)
      BY MasterAssumption
    <3>2. [Idle EXCEPT !.op = "insert", !.rows = <<row>>].rows = <<row>>
      BY DEF Idle
    <3>3. QED BY <2>2, <3>1, <3>2, ReceiveIsAsk DEF ReceiveForm
  <2>3. ASSUME NEW r \in Requests, NEW id \in DOMAIN table, ReceiveArchive(r, id)
        PROVE  Promise!Next
    <3>1. << >> \in Seq(Row)
      OBVIOUS
    <3>2. [Idle EXCEPT !.op = "archive", !.id = id].rows = << >>
      BY DEF Idle
    <3>3. QED BY <2>3, <3>1, <3>2, ReceiveIsAsk DEF ReceiveArchive
  <2>4. ASSUME NEW r \in Requests, InsertRow(r)
        PROVE  UNCHANGED Promise!vars
    <3>1. req \in [Requests -> ReqState]
      BY DEF MInv, MasterTypeOK, ReqState
    <3>2. \A t \in Requests : req'[t].rows = req[t].rows
      BY <2>4, <3>1 DEF InsertRow, ReqState
    <3>3. \A t \in Requests : Asked(t)' = Asked(t)
      BY <3>2 DEF Asked
    <3>4. QED BY <2>4, <3>3, TableKept DEF InsertRow, Promise!vars
  <2>5. ASSUME NEW r \in Requests, ImportFails(r) \/ Cancel(r)
        PROVE  Promise!Next
    BY <2>5, EndIsTurnAway DEF ImportFails, Cancel
  <2>6. ASSUME NEW r \in Requests, Commit(r) PROVE Promise!Next
    BY <2>6, CommitIsAdd
  <2>7. ASSUME NEW r \in Requests, Archive(r)
        PROVE  [Promise!Next]_(Promise!vars)
    BY <2>7, ArchiveIsWithdraw
  <2>8. CASE DeadlockDetected
    BY <2>8, EndIsTurnAway DEF DeadlockDetected
  <2>9. CASE Crash
    <3>1. \A t \in Requests : Asked(t)' = {}
      BY <2>9 DEF Crash, Asked, KeysOf, Idle
    <3>2. Promise!TurnAway(Requests)
      BY <2>9, <3>1, TableKept DEF Crash, Promise!TurnAway
    <3>3. QED BY <3>2 DEF Promise!Next
  <2>10. CASE UNCHANGED vars
    BY <2>10, TableKept DEF vars, Promise!vars, Asked
  <2>11. QED
    BY <2>1, <2>2, <2>3, <2>4, <2>5, <2>6, <2>7, <2>8, <2>9, <2>10
    DEF Next, Receive, Advance
<1>3. QED
  BY <1>1, <1>2, MasterInvariant, PTL DEF Spec, ImplementsCatalogue, Promise!Spec
=============================================================================
