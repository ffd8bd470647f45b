----------------------------- MODULE MasterData -----------------------------
(***************************************************************************)
(* Inventory and consignees: internal/masterdata/store.go, its handlers in *)
(* internal/http/server.go, and the partial unique indexes of              *)
(* db/migrations/001_foundation.sql.                                       *)
(*                                                                         *)
(* An import inserts the rows of a file one by one in one transaction.  A  *)
(* row whose identity another transaction has inserted and not committed   *)
(* waits for that transaction; PostgreSQL aborts a transaction that waits  *)
(* in a cycle.  A form is an import of one row whose insert commits at     *)
(* once; an archive is one UPDATE.                                         *)
(***************************************************************************)
EXTENDS Integers, Sequences, FiniteSets

CONSTANTS
  Requests,   \* the requests the server handles at the same time
  Keys,       \* identities an index compares: an item's, or a consignee's
  Forms,      \* the rows the forms send
  Files,      \* the CSV files, as sequences of rows
  MaxRows     \* bound on the rows of the table

(* What a row is, up to the checks made of it.                             *)
Row == [key : Keys, named : BOOLEAN, quantity : {"fine", "negative", "text"}]

ASSUME MasterAssumption ==
  /\ Forms \subseteq Row
  /\ Files \subseteq Seq(Row)
  /\ MaxRows \in Nat

VARIABLES
  table,      \* the committed rows, in order; the position is the id
  req         \* the state of each request

vars == <<table, req>>

(* [op, rows to insert, how many are inserted, the id to archive]          *)
Idle == [op |-> "none", rows |-> << >>, inserted |-> 0, id |-> 0]

End(r) == req' = [req EXCEPT ![r] = Idle]
Doing(r, op) == req[r].op = op
NextRow(r) == req[r].rows[req[r].inserted + 1]
More(r) == Doing(r, "insert") /\ req[r].inserted < Len(req[r].rows)

(* The identities a transaction has inserted and not committed.            *)
Pending(r) == {req[r].rows[i].key : i \in 1..req[r].inserted}

ActiveRows == {i \in DOMAIN table : ~table[i].archived}
ActiveKeys == {table[i].key : i \in ActiveRows}

(* Rows the table may still get.                                           *)
Asking == UNION {{r} \X DOMAIN req[r].rows : r \in Requests}
Room(n) == Len(table) + Cardinality(Asking) + n <= MaxRows

-----------------------------------------------------------------------------
(* Requests.  canEditMaster is asked before anything else.                 *)

(* ParseFloat of every quantity, then code and name of every row.          *)
ReadsAsInventory(rows) ==
  /\ rows # << >>
  /\ \A i \in DOMAIN rows : rows[i].named /\ rows[i].quantity # "text"

ReceiveImport(r, rows) ==
  /\ Doing(r, "none") /\ Room(Len(rows))
  /\ ReadsAsInventory(rows)
  /\ req' = [req EXCEPT ![r] = [Idle EXCEPT !.op = "insert", !.rows = rows]]
  /\ UNCHANGED table

(* CreateInventory, CreateConsignee: only the name is looked at.           *)
ReceiveForm(r, row) ==
  /\ Doing(r, "none") /\ Room(1)
  /\ row.named
  /\ req' = [req EXCEPT ![r] = [Idle EXCEPT !.op = "insert", !.rows = <<row>>]]
  /\ UNCHANGED table

(* The button of a row on a page that may be old.                          *)
ReceiveArchive(r, id) ==
  /\ Doing(r, "none")
  /\ id \in DOMAIN table
  /\ req' = [req EXCEPT ![r] = [Idle EXCEPT !.op = "archive", !.id = id]]
  /\ UNCHANGED table

-----------------------------------------------------------------------------
(* Inserts.                                                                *)

(* The unique index: an active row, or one of this transaction's own.      *)
Taken(r) == NextRow(r).key \in ActiveKeys \cup Pending(r)

(* Mutant: the index does not exist.                                       *)
Refused(r) == NextRow(r).quantity # "fine"

(* The column accepts quantity >= 0 only; the index one row per identity.  *)
InsertFails(r) == Taken(r) \/ NextRow(r).quantity # "fine"

Holders(r) == {s \in Requests \ {r} : NextRow(r).key \in Pending(s)}
Waiting(r) == More(r) /\ Holders(r) # {}

(* The sequence of rows as the table has them.                             *)
Stored(rows) ==
  [i \in DOMAIN rows |-> [key |-> rows[i].key, archived |-> FALSE]]

(* Mutant: every row is committed by itself.                               *)
InsertCommitted(r) ==
  /\ More(r) /\ ~Waiting(r) /\ ~InsertFails(r)
  /\ table' = table \o Stored(<<NextRow(r)>>)
  /\ req' = [req EXCEPT ![r].rows = Tail(@)]

InsertRow(r) ==
  /\ More(r) /\ ~Waiting(r) /\ ~InsertFails(r)
  /\ req' = [req EXCEPT ![r].inserted = @ + 1]
  /\ UNCHANGED table

(* Mutant: no Rollback after a row that fails; its connection stays open.  *)
LeftOpen(r) ==
  /\ More(r) /\ ~Waiting(r) /\ InsertFails(r)
  /\ req' = [req EXCEPT ![r].op = "left"]
  /\ UNCHANGED table

(* A row fails: the deferred Rollback takes the earlier ones back.         *)
ImportFails(r) ==
  /\ More(r) /\ ~Waiting(r) /\ InsertFails(r)
  /\ End(r)
  /\ UNCHANGED table

Commit(r) ==
  /\ Doing(r, "insert") /\ ~More(r)
  /\ table' = table \o Stored(req[r].rows)
  /\ End(r)

(* UPDATE ... WHERE id=$1 AND archived_at IS NULL                          *)
Archive(r) ==
  /\ Doing(r, "archive")
  /\ table' = [table EXCEPT ![req[r].id].archived = TRUE]
  /\ End(r)

(* Requests that wait in a cycle; PostgreSQL aborts one of them.           *)
InCycle(r) ==
  \E S \in SUBSET Requests :
    /\ r \in S
    /\ \A s \in S : Waiting(s)
    /\ S = UNION {Holders(s) : s \in S}

DeadlockDetected ==
  \E r \in Requests : InCycle(r) /\ End(r) /\ UNCHANGED table

(* The client goes away, or a statement fails.                             *)
Cancel(r) ==
  /\ ~Doing(r, "none")
  /\ End(r)
  /\ UNCHANGED table

(* The server stops; open transactions are rolled back.                    *)
Crash ==
  /\ req' = [r \in Requests |-> Idle]
  /\ UNCHANGED table

-----------------------------------------------------------------------------

Init ==
  /\ table = << >>
  /\ req = [r \in Requests |-> Idle]

Receive(r) ==
  \/ \E rows \in Files : ReceiveImport(r, rows)
  \/ \E row \in Forms : ReceiveForm(r, row)
  \/ \E id \in DOMAIN table : ReceiveArchive(r, id)

Advance(r) == InsertRow(r) \/ ImportFails(r) \/ Commit(r) \/ Archive(r)

Next ==
  \/ \E r \in Requests : Receive(r) \/ Advance(r) \/ Cancel(r)
  \/ DeadlockDetected
  \/ Crash

Spec == Init /\ [][Next]_vars

(* Handlers go on, PostgreSQL looks for deadlocks, and an insert that is   *)
(* woken again and again gets its turn: a waiter retries when the          *)
(* transaction it waits for ends.                                          *)
FairSpec ==
  /\ Spec
  /\ \A r \in Requests : SF_vars(Advance(r))
  /\ WF_vars(DeadlockDetected)

-----------------------------------------------------------------------------
(* Requirements.                                                           *)

(* Types of the table and the requests.                                    *)
MasterTypeOK ==
  /\ table \in Seq([key : Keys, archived : BOOLEAN])
  /\ req \in [Requests ->
       [op : {"none", "insert", "archive"}, rows : Seq(Row),
        inserted : Nat, id : Nat]]

(* However imports, forms and archives interleave, and although an         *)
(* uncommitted row is visible to nobody, an identity is active once.       *)
ActiveOnce ==
  \A i, j \in ActiveRows : table[i].key = table[j].key => i = j

(* What a request has been asked to add: every row of its file.            *)
KeysOf(rows) == {rows[i].key : i \in DOMAIN rows}
Asked(r) == KeysOf(req[r].rows)

Promise ==
  INSTANCE Catalogue WITH
    active <- ActiveKeys, asked <- [r \in Requests |-> Asked(r)]

(* Every step adds all rows of a file, withdraws one row, or changes       *)
(* nothing that anybody sees: a file that fails at its last row, is        *)
(* aborted in a deadlock or loses its client leaves no row behind.         *)
ImplementsCatalogue == Promise!Spec

(* Inserts wait for nobody but each other: when none of them can go on,    *)
(* the waits close a cycle, which is what PostgreSQL looks for.  No insert *)
(* waits for a request that has ended, failed or is doing something else.  *)
StuckIsACycle ==
  LET Inserting == {r \in Requests : Doing(r, "insert")} IN
  Inserting # {} /\ (\A r \in Inserting : Waiting(r))
    => \E r \in Inserting : InCycle(r)

(* Imports that wait for each other's rows end all the same.               *)
ImportsEnd == \A r \in Requests : Doing(r, "insert") ~> Doing(r, "none")
=============================================================================
