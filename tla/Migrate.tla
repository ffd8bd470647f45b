------------------------------ MODULE Migrate -------------------------------
(***************************************************************************)
(* Starting up: main of cmd/mgp-server and cmd/mgp-admin, and Migrate of   *)
(* internal/platform/database/database.go.                                 *)
(*                                                                         *)
(* The server and the command both migrate before they do anything else,   *)
(* and may be started at the same time.  Whether a version was applied is  *)
(* asked outside the transaction that applies it; only the primary key of  *)
(* schema_migrations stands between two processes that were both told no.  *)
(* A process that fails exits; the container starts the server again.      *)
(***************************************************************************)
EXTENDS Naturals

CONSTANTS
  Procs,      \* the processes that may run
  Server,     \* the server; any other is a run of mgp-admin
  N,          \* the number of files in db/migrations
  MaxFaults   \* bound on the failures and crashes that are nobody's doing

ASSUME MigrateAssumption == Server \in Procs /\ N \in Nat /\ MaxFaults \in Nat

Versions == 1..N

VARIABLES
  created,    \* schema_migrations exists
  recorded,   \* table schema_migrations: its versions
  applied,    \* how often the contents of a version were committed
  proc,       \* where each process is: [pc, next version, created as seen]
  faults      \* the failures and crashes so far

schema == <<created, recorded, applied>>
vars   == <<schema, proc, faults>>

At(p, pc) == proc[p].pc = pc
Current(p) == proc[p].next

Goto(p, pc) == proc' = [proc EXCEPT ![p].pc = pc]
Skip(p) ==
  proc' = [proc EXCEPT
            ![p] = [pc |-> "ask", next |-> Current(p) + 1, saw |-> @.saw]]
Down == [pc |-> "down", next |-> 1, saw |-> FALSE]
Exit(p) == proc' = [proc EXCEPT ![p] = Down]

-----------------------------------------------------------------------------

(* The process is started and sends CREATE TABLE IF NOT EXISTS, which      *)
(* looks whether the table is there.                                       *)
Start(p) ==
  /\ At(p, "down")
  /\ proc' = [proc EXCEPT ![p] = [pc |-> "create", next |-> 1, saw |-> created]]
  /\ UNCHANGED <<schema, faults>>

CreateTable(p) ==
  /\ At(p, "create")
  /\ created' = TRUE
  /\ Goto(p, "ask")
  /\ UNCHANGED <<recorded, applied, faults>>

(* Somebody created it in between: the statement may fail all the same.    *)
CreateRaced(p) ==
  /\ At(p, "create") /\ created /\ ~proc[p].saw
  /\ Exit(p)
  /\ UNCHANGED <<schema, faults>>

(* Mutant: every file is executed at every start.                          *)
AskNothing(p) ==
  /\ At(p, "ask") /\ Current(p) \in Versions
  /\ Goto(p, "apply")
  /\ UNCHANGED <<schema, faults>>

(* Mutant: the loop does not stop at the last file.                        *)
AskPastEnd(p) ==
  /\ At(p, "ask")
  /\ IF Current(p) \in recorded THEN Skip(p) ELSE Goto(p, "apply")
  /\ UNCHANGED <<schema, faults>>

(* SELECT EXISTS ... WHERE version=$1                                      *)
Ask(p) ==
  /\ At(p, "ask") /\ Current(p) \in Versions
  /\ IF Current(p) \in recorded THEN Skip(p) ELSE Goto(p, "apply")
  /\ UNCHANGED <<schema, faults>>

(* Another transaction is changing the same objects.                       *)
Blocked(p) ==
  \E q \in Procs \ {p} : At(q, "insert") /\ Current(q) = Current(p)

(* The contents, inside the transaction.                                   *)
Apply(p) ==
  /\ At(p, "apply") /\ ~Blocked(p)
  /\ Goto(p, "insert")
  /\ UNCHANGED <<schema, faults>>

(* Contents that were committed meanwhile may fail on what is there.       *)
ApplyRaced(p) ==
  /\ At(p, "apply") /\ Current(p) \in recorded
  /\ Exit(p)
  /\ UNCHANGED <<schema, faults>>

(* Mutant: the version is inserted with ON CONFLICT DO NOTHING.            *)
InsertAnyway(p) ==
  /\ At(p, "insert")
  /\ recorded' = recorded \cup {Current(p)}
  /\ applied' = [applied EXCEPT ![Current(p)] = @ + 1]
  /\ Skip(p)
  /\ UNCHANGED <<created, faults>>

(* INSERT INTO schema_migrations and COMMIT, or the key exists: roll back. *)
InsertVersion(p) ==
  /\ At(p, "insert")
  /\ IF Current(p) \in recorded
     THEN Exit(p) /\ UNCHANGED <<recorded, applied>>
     ELSE /\ recorded' = recorded \cup {Current(p)}
          /\ applied' = [applied EXCEPT ![Current(p)] = @ + 1]
          /\ Skip(p)
  /\ UNCHANGED <<created, faults>>

(* Migrate returns: the server serves, the command works.                  *)
Migrated(p) ==
  /\ At(p, "ask") /\ Current(p) \notin Versions
  /\ Goto(p, "work")
  /\ UNCHANGED <<schema, faults>>

(* The command has done its work.                                          *)
ToolEnds(p) ==
  /\ p # Server /\ At(p, "work")
  /\ Exit(p)
  /\ UNCHANGED <<schema, faults>>

(* Mutant: a migration that fails is logged and the next one tried.        *)
FaultLogged(p) ==
  /\ ~At(p, "down") /\ faults < MaxFaults
  /\ faults' = faults + 1
  /\ IF At(p, "work") THEN Exit(p) ELSE Skip(p)
  /\ UNCHANGED schema

(* A statement fails or the process is killed: PostgreSQL rolls back.      *)
Fault(p) ==
  /\ ~At(p, "down") /\ faults < MaxFaults
  /\ faults' = faults + 1
  /\ Exit(p)
  /\ UNCHANGED schema

-----------------------------------------------------------------------------

Init ==
  /\ created = FALSE
  /\ recorded = {}
  /\ applied = [v \in Versions |-> 0]
  /\ proc = [p \in Procs |-> Down]
  /\ faults = 0

Migration(p) ==
  \/ CreateTable(p) \/ CreateRaced(p) \/ Ask(p) \/ Apply(p) \/ ApplyRaced(p)
  \/ InsertVersion(p) \/ Migrated(p) \/ ToolEnds(p)

Next == \E p \in Procs : Start(p) \/ Migration(p) \/ Fault(p)

Spec == Init /\ [][Next]_vars

(* A process that is not blocked goes on; the container restarts the       *)
(* server (restart: unless-stopped), nobody has to start the command.      *)
FairSpec ==
  /\ Spec
  /\ \A p \in Procs : WF_vars(Migration(p))
  /\ WF_vars(Start(Server))

-----------------------------------------------------------------------------
(* Requirements.                                                           *)

(* Types of the schema and of the processes.                               *)
MigrateTypeOK ==
  /\ created \in BOOLEAN
  /\ recorded \subseteq Versions
  /\ applied \in [Versions -> Nat]
  /\ proc \in [Procs -> [pc : {"down", "create", "ask", "apply", "insert", "work"},
                         next : 1..(N + 1), saw : BOOLEAN]]
  /\ faults \in 0..MaxFaults

(* However many processes migrate at once and wherever they stop, a        *)
(* version is recorded when it was applied exactly once, never before the  *)
(* versions in front of it, and not at all if it was not applied.          *)
AppliedOnceInOrder ==
  \A v \in Versions :
    /\ applied[v] = IF v \in recorded THEN 1 ELSE 0
    /\ v \in recorded => \A w \in 1..v : w \in recorded

(* Nobody serves, or creates an account, on a schema that lacks a version. *)
WorksOnWholeSchema == \A p \in Procs : At(p, "work") => recorded = Versions

(* Whatever a command started beside it does, and after the last fault,    *)
(* the server comes up and stays up.                                       *)
ServerComesUp == <>[]At(Server, "work")
=============================================================================
