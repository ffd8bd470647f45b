---------------------------- MODULE MigrateProofs ---------------------------
(***************************************************************************)
(* Proofs about Migrate, for every number of processes and of versions.    *)
(***************************************************************************)
EXTENDS Migrate, TLAPS

(* What a process has passed is in the schema, and what it applies exists. *)
Passed ==
  \A p \in Procs :
    /\ \A w \in 1..(proc[p].next - 1) : w \in recorded
    /\ proc[p].pc \in {"apply", "insert"} => proc[p].next \in Versions
    /\ proc[p].pc = "work" => proc[p].next = N + 1

IInv == MigrateTypeOK /\ AppliedOnceInOrder /\ Passed

ProcState ==
  [pc : {"down", "create", "ask", "apply", "insert", "work"},
   next : 1..(N + 1), saw : BOOLEAN]

(* A step of one process that leaves the schema alone keeps the invariant  *)
(* if its new position is one the process may have.                        *)
LEMMA MoveOnly ==
  ASSUME IInv, NEW p \in Procs, NEW s \in ProcState,
         proc' = [proc EXCEPT ![p] = s],
         recorded' = recorded, applied' = applied,
         created' \in BOOLEAN, faults' \in 0..MaxFaults,
         \A w \in 1..(s.next - 1) : w \in recorded,
         s.pc \in {"apply", "insert"} => s.next \in Versions,
         s.pc = "work" => s.next = N + 1
  PROVE  IInv'
<1>1. MigrateTypeOK'
  BY DEF IInv, MigrateTypeOK, ProcState, Versions
<1>2. AppliedOnceInOrder'
  BY DEF IInv, AppliedOnceInOrder, Versions
<1>3. Passed'
  BY DEF IInv, MigrateTypeOK, Passed, Versions
<1>4. QED BY <1>1, <1>2, <1>3 DEF IInv

LEMMA ExitKeeps ==
  ASSUME IInv, NEW p \in Procs, Exit(p),
         recorded' = recorded, applied' = applied,
         created' \in BOOLEAN, faults' \in 0..MaxFaults
  PROVE  IInv'
<1>1. Down \in ProcState /\ Down.next = 1 /\ Down.pc = "down"
  BY MigrateAssumption DEF Down, ProcState
<1>2. \A w \in 1..(Down.next - 1) : w \in recorded
  BY <1>1
<1>3. QED BY <1>1, <1>2, MoveOnly DEF Exit

LEMMA StepKeeps ==
  ASSUME IInv, NEW p \in Procs, Start(p) \/ Migration(p) \/ Fault(p)
  PROVE  IInv'
<1> USE MigrateAssumption
<1>0. /\ proc[p] \in ProcState
      /\ created \in BOOLEAN /\ faults \in 0..MaxFaults
      /\ \A w \in 1..(proc[p].next - 1) : w \in recorded
      /\ proc \in [Procs -> ProcState]
  BY DEF IInv, MigrateTypeOK, Passed, ProcState
<1>1. CASE Start(p)
  <2> DEFINE s == [pc |-> "create", next |-> 1, saw |-> created]
  <2>1. s \in ProcState /\ \A w \in 1..(s.next - 1) : w \in recorded
    BY <1>0 DEF ProcState
  <2>2. proc' = [proc EXCEPT ![p] = s]
    BY <1>1 DEF Start
  <2>3. QED BY <1>0, <1>1, <2>1, <2>2, MoveOnly DEF Start, schema
<1>2. CASE CreateTable(p)
  <2> DEFINE s == [proc[p] EXCEPT !.pc = "ask"]
  <2>1. s \in ProcState /\ s.next = proc[p].next /\ s.pc = "ask"
    BY <1>0 DEF ProcState
  <2>2. proc' = [proc EXCEPT ![p] = s]
    BY <1>0, <1>2 DEF CreateTable, Goto
  <2>3. QED BY <1>0, <1>2, <2>1, <2>2, MoveOnly DEF CreateTable
<1>3. CASE CreateRaced(p) \/ ApplyRaced(p) \/ ToolEnds(p)
  BY <1>0, <1>3, ExitKeeps DEF CreateRaced, ApplyRaced, ToolEnds, schema
<1>4. CASE Fault(p)
  <2>1. faults' \in 0..MaxFaults
    BY <1>0, <1>4 DEF Fault
  <2>2. QED BY <1>0, <1>4, <2>1, ExitKeeps DEF Fault, schema
<1>5. CASE Ask(p)
  <2>1. CASE Current(p) \in recorded
    <3> DEFINE s == [pc |-> "ask", next |-> proc[p].next + 1, saw |-> proc[p].saw]
    <3>1. s \in ProcState /\ s.next = proc[p].next + 1 /\ s.pc = "ask"
      <4>1. proc[p].next \in 1..N
        BY <1>5 DEF Ask, Current, Versions
      <4>2. proc[p].next + 1 \in 1..(N + 1)
        BY <4>1
      <4>3. s \in ProcState
        BY <1>0, <4>2 DEF ProcState
      <4>4. QED BY <4>3
    <3>2. proc' = [proc EXCEPT ![p] = s]
      BY <1>0, <1>5, <2>1 DEF Ask, Skip, Current
    <3>3. \A w \in 1..(s.next - 1) : w \in recorded
      BY <1>0, <2>1, <3>1 DEF Current, ProcState
    <3>4. QED BY <1>0, <1>5, <3>1, <3>2, <3>3, MoveOnly DEF Ask, schema
  <2>2. CASE Current(p) \notin recorded
    <3> DEFINE s == [proc[p] EXCEPT !.pc = "apply"]
    <3>1. s \in ProcState /\ s.next = proc[p].next /\ s.pc = "apply"
      BY <1>0 DEF ProcState
    <3>2. proc' = [proc EXCEPT ![p] = s]
      BY <1>0, <1>5, <2>2 DEF Ask, Goto
    <3>3. s.next \in Versions
      BY <1>5, <3>1 DEF Ask, Current
    <3>4. QED BY <1>0, <1>5, <3>1, <3>2, <3>3, MoveOnly DEF Ask, schema
  <2>3. QED BY <2>1, <2>2
<1>6. CASE Apply(p)
  <2> DEFINE s == [proc[p] EXCEPT !.pc = "insert"]
  <2>1. s \in ProcState /\ s.next = proc[p].next /\ s.pc = "insert"
    BY <1>0 DEF ProcState
  <2>2. proc' = [proc EXCEPT ![p] = s]
    BY <1>0, <1>6 DEF Apply, Goto
  <2>3. s.next \in Versions
    BY <1>6, <2>1 DEF Apply, At, IInv, Passed
  <2>4. QED BY <1>0, <1>6, <2>1, <2>2, <2>3, MoveOnly DEF Apply, schema
<1>7. CASE Migrated(p)
  <2> DEFINE s == [proc[p] EXCEPT !.pc = "work"]
  <2>1. s \in ProcState /\ s.next = proc[p].next /\ s.pc = "work"
    BY <1>0 DEF ProcState
  <2>2. proc' = [proc EXCEPT ![p] = s]
    BY <1>0, <1>7 DEF Migrated, Goto
  <2>3. s.next = N + 1
    BY <1>0, <1>7, <2>1 DEF Migrated, Current, Versions, ProcState
  <2>4. QED BY <1>0, <1>7, <2>1, <2>2, <2>3, MoveOnly DEF Migrated, schema
<1>8. CASE InsertVersion(p) /\ Current(p) \in recorded
  BY <1>0, <1>8, ExitKeeps DEF InsertVersion
<1>9. CASE InsertVersion(p) /\ Current(p) \notin recorded
  <2> DEFINE v == proc[p].next
             s == [pc |-> "ask", next |-> proc[p].next + 1, saw |-> proc[p].saw]
  <2>1. v \in Versions
    BY <1>9 DEF InsertVersion, At, IInv, Passed
  <2>2. /\ recorded' = recorded \cup {v} /\ v \notin recorded
        /\ applied' = [applied EXCEPT ![v] = @ + 1]
        /\ proc' = [proc EXCEPT ![p] = s]
        /\ created' = created /\ faults' = faults
    BY <1>0, <1>9 DEF InsertVersion, Current, Skip
  <2>3. s \in ProcState /\ s.next = v + 1 /\ s.pc = "ask"
    <3>1. v + 1 \in 1..(N + 1)
      BY <2>1 DEF Versions
    <3>2. s \in ProcState
      BY <1>0, <3>1 DEF ProcState
    <3>3. QED BY <3>2
  <2>4. MigrateTypeOK'
    <3>1. /\ applied \in [Versions -> Nat] /\ recorded \subseteq Versions
      BY DEF IInv, MigrateTypeOK
    <3>2. applied' \in [Versions -> Nat] /\ recorded' \subseteq Versions
      BY <2>1, <2>2, <3>1
    <3>3. proc' \in [Procs -> ProcState]
      BY <1>0, <2>2, <2>3
    <3>4. QED BY <1>0, <2>2, <3>2, <3>3 DEF MigrateTypeOK, ProcState
  <2>5. AppliedOnceInOrder'
    <3> SUFFICES ASSUME NEW u \in Versions
                 PROVE  /\ applied'[u] = IF u \in recorded' THEN 1 ELSE 0
                        /\ u \in recorded' => \A w \in 1..u : w \in recorded'
      BY DEF AppliedOnceInOrder, Versions
    <3>1. /\ applied[u] = IF u \in recorded THEN 1 ELSE 0
          /\ u \in recorded => \A w \in 1..u : w \in recorded
      BY DEF IInv, AppliedOnceInOrder
    <3>2. applied \in [Versions -> Nat]
      BY DEF IInv, MigrateTypeOK
    <3>3. CASE u = v
      <4>1. \A w \in 1..u : w = v \/ w \in 1..(v - 1)
        BY <2>1, <3>3 DEF Versions
      <4>2. QED BY <1>0, <2>1, <2>2, <3>1, <3>2, <3>3, <4>1
    <3>4. CASE u # v
      BY <2>1, <2>2, <3>1, <3>2, <3>4
    <3>5. QED BY <3>3, <3>4
  <2>6. Passed'
    <3> SUFFICES ASSUME NEW q \in Procs
                 PROVE  /\ \A w \in 1..(proc'[q].next - 1) : w \in recorded'
                        /\ proc'[q].pc \in {"apply", "insert"}
                             => proc'[q].next \in Versions
                        /\ proc'[q].pc = "work" => proc'[q].next = N + 1
      BY DEF Passed, Versions
    <3>1. CASE q = p
      <4>1. proc'[q] = s
        BY <1>0, <2>2, <3>1
      <4>2. \A w \in 1..(s.next - 1) : w = v \/ w \in 1..(v - 1)
        BY <2>1, <2>3 DEF Versions
      <4>3. QED BY <1>0, <2>2, <2>3, <4>1, <4>2
    <3>2. CASE q # p
      <4>1. proc'[q] = proc[q]
        BY <1>0, <2>2, <3>2
      <4>2. QED BY <2>2, <4>1 DEF IInv, Passed
    <3>3. QED BY <3>1, <3>2
  <2>7. QED BY <2>4, <2>5, <2>6 DEF IInv
<1>10. QED
  BY <1>1, <1>2, <1>3, <1>4, <1>5, <1>6, <1>7, <1>8, <1>9 DEF Migration

(* The invariant holds in every reachable state.                           *)
THEOREM MigrationInvariant == Spec => []IInv
<1>1. Init => IInv
  <2> SUFFICES ASSUME Init PROVE IInv
    OBVIOUS
  <2>1. Down \in ProcState /\ Down.next = 1 /\ Down.pc = "down"
    BY MigrateAssumption DEF Down, ProcState
  <2>2. proc \in [Procs -> ProcState] /\ \A p \in Procs : proc[p] = Down
    BY <2>1 DEF Init
  <2>3. MigrateTypeOK
    <3>1. applied \in [Versions -> Nat] /\ recorded \subseteq Versions
      BY DEF Init
    <3>2. 0 \in 0..MaxFaults /\ faults = 0
      BY MigrateAssumption DEF Init
    <3>3. created \in BOOLEAN
      BY DEF Init
    <3>4. QED BY <2>2, <3>1, <3>2, <3>3 DEF MigrateTypeOK, ProcState
  <2>4. AppliedOnceInOrder
    BY DEF Init, AppliedOnceInOrder
  <2>5. Passed
    <3>1. 1..(1 - 1) = {}
      OBVIOUS
    <3>2. QED BY <2>1, <2>2, <3>1 DEF Passed
  <2>6. QED BY <2>3, <2>4, <2>5 DEF IInv
<1>2. IInv /\ [Next]_vars => IInv'
  <2> SUFFICES ASSUME IInv, [Next]_vars PROVE IInv'
    OBVIOUS
  <2>1. CASE Next
    BY <2>1, StepKeeps DEF Next
  <2>2. CASE UNCHANGED vars
    BY <2>2 DEF vars, schema, IInv, MigrateTypeOK, AppliedOnceInOrder, Passed,
                Versions
  <2>3. QED BY <2>1, <2>2
<1>3. QED BY <1>1, <1>2, PTL DEF Spec

(* Types of the schema and of the processes.                               *)
THEOREM MigrateTypes == Spec => []MigrateTypeOK
BY MigrationInvariant, PTL DEF IInv

(* Every version is applied once and in order, by however many processes.  *)
THEOREM OnceInOrder == Spec => []AppliedOnceInOrder
BY MigrationInvariant, PTL DEF IInv

(* Whoever works has every version in its schema.                          *)
THEOREM WholeSchema == Spec => []WorksOnWholeSchema
<1>1. IInv => WorksOnWholeSchema
  <2> SUFFICES ASSUME IInv, NEW p \in Procs, At(p, "work")
               PROVE  recorded = Versions
    BY DEF WorksOnWholeSchema
  <2>1. proc[p].next = N + 1 /\ \A w \in 1..(proc[p].next - 1) : w \in recorded
    BY DEF At, IInv, Passed
  <2>2. \A w \in Versions : w \in recorded
    BY <2>1, MigrateAssumption DEF Versions
  <2>3. QED BY <2>2 DEF IInv, MigrateTypeOK
<1>2. QED BY <1>1, MigrationInvariant, PTL
=============================================================================
