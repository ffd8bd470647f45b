--------------------------- MODULE DocumentsProofs --------------------------
(***************************************************************************)
(* Proofs about Documents, for every number of passes, edits and downloads *)
(* at the same time, and whatever numbers safeFilename merges.             *)
(***************************************************************************)
EXTENDS Documents, TLAPS

Busy == {"lines", "stat", "create", "write", "row"}
Printing == {"stat", "create", "write", "row"}

(* What a download has read under an official status was and stays sealed. *)
Honest(pc, d) ==
  /\ pc \in Busy /\ d \in Rendering
  /\ d.status \in Official =>
       /\ book[d.pass].status \in Official /\ d.header = form[d.pass]
       /\ pc # "lines" => d.lines = form[d.pass]
  /\ pc \in Printing => d.status \in Official \/ d.draft

JobState == [pc : Busy \cup {"idle"}, detail : Rendering \cup {NoDetail}]

(* Types of the variables, as the steps below need them.                   *)
Typed ==
  /\ book \in [PassIds -> Pass] /\ form \in [PassIds -> Nat]
  /\ DOMAIN disk = Files
  /\ DOMAIN documents = PassIds
  /\ \A p \in PassIds : DOMAIN documents[p] = Kinds
  /\ job \in [Jobs -> JobState]

JobsHonest ==
  \A j \in Jobs : job[j].pc = "idle" \/ Honest(job[j].pc, job[j].detail)

DInv == Typed /\ JobsHonest /\ OfficialIsSealed

-----------------------------------------------------------------------------

(* An approved pass stays approved, and nothing edits it.                  *)
LEMMA RegisterKeepsSealed ==
  ASSUME Typed, Register, NEW p \in PassIds, book[p].status \in Official
  PROVE  book'[p].status \in Official /\ form'[p] = form[p]
<1>1. PICK q \in PassIds : Create(q) \/ Edit(q) \/ Decide(q)
  BY DEF Register
<1>2. book \in [PassIds -> Pass] /\ form \in [PassIds -> Nat]
  BY DEF Typed
<1>3. CASE Create(q)
  BY <1>2, <1>3 DEF Create, CreatePass, Official
<1>4. CASE Edit(q)
  BY <1>2, <1>4 DEF Edit, EditPass, Official
<1>5. CASE Decide(q)
  <2>1. PICK action \in Workflow : TransitionPass(q, action) /\ form' = form
    BY <1>5 DEF Decide
  <2>2. PICK u \in Users :
          book' = [book EXCEPT ![q] = Transitioned(book[q], action, u)]
    BY <2>1 DEF TransitionPass
  <2>3. CASE q = p
    <3>1. action \in {"PASS_OUT", "RETURN"}
      BY <2>1, <2>3 DEF TransitionPass, CanTransition, Official
    <3>2. NextStatus(action) \in Official
      BY <3>1 DEF NextStatus, Official
    <3>3. book'[p].status = NextStatus(action)
      BY <1>2, <2>2, <2>3 DEF Transitioned, Pass
    <3>4. QED BY <2>1, <3>2, <3>3
  <2>4. CASE q # p
    BY <1>2, <2>1, <2>2, <2>4
  <2>5. QED BY <2>3, <2>4
<1>6. QED BY <1>1, <1>3, <1>4, <1>5

(* The register's own steps keep its types.                                *)
LEMMA RegisterKeepsTypes ==
  ASSUME Typed, Register
  PROVE  book' \in [PassIds -> Pass] /\ form' \in [PassIds -> Nat]
<1>1. PICK q \in PassIds : Create(q) \/ Edit(q) \/ Decide(q)
  BY DEF Register
<1>2. book \in [PassIds -> Pass] /\ form \in [PassIds -> Nat]
  BY DEF Typed
<1>3. CASE Create(q)
  <2>1. PICK u \in Users, type \in PassTypes :
          book' = [book EXCEPT ![q] = Drafted(u, type)] /\ form' = form
    BY <1>3 DEF Create, CreatePass
  <2>2. Drafted(u, type) \in Pass
    BY DEF Drafted, Blank, Pass, Statuses
  <2>3. QED BY <1>2, <2>1, <2>2
<1>4. CASE Edit(q)
  <2>1. PICK type \in PassTypes : book' = [book EXCEPT ![q].passType = type]
    BY <1>4 DEF Edit, EditPass
  <2>2. [book[q] EXCEPT !.passType = type] \in Pass
    BY <1>2 DEF Pass
  <2>3. book' = [book EXCEPT ![q] = [book[q] EXCEPT !.passType = type]]
    BY <2>1
  <2>4. form[q] + 1 \in Nat /\ form' = [form EXCEPT ![q] = form[q] + 1]
    BY <1>2, <1>4 DEF Edit
  <2>5. QED BY <1>2, <2>2, <2>3, <2>4
<1>5. CASE Decide(q)
  <2>1. PICK action \in Workflow, u \in Users :
          /\ book' = [book EXCEPT ![q] = Transitioned(book[q], action, u)]
          /\ form' = form
    BY <1>5 DEF Decide, TransitionPass
  <2>2. NextStatus(action) \in Statuses
    BY DEF NextStatus, Workflow, Statuses
  <2>3. Transitioned(book[q], action, u) \in Pass
    BY <1>2, <2>2 DEF Transitioned, Pass
  <2>4. QED BY <1>2, <2>1, <2>3
<1>6. QED BY <1>1, <1>3, <1>4, <1>5

LEMMA RegisterKeepsInv == ASSUME DInv, Register PROVE DInv'
<1>1. disk' = disk /\ documents' = documents /\ job' = job
  BY DEF Register, Create, Edit, Decide, docs
<1>2. \A p \in PassIds : book[p].status \in Official =>
        book'[p].status \in Official /\ form'[p] = form[p]
  BY RegisterKeepsSealed DEF DInv
<1>3. Typed'
  BY <1>1, RegisterKeepsTypes DEF DInv, Typed
<1>4. JobsHonest'
  <2> SUFFICES ASSUME NEW j \in Jobs, job[j].pc # "idle"
               PROVE  Honest(job[j].pc, job[j].detail)'
    BY <1>1 DEF JobsHonest
  <2>1. Honest(job[j].pc, job[j].detail)
    BY DEF DInv, JobsHonest
  <2>2. job[j].detail.pass \in PassIds
    BY <2>1 DEF Honest, Rendering
  <2>3. QED BY <1>1, <1>2, <2>1, <2>2 DEF Honest
<1>5. OfficialIsSealed'
  <2>1. \A p \in PassIds : \A x : Sealed(p, x) => Sealed(p, x)'
    BY <1>2 DEF Sealed
  <2>2. QED BY <1>1, <2>1 DEF DInv, OfficialIsSealed, Namesakes, FileName
<1>6. QED BY <1>3, <1>4, <1>5 DEF DInv

-----------------------------------------------------------------------------

(* A step of one download that leaves files and rows alone.                *)
LEMMA JobOnly ==
  ASSUME DInv, NEW j \in Jobs, NEW s \in JobState,
         job' = [job EXCEPT ![j] = s],
         book' = book, form' = form, disk' = disk, documents' = documents,
         s.pc = "idle" \/ Honest(s.pc, s.detail)
  PROVE  DInv'
<1>1. Typed'
  BY DEF DInv, Typed
<1>2. JobsHonest'
  <2> SUFFICES ASSUME NEW k \in Jobs
               PROVE  (job[k].pc = "idle" \/ Honest(job[k].pc, job[k].detail))'
    BY DEF JobsHonest
  <2>1. job'[k] = IF k = j THEN s ELSE job[k]
    BY DEF DInv, Typed
  <2>2. job[k].pc = "idle" \/ Honest(job[k].pc, job[k].detail)
    BY DEF DInv, JobsHonest
  <2>3. QED BY <2>1, <2>2 DEF Honest
<1>3. OfficialIsSealed'
  BY DEF DInv, OfficialIsSealed, Namesakes, Sealed, FileName
<1>4. QED BY <1>1, <1>2, <1>3 DEF DInv

(* Going on to a later stage with what was read.                           *)
LEMMA GoOn ==
  ASSUME DInv, NEW j \in Jobs, NEW pc \in Busy \ {"lines"},
         job[j].pc \in Busy \ {"lines"}, Goto(j, pc),
         pc \in Printing => job[j].detail.status \in Official \/ job[j].detail.draft,
         book' = book, form' = form, disk' = disk, documents' = documents
  PROVE  DInv'
<1> DEFINE s == [job[j] EXCEPT !.pc = pc]
<1>1. job[j] \in JobState
  BY DEF DInv, Typed
<1>2. s \in JobState /\ s.pc = pc /\ s.detail = job[j].detail
  BY <1>1 DEF JobState
<1>3. Honest(job[j].pc, job[j].detail)
  BY DEF DInv, JobsHonest, Busy
<1>4. Honest(s.pc, s.detail)
  BY <1>2, <1>3 DEF Honest
<1>5. job' = [job EXCEPT ![j] = s]
  BY DEF Goto, DInv, Typed
<1>6. QED BY <1>2, <1>4, <1>5, JobOnly

LEMMA Ending ==
  ASSUME DInv, NEW j \in Jobs, End(j),
         book' = book, form' = form, disk' = disk, documents' = documents
  PROVE  DInv'
<1>1. Idle \in JobState /\ Idle.pc = "idle"
  BY DEF Idle, JobState
<1>2. QED BY <1>1, JobOnly DEF End

(* Only an official download of a namesake writes a pass's official file.  *)
LEMMA OfficialWriter ==
  ASSUME NEW p \in PassIds, NEW q \in PassIds,
         NEW k \in Kinds, FileName(p, FALSE) = FileName(q, k)
  PROVE  q \in Namesakes(p) /\ k = FALSE
<1>1. k = FALSE
  BY DEF FileName
<1>2. QED BY <1>1 DEF Namesakes

LEMMA NameIsFile ==
  ASSUME NEW p \in PassIds, NEW k \in Kinds PROVE FileName(p, k) \in Files
BY DEF Files

LEMMA OfficialName ==
  ASSUME NEW p \in PassIds PROVE FileName(p, FALSE) \in Files
<1>1. FALSE \in Kinds
  BY DEF Kinds
<1>2. QED BY <1>1, NameIsFile

LEMMA ReadingKeepsInv ==
  ASSUME DInv, NEW j \in Jobs,
         \/ \E p \in PassIds, draft \in Kinds : ReadHeader(j, p, draft)
         \/ ReadLines(j)
  PROVE  DInv'
<1>1. ASSUME NEW p \in PassIds, NEW draft \in Kinds, ReadHeader(j, p, draft)
      PROVE  DInv'
  <2> DEFINE d == [pass |-> p, draft |-> draft, status |-> book[p].status,
                   header |-> form[p], lines |-> 0]
             s == [pc |-> "lines", detail |-> d]
  <2>1. book[p] \in Pass /\ form[p] \in Nat
    BY DEF DInv, Typed
  <2>2. book[p].status \in Statuses
    BY <1>1, <2>1 DEF ReadHeader, Pass
  <2>3. d \in Rendering
    BY <2>1, <2>2 DEF Rendering
  <2>4. Honest(s.pc, s.detail)
    BY <2>3 DEF Honest, Busy, Printing
  <2>5. s \in JobState
    BY <2>3 DEF JobState, Busy
  <2>6. job' = [job EXCEPT ![j] = s]
    BY <1>1 DEF ReadHeader
  <2>7. QED BY <1>1, <2>4, <2>5, <2>6, JobOnly DEF ReadHeader
<1>2. CASE ReadLines(j)
  <2> DEFINE d == job[j].detail
             e == [d EXCEPT !.lines = form[d.pass]]
             s == [pc |-> "stat", detail |-> e]
  <2>1. Honest("lines", d)
    BY <1>2 DEF DInv, JobsHonest, ReadLines, At
  <2>2. d \in Rendering /\ form[d.pass] \in Nat
    BY <2>1 DEF Honest, Rendering, DInv, Typed
  <2>3. /\ e \in Rendering /\ e.pass = d.pass /\ e.draft = d.draft
        /\ e.status = d.status /\ e.header = d.header /\ e.lines = form[d.pass]
    BY <2>2 DEF Rendering
  <2>0. d.status \in Official \/ d.draft
    BY <1>2 DEF ReadLines, MayPrint
  <2>4. Honest(s.pc, s.detail)
    BY <2>0, <2>1, <2>3 DEF Honest, Busy, Printing
  <2>5. s \in JobState
    BY <2>3 DEF JobState, Busy
  <2>6. job' = [job EXCEPT ![j] = s]
    BY <1>2 DEF ReadLines
  <2>7. QED BY <1>2, <2>4, <2>5, <2>6, JobOnly DEF ReadLines
<1>3. QED BY <1>1, <1>2

(* Writing the file: nothing, a cut file, or the rendering of the job.     *)
LEMMA WritingKeepsInv ==
  ASSUME DInv, NEW j \in Jobs, CreateFile(j) \/ WriteFile(j)
  PROVE  DInv'
<1> DEFINE d == job[j].detail
           x == IF At(j, "create") THEN Cut ELSE d
           pc == IF At(j, "create") THEN "write" ELSE "row"
<1>1. /\ disk' = [disk EXCEPT ![File(j)] = x] /\ Goto(j, pc)
      /\ book' = book /\ form' = form /\ documents' = documents
      /\ job[j].pc \in {"create", "write"}
  BY DEF CreateFile, WriteFile, At
<1>2. Honest(job[j].pc, d)
  BY <1>1 DEF DInv, JobsHonest
<1>3. d.pass \in PassIds /\ d.draft \in Kinds /\ d \in Rendering
  BY <1>2 DEF Honest, Rendering
<1>4. Typed' /\ JobsHonest'
  <2> DEFINE s == [job[j] EXCEPT !.pc = pc]
  <2>1. job[j] \in JobState /\ pc \in Busy /\ pc \in Printing /\ pc # "lines"
    BY DEF DInv, Typed, Busy, Printing
  <2>2. s \in JobState /\ s.pc = pc /\ s.detail = d
    BY <2>1 DEF JobState
  <2>3. job' = [job EXCEPT ![j] = s]
    BY <1>1 DEF Goto, DInv, Typed
  <2>4. Typed'
    BY <1>1, <2>2, <2>3 DEF DInv, Typed
  <2>5. Honest(s.pc, s.detail)
    BY <1>1, <1>2, <2>1, <2>2 DEF Honest, Printing
  <2>6. JobsHonest'
    <3> SUFFICES ASSUME NEW k \in Jobs
                 PROVE  (job[k].pc = "idle" \/ Honest(job[k].pc, job[k].detail))'
      BY DEF JobsHonest
    <3>1. job'[k] = IF k = j THEN s ELSE job[k]
      BY <2>3 DEF DInv, Typed
    <3>2. job[k].pc = "idle" \/ Honest(job[k].pc, job[k].detail)
      BY DEF DInv, JobsHonest
    <3>3. QED BY <1>1, <2>5, <3>1, <3>2 DEF Honest
  <2>7. QED BY <2>4, <2>6
<1>5. OfficialIsSealed'
  <2> SUFFICES ASSUME NEW p \in PassIds
               PROVE  \/ disk'[FileName(p, FALSE)] \in {NoFile, Cut}
                      \/ \E q \in Namesakes(p) : Sealed(q, disk'[FileName(p, FALSE)])
    <3>1. \A q \in PassIds : \/ documents'[q][FALSE] = NoHash
                              \/ Sealed(q, documents'[q][FALSE])
      BY <1>1 DEF DInv, OfficialIsSealed
    <3>2. book' = book /\ form' = form
      BY <1>1
    <3>3. QED BY <3>1, <3>2 DEF OfficialIsSealed, Namesakes, Sealed, FileName
  <2>1. FileName(p, FALSE) \in Files /\ DOMAIN disk = Files
    BY OfficialName DEF DInv, Typed
  <2>2. CASE FileName(p, FALSE) = File(j)
    <3>1. d.pass \in Namesakes(p) /\ d.draft = FALSE
      BY <1>3, <2>2, OfficialWriter DEF File
    <3>2. x = Cut \/ Sealed(d.pass, x)
      BY <1>1, <1>2, <1>3, <3>1 DEF Honest, Sealed, Printing
    <3>3. disk'[FileName(p, FALSE)] = x
      BY <1>1, <2>1, <2>2
    <3>4. QED BY <3>1, <3>2, <3>3
  <2>3. CASE FileName(p, FALSE) # File(j)
    <3>1. disk'[FileName(p, FALSE)] = disk[FileName(p, FALSE)]
      BY <1>1, <2>1, <2>3
    <3>2. QED BY <3>1 DEF DInv, OfficialIsSealed
  <2>4. QED BY <2>2, <2>3
<1>6. QED BY <1>4, <1>5 DEF DInv

LEMMA RowKeepsInv ==
  ASSUME DInv, NEW j \in Jobs, UpsertRow(j)
  PROVE  DInv'
<1> DEFINE d == job[j].detail
<1>1. /\ documents' = [documents EXCEPT ![d.pass][d.draft] = d]
      /\ job' = [job EXCEPT ![j] = Idle]
      /\ book' = book /\ form' = form /\ disk' = disk /\ job[j].pc = "row"
  BY DEF UpsertRow, At, End
<1>2. Honest("row", d)
  BY <1>1 DEF DInv, JobsHonest
<1>3. d.pass \in PassIds /\ d.draft \in Kinds
  BY <1>2 DEF Honest, Rendering
<1>4. Idle \in JobState /\ Idle.pc = "idle"
  BY DEF Idle, JobState
<1>7. \A p \in PassIds, k \in Kinds :
        documents'[p][k] = IF p = d.pass /\ k = d.draft THEN d ELSE documents[p][k]
  BY <1>1, <1>3 DEF DInv, Typed
<1>8. Typed'
  <2>1. \A p \in PassIds : DOMAIN documents'[p] = Kinds
    BY <1>1, <1>3 DEF DInv, Typed
  <2>2. DOMAIN documents' = PassIds
    BY <1>1 DEF DInv, Typed
  <2>3. QED BY <1>1, <1>4, <2>1, <2>2 DEF DInv, Typed
<1>9. JobsHonest'
  <2> SUFFICES ASSUME NEW k \in Jobs
               PROVE  (job[k].pc = "idle" \/ Honest(job[k].pc, job[k].detail))'
    BY DEF JobsHonest
  <2>1. job'[k] = IF k = j THEN Idle ELSE job[k]
    BY <1>1 DEF DInv, Typed
  <2>2. job[k].pc = "idle" \/ Honest(job[k].pc, job[k].detail)
    BY DEF DInv, JobsHonest
  <2>3. QED BY <1>1, <1>4, <2>1, <2>2 DEF Honest
<1>10. OfficialIsSealed'
  <2> SUFFICES ASSUME NEW p \in PassIds
               PROVE  documents'[p][FALSE] = NoHash \/ Sealed(p, documents'[p][FALSE])
    <3>1. \A q \in PassIds : \/ disk'[FileName(q, FALSE)] \in {NoFile, Cut}
                              \/ \E n \in Namesakes(q) :
                                   Sealed(n, disk'[FileName(q, FALSE)])
      BY <1>1 DEF DInv, OfficialIsSealed
    <3>2. book' = book /\ form' = form
      BY <1>1
    <3>3. QED BY <3>1, <3>2 DEF OfficialIsSealed, Namesakes, Sealed, FileName
  <2>1. CASE p = d.pass /\ d.draft = FALSE
    <3>1. Sealed(p, d)
      BY <1>2, <2>1 DEF Honest, Sealed, Printing
    <3>2. documents'[p][FALSE] = d
      BY <1>7, <2>1 DEF Kinds
    <3>3. QED BY <3>1, <3>2
  <2>2. CASE ~(p = d.pass /\ d.draft = FALSE)
    <3>1. documents'[p][FALSE] = documents[p][FALSE]
      BY <1>7, <2>2 DEF Kinds
    <3>2. documents[p][FALSE] = NoHash \/ Sealed(p, documents[p][FALSE])
      BY DEF DInv, OfficialIsSealed
    <3>3. QED BY <3>1, <3>2
  <2>3. QED BY ONLY <2>1, <2>2
<1>11. QED BY <1>8, <1>9, <1>10 DEF DInv

LEMMA JobKeepsInv ==
  ASSUME DInv, NEW j \in Jobs, Advance(j)
  PROVE  DInv'
<1>1. CASE \/ \E p \in PassIds, draft \in Kinds : ReadHeader(j, p, draft)
           \/ ReadLines(j)
  BY <1>1, ReadingKeepsInv
<1>3. CASE Stat(j)
  <2> DEFINE pc == IF disk[File(j)] = NoFile THEN "create" ELSE "row"
  <2>1. job[j].pc = "stat" /\ Goto(j, pc)
    BY <1>3 DEF Stat, At
  <2>2. pc \in Busy \ {"lines"} /\ job[j].pc \in Busy \ {"lines"}
    BY <2>1 DEF Busy
  <2>3. job[j].detail.status \in Official \/ job[j].detail.draft
    BY <2>1 DEF DInv, JobsHonest, Honest, Printing
  <2>4. QED BY <1>3, <2>1, <2>2, <2>3, GoOn DEF Stat
<1>4. CASE CreateFile(j) \/ WriteFile(j)
  BY <1>4, WritingKeepsInv
<1>5. CASE WriteFails(j) \/ Refuse(j)
  BY <1>5, Ending DEF WriteFails, Refuse
<1>6. CASE UpsertRow(j)
  BY <1>6, RowKeepsInv
<1>7. QED BY <1>1, <1>3, <1>4, <1>5, <1>6 DEF Advance

(* Official files and rows are sealed forms: of the pass itself in the     *)
(* row, and in the file of the pass or of one that safeFilename gives the  *)
(* same name.                                                              *)
THEOREM OfficialSealed == DocSpec => []OfficialIsSealed
<1>1. DocInit => DInv
  <2> SUFFICES ASSUME DocInit PROVE DInv
    OBVIOUS
  <2>1. Blank \in Pass
    BY DEF Blank, Pass, PassTypes
  <2>2. Idle \in JobState /\ Idle.pc = "idle"
    BY DEF Idle, JobState
  <2>4. Typed /\ JobsHonest
    BY <2>1, <2>2 DEF DocInit, Init, Typed, JobsHonest
  <2>5. OfficialIsSealed
    <3>1. FALSE \in Kinds
      BY DEF Kinds
    <3>2. QED BY <3>1, OfficialName DEF DocInit, OfficialIsSealed
  <2>6. QED BY <2>4, <2>5 DEF DInv
<1>2. DInv /\ [DocNext]_vars => DInv'
  <2> SUFFICES ASSUME DInv, [DocNext]_vars PROVE DInv'
    OBVIOUS
  <2>1. CASE Register
    BY <2>1, RegisterKeepsInv
  <2>2. CASE Crash
    <3>1. Idle \in JobState /\ Idle.pc = "idle"
      BY DEF Idle, JobState
    <3>2. job' = [j \in Jobs |-> Idle]
      BY <2>2 DEF Crash
    <3>3. Typed' /\ JobsHonest'
      BY <2>2, <3>1, <3>2 DEF Crash, DInv, Typed, JobsHonest
    <3>4. OfficialIsSealed'
      BY <2>2 DEF Crash, DInv, OfficialIsSealed, Namesakes,
                      Sealed, FileName
    <3>5. QED BY <3>3, <3>4 DEF DInv
  <2>3. ASSUME NEW j \in Jobs, Advance(j) PROVE DInv'
    BY <2>3, JobKeepsInv
  <2>4. CASE UNCHANGED vars
    <3>1. Typed' /\ JobsHonest'
      BY <2>4 DEF vars, docs, DInv, Typed, JobsHonest, Honest
    <3>2. OfficialIsSealed'
      BY <2>4 DEF vars, docs, DInv, OfficialIsSealed, Namesakes, Sealed, FileName
    <3>3. QED BY <3>1, <3>2 DEF DInv
  <2>5. QED BY ONLY [DocNext]_vars, <2>1, <2>2, <2>3, <2>4 DEF DocNext
<1>3. DInv => OfficialIsSealed
  BY DEF DInv
<1>4. QED BY <1>1, <1>2, <1>3, PTL DEF DocSpec

-----------------------------------------------------------------------------
(* A row has its file, and here names may be shared: a file never goes     *)
(* away, and a download past the writing has one under its name.           *)

HasFile == {"write", "row"}

Placed(pc, d) ==
  \/ pc = "idle"
  \/ /\ pc \in Busy /\ d \in Rendering
     /\ pc \in HasFile => disk[FileName(d.pass, d.draft)] # NoFile

FilesStand ==
  /\ Typed /\ RowHasFile
  /\ \A j \in Jobs : Placed(job[j].pc, job[j].detail)

LEMMA RenderingIsFile ==
  ASSUME NEW d \in Rendering
  PROVE  d # NoFile /\ Cut # NoFile /\ FileName(d.pass, d.draft) \in Files
<1>1. DOMAIN d # DOMAIN NoFile
  BY DEF Rendering, NoFile
<1>2. Cut # NoFile
  <2>1. Cut.kind # NoFile.kind
    BY DEF Cut, NoFile
  <2> QED
    BY <2>1
<1>3. FileName(d.pass, d.draft) \in Files
  BY NameIsFile DEF Rendering
<1> QED
  BY <1>1, <1>2, <1>3

(* A step of one download: files stay, and the next stage has its file.    *)
LEMMA JobPlaced ==
  ASSUME FilesStand, NEW j \in Jobs, NEW s \in JobState,
         job' = [job EXCEPT ![j] = s], book' = book, form' = form,
         DOMAIN disk' = Files,
         \A f \in Files : disk[f] # NoFile => disk'[f] # NoFile,
         DOMAIN documents' = PassIds,
         \A p \in PassIds : DOMAIN documents'[p] = Kinds,
         \A p \in PassIds, draft \in Kinds :
           \/ documents'[p][draft] = documents[p][draft]
           \/ disk[FileName(p, draft)] # NoFile,
         \/ s.pc = "idle"
         \/ /\ s.pc \in Busy /\ s.detail \in Rendering
            /\ s.pc \in HasFile
                 => disk'[FileName(s.detail.pass, s.detail.draft)] # NoFile
  PROVE  FilesStand'
<1>1. Typed'
  BY DEF FilesStand, Typed
<1>2. RowHasFile'
  <2> SUFFICES ASSUME NEW p \in PassIds, NEW draft \in Kinds,
                      documents'[p][draft] # NoHash
               PROVE  disk'[FileName(p, draft)] # NoFile
    BY DEF RowHasFile, FileName
  <2>1. disk[FileName(p, draft)] # NoFile
    BY DEF FilesStand, RowHasFile
  <2>2. FileName(p, draft) \in Files
    BY NameIsFile
  <2> QED
    BY <2>1, <2>2
<1>3. ASSUME NEW k \in Jobs PROVE Placed(job[k].pc, job[k].detail)'
  <2>1. CASE k = j
    <3>1. job'[k] = s
      BY <2>1 DEF FilesStand, Typed
    <3> QED
      BY <3>1 DEF Placed, FileName
  <2>2. CASE k # j
    <3>1. job'[k] = job[k] /\ Placed(job[k].pc, job[k].detail)
      BY <2>2 DEF FilesStand, Typed
    <3>2. job[k].detail \in Rendering
            => FileName(job[k].detail.pass, job[k].detail.draft) \in Files
      BY RenderingIsFile
    <3> QED
      BY <3>1, <3>2 DEF Placed, FileName
  <2> QED
    BY <2>1, <2>2
<1> QED
  BY <1>1, <1>2, <1>3 DEF FilesStand

(* The stages of a download at the files it leaves alone.                  *)
LEMMA ReadingPlaced ==
  ASSUME FilesStand, NEW j \in Jobs,
         \/ \E p \in PassIds, draft \in Kinds : ReadHeader(j, p, draft)
         \/ ReadLines(j)
  PROVE  FilesStand'
<1>1. disk' = disk /\ documents' = documents /\ book' = book /\ form' = form
  BY DEF ReadHeader, ReadLines
<1>2. Typed
  BY DEF FilesStand
<1>3. ASSUME NEW p \in PassIds, NEW draft \in Kinds, ReadHeader(j, p, draft)
      PROVE  FilesStand'
  <2> DEFINE d == [pass |-> p, draft |-> draft, status |-> book[p].status,
                   header |-> form[p], lines |-> 0]
             s == [pc |-> "lines", detail |-> d]
  <2>1. d \in Rendering
    <3>1. book[p].status \in Statuses /\ form[p] \in Nat
      BY <1>2, <1>3 DEF Typed, ReadHeader, Pass
    <3> QED
      BY <3>1 DEF Rendering
  <2>2. s.pc = "lines" /\ s.detail = d /\ job' = [job EXCEPT ![j] = s]
    BY <1>3 DEF ReadHeader
  <2>3. s \in JobState
    BY <2>1 DEF JobState, Busy
  <2> HIDE DEF d, s
  <2> QED
    BY <1>1, <1>2, <2>1, <2>2, <2>3, JobPlaced DEF Typed, Busy, HasFile
<1>4. CASE ReadLines(j)
  <2> DEFINE d == job[j].detail
             e == [d EXCEPT !.lines = form[d.pass]]
             s == [pc |-> "stat", detail |-> e]
  <2>1. d \in Rendering
    BY <1>4 DEF ReadLines, At, FilesStand, Placed
  <2>2. e \in Rendering
    BY <1>2, <2>1 DEF Typed, Rendering
  <2>3. s.pc = "stat" /\ s.detail = e /\ job' = [job EXCEPT ![j] = s]
    BY <1>4 DEF ReadLines
  <2>4. s \in JobState
    BY <2>2 DEF JobState, Busy
  <2> HIDE DEF d, e, s
  <2> QED
    BY <1>1, <1>2, <2>2, <2>3, <2>4, JobPlaced DEF Typed, Busy, HasFile
<1> QED
  BY <1>3, <1>4

LEMMA GoOnPlaced ==
  ASSUME FilesStand, NEW j \in Jobs, NEW pc \in Busy,
         job[j].pc # "idle", Goto(j, pc),
         book' = book, form' = form,
         DOMAIN disk' = Files,
         \A f \in Files : disk[f] # NoFile => disk'[f] # NoFile,
         documents' = documents,
         pc \in HasFile => disk'[File(j)] # NoFile
  PROVE  FilesStand'
<1> DEFINE s == [job[j] EXCEPT !.pc = pc]
<1>1. job[j] \in JobState /\ Typed
  BY DEF FilesStand, Typed
<1>2. s \in JobState /\ s.pc = pc /\ s.detail = job[j].detail
  BY <1>1 DEF JobState
<1>3. s.detail \in Rendering
  BY <1>2 DEF FilesStand, Placed
<1>4. job' = [job EXCEPT ![j] = s]
  BY <1>1 DEF Goto, Typed
<1>5. pc \in HasFile => disk'[FileName(s.detail.pass, s.detail.draft)] # NoFile
  BY <1>2 DEF File
<1> HIDE DEF s
<1> QED
  BY <1>1, <1>2, <1>3, <1>4, <1>5, JobPlaced DEF Typed

LEMMA EndPlaced ==
  ASSUME FilesStand, NEW j \in Jobs, End(j),
         book' = book, form' = form, disk' = disk, documents' = documents
  PROVE  FilesStand'
<1>1. Idle \in JobState /\ Idle.pc = "idle" /\ Typed
  BY DEF Idle, JobState, FilesStand
<1> QED
  BY <1>1, JobPlaced DEF End, Typed

LEMMA JobStands ==
  ASSUME FilesStand, NEW j \in Jobs, Advance(j) PROVE FilesStand'
<1>0. Typed /\ Placed(job[j].pc, job[j].detail) /\ DOMAIN disk = Files
  BY DEF FilesStand, Typed
<1>1. CASE \/ \E p \in PassIds, draft \in Kinds : ReadHeader(j, p, draft)
           \/ ReadLines(j)
  BY <1>1, ReadingPlaced
<1>3. CASE Stat(j)
  <2>1. CASE disk[File(j)] = NoFile
    BY <1>0, <1>3, <2>1, GoOnPlaced DEF Stat, At, Busy, HasFile
  <2>2. CASE disk[File(j)] # NoFile
    BY <1>0, <1>3, <2>2, GoOnPlaced DEF Stat, At, Busy, HasFile
  <2> QED
    BY <2>1, <2>2
<1>4. CASE CreateFile(j) \/ WriteFile(j)
  <2>1. job[j].pc # "idle" /\ job[j].detail \in Rendering
    BY <1>0, <1>4 DEF CreateFile, WriteFile, At, Placed
  <2>2. /\ File(j) \in Files /\ Cut # NoFile /\ job[j].detail # NoFile
    BY <2>1, RenderingIsFile DEF File
  <2>3. PICK x \in {Cut, job[j].detail}, pc \in {"write", "row"} :
          disk' = [disk EXCEPT ![File(j)] = x] /\ Goto(j, pc)
    BY <1>4 DEF CreateFile, WriteFile
  <2>4. /\ x # NoFile /\ disk'[File(j)] # NoFile /\ DOMAIN disk' = Files
        /\ \A f \in Files : disk[f] # NoFile => disk'[f] # NoFile
    BY <1>0, <2>2, <2>3
  <2>5. pc \in Busy
    BY DEF Busy
  <2> QED
    BY <1>4, <2>1, <2>3, <2>4, <2>5, GoOnPlaced DEF CreateFile, WriteFile
<1>5. CASE WriteFails(j) \/ Refuse(j)
  BY <1>5, EndPlaced DEF WriteFails, Refuse
<1>6. CASE UpsertRow(j)
  <2> DEFINE d == job[j].detail
  <2>1. d \in Rendering /\ disk[FileName(d.pass, d.draft)] # NoFile
    BY <1>0, <1>6 DEF UpsertRow, At, Placed, HasFile
  <2>2. Idle \in JobState /\ Idle.pc = "idle"
    BY DEF Idle, JobState
  <2>3. job' = [job EXCEPT ![j] = Idle]
    BY <1>6 DEF UpsertRow, End
  <2>4. d.pass \in PassIds /\ d.draft \in Kinds
    BY <2>1 DEF Rendering
  <2>5. /\ documents' = [documents EXCEPT ![d.pass][d.draft] = d]
        /\ disk' = disk /\ book' = book /\ form' = form
    BY <1>6 DEF UpsertRow
  <2> HIDE DEF d
  <2>6. /\ DOMAIN documents' = PassIds
        /\ \A p \in PassIds : DOMAIN documents'[p] = Kinds
        /\ \A p \in PassIds, draft \in Kinds :
             \/ documents'[p][draft] = documents[p][draft]
             \/ p = d.pass /\ draft = d.draft
    BY <1>0, <2>4, <2>5 DEF Typed
  <2>7. \A p \in PassIds, draft \in Kinds :
          \/ documents'[p][draft] = documents[p][draft]
          \/ disk[FileName(p, draft)] # NoFile
    BY <2>1, <2>6
  <2> QED
    BY <1>0, <2>2, <2>3, <2>5, <2>6, <2>7, JobPlaced DEF Typed
<1> QED
  BY <1>1, <1>3, <1>4, <1>5, <1>6 DEF Advance

LEMMA FilesStandInit == ASSUME DocInit PROVE FilesStand
<1>1. Blank \in Pass
  BY DEF Blank, Pass, PassTypes
<1>2. Idle \in JobState /\ Idle.pc = "idle"
  BY DEF Idle, JobState
<1>4. Typed /\ \A j \in Jobs : Placed(job[j].pc, job[j].detail)
  BY <1>1, <1>2 DEF DocInit, Init, Typed, Placed
<1>5. RowHasFile
  BY DEF DocInit, RowHasFile
<1> QED
  BY <1>4, <1>5 DEF FilesStand

LEMMA FilesStandNext == ASSUME FilesStand, [DocNext]_vars PROVE FilesStand'
<1>0. Typed /\ RowHasFile /\ \A j \in Jobs : Placed(job[j].pc, job[j].detail)
  BY DEF FilesStand
<1>1. CASE Register
  <2>1. UNCHANGED docs
    BY <1>1 DEF Register, Create, Edit, Decide
  <2>2. Typed'
    BY <1>0, <1>1, <2>1, RegisterKeepsTypes DEF Typed, docs
  <2> QED
    BY <1>0, <2>1, <2>2 DEF FilesStand, docs, RowHasFile, Placed, FileName
<1>2. CASE Crash
  <2>1. Idle \in JobState /\ Idle.pc = "idle" /\ job' = [j \in Jobs |-> Idle]
    BY <1>2 DEF Idle, JobState, Crash
  <2>2. Typed' /\ \A j \in Jobs : Placed(job[j].pc, job[j].detail)'
    BY <1>0, <1>2, <2>1 DEF Crash, Typed, Placed
  <2> QED
    BY <1>0, <1>2, <2>2 DEF Crash, FilesStand, RowHasFile, FileName
<1>3. ASSUME NEW j \in Jobs, Advance(j) PROVE FilesStand'
  BY <1>3, JobStands
<1>4. CASE UNCHANGED vars
  BY <1>0, <1>4 DEF vars, docs, FilesStand, Typed, RowHasFile, Placed, FileName
<1> QED
  BY <1>1, <1>2, <1>3, <1>4 DEF DocNext

(* A row of documents names a file that exists, for any number of          *)
(* downloads, failures and crashes, and also if passes share a file name.  *)
THEOREM RowsHaveFiles == DocSpec => []RowHasFile
<1>1. FilesStand => RowHasFile
  BY DEF FilesStand
<1> QED
  BY <1>1, FilesStandInit, FilesStandNext, PTL DEF DocSpec

-----------------------------------------------------------------------------
(* Types of files and rows: what is on the disk or in the table is some    *)
(* download's rendering, also where names are shared.                      *)

Ranges ==
  /\ disk \in [Files -> Rendering \cup {NoFile, Cut}]
  /\ documents \in [PassIds -> [Kinds -> Rendering \cup {NoHash}]]

LEMMA RangesNext == ASSUME FilesStand, Ranges, [DocNext]_vars PROVE Ranges'
<1>1. CASE UNCHANGED <<disk, documents>>
  BY <1>1 DEF Ranges
<1>2. ASSUME NEW j \in Jobs, CreateFile(j) \/ WriteFile(j) PROVE Ranges'
  <2>1. job[j].detail \in Rendering
    BY <1>2 DEF CreateFile, WriteFile, At, FilesStand, Placed
  <2>2. File(j) \in Files
    BY <2>1, RenderingIsFile DEF File
  <2>3. PICK x \in {Cut, job[j].detail} : disk' = [disk EXCEPT ![File(j)] = x]
    BY <1>2 DEF CreateFile, WriteFile
  <2>4. disk' \in [Files -> Rendering \cup {NoFile, Cut}]
    BY <2>1, <2>2, <2>3 DEF Ranges
  <2> QED
    BY <1>2, <2>4 DEF CreateFile, WriteFile, Ranges
<1>3. ASSUME NEW j \in Jobs, UpsertRow(j) PROVE Ranges'
  <2> DEFINE d == job[j].detail
  <2>1. d \in Rendering
    BY <1>3 DEF UpsertRow, At, FilesStand, Placed
  <2>2. d.pass \in PassIds /\ d.draft \in Kinds
    BY <2>1 DEF Rendering
  <2>3. documents' = [documents EXCEPT ![d.pass][d.draft] = d] /\ disk' = disk
    BY <1>3 DEF UpsertRow
  <2> HIDE DEF d
  <2>4. [documents[d.pass] EXCEPT ![d.draft] = d] \in [Kinds -> Rendering \cup {NoHash}]
    BY <2>1, <2>2 DEF Ranges
  <2>5. documents' = [documents EXCEPT ![d.pass] = [documents[d.pass] EXCEPT ![d.draft] = d]]
    BY <2>3
  <2> QED
    BY <2>2, <2>3, <2>4, <2>5 DEF Ranges
<1>4. CASE Register \/ Crash \/ UNCHANGED vars
  BY <1>1, <1>4 DEF Register, Create, Edit, Decide, Crash, docs, vars
<1>5. ASSUME NEW j \in Jobs, Advance(j) PROVE Ranges'
  <2>1. CASE CreateFile(j) \/ WriteFile(j)
    BY <1>2, <2>1
  <2>2. CASE UpsertRow(j)
    BY <1>3, <2>2
  <2>3. CASE ~(CreateFile(j) \/ WriteFile(j) \/ UpsertRow(j))
    BY <1>1, <1>5, <2>3 DEF Advance, ReadHeader, ReadLines, Stat,
                            WriteFails, Refuse
  <2> QED
    BY <2>1, <2>2, <2>3
<1> QED
  BY <1>4, <1>5 DEF DocNext

(* The type invariant of the documents, with or without shared names.      *)
THEOREM DocTypes == DocSpec => []DocTypeOK
<1>1. DocInit => Ranges
  BY DEF DocInit, Ranges
<1>2. FilesStand /\ Ranges => DocTypeOK
  BY DEF FilesStand, Typed, Ranges, DocTypeOK, JobState, Busy
<1> QED
  BY <1>1, <1>2, FilesStandInit, FilesStandNext, RangesNext, PTL DEF DocSpec

(* A recorded hash is wrong in two ways only.  What a row records and what *)
(* the file holds differ at most in the status that was printed, or the    *)
(* file is the approved form of another pass, one that safeFilename gives  *)
(* the same name.                                                          *)
THEOREM HashOfSealedForm ==
  DocSpec => [](\A p \in PassIds :
    LET file == disk[FileName(p, FALSE)]  row == documents[p][FALSE] IN
    row # NoHash /\ file \notin {NoFile, Cut}
      => \/ row = [file EXCEPT !.status = row.status]
         \/ \E q \in Namesakes(p) \ {p} : Sealed(q, file))
<1> DEFINE Bound(p) ==
      LET file == disk[FileName(p, FALSE)]  row == documents[p][FALSE] IN
      row # NoHash /\ file \notin {NoFile, Cut}
        => \/ row = [file EXCEPT !.status = row.status]
           \/ \E q \in Namesakes(p) \ {p} : Sealed(q, file)
<1>1. ASSUME DocTypeOK, OfficialIsSealed, NEW p \in PassIds PROVE Bound(p)
  <2> DEFINE file == disk[FileName(p, FALSE)]  row == documents[p][FALSE]
  <2> SUFFICES ASSUME row # NoHash, file \notin {NoFile, Cut},
                      ~ \E q \in Namesakes(p) \ {p} : Sealed(q, file)
               PROVE  row = [file EXCEPT !.status = row.status]
    OBVIOUS
  <2>1. FileName(p, FALSE) \in Files /\ FALSE \in Kinds
    BY OfficialName DEF Kinds
  <2>2. file \in Rendering
    BY <1>1, <2>1 DEF DocTypeOK
  <2>3. row \in Rendering
    <3>1. documents[p] \in [Kinds -> Rendering \cup {NoHash}]
      BY <1>1 DEF DocTypeOK
    <3> QED
      BY <2>1, <3>1
  <2>4. Sealed(p, file) /\ Sealed(p, row)
    BY <1>1 DEF OfficialIsSealed
  <2> HIDE DEF file, row
  <2>5. /\ row.pass = file.pass /\ row.draft = file.draft
        /\ row.header = file.header /\ row.lines = file.lines
    <3>1. file.draft \in BOOLEAN /\ row.draft \in BOOLEAN
      BY <2>2, <2>3 DEF Rendering, Kinds
    <3> QED
      BY <2>4, <3>1 DEF Sealed
  <2>6. [file EXCEPT !.status = row.status] \in Rendering
    BY <2>2, <2>3 DEF Rendering
  <2> QED
    BY <2>2, <2>3, <2>5, <2>6 DEF Rendering
<1>2. DocTypeOK /\ OfficialIsSealed => \A p \in PassIds : Bound(p)
  BY <1>1
<1> QED
  BY <1>2, DocTypes, OfficialSealed, PTL

-----------------------------------------------------------------------------

(* The register the downloads read is the book of Lifecycle: edits and     *)
(* decisions are its steps, and no download, failure or crash moves it.    *)
THEOREM DocumentsKeepTheBook == DocSpec => Spec
<1>1. DocInit => Init
  BY DEF DocInit
<1>2. [DocNext]_vars => [Next]_book
  <2> SUFFICES ASSUME [DocNext]_vars PROVE [Next]_book
    OBVIOUS
  <2>1. CASE Register
    <3>1. PICK p \in PassIds : Create(p) \/ Edit(p) \/ Decide(p)
      BY <2>1 DEF Register
    <3> QED
      BY <3>1 DEF Create, Edit, Decide, Next
  <2>2. CASE Crash \/ UNCHANGED vars
    BY <2>2 DEF Crash, vars
  <2>3. ASSUME NEW j \in Jobs, Advance(j) PROVE book' = book
    BY <2>3 DEF Advance, ReadHeader, ReadLines, Stat, CreateFile,
                WriteFile, WriteFails, UpsertRow, Refuse
  <2> QED
    BY <2>1, <2>2, <2>3 DEF DocNext
<1> QED
  BY <1>1, <1>2, PTL DEF DocSpec, Spec
=============================================================================
