----------------------------- MODULE Documents ------------------------------
(***************************************************************************)
(* The PDF of a pass: passPDF of internal/http/server.go, findDetail of    *)
(* internal/gatepass/store.go and internal/documents/service.go.           *)
(*                                                                         *)
(* The register around the downloads is the book of Lifecycle, which       *)
(* GatePassStore is shown to implement, with the version of the form each  *)
(* pass holds: an edit replaces header and lines as a whole and only in a  *)
(* draft (SavedWhole and FrozenAfterSubmit of GatePassStore).              *)
(*                                                                         *)
(* A download reads the pass in two statements, renders it in memory,      *)
(* writes the file only if there is none, records the hash of what it has  *)
(* just rendered, and serves the file.  Nothing ties these steps together: *)
(* other downloads, the register, failures and the end of the server come  *)
(* between any two of them.                                                *)
(***************************************************************************)
EXTENDS Lifecycle, Sequences

CONSTANTS
  Jobs,       \* the downloads the server handles at the same time
  PassNo,     \* the number of each pass, as a sequence of its pieces
  Asked,      \* the passes each download may be asked for, preview or not
  MaxForm     \* bound on the edits of each pass

ASSUME FormAssumption == MaxForm \in [PassIds -> Nat]

(* UNIQUE (pass_no) of 001_foundation.sql: the row that is upserted by     *)
(* number is the pass's own.                                               *)
ASSUME NumberAssumption ==
  /\ PassNo \in [PassIds -> Seq(STRING)]
  /\ \A p, q \in PassIds : PassNo[p] = PassNo[q] => p = q

VARIABLES
  form,       \* the version of the form a pass holds
  disk,       \* the files below STORAGE_ROOT/gate-passes
  documents,  \* table documents: the hash recorded for (pass, kind)
  job         \* the state of each download

docs == <<disk, documents, job>>
vars == <<book, form, docs>>

-----------------------------------------------------------------------------
(* Files and rows.  Kinds: a draft preview (TRUE) or the official PDF.     *)

Kinds == BOOLEAN
Official == {"APPROVED", "PASSED_OUT", "RETURNED"}

(* safeFilename: separators become '-', blanks '_', so that two numbers    *)
(* may become one name.                                                    *)
Safe(piece) ==
  CASE piece \in {"/", "\\", ".."} -> "-"
    [] piece = " "                 -> "_"
    [] OTHER                       -> piece

SafeFilename(value) == [i \in DOMAIN value |-> Safe(value[i])]

(* Mutant: preview and official PDF share one name.                        *)
OneName(p, draft) == <<SafeFilename(PassNo[p]), FALSE>>

FileName(p, draft) == <<SafeFilename(PassNo[p]), draft>>

Files == {FileName(p, draft) : p \in PassIds, draft \in Kinds}

(* A file is the rendering it holds; NoFile and Cut are no renderings:     *)
(* there is none, or its writing was not finished.                         *)
Rendering == [pass : PassIds, draft : Kinds, status : Statuses,
              header : Nat, lines : Nat]
NoFile == [kind |-> "none"]
Cut    == [kind |-> "cut"]

NoHash == [kind |-> "none"]

-----------------------------------------------------------------------------
(* The register.                                                           *)

Create(p) == CreatePass(p) /\ UNCHANGED <<form, docs>>

Edit(p) ==
  /\ form[p] < MaxForm[p]
  /\ EditPass(p)
  /\ form' = [form EXCEPT ![p] = @ + 1]
  /\ UNCHANGED docs

Decide(p) ==
  \E action \in Workflow : TransitionPass(p, action) /\ UNCHANGED <<form, docs>>

Register == \E p \in PassIds : Create(p) \/ Edit(p) \/ Decide(p)

-----------------------------------------------------------------------------
(* A download.                                                             *)

NoDetail == [pass |-> NoUser, draft |-> FALSE, status |-> "NONE",
             header |-> 0, lines |-> 0]
Idle == [pc |-> "idle", detail |-> NoDetail]

At(j, pc) == job[j].pc = pc
Goto(j, pc) == job' = [job EXCEPT ![j].pc = pc]
End(j) == job' = [job EXCEPT ![j] = Idle]
File(j) == FileName(job[j].detail.pass, job[j].detail.draft)

(* findDetail, first statement: the row, with its status.                  *)
ReadHeader(j, p, draft) ==
  /\ At(j, "idle") /\ <<p, draft>> \in Asked[j] /\ book[p].status # "NONE"
  /\ job' = [job EXCEPT ![j] =
       [pc |-> "lines",
        detail |-> [pass |-> p, draft |-> draft, status |-> book[p].status,
                    header |-> form[p], lines |-> 0]]]
  /\ UNCHANGED <<book, form, disk, documents>>

(* The two status checks of passPDF, on the status that was read.          *)
MayPrint(detail, role) ==
  \/ detail.status \in Official
  \/ detail.draft /\ role # "SECURITY"

(* findDetail, second statement: the lines as they are now; a download     *)
(* that the checks refuse goes no further.                                 *)
ReadLines(j) ==
  /\ At(j, "lines")
  /\ \E role \in Roles : MayPrint(job[j].detail, role)
  /\ LET d == job[j].detail IN
     job' = [job EXCEPT ![j] =
       [pc |-> "stat", detail |-> [d EXCEPT !.lines = form[d.pass]]]]
  /\ UNCHANGED <<book, form, disk, documents>>

(* os.Stat: a file of that name is left as it is.                          *)
Stat(j) ==
  /\ At(j, "stat")
  /\ Goto(j, IF disk[File(j)] = NoFile THEN "create" ELSE "row")
  /\ UNCHANGED <<book, form, disk, documents>>

(* os.WriteFile truncates or creates the file, then writes it.             *)
CreateFile(j) ==
  /\ At(j, "create")
  /\ disk' = [disk EXCEPT ![File(j)] = Cut]
  /\ Goto(j, "write")
  /\ UNCHANGED <<book, form, documents>>

WriteFile(j) ==
  /\ At(j, "write")
  /\ disk' = [disk EXCEPT ![File(j)] = job[j].detail]
  /\ Goto(j, "row")
  /\ UNCHANGED <<book, form, documents>>

(* Mutant: the error of a write is logged and the download goes on.        *)
WriteIgnored(j) ==
  /\ job[j].pc \in {"create", "write"}
  /\ Goto(j, "row")
  /\ UNCHANGED <<book, form, disk, documents>>

(* A write fails; what it has created stays on the disk.                   *)
WriteFails(j) ==
  /\ job[j].pc \in {"create", "write"}
  /\ End(j)
  /\ UNCHANGED <<book, form, disk, documents>>

(* INSERT ... ON CONFLICT DO UPDATE: the hash is that of the new rendering *)
(* whether or not it was written.  http.ServeFile then only reads the file.*)
UpsertRow(j) ==
  /\ At(j, "row")
  /\ documents' = [documents EXCEPT
       ![job[j].detail.pass][job[j].detail.draft] = job[j].detail]
  /\ End(j)
  /\ UNCHANGED <<book, form, disk>>

(* A statement fails, or the checks refuse: the download ends.             *)
Refuse(j) ==
  /\ job[j].pc \in {"lines", "row"}
  /\ End(j)
  /\ UNCHANGED <<book, form, disk, documents>>

(* The server stops; files and tables stay.                                *)
Crash ==
  /\ job' = [j \in Jobs |-> Idle]
  /\ UNCHANGED <<book, form, disk, documents>>

-----------------------------------------------------------------------------

DocInit ==
  /\ Init
  /\ form = [p \in PassIds |-> 0]
  /\ disk = [f \in Files |-> NoFile]
  /\ documents = [p \in PassIds |-> [draft \in Kinds |-> NoHash]]
  /\ job = [j \in Jobs |-> Idle]

Advance(j) ==
  \/ \E p \in PassIds, draft \in Kinds : ReadHeader(j, p, draft)
  \/ ReadLines(j)
  \/ Stat(j)
  \/ CreateFile(j)
  \/ WriteFile(j)
  \/ WriteFails(j)
  \/ UpsertRow(j)
  \/ Refuse(j)

DocNext == Register \/ Crash \/ \E j \in Jobs : Advance(j)

DocSpec == DocInit /\ [][DocNext]_vars

-----------------------------------------------------------------------------
(* Requirements.                                                           *)

(* Types of files, rows and downloads.                                     *)
DocTypeOK ==
  /\ book \in [PassIds -> Pass]
  /\ form \in [PassIds -> Nat]
  /\ disk \in [Files -> Rendering \cup {NoFile, Cut}]
  /\ documents \in [PassIds -> [Kinds -> Rendering \cup {NoHash}]]
  /\ job \in [Jobs -> [pc : {"idle", "lines", "stat", "create", "write", "row"},
                       detail : Rendering \cup {NoDetail}]]

(* rendering is p's form as it was approved, read in one piece.            *)
Sealed(p, rendering) ==
  /\ rendering.pass = p /\ ~rendering.draft
  /\ rendering.status \in Official /\ book[p].status \in Official
  /\ rendering.header = form[p] /\ rendering.lines = form[p]

(* The passes whose files safeFilename puts under one name.                *)
Namesakes(p) == {q \in PassIds : FileName(q, FALSE) = FileName(p, FALSE)}

(* The file an official download of a pass is answered with is a rendering *)
(* of that pass, or of one whose number safeFilename merges with its own;  *)
(* the hash recorded for a pass is of a rendering of that very pass.  Both *)
(* were made after the approval of the pass they show, with header and     *)
(* lines of the form that was approved: never a preview, never half of an  *)
(* older form.                                                             *)
OfficialIsSealed ==
  \A p \in PassIds :
    /\ LET file == disk[FileName(p, FALSE)] IN
       file \in {NoFile, Cut} \/ \E q \in Namesakes(p) : Sealed(q, file)
    /\ documents[p][FALSE] = NoHash \/ Sealed(p, documents[p][FALSE])

(* A row of documents names a file that exists, whatever failed and        *)
(* wherever the server stopped.                                            *)
RowHasFile ==
  \A p \in PassIds, draft \in Kinds :
    documents[p][draft] # NoHash => disk[FileName(p, draft)] # NoFile

(* While no download runs, the hash of a row is the hash of its file.      *)
(* PRD.md:57 stores the PDF with its SHA-256 hash, and backup.md:13 has    *)
(* the restored hashes verified.                                           *)
HashIsOfFile ==
  (\A j \in Jobs : At(j, "idle")) =>
    \A p \in PassIds, draft \in Kinds :
      documents[p][draft] # NoHash
        => disk[FileName(p, draft)] = documents[p][draft]
=============================================================================
