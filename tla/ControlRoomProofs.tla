------------------------- MODULE ControlRoomProofs --------------------------
(***************************************************************************)
(* Proofs of the requirements of ControlRoom: a decision is taken on what  *)
(* the page showed, no link leads nowhere, buttons and policy agree.       *)
(*                                                                         *)
(* Every step of the room is a step of the register or none, so the        *)
(* register's invariant holds here too.  What a page says of a pass that   *)
(* had left the draft is final (FormsKept), and a button for a decision is *)
(* only on such a page.                                                    *)
(***************************************************************************)
EXTENDS ControlRoom, RegisterProofs

USE DEF Statuses, Workflow

-----------------------------------------------------------------------------
(* The invariant.                                                          *)

PassPages == {"detail", "revision"}

(* What a page shows of a submitted pass, by column.                       *)
StillTrue(pg) ==
  LET row == gatePasses[pg.pass] IN
  /\ row.status # "DRAFT"
  /\ row.header = pg.shown.header
  /\ row.passType = pg.shown.passType
  /\ row.passNo = pg.shown.passNo
  /\ pg.done => items[pg.pass] = pg.lines

PageTrue(pg) ==
  pg.at \in PassPages \/ ~pg.done =>
    /\ pg.pass \in Used
    /\ pg.shown.status # "DRAFT" => StillTrue(pg)

(* A request that a button sent: its page is whole and true, and was past  *)
(* the draft if the request is about to decide.                            *)
ClickTrue(r) ==
  click[r] # NoPage =>
    /\ req[r].pc # "idle"
    /\ click[r].at = "detail" /\ click[r].done
    /\ PageTrue(click[r])
    /\ req[r].op \in Decisions => click[r].shown.status # "DRAFT"

RoomInv ==
  /\ Inv
  /\ RoomTypeOK
  /\ PageTrue(page)
  /\ \A r \in Requests : ClickTrue(r)

-----------------------------------------------------------------------------
(* Pages.                                                                  *)

LEMMA HeaderType ==
  ASSUME TypeOK, NEW p \in PassIds
  PROVE  Header(p) \in [status : Statuses \cup {"NONE"}, header : Headers,
                        passType : PassTypes, passNo : LabelSet]
BY DEF Header, TypeOK, Row

LEMMA BlankType ==
  ASSUME NEW at \in {"none", "detail", "revision"} \cup Lists \cup Forms
  PROVE  /\ Blank(at) \in Page
         /\ Blank(at).at = at /\ Blank(at).done = TRUE
<1>1. NoHeader \in [status : Statuses \cup {"NONE"}, header : Headers,
                    passType : PassTypes, passNo : LabelSet]
  BY NoRowType DEF NoHeader, Row, LabelSet
<1>2. << >> \in Seq(Int \cup {NaN})
  OBVIOUS
<1> QED
  BY <1>1, <1>2 DEF Blank, Page

-----------------------------------------------------------------------------
(* Every step of the room is one of the register, or leaves it alone.      *)

LEMMA RoomStep ==
  ASSUME RoomTypeOK, [RoomNext]_roomVars PROVE [Next]_vars
<1>1. ASSUME Browse PROVE UNCHANGED vars
  BY <1>1 DEF Browse, OpenPlain, OpenList, ReadHeader, ReadLines
<1>2. ASSUME NEW r \in Requests, Press(r) PROVE Next
  <2>1. PICK action \in Workflow, reason \in BOOLEAN :
          ReceiveWorkflow(r, operator, action, page.pass, reason)
    BY <1>2 DEF Press
  <2>2. page.pass \in Used /\ operator \in Users
    BY <2>1 DEF ReceiveWorkflow, RoomTypeOK
  <2> QED
    BY <2>1, <2>2 DEF Next, Receive
<1>3. ASSUME NEW r \in Requests, Elsewhere(r) PROVE Next
  BY <1>3 DEF Elsewhere, Next
<1>4. ASSUME Stops PROVE Next
  BY <1>4 DEF Stops, Next
<1>5. ASSUME UNCHANGED roomVars PROVE UNCHANGED vars
  BY <1>5 DEF roomVars
<1> QED
  BY <1>1, <1>2, <1>3, <1>4, <1>5 DEF RoomNext

-----------------------------------------------------------------------------
(* What has left the draft does not go back.                               *)

LEMMA StatusMoves ==
  ASSUME Inv, [Next]_vars, NEW p \in Used
  PROVE  /\ p \in Used'
         /\ gatePasses[p].status # "DRAFT" => gatePasses'[p].status # "DRAFT"
<1>0. p \in PassIds /\ gatePasses[p].status # "NONE"
  BY DEF Used
<1>1. CASE UNCHANGED tables
  BY <1>0, <1>1 DEF tables, Used
<1>2. ASSUME NEW r \in Requests, CommitTransition(r)
      PROVE  gatePasses'[p].status # "NONE"
             /\ (gatePasses[p].status # "DRAFT" => gatePasses'[p].status # "DRAFT")
  <2> DEFINE i == req[r].target
  <2>1. /\ req[r] \in Request /\ req[r].op \in Workflow /\ gatePasses[i] \in Row
        /\ gatePasses'[i] = Applied(gatePasses[i], r)
        /\ \A q \in PassIds \ {i} : gatePasses'[q] = gatePasses[q]
    BY <1>2, TransitionFacts
  <2>2. gatePasses'[i].status = NextStatus(req[r].op)
    BY <2>1, AppliedColumns
  <2>3. gatePasses'[i].status \in Statuses \ {"DRAFT"}
    BY <2>1, <2>2, NextStatusType
  <2> QED
    BY <1>0, <2>1, <2>3
<1>3. ASSUME NEW r \in Requests, CommitEdit(r)
      PROVE  gatePasses'[p].status = gatePasses[p].status
  <2> DEFINE i == req[r].target
  <2>1. /\ gatePasses[i] \in Row
        /\ gatePasses'[i] = Rewritten(gatePasses[i], req[r].draft)
        /\ \A q \in PassIds \ {i} : gatePasses'[q] = gatePasses[q]
    BY <1>3, EditFacts
  <2>2. Rewritten(gatePasses[i], req[r].draft).status = gatePasses[i].status
    BY <2>1 DEF Rewritten, Row
  <2> QED
    BY <1>0, <2>1, <2>2
<1>4. ASSUME NEW r \in Requests, CommitInsert(r)
      PROVE  gatePasses'[p] = gatePasses[p]
  BY <1>0, <1>4, InsertFacts
<1> QED
  BY <1>0, <1>1, <1>2, <1>3, <1>4, TablesMove DEF Used

(* So what a page says of a pass stays true of it.                         *)
LEMMA PagesKept ==
  ASSUME Inv, [Next]_vars PROVE \A pg \in Page : PageTrue(pg) => PageTrue(pg)'
<1> SUFFICES ASSUME NEW pg \in Page, PageTrue(pg),
                    pg.at \in PassPages \/ ~pg.done
             PROVE  PageTrue(pg)'
  BY DEF PageTrue
<1>1. pg.pass \in Used /\ (pg.shown.status # "DRAFT" => StillTrue(pg))
  BY DEF PageTrue
<1>2. /\ pg.pass \in Used'
      /\ gatePasses[pg.pass].status # "DRAFT" => gatePasses'[pg.pass].status # "DRAFT"
  BY <1>1, StatusMoves
<1>3. FormKept(pg.pass)
  BY <1>1, FormsKept
<1>4. StillTrue(pg) => StillTrue(pg)'
  BY <1>2, <1>3 DEF StillTrue, FormKept
<1> QED
  BY <1>1, <1>2, <1>4 DEF PageTrue

-----------------------------------------------------------------------------
(* What the browser does.                                                  *)

LEMMA ReadHeaderPage ==
  ASSUME Inv, RoomTypeOK, NEW to \in PassPages, NEW p \in PassIds,
         ReadHeader(to, p)
  PROVE  page' \in Page /\ PageTrue(page)'
<1> DEFINE pg == [Blank(to) EXCEPT !.done = FALSE, !.pass = p, !.shown = Header(p)]
<1>1. page' = pg /\ p \in Used /\ UNCHANGED <<gatePasses, items>>
  BY DEF ReadHeader, vars
<1>2. Blank(to) \in Page
  BY BlankType DEF PassPages
<1>3. Header(p) \in [status : Statuses \cup {"NONE"}, header : Headers,
                     passType : PassTypes, passNo : LabelSet]
  BY HeaderType DEF Inv
<1>4. pg \in Page
  BY <1>2, <1>3 DEF Page
<1>5. pg.pass = p /\ pg.shown = Header(p) /\ pg.done = FALSE
  BY <1>2 DEF Page
<1> HIDE DEF pg
<1>6. pg.shown.status # "DRAFT" => StillTrue(pg)
  BY <1>5 DEF StillTrue, Header
<1>7. PageTrue(pg)
  BY <1>1, <1>5, <1>6 DEF PageTrue
<1>8. PageTrue(page)'
  BY <1>1, <1>7 DEF PageTrue, StillTrue, Used
<1> QED
  BY <1>1, <1>4, <1>8

LEMMA ReadLinesPage ==
  ASSUME Inv, RoomTypeOK, PageTrue(page), ReadLines
  PROVE  page' \in Page /\ PageTrue(page)'
<1> DEFINE pg == [page EXCEPT !.lines = items[page.pass], !.done = TRUE]
<1>1. page' \in {NoPage, pg} /\ UNCHANGED <<gatePasses, items>> /\ page \in Page
  BY DEF ReadLines, RoomTypeOK, vars
<1>2. NoPage \in Page /\ NoPage.at = "none" /\ NoPage.done = TRUE
  BY BlankType DEF NoPage
<1>3. CASE page' = NoPage
  BY <1>2, <1>3 DEF PageTrue, PassPages
<1>4. CASE page' = pg
  <2>1. /\ pg.at = page.at /\ pg.pass = page.pass /\ pg.shown = page.shown
        /\ pg.done = TRUE /\ pg.lines = items[page.pass]
    BY <1>1 DEF Page
  <2>2. PageTrue(pg)
    BY <2>1 DEF PageTrue, StillTrue
  <2>3. PageTrue(page)'
    BY <1>1, <1>4, <2>2 DEF PageTrue, StillTrue, Used
  <2>4. page.pass \in PassIds
    BY DEF ReadLines, PageTrue, Used
  <2>5. items[page.pass] \in Seq(Int \cup {NaN})
    BY <2>4 DEF Inv, TypeOK
  <2>6. pg \in Page
    BY <1>1, <2>5 DEF Page
  <2> QED
    BY <1>4, <2>3, <2>6
<1> QED
  BY <1>1, <1>3, <1>4

LEMMA BrowsePage ==
  ASSUME Inv, RoomTypeOK, PageTrue(page), Browse
  PROVE  page' \in Page /\ PageTrue(page)'
<1>1. ASSUME NEW at \in {"none", "detail", "revision"} \cup Lists \cup Forms,
             NEW rows \in SUBSET PassIds, at \notin PassPages,
             page' = [Blank(at) EXCEPT !.rows = rows]
      PROVE  page' \in Page /\ PageTrue(page)'
  <2>1. PICK b \in Page : b = Blank(at) /\ b.at = at /\ b.done = TRUE
    BY BlankType
  <2> DEFINE pg == [b EXCEPT !.rows = rows]
  <2>2. pg \in Page /\ pg.at = at /\ pg.done = TRUE
    BY <2>1 DEF Page
  <2>3. page' = pg
    BY <1>1, <2>1
  <2> QED
    BY <1>1, <2>2, <2>3 DEF PageTrue
<1>2. ASSUME NEW to \in Forms, OpenPlain(to)
      PROVE  page' \in Page /\ PageTrue(page)'
  <2>1. page' = Blank(to) /\ Blank(to) \in Page
        /\ Blank(to).at = to /\ Blank(to).done = TRUE
    BY <1>2, BlankType DEF OpenPlain
  <2> QED
    BY <2>1 DEF PageTrue, PassPages, Forms
<1>3. ASSUME NEW to \in Lists, NEW matching \in SUBSET PassIds,
             OpenList(to, matching)
      PROVE  page' \in Page /\ PageTrue(page)'
  <2>1. VisibleRows \cap matching \in SUBSET PassIds
    OBVIOUS
  <2> QED
    BY <1>1, <1>3, <2>1 DEF OpenList, Lists, PassPages
<1>4. ASSUME NEW to \in PassPages, NEW p \in PassIds, ReadHeader(to, p)
      PROVE  page' \in Page /\ PageTrue(page)'
  BY <1>4, ReadHeaderPage
<1>5. ASSUME ReadLines PROVE page' \in Page /\ PageTrue(page)'
  BY <1>5, ReadLinesPage
<1> QED
  BY <1>2, <1>3, <1>4, <1>5 DEF Browse, PassPages

LEMMA BrowseInv == RoomInv /\ Browse => RoomInv'
<1> SUFFICES ASSUME RoomInv, Browse PROVE RoomInv'
  OBVIOUS
<1>1. UNCHANGED <<vars, operator, click>>
  BY DEF Browse, OpenPlain, OpenList, ReadHeader, ReadLines
<1>2. Inv'
  BY <1>1, StutterInv DEF RoomInv
<1>3. page' \in Page /\ PageTrue(page)'
  BY BrowsePage DEF RoomInv
<1>4. RoomTypeOK'
  BY <1>1, <1>3 DEF RoomInv, RoomTypeOK
<1>5. ASSUME NEW r \in Requests PROVE ClickTrue(r)'
  <2>1. ClickTrue(r)
    BY DEF RoomInv
  <2> QED
    BY <1>1, <2>1 DEF ClickTrue, PageTrue, StillTrue, Used, vars
<1> QED
  BY <1>2, <1>3, <1>4, <1>5 DEF RoomInv

-----------------------------------------------------------------------------
(* What requests do.                                                       *)

(* Only a new request decides something else than before.                  *)
LEMMA OpKept ==
  ASSUME Inv, NEW r \in Requests, Receive(r) \/ Advance(r) \/ Cancel(r)
  PROVE  /\ \A s \in Requests \ {r} : req'[s] = req[s]
         /\ req[r].pc # "idle" /\ req'[r].pc # "idle" =>
              req'[r].op \in {req[r].op, "SUBMIT"}
<1>1. req \in [Requests -> Request]
  BY DEF Inv, TypeOK
<1>2. ASSUME Receive(r)
      PROVE  req[r].pc = "idle" /\ \A s \in Requests \ {r} : req'[s] = req[s]
  BY <1>1, <1>2
  DEF Receive, ReceiveCreate, ReceiveRevision, ReceiveEdit, ReceiveWorkflow
<1>3. ASSUME NEW q, req' = [req EXCEPT ![r] = q],
             q.pc = "idle" \/ q.op \in {req[r].op, "SUBMIT"}
      PROVE  /\ \A s \in Requests \ {r} : req'[s] = req[s]
             /\ req'[r].pc # "idle" => req'[r].op \in {req[r].op, "SUBMIT"}
  BY <1>1, <1>3
<1>4. ASSUME LockRow(r) \/ Permit(r) \/ NextNumber(r) \/ Insert(r)
      PROVE  /\ \A s \in Requests \ {r} : req'[s] = req[s]
             /\ req'[r].op = req[r].op
  BY <1>1, <1>4 DEF LockRow, Permit, NextNumber, Insert, Request
<1>5. Idle.pc = "idle"
  BY IdleWellFormed
<1>6. ASSUME Rollback(r) \/ CommitTransition(r) \/ CommitEdit(r)
      PROVE  req' = [req EXCEPT ![r] = Idle]
  BY <1>6 DEF Rollback, CommitTransition, CommitEdit
<1>7. AfterInsert(r).pc = "idle" \/ AfterInsert(r).op = "SUBMIT"
  BY <1>5, IdleType DEF AfterInsert, Request
<1>8. ASSUME CommitInsert(r) PROVE req' = [req EXCEPT ![r] = AfterInsert(r)]
  BY <1>8 DEF CommitInsert
<1> QED
  BY <1>2, <1>3, <1>4, <1>5, <1>6, <1>7, <1>8
  DEF Advance, Cancel, Refuse, StatementFails

(* What every request keeps: types, and the page on the screen.            *)
LEMMA RestKept ==
  ASSUME RoomInv, [Next]_vars, UNCHANGED <<operator, page>>,
         click' \in [Requests -> Page]
  PROVE  Inv' /\ RoomTypeOK' /\ PageTrue(page)'
<1>1. Inv'
  BY NextInv DEF RoomInv
<1>2. RoomTypeOK'
  BY DEF RoomInv, RoomTypeOK
<1>3. PICK pg \in Page : pg = page /\ pg = page'
  BY DEF RoomInv, RoomTypeOK
<1>4. PageTrue(pg)'
  BY <1>3, PagesKept DEF RoomInv
<1>5. PageTrue(page)'
  BY <1>3, <1>4 DEF PageTrue, StillTrue, Used
<1> QED
  BY <1>1, <1>2, <1>5

(* A page that was clicked stays true while its request goes on.           *)
LEMMA ClickKept ==
  ASSUME RoomInv, [Next]_vars, NEW s \in Requests, click'[s] = click[s],
         click[s] # NoPage =>
           req'[s].pc # "idle" /\ req'[s].op \in {req[s].op, "SUBMIT"}
  PROVE  ClickTrue(s)'
<1>1. CASE click[s] = NoPage
  BY <1>1 DEF ClickTrue, NoPage, Blank, NoHeader, NoRow
<1>2. CASE click[s] # NoPage
  <2>1. ClickTrue(s)
    BY DEF RoomInv
  <2>2. PICK pg \in Page : pg = click[s] /\ pg = click'[s]
    BY DEF RoomInv, RoomTypeOK
  <2>3. PageTrue(pg)'
    BY <1>2, <2>1, <2>2, PagesKept DEF ClickTrue, RoomInv
  <2>4. PageTrue(click[s])'
    BY <2>2, <2>3 DEF PageTrue, StillTrue, Used
  <2> QED
    BY <1>2, <2>1, <2>4 DEF ClickTrue, Decisions
<1> QED
  BY <1>1, <1>2

(* No button on a draft decides.                                           *)
LEMMA DraftsDecideNothing ==
  ASSUME NEW action \in DetailActions(page), action \in Decisions
  PROVE  page.shown.status # "DRAFT"
BY DEF DetailActions, Decisions

LEMMA PressInv ==
  ASSUME RoomInv, NEW r \in Requests, Press(r) PROVE RoomInv'
<1>1. [Next]_vars
  BY RoomStep DEF RoomInv, RoomNext
<1>2. /\ page.at = "detail" /\ page.done
      /\ click' = [click EXCEPT ![r] = page]
      /\ UNCHANGED <<operator, page>>
  BY DEF Press
<1>3. PICK action \in DetailActions(page), reason \in BOOLEAN :
        ReceiveWorkflow(r, operator, action, page.pass, reason)
  BY DEF Press
<1>4. click \in [Requests -> Page] /\ page \in Page /\ req \in [Requests -> Request]
  BY DEF RoomInv, RoomTypeOK, Inv, TypeOK
<1>5. Inv' /\ RoomTypeOK' /\ PageTrue(page)'
  BY <1>1, <1>2, <1>4, RestKept
<1>6. /\ req'[r].pc = "lock" /\ req'[r].op = action
      /\ \A s \in Requests \ {r} : req'[s] = req[s]
  BY <1>3, <1>4, IdleType DEF ReceiveWorkflow, Request
<1>7. ClickTrue(r)'
  <2>1. click'[r] = page /\ page' = page
    BY <1>2, <1>4
  <2>2. action \in Decisions => page.shown.status # "DRAFT"
    BY DraftsDecideNothing
  <2>3. PageTrue(click[r])'
    BY <1>5, <2>1 DEF PageTrue, StillTrue, Used
  <2> QED
    BY <1>2, <1>6, <2>1, <2>2, <2>3 DEF ClickTrue
<1>8. ASSUME NEW s \in Requests \ {r} PROVE ClickTrue(s)'
  <2>1. click'[s] = click[s] /\ req'[s] = req[s] /\ ClickTrue(s)
    BY <1>2, <1>4, <1>6 DEF RoomInv
  <2> QED
    BY <1>1, <2>1, ClickKept DEF ClickTrue
<1> QED
  BY <1>5, <1>7, <1>8 DEF RoomInv

LEMMA ElsewhereInv ==
  ASSUME RoomInv, NEW r \in Requests, Elsewhere(r) PROVE RoomInv'
<1>1. [Next]_vars
  BY RoomStep DEF RoomInv, RoomNext
<1> DEFINE shown == IF req'[r].pc = "idle" THEN NoPage ELSE click[r]
<1>2. /\ Receive(r) \/ Advance(r) \/ Cancel(r)
      /\ click' = [click EXCEPT ![r] = shown]
      /\ UNCHANGED <<operator, page>>
  BY DEF Elsewhere
<1>3. click \in [Requests -> Page]
  BY DEF RoomInv, RoomTypeOK
<1>4. NoPage \in Page
  BY BlankType DEF NoPage
<1>5. Inv' /\ RoomTypeOK' /\ PageTrue(page)'
  BY <1>1, <1>2, <1>3, <1>4, RestKept
<1>6. /\ \A s \in Requests \ {r} : req'[s] = req[s]
      /\ req[r].pc # "idle" /\ req'[r].pc # "idle" =>
           req'[r].op \in {req[r].op, "SUBMIT"}
  BY <1>2, OpKept DEF RoomInv
<1>7. ClickTrue(r)'
  <2>1. CASE req'[r].pc = "idle"
    BY <1>2, <1>3, <2>1 DEF ClickTrue, NoPage, Blank, NoHeader, NoRow
  <2>2. CASE req'[r].pc # "idle"
    <3>1. click'[r] = click[r]
      BY <1>2, <1>3, <2>2
    <3>2. click[r] # NoPage => req[r].pc # "idle"
      BY DEF RoomInv, ClickTrue
    <3> QED
      BY <1>1, <1>6, <2>2, <3>1, <3>2, ClickKept
  <2> QED
    BY <2>1, <2>2
<1>8. ASSUME NEW s \in Requests \ {r} PROVE ClickTrue(s)'
  <2>1. click'[s] = click[s] /\ req'[s] = req[s] /\ ClickTrue(s)
    BY <1>2, <1>3, <1>6 DEF RoomInv
  <2> QED
    BY <1>1, <2>1, ClickKept DEF ClickTrue
<1> QED
  BY <1>5, <1>7, <1>8 DEF RoomInv

LEMMA StopsInv ==
  ASSUME RoomInv, Stops PROVE RoomInv'
<1>1. [Next]_vars
  BY RoomStep DEF RoomInv, RoomNext
<1>2. click' = [r \in Requests |-> NoPage] /\ UNCHANGED <<operator, page>>
  BY DEF Stops
<1>3. NoPage \in Page
  BY BlankType DEF NoPage
<1>4. Inv' /\ RoomTypeOK' /\ PageTrue(page)'
  BY <1>1, <1>2, <1>3, RestKept
<1>5. \A r \in Requests : ClickTrue(r)'
  BY <1>2 DEF ClickTrue, NoPage, Blank, NoHeader, NoRow
<1> QED
  BY <1>4, <1>5 DEF RoomInv

LEMMA RoomStart == RoomInit => RoomInv
<1> SUFFICES ASSUME RoomInit PROVE RoomInv
  OBVIOUS
<1>1. NoPage \in Page /\ NoPage.at = "none" /\ NoPage.done = TRUE
  BY BlankType DEF NoPage
<1>2. Inv /\ RoomTypeOK
  BY <1>1, InitInv DEF RoomInit, RoomTypeOK
<1>3. PageTrue(page)
  BY <1>1 DEF RoomInit, PageTrue, PassPages
<1>4. \A r \in Requests : ClickTrue(r)
  BY DEF RoomInit, ClickTrue
<1> QED
  BY <1>2, <1>3, <1>4 DEF RoomInv

LEMMA RoomKept == RoomInv /\ [RoomNext]_roomVars => RoomInv'
<1> SUFFICES ASSUME RoomInv, [RoomNext]_roomVars PROVE RoomInv'
  OBVIOUS
<1>1. ASSUME UNCHANGED roomVars PROVE RoomInv'
  <2>1. UNCHANGED <<vars, operator, page, click>>
    BY <1>1 DEF roomVars, screen
  <2>2. Inv'
    BY <2>1, StutterInv DEF RoomInv
  <2> QED
    BY <2>1, <2>2
    DEF RoomInv, RoomTypeOK, ClickTrue, PageTrue, StillTrue, Used, vars
<1> QED
  BY <1>1, BrowseInv, PressInv, ElsewhereInv, StopsInv DEF RoomNext

-----------------------------------------------------------------------------
(* The register behind the browser, the shape of the pages and what they   *)
(* say of submitted passes, at every moment of every behaviour.            *)
THEOREM RoomInvariance == RoomSpec => []RoomInv
<1> QED
  BY RoomStart, RoomKept, PTL DEF RoomSpec

(* Pages, links and buttons give the register nothing but requests it      *)
(* knows: the room behaves as the register does, so what is proved of      *)
(* Spec holds while operators work from pages as old as they like.         *)
THEOREM RoomIsRegister == RoomSpec => Spec
<1>1. RoomInit => Init
  BY DEF RoomInit
<1>2. RoomInv /\ [RoomNext]_roomVars => [Next]_vars
  BY RoomStep DEF RoomInv
<1> QED
  BY <1>1, <1>2, RoomInvariance, PTL DEF RoomSpec, Spec

(* The browser has its shape.                                              *)
THEOREM RoomTypes == RoomSpec => []RoomTypeOK
<1>1. RoomInv => RoomTypeOK
  BY DEF RoomInv
<1> QED
  BY <1>1, RoomInvariance, PTL

LEMMA DecisionShown == RoomInv => DecidedAsShown
<1> SUFFICES ASSUME RoomInv, NEW r \in Requests, click[r] # NoPage,
                    req[r].op \in Decisions
             PROVE  AsShown(click[r])
  BY DEF DecidedAsShown
<1>1. PICK pg \in Page : pg = click[r]
  BY DEF RoomInv, RoomTypeOK
<1>2. StillTrue(pg) /\ pg.done
  BY <1>1 DEF RoomInv, ClickTrue, PageTrue, PassPages
<1>3. Header(pg.pass) = [pg.shown EXCEPT !.status = gatePasses[pg.pass].status]
  BY <1>2 DEF Header, StillTrue, Page
<1> QED
  BY <1>1, <1>2, <1>3 DEF AsShown, StillTrue

(* Whoever decides by a button decides on what the page showed, although   *)
(* the page is old and was read in two statements: store.go:213.           *)
THEOREM DecisionsAsShown == RoomSpec => []DecidedAsShown
<1> QED
  BY DecisionShown, RoomInvariance, PTL

-----------------------------------------------------------------------------
(* Links.  What a page offers was served when it was read, and what the    *)
(* handlers look at since, the role and how far the pass has come, does    *)
(* not go back.                                                            *)

(* The pages that only some roles are served.                              *)
OwnPages(pg) ==
  /\ pg.at \in {"new", "revision"} => Clerk
  /\ pg.at \in {"users", "settings"} => Role = "ADMIN"

(* The stages a pass does not leave.                                       *)
Stages == {Official, {"NOT_APPROVED"}}

ShownStands(pg) ==
  /\ pg.at \in PassPages \/ ~pg.done =>
       /\ pg.pass \in Used
       /\ \A S \in Stages :
            pg.shown.status \in S => gatePasses[pg.pass].status \in S
  /\ pg.at = "detail" /\ pg.done => ServesDetail(pg.shown.status)

Served(pg) == OwnPages(pg) /\ ShownStands(pg) /\ pg.rows \subseteq VisibleRows

ServedInv == RoomInv /\ Served(page)

LEMMA StagesKept ==
  ASSUME Inv, [Next]_vars, NEW p \in Used, NEW S \in Stages,
         gatePasses[p].status \in S
  PROVE  gatePasses'[p].status \in S
<1>0. p \in PassIds
  BY DEF Used
<1>1. CASE UNCHANGED tables
  BY <1>1 DEF tables
<1>2. ASSUME NEW r \in Requests, CommitTransition(r)
      PROVE  gatePasses'[p].status \in S
  <2> DEFINE i == req[r].target
             op == req[r].op
  <2>1. /\ req[r] \in Request /\ op \in Workflow /\ gatePasses[i] \in Row
        /\ Allows(Actor(req[r].user), op, gatePasses[i])
        /\ gatePasses'[i] = Applied(gatePasses[i], r)
        /\ \A q \in PassIds \ {i} : gatePasses'[q] = gatePasses[q]
    BY <1>2, TransitionFacts
  <2>2. gatePasses'[i].status = NextStatus(op)
    BY <2>1, AppliedColumns
  <2>3. CASE p = i
    <3>1. /\ op = "SUBMIT" => gatePasses[p].status = "DRAFT"
          /\ op \in {"APPROVE", "REJECT"} => gatePasses[p].status = "SUBMITTED"
          /\ op = "PASS_OUT" => gatePasses[p].status = "APPROVED"
          /\ op = "RETURN" => gatePasses[p].status = "PASSED_OUT"
      BY <2>1, <2>3, AllowedStatus
    <3>2. S = Official /\ op \in {"PASS_OUT", "RETURN"}
      BY <2>1, <3>1 DEF Stages, Official
    <3> QED
      BY <2>2, <2>3, <3>2 DEF Official, NextStatus
  <2> QED
    BY <1>0, <2>1, <2>3
<1>3. ASSUME NEW r \in Requests, CommitEdit(r)
      PROVE  gatePasses'[p].status \in S
  <2> DEFINE i == req[r].target
  <2>1. /\ gatePasses[i].status = "DRAFT"
        /\ \A q \in PassIds \ {i} : gatePasses'[q] = gatePasses[q]
    BY <1>3, EditFacts
  <2>2. p # i
    BY <2>1 DEF Stages, Official
  <2> QED
    BY <1>0, <2>1, <2>2
<1>4. ASSUME NEW r \in Requests, CommitInsert(r)
      PROVE  gatePasses'[p].status \in S
  BY <1>0, <1>4, InsertFacts
<1> QED
  BY <1>1, <1>2, <1>3, <1>4, TablesMove

LEMMA ServedKept ==
  ASSUME Inv, [Next]_vars, UNCHANGED <<operator, page>>, Served(page)
  PROVE  Served(page)'
<1>1. OwnPages(page)'
  BY DEF Served, OwnPages, Role, Clerk
<1>2. ASSUME NEW p \in VisibleRows PROVE p \in VisibleRows'
  <2>1. p \in Used' /\ p \in PassIds
    BY StatusMoves DEF VisibleRows, Used
  <2>2. gatePasses[p].status \in Official => gatePasses'[p].status \in Official
    BY StagesKept DEF VisibleRows, Stages
  <2> QED
    BY <2>1, <2>2 DEF VisibleRows, Role
<1>3. ShownStands(page)'
  <2> DEFINE p == page.pass
  <2>1. CASE page.at \in PassPages \/ ~page.done
    <3>1. p \in Used
      BY <2>1 DEF Served, ShownStands
    <3>2. p \in Used'
      BY <3>1, StatusMoves
    <3>3. ASSUME NEW S \in Stages, page.shown.status \in S
          PROVE  gatePasses'[p].status \in S
      BY <2>1, <3>1, <3>3, StagesKept DEF Served, ShownStands
    <3> QED
      BY <3>2, <3>3 DEF Served, ShownStands, ServesDetail, Role, Stages, Official
  <2> QED
    BY <2>1 DEF Served, ShownStands, ServesDetail, Role, PassPages
<1> QED
  BY <1>1, <1>2, <1>3 DEF Served

LEMMA ServedNow ==
  ASSUME UNCHANGED <<gatePasses, operator>>, NEW pg, page' = pg, Served(pg)
  PROVE  Served(page)'
BY DEF Served, OwnPages, ShownStands, ServesDetail, VisibleRows, Used, Role, Clerk

(* A page without a pass on it.                                            *)
LEMMA ServedList ==
  ASSUME NEW pg, pg.at \in {"none"} \cup Lists \cup Forms, pg.done,
         pg.rows \subseteq VisibleRows, OwnPages(pg)
  PROVE  Served(pg)
BY DEF Served, ShownStands, PassPages, Lists, Forms

LEMMA BlankParts ==
  ASSUME NEW at
  PROVE  Blank(at).at = at /\ Blank(at).done /\ Blank(at).rows = {}
BY DEF Blank

LEMMA ServedReadHeader ==
  ASSUME RoomInv, NEW to \in PassPages, NEW p \in PassIds, ReadHeader(to, p)
  PROVE  Served(page)'
<1> DEFINE pg == [Blank(to) EXCEPT !.done = FALSE, !.pass = p, !.shown = Header(p)]
<1>1. page' = pg /\ p \in Used /\ UNCHANGED <<gatePasses, operator>>
      /\ (to = "revision" => Clerk)
  BY DEF ReadHeader, vars
<1>2. Blank(to) \in Page /\ Blank(to).at = to /\ Blank(to).rows = {}
  BY BlankType DEF PassPages, Blank
<1>3. /\ pg.at = to /\ pg.pass = p /\ pg.shown = Header(p) /\ pg.done = FALSE
      /\ pg.rows = {}
  BY <1>2 DEF Page
<1> HIDE DEF pg
<1>4. Header(p).status = gatePasses[p].status
  BY DEF Header
<1>5. Served(pg)
  BY <1>1, <1>3, <1>4 DEF Served, OwnPages, ShownStands, PassPages
<1> QED
  BY <1>1, <1>5, ServedNow

LEMMA ServedReadLines ==
  ASSUME RoomInv, Served(page), ReadLines PROVE Served(page)'
<1> DEFINE pg == [page EXCEPT !.lines = items[page.pass], !.done = TRUE]
<1>1. UNCHANGED <<gatePasses, operator>> /\ page \in Page /\ ~page.done
  BY DEF ReadLines, RoomInv, RoomTypeOK, vars
<1>2. CASE page.at = "detail" /\ ~ServesDetail(page.shown.status)
  <2>1. page' = Blank("none")
    BY <1>2 DEF ReadLines, NoPage
  <2>2. Served(Blank("none"))
    BY BlankParts, ServedList DEF OwnPages
  <2> QED
    BY <1>1, <2>1, <2>2, ServedNow
<1>3. CASE ~(page.at = "detail" /\ ~ServesDetail(page.shown.status))
  <2>1. page' = pg
    BY <1>3 DEF ReadLines
  <2>2. /\ pg.at = page.at /\ pg.pass = page.pass /\ pg.shown = page.shown
        /\ pg.done = TRUE /\ pg.rows = page.rows
    BY <1>1 DEF Page
  <2> HIDE DEF pg
  <2>3. Served(pg)
    BY <1>1, <1>3, <2>2 DEF Served, OwnPages, ShownStands
  <2> QED
    BY <1>1, <2>1, <2>3, ServedNow
<1> QED
  BY <1>2, <1>3

LEMMA ServedBrowse ==
  ASSUME RoomInv, Served(page), Browse PROVE Served(page)'
<1>1. ASSUME NEW to \in Forms, OpenPlain(to) PROVE Served(page)'
  <2>1. page' = Blank(to) /\ UNCHANGED <<gatePasses, operator>>
    BY <1>1 DEF OpenPlain, vars
  <2>2. Answer(Url(to, NoPass)) = to /\ Url(to, NoPass).to = to
    BY <1>1 DEF OpenPlain, Url
  <2>3. (to = "new" => Clerk) /\ (to \in {"users", "settings"} => Role = "ADMIN")
    BY <2>2
    DEF Answer, InventoryRequests, ConsigneeRequests, UserRequests, SettingsRequests
  <2>4. Served(Blank(to))
    BY <2>3, BlankParts, ServedList DEF OwnPages, Forms
  <2> QED
    BY <2>1, <2>4, ServedNow
<1>2. ASSUME NEW to \in Lists, NEW matching \in SUBSET PassIds,
             OpenList(to, matching)
      PROVE  Served(page)'
  <2> DEFINE pg == [Blank(to) EXCEPT !.rows = VisibleRows \cap matching]
  <2>1. page' = pg /\ UNCHANGED <<gatePasses, operator>>
    BY <1>2 DEF OpenList, vars
  <2>2. pg.at = to /\ pg.done /\ pg.rows = VisibleRows \cap matching
    BY DEF Blank
  <2> HIDE DEF pg
  <2>3. Served(pg)
    BY <2>2, ServedList DEF OwnPages, Lists
  <2> QED
    BY <2>1, <2>3, ServedNow
<1> QED
  BY <1>1, <1>2, ServedReadHeader, ServedReadLines DEF Browse, PassPages

LEMMA ServedNext == ServedInv /\ [RoomNext]_roomVars => ServedInv'
<1> SUFFICES ASSUME ServedInv, [RoomNext]_roomVars PROVE ServedInv'
  OBVIOUS
<1>1. RoomInv' /\ [Next]_vars
  BY RoomKept, RoomStep DEF ServedInv, RoomInv
<1>2. CASE Browse
  BY <1>1, <1>2, ServedBrowse DEF ServedInv
<1>3. CASE ~Browse
  <2>1. UNCHANGED <<operator, page>>
    BY <1>3 DEF RoomNext, Press, Elsewhere, Stops, roomVars, screen
  <2> QED
    BY <1>1, <2>1, ServedKept DEF ServedInv, RoomInv
<1> QED
  BY <1>2, <1>3

LEMMA ServedStart == RoomInit => ServedInv
<1> SUFFICES ASSUME RoomInit PROVE Served(page)
  BY RoomStart DEF ServedInv
<1>1. page = Blank("none")
  BY DEF RoomInit, NoPage
<1> QED
  BY <1>1, BlankParts, ServedList DEF OwnPages

(* The handlers that look at nothing, or at the role only.                 *)
LEMMA ForEverybody ==
  ASSUME NEW url,
         url.to \in {"dashboard", "passes", "inventory", "consignees", "reports",
                     "audit", "logout"}
  PROVE  Answer(url) = url.to
BY DEF Answer, InventoryRequests, ConsigneeRequests, UserRequests, SettingsRequests

LEMMA ForClerks ==
  ASSUME Clerk, NEW url,
         url.to \in {"new", "create_pass"} \cup InventoryRequests \cup ConsigneeRequests
  PROVE  Answer(url) = url.to
BY DEF Answer, InventoryRequests, ConsigneeRequests, UserRequests,
       SettingsRequests, Clerk, CanEditMaster, MayCreate, Actor, Role

LEMMA ForAdmins ==
  ASSUME Role = "ADMIN", NEW url,
         url.to \in UserRequests \cup SettingsRequests
  PROVE  Answer(url) = url.to
BY DEF Answer, InventoryRequests, ConsigneeRequests, UserRequests, SettingsRequests

LEMMA PlainUrl ==
  ASSUME NEW names, NEW url \in Plain(names) PROVE url.to \in names
BY DEF Plain, Url

LEMMA RoleUrl ==
  ASSUME NEW b \in BOOLEAN, NEW names, NEW url \in If(b, names)
  PROVE  b /\ url.to \in names
BY PlainUrl DEF If

LEMMA RowServed ==
  ASSUME NEW rows \in SUBSET VisibleRows, NEW url \in RowLinks(rows)
  PROVE  Answer(url) = url.to
<1>1. url.to = "detail" /\ url.pass \in VisibleRows
  BY DEF RowLinks, Url
<1> QED
  BY <1>1
  DEF Answer, InventoryRequests, ConsigneeRequests, UserRequests,
      SettingsRequests, VisibleRows, ServesDetail

LEMMA DetailServed ==
  ASSUME Served(page), page.at = "detail", page.done,
         NEW url \in DetailLinks(page)
  PROVE  Answer(url) = url.to \/ KnownDead(url)
<1> DEFINE p == page.pass
<1>1. \A S \in Stages : page.shown.status \in S => gatePasses[p].status \in S
  BY DEF Served, ShownStands, PassPages
<1>2. ServesDetail(gatePasses[p].status)
  BY <1>1 DEF Served, ShownStands, ServesDetail, Stages
<1>3. CASE url = Url("draft_pdf", p)
  BY <1>2, <1>3
  DEF Url, Answer, InventoryRequests, ConsigneeRequests, UserRequests,
      SettingsRequests, ServesPDF
<1>4. CASE url \in OfficialPDFLink(page)
  <2>1. url = Url("pdf", p) /\ page.shown.status \in Official
    BY <1>4 DEF OfficialPDFLink
  <2>2. gatePasses[p].status \in Official
    BY <1>1, <2>1 DEF Stages
  <2> QED
    BY <1>2, <2>1, <2>2
    DEF Url, Answer, InventoryRequests, ConsigneeRequests, UserRequests,
        SettingsRequests, ServesPDF
<1>5. CASE url = Url("revision", p) /\ "CREATE_REVISION" \in DetailActions(page)
  <2>1. page.shown.status = "NOT_APPROVED" /\ Clerk
    BY <1>5 DEF DetailActions
  <2>2. gatePasses[p].status = "NOT_APPROVED"
    BY <1>1, <2>1 DEF Stages
  <2> QED
    BY <1>5, <2>1, <2>2
    DEF Url, Answer, InventoryRequests, ConsigneeRequests, UserRequests,
        SettingsRequests, OpensRevision, KnownDead
<1> QED
  BY <1>3, <1>4, <1>5 DEF DetailLinks

LEMMA LinksServed == ServedInv => NoDeadLink
<1> SUFFICES ASSUME ServedInv, page.done, NEW url \in Links(page)
             PROVE  Answer(url) = url.to \/ KnownDead(url)
  BY DEF NoDeadLink
<1>1. Served(page) /\ OwnPages(page) /\ page.rows \subseteq VisibleRows
  BY DEF ServedInv, Served
<1>2. Clerk \in BOOLEAN /\ (Role = "ADMIN") \in BOOLEAN
  BY DEF Clerk
<1>3. ASSUME url \in If(Clerk, {"new"} \cup InventoryRequests \cup ConsigneeRequests)
      PROVE  Answer(url) = url.to
  BY <1>2, <1>3, RoleUrl, ForClerks
<1>4. ASSUME url \in If(Role = "ADMIN", UserRequests \cup SettingsRequests)
      PROVE  Answer(url) = url.to
  BY <1>2, <1>4, RoleUrl, ForAdmins
<1>5. ASSUME url \in Plain({"dashboard", "passes", "inventory", "consignees",
                            "reports", "audit", "logout"})
      PROVE  Answer(url) = url.to
  BY <1>5, PlainUrl, ForEverybody
<1>6. ASSUME url \in RowLinks(page.rows) PROVE Answer(url) = url.to
  BY <1>1, <1>6, RowServed
<1>7. CASE url \in NavLinks \cup TopLinks
  BY <1>3, <1>4, <1>5, <1>7
  DEF NavLinks, TopLinks, If, Plain, UserRequests, SettingsRequests
<1>8. CASE page.at = "dashboard" /\ url \in DashboardLinks(page)
  BY <1>3, <1>5, <1>6, <1>8 DEF DashboardLinks, If, Plain
<1>9. CASE page.at = "passes" /\ url \in RegisterLinks(page)
  BY <1>3, <1>6, <1>9 DEF RegisterLinks, If, Plain
<1>10. CASE page.at = "reports" /\ url \in ReportLinks(page)
  BY <1>5, <1>6, <1>10 DEF ReportLinks, Plain
<1>11. CASE url \in InventoryLinks \cup ConsigneeLinks
  BY <1>3, <1>11
  DEF InventoryLinks, ConsigneeLinks, InventoryRequests, ConsigneeRequests, If, Plain
<1>12. CASE url \in AuditLinks
  <2>1. url.to = "audit_export"
    BY <1>12, PlainUrl DEF AuditLinks
  <2> QED
    BY <2>1
    DEF Answer, InventoryRequests, ConsigneeRequests, UserRequests,
        SettingsRequests, KnownDead
<1>13. CASE page.at = "detail" /\ url \in DetailLinks(page)
  BY <1>1, <1>13, DetailServed
<1>14. CASE page.at \in {"users", "settings"} /\ url \in UserLinks \cup SettingsLinks
  BY <1>1, <1>4, <1>14
  DEF OwnPages, UserLinks, SettingsLinks, UserRequests, SettingsRequests, If, Plain
<1>15. CASE page.at \in {"new", "revision"} /\ url \in PassFormLinks
  <2>1. Clerk /\ url.to \in {"passes", "create_pass"}
    BY <1>1, <1>15, PlainUrl DEF OwnPages, PassFormLinks
  <2> QED
    BY <2>1, ForEverybody, ForClerks
<1> QED
  BY <1>7, <1>8, <1>9, <1>10, <1>11, <1>12, <1>13, <1>14, <1>15 DEF Links

(* No page offers its operator what the handlers then refuse, except for   *)
(* the two links that are known: server.go against the templates.          *)
THEOREM LinksLead == RoomSpec => []NoDeadLink
<1> QED
  BY ServedStart, ServedNext, LinksServed, PTL DEF RoomSpec

-----------------------------------------------------------------------------
(* Buttons and policy.                                                     *)

LEMMA OffersAllowed ==
  ASSUME RoomInv, page.at = "detail", page.done,
         page.shown.status = gatePasses[page.pass].status,
         NEW action \in Workflow \cup {"CREATE_REVISION"},
         Allows(Actor(operator), action, Context(gatePasses[page.pass]))
  PROVE  action \in DetailActions(page)
<1> DEFINE row == gatePasses[page.pass]
<1>1. row.status = page.shown.status
  OBVIOUS
<1>2. row.status # "DRAFT" => row.passType = page.shown.passType
  BY DEF RoomInv, PageTrue, PassPages, StillTrue
<1>3. Context(row).status = row.status /\ Context(row).passType = row.passType
  BY DEF Context
<1>4. Actor(operator).role = Role
  BY DEF Actor, Role
<1> HIDE DEF row
<1>5. CASE action = "SUBMIT"
  BY <1>1, <1>3, <1>4, <1>5
  DEF Allows, MayDraft, Owns, DetailActions, Clerk, row
<1>6. CASE action \in {"APPROVE", "REJECT"}
  BY <1>1, <1>3, <1>4, <1>6 DEF Allows, MayDecide, DetailActions, row
<1>7. CASE action = "PASS_OUT"
  BY <1>1, <1>3, <1>4, <1>7 DEF Allows, MayPassOut, DetailActions, row
<1>8. CASE action = "RETURN"
  BY <1>1, <1>2, <1>3, <1>4, <1>8 DEF Allows, MayReturn, DetailActions, row
<1>9. CASE action = "CREATE_REVISION"
  <2>1. page.shown.status = "NOT_APPROVED" /\ Clerk
    BY <1>1, <1>3, <1>4, <1>9 DEF Allows, MayRevise, Owns, Clerk, row
  <2> QED
    BY <1>9, <2>1 DEF DetailActions
<1> QED
  BY <1>5, <1>6, <1>7, <1>8, <1>9

(* Why a step is offered.                                                  *)
LEMMA OfferedBecause ==
  ASSUME NEW pg, NEW action \in DetailActions(pg)
  PROVE  \/ action = "SUBMIT" /\ pg.shown.status = "DRAFT" /\ Clerk
         \/ /\ action \in {"APPROVE", "REJECT"} /\ pg.shown.status = "SUBMITTED"
            /\ Role \in {"ADMIN", "ISSUING"}
         \/ /\ action = "PASS_OUT" /\ pg.shown.status = "APPROVED"
            /\ Role \in {"ADMIN", "SECURITY"}
         \/ /\ action = "RETURN" /\ pg.shown.status = "PASSED_OUT"
            /\ pg.shown.passType = "RETURNABLE" /\ Role \in {"ADMIN", "SECURITY"}
         \/ action = "CREATE_REVISION" /\ pg.shown.status = "NOT_APPROVED" /\ Clerk
BY DEF DetailActions

LEMMA AllowedIsOffered ==
  ASSUME RoomInv, AuditInv, page.at = "detail", page.done,
         page.shown.status = gatePasses[page.pass].status,
         NEW action \in DetailActions(page),
         NEW c \in Users, c # operator
  PROVE  \E u \in Users :
           Allows(Actor(operator), action, CreatedBy(u, page.pass))
<1> DEFINE row == gatePasses[page.pass]
           pass(u) == CreatedBy(u, page.pass)
           me == Actor(operator)
<1>1. /\ page.pass \in PassIds
      /\ row.status = page.shown.status
      /\ row.status # "DRAFT" => row.passType = page.shown.passType
  BY DEF RoomInv, PageTrue, PassPages, StillTrue, Used
<1>2. /\ me.role = Role /\ me.id = operator
      /\ operator \in Users /\ operator # NoUser
  BY UsersAssumption DEF Actor, Role, RoomInv, RoomTypeOK
<1>3. \A u : /\ pass(u).status = row.status /\ pass(u).passType = row.passType
             /\ pass(u).createdBy = u /\ pass(u).approvedBy = NoUser
             /\ pass(u).securityOfficer = NoUser
             /\ pass(u).returnedBy = row.returnedBy
  BY DEF CreatedBy, Context
<1>4. row.status # "RETURNED" => row.returnedBy = NoUser
  BY <1>1 DEF AuditInv, AuditOK, Reached, Named, StampedBy
<1> HIDE DEF row, pass, me
<1>5. row.status # "RETURNED" => Independent(me, pass(c))
  BY <1>2, <1>3, <1>4 DEF Independent, HasOperationalStage
<1>6. Clerk => Owns(me, pass(operator))
  BY <1>2, <1>3 DEF Owns, Clerk
<1>7. CASE action = "SUBMIT" /\ page.shown.status = "DRAFT" /\ Clerk
  BY <1>1, <1>2, <1>3, <1>6, <1>7 DEF Allows, MayDraft, pass, me
<1>8. CASE action \in {"APPROVE", "REJECT"} /\ page.shown.status = "SUBMITTED"
           /\ Role \in {"ADMIN", "ISSUING"}
  BY <1>1, <1>2, <1>3, <1>5, <1>8 DEF Allows, MayDecide, pass, me
<1>9. CASE action = "PASS_OUT" /\ page.shown.status = "APPROVED"
           /\ Role \in {"ADMIN", "SECURITY"}
  BY <1>1, <1>2, <1>3, <1>5, <1>9 DEF Allows, MayPassOut, pass, me
<1>10. CASE action = "RETURN" /\ page.shown.status = "PASSED_OUT"
            /\ page.shown.passType = "RETURNABLE" /\ Role \in {"ADMIN", "SECURITY"}
  BY <1>1, <1>2, <1>3, <1>5, <1>10 DEF Allows, MayReturn, pass, me
<1>11. CASE action = "CREATE_REVISION" /\ page.shown.status = "NOT_APPROVED"
            /\ Clerk
  BY <1>1, <1>2, <1>3, <1>6, <1>11 DEF Allows, MayRevise, pass, me
<1> QED
  BY <1>7, <1>8, <1>9, <1>10, <1>11, OfferedBecause

(* No user is the only one, so that a draft can be somebody else's.        *)
HasColleague == \A u \in Users : \E c \in Users : c # u

LEMMA OffersMatch ==
  ASSUME HasColleague PROVE RoomInv /\ AuditInv => OfferedAsAllowed
<1> SUFFICES ASSUME RoomInv, AuditInv, page.at = "detail", page.done,
                    page.shown.status = gatePasses[page.pass].status
             PROVE  /\ \A action \in Workflow \cup {"CREATE_REVISION"} :
                         Allows(Actor(operator), action,
                                Context(gatePasses[page.pass]))
                           => action \in DetailActions(page)
                    /\ \A action \in DetailActions(page) :
                         \E c \in Users : Allows(Actor(operator), action,
                                                 CreatedBy(c, page.pass))
  BY DEF OfferedAsAllowed
<1>1. PICK c \in Users : c # operator
  BY DEF HasColleague, RoomInv, RoomTypeOK
<1> QED
  BY <1>1, OffersAllowed, AllowedIsOffered

LEMMA RoomAudit == RoomInv /\ AuditInv /\ [RoomNext]_roomVars => AuditInv'
BY RoomStep, AuditNext DEF RoomInv

LEMMA RoomAuditStart == RoomInit => AuditInv
BY AuditInit DEF RoomInit

(* The buttons of a page that is up to date are the steps of the policy,   *)
(* whoever is at the browser: the templates against rbac/policy.go.        *)
THEOREM ButtonsMatchPolicy ==
  HasColleague => (RoomSpec => []OfferedAsAllowed)
<1> SUFFICES ASSUME HasColleague PROVE RoomSpec => []OfferedAsAllowed
  OBVIOUS
<1>1. RoomInv /\ AuditInv => OfferedAsAllowed
  BY OffersMatch
<1> QED
  BY <1>1, RoomInvariance, RoomAudit, RoomAuditStart, PTL DEF RoomSpec
=============================================================================
