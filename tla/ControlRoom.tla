---------------------------- MODULE ControlRoom -----------------------------
(***************************************************************************)
(* The control room in front of the register: the pages of web/templates,  *)
(* the GET handlers of internal/http/server.go and the reads of            *)
(* internal/gatepass/store.go that fill them.                              *)
(*                                                                         *)
(* One operator's browser shows one page.  A page is what the server read  *)
(* when it was asked for; it stays on the screen while other requests      *)
(* change the register, and its links and buttons are followed later.      *)
(* Every other browser, and every request sent without a page, is a        *)
(* request of GatePassStore.                                               *)
(***************************************************************************)
EXTENDS GatePassStore

CONSTANT
  Reserved   \* the prefixes with a character a query string does not carry
             \* unescaped: "R&D/..." reads as "R"

ASSUME ReservedAssumption == Reserved \subseteq Prefixes

VARIABLES
  operator,  \* the user signed in at the browser
  page,      \* what the browser shows
  click      \* the page whose button sent a request, if one did

screen == <<operator, page, click>>
roomVars == <<vars, screen>>

-----------------------------------------------------------------------------
(* Addresses and pages.                                                    *)

Url(to, p) == [to |-> to, pass |-> p]
Plain(names) == {Url(to, NoPass) : to \in names}

(* The columns of a pass a page can show.                                  *)
Header(p) == [status |-> gatePasses[p].status, header |-> gatePasses[p].header,
              passType |-> gatePasses[p].passType, passNo |-> gatePasses[p].passNo]

NoHeader == [status |-> "NONE", header |-> NoRow.header,
             passType |-> NoRow.passType, passNo |-> NoLabel]

(* A page with nothing of a pass on it; done is FALSE while it loads.      *)
Blank(at) == [at |-> at, done |-> TRUE, rows |-> {}, pass |-> NoPass,
              shown |-> NoHeader, lines |-> << >>]

NoPage == Blank("none")

Role == RoleOf[operator]
Clerk == Role \in {"ADMIN", "INVENTORY"}
If(b, names) == IF b THEN Plain(names) ELSE {}

-----------------------------------------------------------------------------
(* What the templates let the operator follow: links and forms.            *)

NavLinks ==
  Plain({"dashboard", "passes", "inventory", "consignees", "reports", "audit"})
    \cup If(Clerk, {"new"}) \cup If(Role = "ADMIN", {"users", "settings"})

TopLinks == Plain({"logout"}) \cup If(Role = "ADMIN", {"settings"}) \cup If(Clerk, {"new"})

RowLinks(rows) == {Url("detail", p) : p \in rows}

DashboardLinks(pg) ==
  Plain({"reports", "passes"}) \cup If(Clerk, {"new"}) \cup RowLinks(pg.rows)

RegisterLinks(pg) == If(Clerk, {"new"}) \cup RowLinks(pg.rows)
ReportLinks(pg)   == Plain({"passes"}) \cup RowLinks(pg.rows)
PassFormLinks     == Plain({"passes", "create_pass"})
AuditLinks        == Plain({"audit_export"})

InventoryLinks ==
  If(Clerk, {"create_inventory", "import_inventory", "archive_inventory",
             "inventory_export"})

ConsigneeLinks ==
  If(Clerk, {"create_consignee", "archive_consignee", "consignee_export"})

UserLinks     == Plain({"create_user", "set_user_status", "reset_user_pin"})
SettingsLinks == Plain({"update_settings"})

Official == {"APPROVED", "PASSED_OUT", "RETURNED"}

OfficialPDFLink(pg) ==
  IF pg.shown.status \in Official THEN {Url("pdf", pg.pass)} ELSE {}

(* Mutant: the administrator is left out of the last two stages.           *)
DetailActionsNoAdmin(pg) ==
  CASE pg.shown.status = "DRAFT" /\ Clerk -> {"SUBMIT"}
    [] pg.shown.status = "SUBMITTED" /\ Role \in {"ADMIN", "ISSUING"} ->
         {"APPROVE", "REJECT"}
    [] pg.shown.status = "APPROVED" /\ Role = "SECURITY" -> {"PASS_OUT"}
    [] pg.shown.status = "PASSED_OUT" /\ pg.shown.passType = "RETURNABLE"
         /\ Role = "SECURITY" -> {"RETURN"}
    [] pg.shown.status = "NOT_APPROVED" /\ Clerk -> {"CREATE_REVISION"}
    [] OTHER -> {}

(* What DetailActions offers: buttons, and a link for the revision.        *)
DetailActions(pg) ==
  CASE pg.shown.status = "DRAFT" /\ Clerk -> {"SUBMIT"}
    [] pg.shown.status = "SUBMITTED" /\ Role \in {"ADMIN", "ISSUING"} ->
         {"APPROVE", "REJECT"}
    [] pg.shown.status = "APPROVED" /\ Role \in {"ADMIN", "SECURITY"} ->
         {"PASS_OUT"}
    [] pg.shown.status = "PASSED_OUT" /\ pg.shown.passType = "RETURNABLE"
         /\ Role \in {"ADMIN", "SECURITY"} -> {"RETURN"}
    [] pg.shown.status = "NOT_APPROVED" /\ Clerk -> {"CREATE_REVISION"}
    [] OTHER -> {}

DetailLinks(pg) ==
  {Url("draft_pdf", pg.pass)} \cup OfficialPDFLink(pg)
    \cup {Url("revision", pg.pass) : a \in DetailActions(pg) \cap {"CREATE_REVISION"}}

Links(pg) ==
  NavLinks \cup TopLinks \cup
  CASE pg.at = "dashboard"  -> DashboardLinks(pg)
    [] pg.at = "passes"     -> RegisterLinks(pg)
    [] pg.at = "reports"    -> ReportLinks(pg)
    [] pg.at = "inventory"  -> InventoryLinks
    [] pg.at = "consignees" -> ConsigneeLinks
    [] pg.at = "audit"      -> AuditLinks
    [] pg.at = "detail"     -> DetailLinks(pg)
    [] pg.at = "users"      -> UserLinks
    [] pg.at = "settings"   -> SettingsLinks
    [] pg.at \in {"new", "revision"} -> PassFormLinks
    [] OTHER -> {}

-----------------------------------------------------------------------------
(* What the handlers answer to the operator.                               *)

(* Mutant: the register does not narrow the rows to the role.              *)
AllRows == Used

(* ListRowsFiltered: a security officer sees passes that were approved.    *)
VisibleRows ==
  {p \in Used : Role = "SECURITY" => gatePasses[p].status \in Official}

(* The status a handler has just read decides for a security officer.      *)
ServesDetail(status) == Role = "SECURITY" => status \in Official

ServesPDF(status, draftMode) ==
  /\ draftMode \/ status \in Official
  /\ ServesDetail(status)

ServesAuditExport == Role \in {"ADMIN", "ISSUING"}

(* Without a rejected pass newGatePass opens an empty form.                *)
OpensRevision(p) == gatePasses[p].status = "NOT_APPROVED"

(* The link puts the number into the query string as it is.                *)
Survives(p) == gatePasses[p].passNo[1] \notin Reserved

(* What only some roles are served, whatever the pass.                     *)
CanEditMaster == Role \in {"ADMIN", "INVENTORY"}

InventoryRequests ==
  {"create_inventory", "import_inventory", "archive_inventory", "inventory_export"}
ConsigneeRequests ==
  {"create_consignee", "archive_consignee", "consignee_export"}

UserRequests     == {"users", "create_user", "set_user_status", "reset_user_pin"}
SettingsRequests == {"settings", "update_settings"}

(* What is there when an address is followed now.                          *)
Answer(url) ==
  CASE url.to = "new" -> IF Clerk THEN url.to ELSE "forbidden"
    [] url.to = "create_pass" ->
         IF MayCreate(Actor(operator)) THEN url.to ELSE "forbidden"
    [] url.to \in InventoryRequests \cup ConsigneeRequests ->
         IF CanEditMaster THEN url.to ELSE "forbidden"
    [] url.to = "revision" ->
         IF ~Clerk THEN "forbidden"
         ELSE IF OpensRevision(url.pass) /\ Survives(url.pass) THEN "revision" ELSE "new"
    [] url.to \in UserRequests \cup SettingsRequests ->
         IF Role = "ADMIN" THEN url.to ELSE "forbidden"
    [] url.to = "audit_export" ->
         IF ServesAuditExport THEN url.to ELSE "forbidden"
    [] url.to = "detail" ->
         IF ServesDetail(gatePasses[url.pass].status) THEN url.to ELSE "forbidden"
    [] url.to \in {"pdf", "draft_pdf"} ->
         IF ServesPDF(gatePasses[url.pass].status, url.to = "draft_pdf")
         THEN url.to ELSE "forbidden"
    [] OTHER -> url.to

-----------------------------------------------------------------------------
(* The browser.  An address may be a link of the page or typed in.         *)

Lists == {"dashboard", "passes", "reports"}
Forms == {"new", "inventory", "consignees", "users", "audit", "settings"}

OpenPlain(to) ==
  /\ Answer(Url(to, NoPass)) = to
  /\ page' = Blank(to)
  /\ UNCHANGED <<vars, operator, click>>

(* The rows the search, the filters and LIMIT let through.                 *)
OpenList(to, matching) ==
  /\ page' = [Blank(to) EXCEPT !.rows = VisibleRows \cap matching]
  /\ UNCHANGED <<vars, operator, click>>

(* findDetail, first statement: the row of gate_passes.                    *)
ReadHeader(to, p) ==
  /\ p \in Used
  /\ to = "revision" => Clerk /\ OpensRevision(p)
  /\ page' = [Blank(to) EXCEPT !.done = FALSE, !.pass = p, !.shown = Header(p)]
  /\ UNCHANGED <<vars, operator, click>>

(* Second statement: the lines; then the handler looks at the status.      *)
ReadLines ==
  /\ ~page.done
  /\ page' = IF page.at = "detail" /\ ~ServesDetail(page.shown.status)
             THEN NoPage
             ELSE [page EXCEPT !.lines = items[page.pass], !.done = TRUE]
  /\ UNCHANGED <<vars, operator, click>>

Browse ==
  \/ \E to \in Forms : OpenPlain(to)
  \/ \E to \in Lists, matching \in SUBSET PassIds : OpenList(to, matching)
  \/ \E to \in {"detail", "revision"}, p \in PassIds : ReadHeader(to, p)
  \/ ReadLines

(* A button of the page that is on the screen.                             *)
Press(r) ==
  /\ page.at = "detail" /\ page.done
  /\ \E action \in DetailActions(page) \cap Workflow, reason \in BOOLEAN :
       ReceiveWorkflow(r, operator, action, page.pass, reason)
  /\ click' = [click EXCEPT ![r] = page]
  /\ UNCHANGED <<operator, page>>

(* Any other request, a form sent by this browser among them, and what the *)
(* server does.                                                            *)
Elsewhere(r) ==
  /\ Receive(r) \/ Advance(r) \/ Cancel(r)
  /\ click' = [click EXCEPT ![r] = IF req'[r].pc = "idle" THEN NoPage ELSE @]
  /\ UNCHANGED <<operator, page>>

(* The server stops: whatever was pressed is lost, the page stays.         *)
Stops ==
  /\ Crash
  /\ click' = [r \in Requests |-> NoPage]
  /\ UNCHANGED <<operator, page>>

RoomInit ==
  /\ Init
  /\ operator \in Users
  /\ page = NoPage
  /\ click = [r \in Requests |-> NoPage]

RoomNext ==
  \/ Browse
  \/ \E r \in Requests : Press(r) \/ Elsewhere(r)
  \/ Stops

RoomSpec == RoomInit /\ [][RoomNext]_roomVars

-----------------------------------------------------------------------------
(* Requirements.                                                           *)

Page ==
  [at : {"none", "detail", "revision"} \cup Lists \cup Forms, done : BOOLEAN,
   rows : SUBSET PassIds, pass : PassIds \cup {NoPass},
   shown : [status : Statuses \cup {"NONE"}, header : Headers,
            passType : PassTypes, passNo : LabelSet],
   lines : Seq(Int \cup {NaN})]

(* The shape of the browser.                                               *)
RoomTypeOK ==
  /\ operator \in Users
  /\ page \in Page
  /\ click \in [Requests -> Page]

(* Whoever approves, rejects, passes out or takes back material by a       *)
(* button decides on what the page showed: header and lines are still      *)
(* those of the pass when the decision is written, however old the page    *)
(* is and although it was read in two statements (store.go:213-248).       *)
Decisions == {"APPROVE", "REJECT", "PASS_OUT", "RETURN"}

AsShown(pg) ==
  /\ Header(pg.pass) = [pg.shown EXCEPT !.status = gatePasses[pg.pass].status]
  /\ items[pg.pass] = pg.lines

DecidedAsShown ==
  \A r \in Requests :
    click[r] # NoPage /\ req[r].pc = "write" /\ req[r].op \in Decisions
      => AsShown(click[r])

(* No link or form of a page leads nowhere: however the register has moved *)
(* on since the page was read, the handler behind it still serves its      *)
(* operator what it names.  Two links are known to be dead: the            *)
(* audit page offers everybody an export that two roles are given, and the *)
(* revision link does not escape the pass number.                          *)
KnownDead(url) ==
  \/ url.to = "audit_export" /\ ~ServesAuditExport
  \/ url.to = "revision" /\ ~Survives(url.pass)

NoDeadLink ==
  page.done => \A url \in Links(page) : Answer(url) = url.to \/ KnownDead(url)

(* A page that is up to date offers a step exactly when the policy allows  *)
(* it to the operator's role: the templates and rbac/policy.go are two     *)
(* tables of the same rules.  They differ only in the person: a button is  *)
(* also shown to somebody who does not own the draft, or who has had a     *)
(* hand in the pass before.  The edit of a draft has no button.            *)
CreatedBy(c, p) ==
  [Context(gatePasses[p]) EXCEPT !.createdBy = c, !.approvedBy = NoUser,
                                 !.securityOfficer = NoUser]

OfferedAsAllowed ==
  page.at = "detail" /\ page.done
    /\ page.shown.status = gatePasses[page.pass].status
  => /\ \A action \in Workflow \cup {"CREATE_REVISION"} :
          Allows(Actor(operator), action, Context(gatePasses[page.pass]))
            => action \in DetailActions(page)
     /\ \A action \in DetailActions(page) :
          \E c \in Users : Allows(Actor(operator), action, CreatedBy(c, page.pass))
=============================================================================
