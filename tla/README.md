# Verification of the Material Gate Pass register

TLA+ models of the Material Gate Pass system (`MGP`), a Go server over
PostgreSQL that drafts, approves, releases and takes back material gate passes;
TLC configurations that check the models on small instances; and theorems that
TLAPS proves for every instance. Source paths below are relative to the
repository.

## 1. Inventory

The server is one Go process (`cmd/mgp-server`): `net/http` runs one goroutine
per request, all of them share a `database/sql` pool, and all lasting state is
in PostgreSQL or under the document directory. `cmd/mgp-admin` is a second
process on the same database. Components interact through function calls inside
one request, and through table rows, row locks and files between requests; there
are no background workers, no caches and no messages.

| Component | State it keeps | Operations | What is hard | What makes it correct |
| --- | --- | --- | --- | --- |
| Gate-pass register, `internal/gatepass/store.go`, `db/migrations/001_foundation.sql` | `gate_passes`, `gate_pass_items`, `pass_sequences`, gate-pass rows of `audit_events` | `CreateDraft`, `CreateRevision`, `UpdateDraft`, `TransitionByID`, reads | concurrent requests on one pass; several statements per transaction; a statement that fails, a client that leaves, a server that stops; numbers drawn and given back | decisions are taken on the current row; duties are separate; the audit trail explains the row; numbers are unique and gapless; a submitted pass is frozen; every request ends |
| Domain rules, `internal/gatepass/domain.go` | none | `ValidateDraft`, `Transition` | boundaries of floats and of `numeric(18,3)` | what is stored is one accepted form; transitions follow the state machine |
| Policy, `internal/rbac/policy.go` | none | `Allows` | an administrator may hold several stages of a pass; a second table of the same rules is in the templates | separation of duty; buttons and policy agree |
| Gate-pass handlers, `internal/http/server.go` | none | create (with save-and-submit), revise, edit, five workflow actions, pages | two transactions behind one form; pages that grow old | a decision is taken on what was shown |
| Web interface, `web/templates` | the page in a browser | links, buttons, forms | pages and the register move apart | no link leads nowhere |
| Login and limiter, `internal/auth/limiter.go`, `pin.go`, `server.go` `login` | `auth_login_attempts` | `LoginAllowed`, `RecordLoginFailure`, `ClearLoginFailures` | check and update are separate statements; time | a lock stands for its time and ends |
| Accounts, `internal/auth/users.go`, `server.go`, `cmd/mgp-admin` | `users`, signature files, user rows of `audit_events` | create, set status, reset PIN | each is several statements without a transaction, in two processes | one creation per name; roles are fixed; a signature has its file |
| Sessions, `internal/platform/sessions/store.go` | `sessions` | create, get, delete | expiry and suspension while a request runs | a suspended account gets nothing done in the end |
| Documents, `internal/documents/service.go`, `server.go` `passPDF` | `documents`, PDF files | render, write, record, serve | file and row are written apart; the pass is read in two queries; a file is never rewritten; two passes may share a file name | an official PDF shows an approved form and a row records the pass's own; a row has its file |
| Master data, `internal/masterdata/store.go`, `server.go` | `inventory_items`, `consignees` | create, import, archive, list | imports against a partial unique index; deadlocks | an import is all or nothing; an identity is active once |
| Migrations, `internal/platform/database/database.go` | `schema_migrations`, the schema | `Migrate` | server and admin tool start together; crash between two versions | each version is applied once, in order; the server comes up |
| Settings, `internal/config/organization.go` | one row of `system_settings` | get, update | - | - |
| Audit reading, `internal/audit/store.go` | none (reads `audit_events`) | list, export | - | - |
| Start-up, middleware, deployment scripts | none that operations depend on | - | - | - |

PROJECT.json lists the same components with their status, and every hazard with
the line where it bites.

## 2. Plan

Most important first; everything below is done except what section 8 leaves out.

1. `Rbac`, `Domain`: the pure rules, used by everything else.
2. `Lifecycle`: the abstract specification of the register, the state machine of
   `domain.go`. `GatePassStore`: the register with its transactions, shown to
   implement `Lifecycle`. `MCGatePassStore` and its configurations.
3. `GatePassStoreProofs`, `AuditProofs`: the inductive invariant, types, current
   decisions, separation of duty, the audit trail, the seal, frozen forms.
   `RegisterProofs`: whole forms, revisions, numbers, the refinement.
4. `Limiter`, `Access`, `AccessProofs`: failed logins and the lock-out clock,
   sessions, account changes beside `mgp-admin`.
5. `ControlRoom`, `ControlRoomProofs`: pages in front of the register.
6. `Documents`, `DocumentsProofs`: PDF files beside their rows, on top of
   `Lifecycle`.
7. `Catalogue`, `MasterData`, `MasterDataProofs`: imports with locks and
   deadlocks, shown to implement an all-or-nothing catalogue.
8. `Migrate`, `MigrateProofs`: server and admin tool migrating together.

Left to do: `currentUser` in front of the register's requests in one instance;
today `Access` and `GatePassStore` are composed through the theorem
`RolesAreFixed` only.

## 3. The register

`Rbac` is `Allows` and `hasOperationalStage`, one operator per case of the
switch. An actor is `[id, role]`, a NULL column is `NoUser`.

`Domain` is `ValidateDraft` and `Transition`, with the CHECK constraint and the
rounding of `gate_pass_items.quantity`. Quantities are counted in
ten-thousandths, so that a quantity may be positive and still round to zero in
`numeric(18,3)`, or are `NaN`, which `strconv.ParseFloat` reads. Texts are
abstracted to whether they are blank; the header is one value for the fields the
record hash covers. `DraftFromForm` is what the handler can make of a form at
all.

`Lifecycle` has one variable, the book of passes, and three kinds of step:
create, edit a draft, transition by `CanTransition`. It knows nothing of
requests.

`GatePassStore` has

| Variable | Code |
| --- | --- |
| `gatePasses`, `items`, `trail`, `seq` | the committed content of `gate_passes`, `gate_pass_items`, `audit_events` (of gate passes), `pass_sequences` |
| `rowLock` | who holds a pass row after `SELECT ... FOR UPDATE` |
| `seqLock` | who holds a counter row after the upsert of `next_pass_number` |
| `req` | each request being handled: where it is, its user, its form or action, the row it has read, the number it drew |

A request goes `idle`, `lock`, `check`, (`number`, `insert`,) `write` and back.

| Action | Code |
| --- | --- |
| `ReceiveCreate`, `ReceiveRevision`, `ReceiveEdit`, `ReceiveWorkflow` | the handlers of `server.go` down to the first statement that can wait: form parsing, `ValidateDraft`, the checks that end a request without effect |
| `LockRow` | `SELECT ... FOR UPDATE` (`store.go:137`, `:179`, `:267`): waits, then reads the newest committed row |
| `Permit`, `Refuse` | `rbac.Allows` on the row just read, and the reason a rejection needs |
| `NextNumber` | `SELECT next_pass_number(...)`, whose increment belongs to the transaction |
| `Insert` | `INSERT INTO gate_passes`, which waits for another transaction that inserted the same `pass_no` |
| `StatementFails` | the UNIQUE constraint refuses the row, or the CHECK refuses an item |
| `CommitTransition`, `CommitEdit`, `CommitInsert` | the writes, the audit event, COMMIT; after save-and-submit `CommitInsert` goes on with a second transaction |
| `Cancel`, `Crash` | the request context ends; the server stops: rollback |

The writes of a transaction appear at its commit, because PostgreSQL shows
nothing of it before; what other transactions can notice earlier, the locks and
the pending `pass_no`, is in the state. A transaction that writes a row holds
its lock, so computing the write at the commit is computing it from the row it
read, which `PolicyHoldsAtWrite` states and a theorem proves rather than
assumes. `READ COMMITTED` is PostgreSQL's default and the code never changes it.

## 4. Accounts, logins and sessions

`Limiter` is the row of `auth_login_attempts` and the three statements of
`limiter.go`. Time is counted in ticks still to go, on one clock for the server
and the database; a username without a row is a row with no failures; the count
is kept up to the limit, which is all it is compared with.

`Access` has the tables `accounts` (`users`), `attempts`, `sessions`, `events`
(account rows of `audit_events`), the `signatures` on disk, and `req`. None of
this code opens a transaction, so every statement is an action that commits by
itself, and a request that is cut off leaves what its earlier statements did.

| Actions | Code |
| --- | --- |
| `CheckLimit`, `FindUser`, `RecordFailure`, `ClearFailures`, `CreateSession` | `login`, statement by statement; a lookup that fails counts like a wrong PIN (`server.go:132`), and the two writes whose errors `login` ignores may do nothing |
| `ReadSession`, `ReadUser` | `currentUser`, in front of every other handler: the session is live, the account active, the role ADMIN where the handler asks for it |
| `DeleteSession` | `logout` |
| `WriteStatus`, `WritePin`, `InsertAccount`, `WriteSignature`, `UpdateSignature`, `RecordAccountAudit`, `WriteFails` | `setUserStatus`, `resetUserPIN`, `createUser` |
| `Lookup`, `ToolReset`, `ToolInsert` | `mgp-admin`, a second process: it looks the username up, then resets the PIN or inserts, and leaves no event |
| `Cancel`, `Crash`, `Tick` | a statement fails or the client leaves; the server stops (a run of `mgp-admin` goes on); time passes |

The row of a deleted session stays in the model with no time left, because ids
are random and never drawn again. Requests that end before they do anything (a
wrong CSRF token, an unknown role or status) are left out.

`GatePassStore` takes `RoleOf`, the role of a user, for a constant. `RolesFixed`
is what justifies that: no statement of server or tool changes a role.

## 5. Pages, documents, master data, migrations

**`ControlRoom`** puts one browser in front of `GatePassStore`: `operator` (who
is signed in), `page` (what the browser shows, as it was read) and `click` (for
each request, the page whose button sent it). `OpenPlain`, `OpenList`,
`ReadHeader` and `ReadLines` are the GET handlers, the last two the two
statements of `findDetail` (`store.go:213`), between which the register moves
on. `Press` sends a workflow action from the page on the screen, however old it
is; `Elsewhere` is every other request and everything the server does, and
`Stops` its end. What a
page offers is `Links` and `DetailActions`, from the templates; what the handler
behind an address answers is `Answer`, from `server.go`. The two are written
from different files of the repository, and `NoDeadLink` and `OfferedAsAllowed`
compare them.

**`Documents`** is a download of a PDF: `ReadHeader`, `ReadLines` (`findDetail`
again, then the status checks of `passPDF`, `MayPrint`, which look at what was
read only), `Stat`, `CreateFile`, `WriteFile` (`os.Stat`; `os.WriteFile` creates,
then writes), `UpsertRow`, with `Refuse`, `WriteFails` and `Crash`. A file or a
hash is the rendering it is of: pass, kind, status, and the version of header and
of lines that were read. A pass number is a sequence of pieces, the separators
among them, and `SafeFilename` replaces pieces as `service.go:114-117` does, so
numbers that differ in a separator or a blank become one file name. The suffix
`-draft` is the second half of `FileName`: a number ends in digits
(`001_foundation.sql:163`), so it cannot end in the suffix itself.
The register beside the downloads is `Lifecycle`, which `GatePassStore`
implements (a theorem), extended by the version of the form each pass holds.

**`Catalogue`** is what the master data promises: all entries of a request are
added, each new, or none. **`MasterData`** is how: rows inserted one by one in a
transaction (`InsertRow`, `ImportFails`, `Commit`), waiting for another
transaction's uncommitted identity (`Waiting`), PostgreSQL's choice of a victim
in a cycle (`DeadlockDetected`), rows archived by old buttons (`Archive`). Items
and consignees differ in their columns only, so an identity is one key; the two
halves of the key set stand for the two tables.

**`Migrate`** is `main` of both programs down to where they serve or work, and
`Migrate` of `database.go`: `CreateTable`, `Ask` (the version is looked up
outside the transaction), `Apply`, `InsertVersion`, each with what happens when
another process was faster (`CreateRaced`, `ApplyRaced`, `Blocked`), and `Fault`
for a failing statement or a killed process.

## 6. Runs

| Run | Instance | Shows |
| --- | --- | --- |
| `workflow` | 1 pass, 2 requests, ADMIN, INVENTORY, ISSUING and SECURITY users, 1 edit, forms that fail at the second line | `TypeOK`, `PolicyHoldsAtWrite`, `SeparationOfDuty`, `TrailIsPath`, `TrailNamesActors`, `SealIntact`, `SavedWhole`, `FrozenAfterSubmit`, and that the register implements `Lifecycle` |
| `register` | 3 passes in one scope, 2 requests, forms that fail after drawing a number | `NumbersGapless`, `RevisionLineage` |
| `requests_end` | 2 passes in two scopes whose labels coincide, 2 requests, fairness | `WaitsOnward`: whoever has what another waits for is at a later statement; `RequestsEnd`; and `NumbersGapless` when inserts collide |
| `login` | 1 account, 2 sessions, right and wrong PINs, 2 requests, status changes, a clock | `LockStands`: failures neither extend nor shorten a lock; `LockoutEnds`; `SuspensionBites`: once an account stays suspended its requests end and no other gets in |
| `accounts` | 2 accounts, 1 session, 2 requests of administrators or `mgp-admin` | `TypeOK`; `CreatedOnce`, `ToldOfAdmins`, `SignatureHasFile`, `RolesFixed` with failures between any two statements |
| `control_room` | 1 pass, 1 request beside the browser, each acting role at the browser, 1 edit, two scopes, one of which a link does not survive | `RoomTypeOK`; `DecidedAsShown`; `NoDeadLink`; `OfferedAsAllowed` |
| `documents` | 2 passes whose numbers share a file name, 1 edit, 2 downloads, failures and crashes | `DocTypeOK`; `OfficialIsSealed`: an official PDF is the approved form of the pass or of its namesake, the recorded hash is of the pass's own; `RowHasFile` |
| `imports` | 3 requests, 3 identities, at most 4 rows, files in opposite orders, with repeated and refused rows, crashes, fairness | `MasterTypeOK`, `ActiveOnce`, `StuckIsACycle`: when no insert can go on, the waits close a cycle; `ImplementsCatalogue`, `ImportsEnd` |
| `migrate` | the server and 2 runs of `mgp-admin`, 3 versions, 2 faults, fairness | `MigrateTypeOK`, `AppliedOnceInOrder`, `WorksOnWholeSchema`, `ServerComesUp` |

Three runs reproduce what the code does against what the repository says:

| Run | The repository | The code |
| --- | --- | --- |
| `number_collision` | PRD.md:39, a unique number by directorate, project and year | `001_foundation.sql:163` joins the parts with `/`, so `A/B`,`C` and `A`,`B/C` get one number; the insert fails each time |
| `relock` | limiter.go:9, five failures lock an account | `limiter.go:31` decides the lock on the old count: after a lock has expired, the first failure locks again |
| `document_hash` | PRD.md:57 and docs/operations/backup.md:13, the recorded hash is that of the file | `service.go:92-106` records the hash of a rendering it throws away when the file is there already |

Further gaps between the repository's words and the code were met and have no
run of their own:

- workflow.md:57 asks for a security control number; `store.go:305` stores
  whatever was sent, blank included.
- workflow.md:48 says an actor of an earlier stage cannot perform the next;
  `policy.go:93` cannot see who submitted or edited, so an administrator may
  submit a colleague's draft and approve it. `SeparationOfDuty` states what is
  kept: nobody decides on a pass he created, and an administrator takes no stage
  after being its creator, approver or officer. One security officer may pass a
  pass out and take it back (`policy.go:80-84`).
- workflow.md:54 asks for positive quantities; `domain.go:104` accepts NaN, and
  so does the column.
- PRD.md:34 wants every change audited; logins and logouts leave no event, and
  the event of an account or settings change is a statement of its own, which
  may not be reached, or be reached in another order than the changes.
  `UPDATE_ORGANIZATION` (`server.go:606`) is such an event; it is not in `Access`,
  whose events are those of accounts.
- PRD.md:33: a request let in before a suspension finishes after it, which is why
  `SuspensionBites` speaks of what holds in the end.
- The audit page offers its export to everybody, `exportAudit` answers two
  roles; and the link to revise a pass does not escape the pass number. Both are
  the exceptions (`KnownDead`) of `NoDeadLink`.
- `createRevision` (`server.go:371`) redirects a failure to an address with the
  pass number where the route wants the id; no page sends that request.
- `exportAudit` asks for 1000 events, and `audit/store.go:16` turns more than 500
  into 100; the dashboard counts the 200 rows that changed last.
- `safeFilename` (`service.go:114-117`) gives two pass numbers one file: project C
  of directorate `A-B` and project `B-C` of directorate `A` share the file of their
  first pass, and whichever is asked for second is answered with the PDF of the
  other. `OfficialIsSealed` therefore does not say that the file of a pass shows
  that pass; it says what is kept, that the file shows an approved form of a pass
  of that file name (`Namesakes`) and that the row records the hash of the pass's
  own, and `documents` checks it on two such passes.
- A file that a crash cut short is never rewritten; an official PDF keeps the
  status it had when it was first asked for.
- Migration 002 fails for ever if two accounts it finds would share a username.

**Bounds.** `PassIds` bounds how many passes are ever created, `Requests` how
many are handled together, `MaxEdits` and `MaxForm` the edits of one pass; the
rest of a pass's life is finite. Two concurrent requests are enough for every
conflict on one row, since the row lock serves one request at a time and a third
only waits longer; workflow actions touch one pass, so one pass is enough for
them, and revisions and numbering, which relate passes, have two or three.
`MaxEdits` is 0 where no property speaks of the form. `PadLimit` and `Base` are
the 9999 and 10 of `lpad(n, 4, '0')`; at these bounds truncation is not reached,
and the collision it causes is the one `number_collision` and `requests_end`
reach through coinciding scopes. Symmetry over requests and passes is used in
safety runs only.

In `Access`, `SessionIds` bounds the logins that succeed and `MaxEvents` the
account changes that are begun on one account; `Offered` and `NewRoles` choose
the requests of an instance, so that each run has those its properties speak of.
`MaxFailures` is the 5 of the code in `relock` and 2 elsewhere, the least for
which a failure and a lock differ; a lock of two ticks and a session of one let
either run out first.

In `control_room` one request is enough, since the browser's page is the second
actor; a viewer never presses a button and is left out for the state space, and
pages of one pass are enough because no page shows the lines of two. `Reserved`
names the prefixes with a character that a query string does not carry.

In `documents` two passes are the least that can share a file, and two downloads
the least that can both find it missing. `Asked` chooses what each is asked for:
the one for the PDF of the pass that is edited, so that old lines can meet new
headers, the other for the PDF and the preview of its namesake. Two downloads of
one pass meet at its file as these do; that they also write one row adds only
that the later statement wins, and the theorems have no such choice. In `imports` three requests are the least for a cycle beside
a bystander who waits for one of its members; `MaxRows` leaves room for a row
that is archived and inserted again. In `migrate` three processes are the least
for one to be overtaken by two; three versions have a first, a last and one
between, like the three files of the repository; `MaxFaults` bounds what is
nobody's doing.

**Deadlock.** TLC checks deadlock in every passing run. In the register,
requests wait for row, counter and unique index in one order. Imports do
deadlock in the database; `DeadlockDetected` is the step that resolves it.

**Fairness.** Nothing is assumed of clients, cancellations or crashes, and of
faults only that they end.

- `GatePassStore!FairSpec`: strong fairness of `Advance(r)`, what the server does
  for request `r` once it has it. Weak fairness would be the goroutine
  scheduler; strong fairness is PostgreSQL's lock queue, which serves a waiting
  request if the lock is freed again and again.
- `MasterData!FairSpec`: the same, and weak fairness of the deadlock detector,
  which PostgreSQL runs after `deadlock_timeout`.
- `Access!FairSpec`: weak fairness of `Advance(r)`; nothing waits there.
  `LockoutEnds` assumes in its own statement that the clock goes on (`WF` of
  `Tick`); `SuspensionBites` does not, since otherwise sessions that expire
  would hide a status that nobody looks at.
- `Migrate!FairSpec`: weak fairness of every migrating process, and of starting
  the server, which is `restart: unless-stopped` of `docker-compose.yml`.

## 7. Proofs

TLAPS proves the following for any values of the constants that satisfy the
named assumptions of the modules (roles are total, scopes and prefixes are
typed, forms have the type of a form, null values are not members, bounds are
numbers).

| Module | Theorem | Statement |
| --- | --- | --- |
| `GatePassStoreProofs` | `Invariance`, `TypeCorrect`, `PolicyHolds` | `Spec => []Inv`, `[]TypeOK`, `[]PolicyHoldsAtWrite` |
| `AuditProofs` | `AuditInvariance`, `DutiesSeparate`, `TrailConnected`, `StampsMatchTrail`, `SealHolds`, `FormsFrozen`; `PolicyWithinLifecycle` | `Spec => []AuditInv`, `[]SeparationOfDuty`, `[]TrailIsPath`, `[]TrailNamesActors`, `[]SealIntact`, `FrozenAfterSubmit`; `Allows(actor, action, row) => CanTransition(row, action)` |
| `RegisterProofs` | `RegisterImplementsLifecycle`, `FormsWhole`, `LineageHolds`, `NumbersHold`, `NumbersNewWithin`, `WaitingIsOrdered`, `NeverStuck` | `Spec => ImplementsLifecycle`, `[]SavedWhole`, `[]RevisionLineage`, `[]NumbersGapless`; `AllocatedNumberIsNew` while scopes have texts of their own and counters stay below `PadLimit`; `[]WaitsOnward`, `[]SomeoneGoesOn` |
| `ControlRoomProofs` | `RoomInvariance`, `RoomTypes`, `DecisionsAsShown`, `LinksLead`, `ButtonsMatchPolicy`, `RoomIsRegister` | `RoomSpec => []RoomInv`, `[]RoomTypeOK`, `[]DecidedAsShown`, `[]NoDeadLink`; `HasColleague => (RoomSpec => []OfferedAsAllowed)`; `RoomSpec => Spec` |
| `AccessProofs` | `AccessInvariance`, `AccessTypes`, `RolesAreFixed`, `LocksStand`, `SignaturesHaveFiles`, `CreatedJustOnce`, `AccountEventsAreAdmins` | `Spec => []Inv`, `[]TypeOK`, `RolesFixed`, `LockStands`, `[]SignatureHasFile`, `[]CreatedOnce`, `[]ToldOfAdmins` |
| `DocumentsProofs` | `DocTypes`, `OfficialSealed`, `HashOfSealedForm`, `RowsHaveFiles`, `DocumentsKeepTheBook` | `DocSpec => []DocTypeOK`, `[]OfficialIsSealed`, `[]RowHasFile`; a whole official file and its row differ in the printed status only, or the file is the approved form of a namesake; `DocSpec => Spec` of `Lifecycle` |
| `MasterDataProofs` | `MasterInvariant`, `MasterTypes`, `IdentityActiveOnce`, `MasterImplementsCatalogue`, `StuckMeansCycle` | `Spec => []MInv`, `[]MasterTypeOK`, `[]ActiveOnce`, `ImplementsCatalogue`; `[]StuckIsACycle` for finitely many requests |
| `MigrateProofs` | `MigrationInvariant`, `MigrateTypes`, `OnceInOrder`, `WholeSchema` | `Spec => []IInv`, `[]MigrateTypeOK`, `[]AppliedOnceInOrder`, `[]WorksOnWholeSchema` |

**The register's first invariant.** `PolicyHoldsAtWrite` is not inductive: a
commit of one request could change the row another has read. `Inv` adds `TypeOK`
and `RequestsWellFormed`: a request past its lock works on a pass that exists,
holds its row, and two requests never insert under one id. Then a step of
request `r` changes no row that another request holds (`OthersKeepDecision`) and
no other request's form (`OthersKeepForm`). Steps that write no table are one
lemma, `RequestMoves`; the three commits are `CommitMoves`; each action of
`Next` then has its own lemma.

**Audit.** The audit properties speak of one pass, so `AuditInv` is
`AuditOK(trail[p], gatePasses[p])` for each. `SeparationOfDuty` is read off the
trail, while the policy compares the columns of the row: it is the columns being
the actors of the trail (`Named`) that makes the comparison enough, and `Named`
needs that an action has not been done before when its column is set. `Reached`
says so: which actions a trail may hold in each status. With it, each commit
appends one event and preserves `AuditOK`, from the fact that the policy accepts
the row at the moment of the write (`AtWrite`, from `Inv`). `FrozenAfterSubmit`
also says that a pass at the end of its life (`Settled`) keeps row and trail:
from the policy, which accepts nothing of such a pass (`SettledRefuses`).
`PolicyWithinLifecycle` closes a gap the code leaves open: the state machine of
`domain.go` is called by its tests only, and the store relies on `rbac.Allows`
to stay within it.

**Across passes.** Only three actions write the tables (`TablesMove`), so
`RegisterProofs` collects what each commit does once (`TransitionFacts`,
`EditFacts`, `InsertFacts`) and then looks at three steps per property. The
refinement maps each commit to one step of `Lifecycle` and everything else to a
stutter. `RevisionLineage` needs that every rejected pass has the flag
`rejected`, and that no action leaves `NOT_APPROVED`. `NumbersGapless` needs
where a number is between being drawn and being stored: a request that has drawn
one holds the counter, which still shows the number before it (`CounterHeld`),
and a request whose row is in the unique index has a label that no stored pass
and no other such request has (`LabelNew`). The same invariant shows how far the
collision of `number_collision` reaches (`NumbersNewWithin`): scopes that write
one text and numbers that `lpad` cuts are its only causes.

**No circle of waits.** `WaitsOnward` needs that a row or counter lock belongs to
a request that is past the statement which takes it (`LocksOwned`): a revision
holds the row of its original from `lock` to the end, an insert the counter of
its scope from `number` to the end. With a finite number of stages there is then
always a request that waits for nobody (`NeverStuck`), although the number of
requests is not bounded. This is the part of `RequestsEnd` that is safety; that
the request which can go on does so, and that waiters get their turn, is
fairness.

**Pages.** A step of the room is a step of the register or leaves it alone
(`RoomStep`), so `Inv` holds here as well. `DecidedAsShown` needs that what a
page says of a pass which had left the draft is final (`PageTrue`, kept by
`FormsKept` and `StatusMoves`), that this holds of a page whose lines are still
to be read, and that no button on a draft decides. `NoDeadLink` needs that a
page was served to its operator when it was read (`Served`) and that the two
stages a handler asks for, official and rejected, are never left (`StagesKept`).
`OfferedAsAllowed` compares `DetailActions` with `Allows` case by case; it needs
the audit invariant, for a pass that nobody has taken back yet, and that no user
is the only one.

**Accounts.** Nothing in the tables of `Access` says what a request has done so
far, so `Inv` says it of each request by the statement it has come to
(`RequestOK`): whom it was let in as, that it was let past the limiter, that its
username is one. `RolesFixed` and `LockStands` follow for each step.
`SignatureHasFile` needs that the file is there before the row points to it.
`CreatedOnce` needs `CreationOK`: a request between its insert and its event is
alone in that for its username, the account has its role, and there is no event
of a creation yet. `ToldOfAdmins` needs that a request past `currentUser` is an
administrator's and, once it has written, is about an account there is
(`ToldInv`); both last until its event, and after it, because accounts stay with
their role (`RolesStay`).

**Documents.** What a download has read under an official status was, and stays,
the approved form, because only drafts are edited (`Honest`). A download that
writes the official file of a pass is an official download of a namesake
(`OfficialWriter`), so the file is that pass's approved form. None of the
theorems assumes that file names differ. `RowHasFile` needs that a download past
writing has a file and that no step removes one (`FilesStand`); the types of
files and rows follow (`Ranges`). `HashOfSealedForm` puts types and seal
together and says for which reasons a recorded hash can be wrong while the file
is whole: it was printed under another status, which `document_hash` shows, or it
is the approved form of another pass with the same file name. There is no third. `DocumentsKeepTheBook` is the interface to the register: the
passes the downloads read move as `Lifecycle` says, which is what
`RegisterImplementsLifecycle` proves of the real register.

**Master data.** `Apart`: the identities a transaction has inserted are distinct,
not active and in no other transaction. With it a commit is one `Add` of
`Catalogue` and every other step changes nothing that is visible. It also says
that only a transaction that inserts holds an identity, so requests that all wait
wait for each other; of the nonempty sets of inserting requests that contain
everybody their members wait for, one with the fewest members is a cycle
(`Fewest`, `StuckMeansCycle`). That is what lets PostgreSQL's detector end every
standstill; `ImportsEnd` adds the fairness.

**Migrations.** `Passed`: the versions in front of the one a process looks at are
recorded, and stay so.

**Only model-checked.** Every liveness property (`RequestsEnd`, `LockoutEnds`,
`SuspensionBites`, `ImportsEnd`, `ServerComesUp`), since liveness under fairness
is out of the prover's reach. Every invariant and every other action property of
the passing runs is a theorem, one of them with a hypothesis that the code does
not establish: `HasColleague` for `OfferedAsAllowed`. `SomeoneGoesOn` and the statements of `NumbersNewWithin` and
`HashOfSealedForm` are proved and not run.

## 8. Not modelled

Names, free texts and layout; what the register's searches and counts return;
statement time-outs and the size of the connection pool, which the code does not
set. Cookie signing, CSRF comparison and PIN hashing are cryptography. Of the
settings and of the audit log only the pages and who may see them are modelled:
the settings are one row overwritten by one statement and read only to fill a
form, the log is a read. What a migration does to data it finds is left out: the
models start on an empty database. Response headers and environment parsing keep
no state. The shell scripts for packaging, backup and restore run by hand around
`pg_dump` and `tar` and meet the program only through its files.

Modelled but without a requirement, because no document states one: a rejected
pass may be revised twice; save-and-submit may leave the draft when the second
transaction fails; a pass keeps the number of its first scope when an edit
changes directorate, project or year; a session may be created for an account
that was suspended during the login, and works once the account is active again.
