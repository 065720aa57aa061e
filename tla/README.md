# Reservation Tool: a TLA+ verification project

The repository is a FastAPI application in which engineers reserve, swap and
borrow lab setups. Request handlers run in the worker threads of several
processes; each process also runs background jobs (APScheduler); all share one
SQL database and nothing else. This directory holds TLA+ models of its
services, the configurations with which TLC checks them on small instances and
theorems about them that TLAPS proves for every instance.

## 1. Inventory

| Component | State it keeps | Operations | Interacts with |
|---|---|---|---|
| Reservations (`reservation_service.py`) | rows: setup, user, window, ACTIVE/COMPLETED/CANCELLED | create, cancel, expiry sweep | setup status, mail, announcements, audit |
| Setup lifecycle (`setup_service.py`) | setups, `status` column | create, update (status transitions), delete | read and written by reservations |
| Scheduler (`scheduler_service.py`) | one APScheduler per process | reservation, borrow, announcement sweep | the three services |
| Notification, email | none of its own | broadcast, expiry notice, SMTP | called inside open transactions |
| Database session (`db/session.py`) | a session per request | commit after the response, rollback on an exception | every service |
| Borrow (`borrow_service.py`) | requests, access grants | create, approve or reject (any one of the routed approvers, or an owner), cancel, return, expire | routing, setups, mail |
| Swap (`swap_service.py`) | swap requests, column values of two setups | create, approve, reject, cancel | routing, hardware baselines, borrow grants |
| Hardware baselines | original, baseline and current value per column | capture, rebaseline on edit, compare | swap, setup edit |
| Approval routing, group hierarchy | parent edges between groups | the walk over ancestors, who may approve | swap, borrow |
| Groups, roles | groups, the role and groups of a user | create, delete, assign | routing, users, setups |
| Authentication, users | accounts, refresh tokens, reset links | register, login, refresh, logout, resets, approval of accounts | every handler |
| Products, templates, custom fields | columns of a template, values per setup | add, reorder, update, delete, set values | swap, import |
| Import | uploads held for a confirmation | validate, add columns, write row by row | setups, templates, log |
| Export, transaction log | `.xlsx` files by month, log rows | export, append, rotate | import |
| Announcements, audit, developer logs, web pages | one table each, or none | CRUD, listing | |

**What is hard.** (1) Check-then-act across statements: every rule of the
services (no overlap, one grant per setup, only a PENDING request may be
decided, a token is used once) is a SELECT followed, later, by a write; nothing
in the schema backs them. (2) The identity map: an ORM object keeps the values
it was loaded with, an assignment that does not change them emits no UPDATE, and
one that does writes a row that may have changed since. (3) Side effects that do
not roll back: mail and workbooks leave before the commit. (4) All-or-nothing
background jobs, one per process. (5) Derived state: the `status` column repeats
what the rows say, `is_active` what the status of an account says. (6) Pages
that catch an error, after which the session commits what was flushed before it.
(7) Loops of queries (the walk over groups, the rows of an import) that others'
commits fall between. `PROJECT.json` lists each such place, by line, with the
properties that speak of it.

**What makes each component correct.** Reservations: no two ACTIVE rows of a
setup overlap; rows only ever close; the setup's status agrees with the rows;
what has ended is released. Borrow: at most one grant per setup, and only after
the approval of somebody its request was routed to, or of an owner; a decided
request stays decided. Swap: what
the two setups hold after an approval is what they held before, exchanged.
Routing: the walk ends with the groups that the hierarchy means, and who is told
of a request is who may decide it. Authentication: a refresh token buys one
access token, a revoked one none; a new password ends the sessions of the old.
Users: who is disabled or was never approved has no way in. Edit form: a field
that nobody edited keeps its value. Import: a batch is applied as validated, or
not at all. Log: no transaction is lost or written
twice, and the latest file is the one that is appended to.

## 2. Plan

Done, in this order: `Reservations` implements `Calendar`; `Borrow` implements
`Lending`; `Swap` implements `Exchange`; `Accounts` implements `Keyring`;
`Routing`; `Inventory` (setups, templates, imports); `ExcelLog`. Each has its
theorems in a `...Proofs` module.

Next:

1. The batch forms that reserve and unreserve several setups, catch an error and
   still commit, over the status column of `Reservations`.
2. The composition of `Routing` with `Borrow` and `Swap`, whose approvers are
   constants now; the announcement sweep.

## 3. Modules

| Module | What it is |
|---|---|
| `Reservations` | request sessions, reservation sweeps and setup edits over the tables |
| `Calendar` | what reserving promises, without sessions or tables |
| `ReservationProperties` | its type invariant, safety, action and liveness properties, the refinement mapping |
| `ReservationProofs` | its theorems |
| `MCReservations` | model values and symmetry for TLC |
| `Borrow` | request sessions and borrow sweeps over requests and grants |
| `Lending`, `BorrowProperties`, `BorrowProofs`, `MCBorrow` | the same for borrowing |
| `Swap` | swap requests, approvals, the originals, the edit form |
| `Exchange`, `SwapProperties`, `SwapProofs`, `MCSwap` | the same for swapping |
| `Accounts` | accounts, their status, refresh tokens, reset links, passwords |
| `Keyring`, `AccountProperties`, `AccountProofs`, `MCAccounts` | the same for accounts |
| `Routing` | groups, edges, memberships, and the requests that are routed over them |
| `RoutingProperties`, `RoutingProofs`, `MCRouting` | the same for routing |
| `Inventory` | products, template columns, setups with custom values, imports |
| `InventoryProperties`, `InventoryProofs`, `MCInventory` | its properties, theorems and instances |
| `ExcelLog` | exports and the rolling workbooks that log imports and exports |
| `ExcelLogProperties`, `ExcelLogProofs`, `MCExcelLog` | its properties, theorems and instance |
| `Tables` | lemmas about tables as sequences, used by the proofs |

A few definitions in these modules are headed "near miss": a plausible wrong
version of the definition next to it that no action uses. `PROJECT.json` pairs
each property with one of them, under which the same run finds it violated.

### One session, one lock

All the state machines share a view of `db/session.py`. A handler reads with
plain SELECTs, each of which sees the last commit. Its writes begin at the first
flush; from there to the commit at the end of `get_db` it holds the only write
lock (SQLite with a journal, the development and test database; a server
database would allow more interleavings, not fewer). So a handler is **one
action for each read that a later decision rests on, and one action from the
first flush to the commit**. What it has read is in a record of `session`,
`sweeper` or `proc`, whose field `pc` says where it is. Every handler may also
end at any point with nothing written (`Rollback`, `Abort`): an exception, a
locked database, a lost worker. Two consequences are modelled that a reading of
one handler does not show:

- a row keeps, in the session, the values it was loaded with. A test on them may
  be out of date by the time of the write, and the write is an UPDATE by id.
- a column that is assigned the value it was loaded with is not written. A stale
  read can make a write vanish (`seen` in `CreateCommit` and `SweepCommit`,
  `Flushed` in `Swap`).

Web views catch an `AppError`, show a message and return, so `get_db` commits
what had been flushed; API handlers let the exception roll everything back.
`DecideRefused` (`Borrow`), `ApproveRefused` and `EditRefused` (`Swap`), and the
refusals in `FormSave` and `ImportRow` (`Inventory`) are these commits.

### Reservations

| State | Code |
|---|---|
| `res` | table `reservations`; row `i` has id `i`, rows are never deleted |
| `status` | `setups.status`; `ABSENT` for no such row |
| `now` | `utc_now()` |
| `session`, `sweeper` | locals of the handlers and of the job |
| `mails`, `notices`, `announced` | what has left the process: expiry mails, expiry announcements, mails of `create()` |
| `base`, `byAdmin` | history: how many rows the overlap check saw; who wrote the status last |

| Actions | Code |
|---|---|
| `CreateRead`, `CreateCheck`, `CreateCommit` | `ReservationService.create`: the setup and the lead time; `find_overlapping`; insert, `update_status`, mail, commit |
| `CreateMailedThenFailed` | the mail is sent, then the request fails |
| `CancelRead`, `CancelCommit` | `cancel` |
| `SetupCreate`, `EditRead`, `EditCommit`, `DeleteRead`, `DeleteCommit` | `SetupService` |
| `SweepList`, `SweepRead`, `SweepCommit`, `SweepFail` | `_run_reservation_sweep` and `expire_due_reservations`; after a failure mails already sent stay sent |

### Borrow

| State | Code |
|---|---|
| `borrows` | table `borrow_requests`; `grant[i]` is the row of `setup_access_grants` with that `borrow_request_id`, which is unique |
| `setups` | the group of a setup and whether its status lets it be lent |
| `proc` | locals of request handlers and of the job |
| `clear` | history: the requests that had a grant when the approval of `i` looked |

`create` is three actions (`CreateRead`, `CreateCheck`, `CreateCommit`). `approve`
and `reject` first expire what is stale. If there was something, the write lock
is taken there and the rest is one action (`DecideLocked`, or `DecideRefused` on
a page); if not, it is taken only at the end (`DecideRead`, `ApproveCheck`,
`ApproveCommit` or `RejectCommit`). `cancel` and `return_borrow` are two actions
each, the expiry two (`ExpireList`, `ExpireCommit`), also when a page triggers it:
every page that ends with the list of requests expires stale ones in the same
transaction (`Shown`). The approvers of a group are the constant `Routed`.

### Swap

| State | Code |
|---|---|
| `cur[x][c]` | the fixed columns of `setups` and the rows of `setup_custom_field_values` |
| `base[x][c]` | `setup_hardware_baselines`, `setup_custom_field_baselines`: the original; `NoBase` is no row |
| `swaps`, `ledger` | tables `swap_requests` and `hardware_change_logs` (the rows of one approval together) |
| `usable` | whether the status of a setup allows swaps |
| `proc` | locals of the handlers, and the page an administrator has open |
| `edited`, `stale` | history: cells changed by an edit; an approval wrote what had changed since it read it |

`approve` is `ApproveRead`, `ReadCurrent`, `ReadRequested`, `ReadValues` (template
columns are read after the setups) and `ApproveCommit` or `ApproveRefused`. The
last two apply `Exchange`: `Assigned` says in one formula what the code does
column by column (a template write validates and re-serializes all columns of
the template, with defaults); an ASSUME in `MCSwap` compares it with a fold of
single calls for all setups and all lists of two columns. `Captured` is
`ensure_fixed_baseline`, `ensure_custom_baseline` and the insert hook. The edit
form is `EditOpen` (page rendered), `EditRead` and `EditCommit` or `EditRefused`.

### Accounts

| State | Code |
|---|---|
| `account` | `users.status` and `users.is_active`; `ABSENT` before the insert, `GONE` after `hard_delete` |
| `pw` | `users.password_hash`, as the number of times it was set |
| `tokens`, `links` | tables `refresh_tokens` and `password_reset_tokens` |
| `access` | who was issued an access token (a JWT: no table knows it) |
| `proc` | locals of the handlers |
| `resets`, `crossed` | history: the resets completed; whether two requests ever ran at once |

| Actions | Code |
|---|---|
| `Register`, `Create`, `HardDelete` | one transaction each, backed by unique and foreign keys |
| `ManageRead`, `ManageCommit` | `UserService.update`, `delete`, `reactivate`, `process_approval`: the columns that differ from those loaded are written |
| `LoginRead`, `LoginCommit`, `CommitLost` | `authenticate`, `login`; the commit that fails after the answer |
| `RefreshRead`, `RefreshCommit`, `RefreshRefused` | `refresh`: the token is found, then revoked and the user read under the lock |
| `Logout`, `ChangeRead`, `ChangeCommit` | `logout`, `change_password` |
| `LinkRead`, `LinkCommit`, `ResetRead`, `ResetCheck`, `ResetCommit` | `request_password_reset`, `reset_password` |

A token row carries history that no column has: the token it was exchanged for,
the login it descends from, the password verified then and the one in force at
its insertion. The properties are stated over these.

### Routing

| State | Code |
|---|---|
| `groups`, `edges` | tables `groups` and `group_hierarchy_edges` |
| `member` | role, primary group, `user_groups` and standing of a user |
| `held` | `setups.group_id` |
| `requests` | `swap_requests` and `borrow_requests`, with their routed approvers |
| `proc` | a request on its way: the groups `seen` and still `todo` |
| `changes` | history: how often the organization has changed |

A walk asks for the parents of one group with each query: `WalkStep` is one turn
of the loop of `ancestor_group_ids`, `BorrowParents` and `BorrowSiblings` those of
`resolve_borrow_approvers`. `Resolve` turns the groups found into users and lets
a decision pass or refuses it. `SwapRead`, `BorrowRead`, `DecideRead` and
`ReturnRead` are what the services test before; `RequestCreate` and
`RequestDecide` the commits. Edges, memberships, setups and groups change beside
them; `GroupDeleteRead` and `GroupDeleteCommit` are the two halves of
`GroupService.delete`. `RoutingProperties` defines the groups the documents mean
once more, as a least closed set, without a walk.

### Inventory

| State | Code |
|---|---|
| `products`, `columns`, `setups` | tables `products`, `product_template_columns`, `setups` with `setup_custom_field_values` |
| `pending`, `uploads` | `_PENDING_PRODUCT_IMPORTS`, in the memory of the process |
| `proc` | what a session has read and flushed: rows inserted, fields written, columns, orders |
| `edits`, `crossed` | history: commits so far; two requests changed templates at once |

A session stages its writes in its record and `Commit` applies them, under the
constraints of the tables (`Consistent`). `CreateRead`, `UpdateRead`, `ValuesRead`
are the JSON API; `ColumnAdd`, `ColumnsReorder`, `ColumnUpdate`, `ColumnDelete`
the templates. `PlainImport` and `ProductImport` start an import, `ImportHeld`,
`ImportConfirm` and `ImportReject` are the dialog for new headers,
`ImportAccept` adds the columns and validates, `ImportRow` writes one row.
`Restart` forgets what is in memory.

`FormOpen` and `FormSave` are the edit form. What comes back is not what was
rendered: an input sends what it shows, and it may show less than the setup holds.
A dropdown iterates over the JSON text of `allowed_values`
(`_setup_edit_modal.html:119`), so an option is a single character, none is the
stored word, and the field is sent blank; a checkbox that is not checked is not sent; the owners and groups
offered are the approved users and the first 200 groups (`setups_view.py:509`).
`Shown` says which fields show what they hold, with `Shows` for the custom
columns and `listed` for the owner and the group; `Input`, `Sent`, `Received`,
`Raw` and `Given` follow the form through the browser and `setup_edit_save` to
`validate_and_serialize_values`, which writes the default of each column that
arrives blank (`Serialized`). One field is edited in a form; the browser sends
none without a required field (`Sendable`). The form finds its columns by name,
so one that was deleted and added again meanwhile takes the value.

### ExcelLog

| State | Code |
|---|---|
| `logs`, `exported` | the workbooks under `EXCEL_LOG_DIR` and `EXPORT_DIR` |
| `batches` | the requests, with their rows of `export_logs` and `excel_transaction_logs` |
| `worker` | where each thread is in `append_excel_transactions` |
| `overlaps` | history: the pairs of requests that appended at the same time |

`LocateLatest`, `LocateNone`, `NumberFile`, `CreateFile`, `CloseCreated`, `Load`,
`SaveFile` and `CloseSaved` are the steps of one append: choose the file, load it
whole, save it whole. A workbook that is being saved is `open`: its size may be
anything so far and it cannot be loaded; two saves of one file leave either
workbook or none. Two appends at once need a server database: in both handlers
the rows of the log are flushed first, so under SQLite the write lock keeps a
second append out until the commit. `Crash` leaves such a file `short` or `long`
and rolls back what was not committed. `Commit` and `CommitFails` end a request.

## 4. Runs

Passing runs explore every reachable state; `PROJECT.json` names, for each
property, a plausible bug of the code under which the same run finds it
violated. Deadlock is not checked: the bounds on time and rows stop the models.

| Run | Instance | Shows |
|---|---|---|
| `res_race` | 2 sessions, 1 sweeper, 1 setup, time 0..2, 2 rows, edits to three statuses | under every interleaving: overlaps come only from a race of checks, no row loses its setup, `RESERVED` has a reason, nothing is completed early, rows are never rewritten |
| `res_serial` | 1 session, 1 sweeper, 2 rows, mail on | each scheduler announces an expiry once, refinement of `Calendar` (no two bookings clash), a reservation past its end is released |
| `borrow_race` | 2 sessions (which expire stale requests as the job does), 1 setup, ends 1 and none, 2 requests, time 0..2 | two grants need a race, COMPLETED means held, no early expiry, grants are history |
| `borrow_single` | 1 session, 1 sweeper, ends 1, 2 and none, an owner | refinement of `Lending` (a setup is lent to one group), stale requests end |
| `borrow_stuck_grant` | 2 sessions, 1 request | a violation, section 7 |
| `swap_race` | 2 sessions, 3 setups, columns f1 and c1, one template with an unfilled required column, one legacy setup | hardware is lost only by a stale write, originals are kept |
| `swap_single` | 1 session, 2 setups, two fixed and one template column, edits, maintenance | refinement of `Exchange`, the ledger explains all unedited values |
| `auth_race` | 2 sessions, 1 account, 3 tokens, links and passwords together | tokens and links are used twice only by a race, a new password ends the sessions; while nothing crosses: who is disabled is inactive, who is not approved has no token, refinement of `Keyring` |
| `routing` | 1 session, 4 groups, 3 users, 2 setups, 2 changes, 1 request, an edge that closes a cycle | the walk finds the closure and ends, who is told may decide, decisions are by who is entitled, a group is deleted empty |
| `inventory` | 2 sessions, 2 products, 2 setups, 4 columns, 5 workbooks, 2 commits, 1 held upload | imports are whole, required columns are filled, columns keep an order, a form writes beside the field that was edited only what it rendered or could not show, an upload is imported once |
| `import_header` | 1 session, a workbook with a header not in normalised form | a violation, section 7 |
| `excel_log` | 2 threads, 3 requests, time 0..2 in months of two ticks, 2 rows per file, 1 crash | rows are lost only by overlapping appends or a crash, files are in order, the size limit, a broken workbook stays so |

**Why these bounds are enough.** Every race here is between two actors about one
setup, request, account or file: two sessions, or a session and a sweeper. Two
rows give two windows that overlap, touch or are nested when time is 0..2. One
end time with time 0..2 has a moment before, at and after it. Three setups are
the least for two swaps that share one. One account with three writes has a
login, its exchange and the reuse of either, or a link, a reset and a token; a
second account shares nothing with it. Four groups have a chain, two siblings, a
cycle and an empty group; one request crosses up to two changes. In `inventory`
two commits are the least with which one falls between the validation and the
writing of another; the workbooks have rows that insert, that overwrite and that
match two setups, and one has none. In `excel_log` three requests fill one file, begin the next and
meet the end of the month. Whatever depends on more (any number of sessions,
rows, setups, groups, users) is proved where section 5 says so. Sessions,
sweepers, threads and setups are interchangeable in the runs that declare
symmetry, which check safety only; no action names one of them, and where a
setup has its own values (`MCSwap`) setups are not permuted.

**Fairness.** `FairSpec` of `Reservations` and of `Borrow`: time passes, the
interval trigger starts the job again and again, a started job ends, and it does
not fail every time it could have gone on (strong fairness of its commit). This
is what APScheduler gives on a database that is not locked for ever. `FairSpec`
of `Routing`: a request that walks is not suspended for ever (weak fairness of
the turns of its loop), as a thread of the server is not; a walk ends although
edges form cycles and others are added while it runs. No fairness is assumed of
users. In `res_serial` every mail goes through; one that always raises is a
different matter: the
commit of the sweep is then never enabled (section 8).

## 5. Proofs

All theorems hold for every number of sessions, processes, setups, users, rows
and clock values. They rest on the named assumptions about the constants
(`ConstantsOK`, `BorrowConstantsOK`, `SwapConstantsOK`, `AccountConstantsOK`,
`RoutingConstantsOK`, `ExcelLogConstantsOK`; `InventoryConstantsOK`,
`NothingIsNothing`, `BooksOK`, `FirstTablesOK`), which TLC evaluates in every run,
and, where stated, on there being one session or finitely many schedulers.

**Reservations.** `TypeInv` is the type invariant and `References` (a row's setup
is in the table; what a session or job has read names rows that exist), which
already gives `NoReservationOrphaned`. `RaceInv` adds `Checked`: a session about
to insert has a window free of every row that existed when it looked; with
`OverlapTestExact`, that the code's two comparisons are exactly "some instant
lies in both", it gives `DoubleBookingNeedsRace`. `SerialInv` adds that with one
session nothing was inserted since the check: `SerialRequestsNeverOverlap` and
the refinement `SerialImplementsCalendar`. `NeverCompletedEarly` needs that what
a sweep has listed had ended; `ReservedHasReason` needs `Blind`, which says when
a sweeper's write of the status will vanish. `AnnouncedOncePerScheduler`, for any
finite number of schedulers, counts: the announcements of a row and the jobs that
have it on their list (`Pending`) are together never more than the schedulers,
since a row that one of them has written is on no new list.

**Borrow.** Every commit rewrites the table row by row, so one lemma, `RowStep`,
says what a row may become in one step (closed, expired, lent, returned, shown),
and the invariants are proved from it. `RaceInv` is the type invariant,
`ProcsKnow` (what a process has read of a request is still so in the parts that
never change), `GrantedWhenClear` (when `i` was approved no grant of its setup
was active, so far as `clear[i]` records), `CompletedIsHeld` and
`ExpiredWasOver`. With one session, `OneInv` adds `OneGrant` and `AboutToGrant`
(the setup of a session about to grant is free), which gives `LentOnce` and the
refinement `BorrowLends`.

**Swap.** `TypeInv` is the type invariant and `Proper`: a request names two
different setups. `HardwareConserved`: an approval whose reads are up to date
composes the arrangement of each column with a transposition, and a refused one
does so in the columns written to both sides; the lemma `ApprovalTrades` says
that both halves are always written together or not at all, since the column
that a template refuses is never a fixed one. `OriginalsSurvive`, while nobody
edits: `Remembers` (a recorded original is the initial value, and so is the
present one while none is recorded) and `SeesOriginals` (what an approval has
read of a setup was then, or is now, protected by a record) are inductive
together. `SwapExchanges`: with one session what was read is still so
(`UpToDate`), hence every step is an exchange or a correction of `Exchange`, or
changes nothing of it. From the same fact: `OriginalsSurviveEdits`, for what an
edit of one column records of the others has never changed (with several
sessions an edit that crosses two approvals may record a value in between); and
`LedgerIsComplete`, where the last entry of a cell gives its value (`Explained`,
which needs no CHOOSE), the entries are of requests whose columns both templates
have (`Common`), and what a setup holds `Fits` its template, so nothing is
refused half-way. Its hypotheses are what the code needs: a default, a refusal
after a written column and an exchange with an empty custom value all change, or
leave, values against the ledger. `swap_single` meets them.

**Accounts.** `TokenStep`, `LinkStep` and `AccountStep` say what any step may do to
a table: tokens are revoked or expire and at most one is added, and so on; one
lemma each takes them through every action. `AccountInv` adds to the type
invariant `Spent` (a token that was exchanged is revoked, a link that was
followed is used) and `Knows` (what a session that is about to exchange a token
or follow a link had seen: no child of it, so far as its `seen` goes). From
`Knows` come `RotationIsSingleUse` and `LinksAreSingleUse`; `ChangeEndsSessions`
needs that the revocation and the new password are one step, `OneLinkIsOpen` that
the invalidation and the insert are, `ExchangeAsksStanding` that the row of the
account is read under the lock. The second half is about the time until two
requests cross: `Lone` (one session runs) and `UpToDate` (what it has read is
still so) keep `Standing`, that each live token fits the present password and
that who is disabled, refused or not approved is out. `NobodyElseGetsIn` follows:
who is refused or not approved was never issued a token, who is disabled is not
active, and `get_current_user`, which asks for that flag, lets neither pass. The
disabled may keep a refresh token that is not revoked; `refresh` refuses it since
it asks for the standing. So does `AccountsImplementKeyring`: a step that crosses nothing is a step of
`Keyring`.

**Routing.** `RoutingInv` is the type of the tables with their foreign keys
(`TablesTyped`) and `Sound` for each session: what a walk has `seen` lies in every
closed set that has its group, and it is closed itself but for the groups still
`todo`, as long as `changes` is what it was (`Climbed`; `SiblingsSeen` for a
borrow). When `todo` is empty both halves together are the closure:
`WalkFindsClosure`. What was found is then who is entitled, which gives
`RoutedDecide` for requests and `DecisionsEntitled` for decisions.
`DeletionChecked` needs that the test of a deletion still holds while nothing has
changed.

**Inventory.** `IInv` has four parts. `TypesInv`: the tables have their types and
`Keys` (unique addresses and names, nothing refers to what is gone), and what each
request has flushed is `Working`. `TokensInv`: an upload is either waiting or with
one session. `PlacesInv`: as long as no two requests that change templates were
served at once, columns are `Ordered` in the table and in the `Template` that each
session sees. `AloneInv`: as long as nothing is committed after a request has
begun, an import has written the rows before its `k`-th with all required columns filled (`Done`,
`Filled`), while the others are still valid (`Imports`). The view of a session is
derived, so most lemmas say what `Write`, `Insert` and `AddColumns` make of
`View` and `Template` (`WriteViews`, `InsertViews`, `AddsInOrder`); then each
action has one lemma: a request that begins is `Started`, one that goes on is
`Carried`, and `BeginsStep`, `ContinuesStep`, `CommitStep` and `AtOnceStep` need
no more than that. A change made at once leaves part of the columns in their
places (`Thinner`). `ImportsAreWhole` is then read off a
commit, the only step that ends a request and changes a setup (`WhoWrites`).
The edit form needs a second invariant on top of `IInv`, `FormsInv`, which has no
clause for what others do: what a form was rendered from was in the table at that
moment (`FormOK`), and once it is saved each field it has written is the one that
was edited, or what the form showed, or NULL for an owner and a default for a
custom column, the present default as long as nothing was committed since
(`Current`, `Steady`; `ColsInv` keeps the ids of columns that are being inserted
apart). `FormSaves` and `FormSaved` follow the form through `Serialized`, and
`FormsWriteBack` reads `UneditedAsRendered` off the commit. `BooksOK` says that a cell is under a header of its workbook, `FirstTablesOK`
that the tables at the start keep their keys and have their columns in places.

**ExcelLog.** `ShortWorkbookWedges` goes through what a step makes of the job of its
thread (`JobSteps`) and of the workbooks (`BookSteps`): while the last workbook of
a month is short, whoever locates a file of that month finds it, it is never full,
and its load raises. `LogFilesInOrder` rests on `OrderInv`: `AppendersMet` (two
requests that append now are a pair of `overlaps`) and `ComesLast` (the file a job
has still to create comes after those of its month, but for files of requests it
has met), with `NextIsNext`, that the number given is above all others.
`TypesHold` is less obvious than other type invariants, since the numbers of
files are bounded by the number of requests: `TypeInv` adds that each request
creates at most one file (`OneFileEach`) and that the numbers of a month have no
gaps (`NoGaps`), and a pigeonhole argument (`Pigeons`, `NumbersFit`) bounds them.
`RowsAreKept` and `WorkbooksRotate` come from one invariant, `KeepInv`. The rows
a request has appended are in every image of its workbook, unless it met another
request or the workbook is broken (`RowsKept`). For that, what is about to be
saved must hold its own rows and all that its workbook has (`SavesKeep`), which
in turn needs that a request has no rows anywhere until it is done (`LogsLater`)
and that one that met no other finds an empty workbook, its own rows or room for
them where it expects them (`AloneWithBook`). A workbook has a second image only
while two saves of it cross (`Collided`, by `BoundTo`), and is broken only by
that or a crash; every batch in it that met no other was put on top of fewer
rows than the limit (`BooksSound`, `Bounded`). Of the sum of rows the proofs use
that of no batches, and that it depends on nothing but the rows of its batches.
TLC checked `KeepInv` on the instance of `excel_log` first.

**Only model-checked.** Liveness (`ExpiredIsReleased`, `StaleEnds`, `WalkEnds`):
the prover has no rule for fairness. Every other property of a passing run is
proved, in the generality each theorem states.

## 6. What the models leave out

- Users, roles and permissions are constants of `Reservations`, `Borrow` and `Swap`
  (`CancelAny`, `Owners`, `Holds`, `Deciders`, `Routed`): there they do not change
  during a behaviour. In `Routing` they do.
- Listings, filters, texts, audit rows, recipients of mail. That mail may raise
  and leaves before the commit is modelled.
- Reservations: only whole clock units; a window with a time-zone offset is not
  told apart from one in UTC.
- Swap: the start and end of a request are read by nothing, so they are absent;
  the API's `PATCH /setups` is the form saved as soon as it is opened; a template
  value that is equal to the one loaded is not written, as for a fixed column;
  templates do not change while requests are open; the columns are text inputs,
  which show what they hold (dropdowns, checkboxes and owners are in `Inventory`).
- Accounts: hashing, signing and the claims of a JWT; a role changed by an
  administrator (in `Routing`); an access token lives until nobody presents it.
- Routing: what a decision does to setups and grants (in `Swap` and `Borrow`).
  The test of a deletion asks for members by their primary group and for setups;
  memberships in `user_groups` go with the group unasked, and `DeletedWasEmpty`
  does not count them.
- Inventory: the status of a setup (in `Reservations`); names, formats and types
  of a column beyond the values it takes and those its input shows; more than one
  field edited in a form; a workbook is its headers and rows.
- ExcelLog: what a report contains; several processes with one directory behave
  as threads do, except that a crash then ends one of them only.
- A server database whose isolation lets two writers overlap.
- Announcements (but for the notice of an expiry), the audit trail, developer
  logs, configuration: one-table forms or no state, each with its reason in
  `PROJECT.json`.

## 7. Findings

`import_header`: the columns for new headers of a workbook are added under
normalised names, but its cells are looked up by the header as written. With a
header such as `Rack` every row that fills it is refused after the columns were
added, whereas `import_service.py:260-262` and `TESTING.md:219` say that the
import then proceeds with the expanded template.

`borrow_stuck_grant`: a cancellation (or the expiry) tests the PENDING it has
loaded and writes over the COMPLETED of an approval committed in between. The
grant stays active, `return_borrow` refuses a request that is not COMPLETED, and
nobody can borrow the setup again (`borrow_service.py:17`: "Returning closes the
grant, which restores the source group's access automatically").

## 8. Stated and not checked by a run

These statements are false of the models; those with a name are written down where
they belong, and each was found false while modelling.

- `StatusInSync`: closing one reservation writes `AVAILABLE` while another of the
  setup is ACTIVE; `models/setup.py:7` calls the column kept in sync.
- `ExpiryIsIsolated`: the sweep completes all expired reservations in one
  transaction that also sends their mails; one that raises keeps every other
  reservation ACTIVE, at each interval (`TESTING.md:332`).
- `ChangedOnceApproved`: an approval on the page whose template refuses a later
  column commits the columns before it, with the request still PENDING and no
  ledger row (`swap_service.py:12`).
- `NoOverlap` and `OneGrant` with two sessions: check, then insert,
  with nothing in the schema behind it. The theorems above say precisely how
  far they hold.
- `OnlyAllowedTransitions`: `update_status` does not consult the table.
- `ClosedIsFinal`: a status tested on a loaded row is written over one that has
  changed; decisions on swaps are overwritten in the same way.
- Fields not edited keep their values (`setups_view.py:577`,
  `IMPLEMENTATION_PROGRESS.md:157`: "Fields not edited keep their" baseline, which
  is set again for each field that changed). Saving the edit form writes the
  default of every dropdown and of every unchecked box over what the setup holds,
  and NULL over an owner or a group that is no option, with nobody else at work;
  `UneditedAsRendered` says that it writes nothing else.
- `auth_service.py:156-157` says that a token presented for refresh is revoked
  "regardless of outcome". The revocation is rolled back with the request that is
  refused (`RefreshRefused` changes no token), and no property excludes it.
- `AnnouncedIsBooked`: mail of `create()` precedes the commit.
- `LedgerExplains` with a template that has defaults: writing one column writes
  the others' defaults, which no ledger row records (`DEVELOPER_GUIDE.md:75`:
  "one `hardware_change_logs` row per changed field per setup").
- `TESTING.md:482` (SWP-10) and `SwapStatus` speak of swaps that expire; no code
  expires one, and nothing reads their end time.
