# MadHatter Rota: formal models

MadHatter is a Go web application that keeps the support rota ("the hat") of a
team: who wears the hat on each working day, who covers when the wearer is on
leave, who swaps which day with whom, and who works from home. State lives in
one SQLite file. Request handlers, the outbox worker and the schedulers are
goroutines of one server process; the command line and a second server during a
rolling restart open the same file. There is hardly a lock in the program and
few transactions, so what keeps it correct is the order of single SQL
statements, and that is what these modules are about.

Paths below are relative to `src/`.

Contents: [1 inventory](#1-inventory) - [2 modules and how they correspond to
the code](#2-the-modules) - [3 runs, bounds, fairness](#3-what-is-model-checked) -
[4 proofs](#4-what-is-proved) - [5 divergences](#5-where-code-and-documentation-disagree) -
[6 not modelled](#6-what-is-not-modelled) - [7 plan](#7-plan)


## 1. Inventory

| Component | State | Operations | Hard behaviours | What makes it correct |
|---|---|---|---|---|
| **Notification outbox** `internal/notify`, `internal/database/notification_outbox.go` | `notification_outbox`, `notification_preferences`; the worker's claimed batch | enqueue per event and recipient; claim, send, mark sent / failed / dead; unsubscribe and resume | crash or stop between send and mark; a snapshot that decides about a later UPDATE; two servers; email switched off over a restart; backoff at its limits | a row is settled once, as sent only if it went out; attempts stay in budget; copies accounted for by failed attempts and faults; every row settles |
| **HAT swaps** `internal/database/hat_swaps.go`, `internal/web/swap_handlers.go`, `internal/api/handlers_swaps.go` | `hat_swaps`, owners and `is_swapped` of `rota_assignments` | request, accept, reject, cancel, expire on view, admin delete, `swap reconcile` | checks made before the INSERT or the transaction; races of decisions; cover re-pointing under a swap; cascades | one pending swap per day; one decision per swap; owners move with a decision only; the table explains the rota |
| **Rota engine and maintenance** `internal/rota` | `rota_assignments` (originals and covers), `r1_rotation_state`, `cover_rotation_state` | generate, regenerate, EnsureSchedule, cover a leave, reconcile covers, reassign covers (command and startup) | runs of statements without a transaction; interleaved requests; crash halfway; generation in any order of dates | the hat goes round fairly; nobody on leave is left with the hat; no gaps; no stale covers; reassigning a steady rota is idempotent |
| **Leave management** `internal/database/leave.go`, `internal/web/leave_handlers.go`, `internal/api/handlers_leave.go` | `leave_records` | report, edit, delete, daily expiry | the rota changes each of them starts | as above |
| **WFH requests, settlement, quota** `internal/wfh/service.go`, `scheduler.go`, `recurring_materializer.go`, `internal/database/wfh_*.go` | `wfh_requests` | ask, cancel, withdraw, report today, mark, materialize contracts, settle, purge | free slots counted before requests are approved; quota read before the insert; rows withdrawn, revived and overwritten; requests against the scheduler | the office never falls below its floor; nobody passes the quota; an administrator's decision stands; every request is decided |
| **WFH picker and co-presence** `internal/wfh/service_picker.go`, `internal/database/wfh_co_presence.go` | `wfh_co_presence`, rows of origin `assigned` | pick who stays at home when seats are short; record who met whom | excess counted over several kinds of absence; a backfill over weekends | nobody sent home whose seat was not needed; the score knows the last days |
| **WFH swaps and reassignment** `internal/web/wfh_swap_handlers.go`, `internal/database/wfh_assignment_swaps.go` | `wfh_assignment_swaps` | offer, answer, cancel, expire; an administrator moves an assigned day | two statements that belong together; stale answers | an assigned day is given up through an administrator only |
| **Authentication, sessions, approval** `internal/auth`, `internal/web/user_admin_handlers.go` | `users`, `sessions`, `oauth_tokens` | sign in, approve, deny, deactivate, reactivate, promote, demote | several statements per request; stale pages; restarts between them; last administrator | an admin remains; no session for a pending account; nothing left of a denied one |
| **API and calendar tokens** `internal/api/server.go`, `internal/database/db.go` | `api_tokens`, `calendar_subscriptions` | create, revoke, authenticate, clean up | as above | as above, and feeds below |
| **Team administration** `internal/web/team_handlers.go`, `internal/api/handlers_team.go` | `team_members` | add, edit, activate, deactivate, remove with cascades | cascades under running requests | as Rota, HatSwap and Access say |
| **Backup and restore** `internal/database/restore_*.go`, `internal/web/backup_handlers.go`, `cmd/restore.go` | all tables; files staged under tokens; a mutex; an attached database | download, validate, stage, apply, from browser and command line | order of tables under cascades inside one transaction; tokens that expire; requests cancelled half way | what is committed is the file's data; a staged file is applied once; every restore ends |
| **Schema migrations** `internal/database/migrate.go`, `migrations` | `schema_migrations` | up, down, version | a failed migration leaves the schema dirty | the library's |
| **Holiday service** `internal/holiday` | the holiday store, the scheduler's goroutines | fetch at start, by tick, forced; stop | overlapping, failing and cancelled fetches; stop against a refresh | the store comes to hold what the feeds publish; nothing changes after the stop |
| **Rate limiter** `internal/ratelimit` | a bucket per address | allow, refill, Retry-After | fractions of tokens, whole seconds | never more than burst and refill; whoever waits as told gets in |
| **Calendar feeds** `internal/calendar`, `internal/web/calendar_handlers.go` | `calendar_subscriptions.last_used_at` | four feeds and pages, creation and cleanup of subscriptions | several queries under a changing rota; covers across the end of a range | a feed names whoever is on duty, once |
| **Web pages** `internal/web` | cookies for CSRF and flash | render, redirect | a page view starts EnsureSchedule and the expiry of swaps; a page is put together from many queries, each with its own rules | as Rota, HatSwap and Wfh say; the pages agree about today |
| **API server and shutdown** `internal/api/server.go` | contexts, goroutines | start, stop, daily cleanup | the worker is not waited for | as Outbox says |
| **Command line** `cmd` | none of its own | serve, schedule, leave, swap, wfh purge, backup, restore | a process next to the server's | as Rota, HatSwap, Wfh and Restore say |
| **Configuration** `internal/envutil` | none | read the environment | none | its values are the modules' constants |

**How they interact.** Every component talks to the others through the tables,
and nearly every one through three of them:

* `rota_assignments` is written by the rota engine, by accepted swaps, by the
  reconcile command and by cascades from `team_members`. Rota has an action
  `SwapDays` for what an accepted swap does to it; HatSwap has `ReadCover`,
  `RepointCover` and `RemoveAssignment` for what the engine does to it.
* `team_members` is read at the start of each engine request and again by
  foreign keys at each INSERT. Removing a member cascades into leaves,
  assignments, swaps and preferences.
* `notification_outbox` is written after each decision of the swap and WFH
  handlers, outside of their transactions, and drained by the worker.
* `wfh_requests` is written by members, administrators, the settlement scheduler
  and, through it or a calendar feed, the picker. A leave and a team change act
  on the floor and the seats at once.
* A restore replaces all of them; the holiday store decides for rota and WFH
  which days count.

The rota engine is also called by callbacks: a page view calls
`EnsureSchedule`, a leave handler `HandleLeaveChange`, `serve` runs
`ReassignCovers` before it listens, and a daily goroutine deletes expired leaves.

The hazards of the code, each at its line, are listed in `PROJECT.json`.


## 2. The modules

    Delivery <---- Outbox  <---- OutboxProofs        Rota <---- RotaProofs <---- RotaRepairProofs
     (abstract)      ^---------- MCOutbox              ^------- MCRota <---- MCReassign
    HatSwap <---- HatSwapProofs                      Wfh <---- WfhProofs
       ^--------- MCHatSwap                            ^------ MCWfh
    Restore <---- RestoreProofs                      Access <---- AccessProofs
       ^--------- MCUpkeep ----> Holiday                ^-------- MCServices ----> RateLimit,
    Holiday, RateLimit, CoPresence, Feeds,                        CoPresence, Feeds, Presence
       Presence <---- ServicesProofs

RotaRepairProofs also extends MCReassign, whose history variables tell one run of
ReassignCovers from the next.

Conventions shared by all of them:

* One action per database statement whose outcome depends on, or affects,
  another process; a run of code between two such statements is one action,
  because nothing it touches is shared. What a handler read earlier sits in its
  program state, so it may be stale when used.
* A transaction is one action.
* SQL constraints, triggers and cascades are part of the action of the
  statement that fires them.
* Any database call may fail and any process may die; both are counted against
  a bound where the bound is needed to keep TLC finite.
* Operators marked "Mutant" or "Mutation" are altered forms of the operator
  that follows. No action uses them. Substituting one for the original must
  break the property it belongs to, which shows that the property depends on
  that line of the code.
* `PROJECT.json` maps each definition to the lines it stands for.

### Delivery and Outbox

`Delivery` is the promise to the callers of the notifier: a submitted message
is tried some number of times, then settled for good as delivered (which it
then was) or abandoned. Delivery is at least once, never exactly once.

`Outbox` models the producers, the worker goroutine of each server, the
servers' lives and the tables.

| In the module | In the code |
|---|---|
| `outbox` | rows of `notification_outbox`; `due` is `next_attempt_at - now` |
| `disabled`, `team` | `notification_preferences.email_enabled = 0`, `team_members` |
| `emit`, `ready` | the loop of `ChannelNotifier` over recipients: `Notify`, `SkipRecipient`, `ResolveRecipient`, `InsertRow`, `DropRow` |
| `claimed`, `pc`, `cur` | `Worker.drain`'s batch, and where `dispatch` is: `Claim`, `UnknownChannel`, `StartSend`, `SendOk`, `SendFails`, `MarkSent`, `GiveUp`, `Retry`, `LoseMark` |
| `Backoffs` | `computeNextAttempt`, including the overflow of `time.Duration` |
| `life`, `emailOn` | `Server.Start`, `Stop` and the configuration of each start |
| `Unsubscribe`, `Resume`, `RemoveMember` | the unsubscribe pages and member deletion |

Abstractions: an event is the list of its recipients; a message has no text;
the mail server accepts or refuses, and `Send` may return an error for a mail it
had accepted, when the connection breaks before its answer. Ticks stand for
durations. Nothing in the code deletes outbox rows, and nothing in the model does.

The claim orders by the stored text of `next_attempt_at`. A fresh row has the
column's default (`2024-05-01 10:00:00`), a retried one an ISO value
(`2024-05-01T09:00:00Z`), so within a date every fresh row precedes every
retried one. `Precedes` has that order and leaves open which rows share a date.
A retried row can thus wait behind fresh rows that came later, but only those of
its own date, finitely many; the model has finitely many rows for the same reason.

### HatSwap

| In the module | In the code |
|---|---|
| `rota`, `swaps`, `members` | the tables; `swaps` is indexed in the order of `created_at` |
| `Validate`, `CheckOpen`, `RecheckRequester`, `RecheckTarget`, `Insert` | the web and API request handlers and `CreateSwapRequest`: five reads, and an INSERT under `trg_hat_swaps_pending_insert` |
| `Open`, `Reject`, `Cancel` | the decision handlers; the UPDATE has `AND status = 'pending'` |
| `LoadRequester`, `LoadTarget`, `Commit` | `ExecuteSwap` and `executeSwapTx`, which is a transaction |
| `View`, `Expire` | `CleanupExpiredSwaps`, before every rendering of the swaps page |
| `AdminDelete`, `RemoveAssignment`, `RemoveMember` | deletions, with `ON DELETE CASCADE` |
| `ReadCover`, `RepointCover` | `createCoverAssignment` of the engine: `is_swapped` is read, then checked again in the UPDATE |
| `StartRepair`, `CompareSwap`, `ApplySwap` | `support-rota swap reconcile --apply`, a process of its own |

Abstractions: who asks (authorisation) is a condition on nothing else here and
is left out, so any handler may take any decision; dates are the numbers
`DateOf`. `RemoveAssignment` lets an assignment go at any time, which is wider
than the engine (it deletes stale covers and the days of a range).

### Rota

Members are numbers because `GetActiveTeamMembers` orders by name and the
position in that order is the slot of the rotation. A handler's `todo` is the
list of statements its request has still to run, each with what was read before.

| In the module | In the code |
|---|---|
| `orig`, `cover` | `rota_assignments` with `is_cover` 0 and 1, by date (UNIQUE(date, is_cover)); `linked` is `original_assignment_id` not NULL |
| `r1`, `rotation` | the first row of `r1_rotation_state`; `cover_rotation_state`, with the columns of reassign runs in `reassign` |
| `BuildLeaveIndex`, `FindStale`, `DropCover` | `reconcileCoversForDateRange` |
| `GetDatesWithAssignments`, `GetMembers`, `DeleteAssignmentsInRange` | `GenerateMissingDays`, `GenerateSchedule`, `RegenerateSchedule` |
| `ReadLeaves`, `PickOriginal`, `DetermineCoveringMember`, `CommitCoverSlot` | `processDate` and `recordActualCoverSlot` |
| `InsertOriginal`, `AdvanceR1`, `InsertCover` | `createAssignment`: three statements |
| `HandleLeaveChange`, `LoadLeave`, `LoadTeam`, `EnsureOriginalAssignment`, `ReadOtherLeaves`, `PickLeaveCover`, `CreateCoverAssignment`, `RepointCover`, `UpdateLeaveStatus` | `HandleLeaveChange` and `assignCoversForLeave`, day by day |
| `Reassign`, `ReassignNext`, `Restart` | `ReassignCovers`, by command and at startup; it goes on past a failing leave |
| `ViewDashboard`, `GenerateDays`, `handleLeaveReportPost`, `handleReportLeave`, `EditLeave`, `DeleteLeave`, `handleTeamPost`, `handleAddTeam`, `DeleteMember` | the handlers of web, API and command line that start the above |
| `Tick` | midnight, and `startLeaveCleanup` |
| `WorkingDaysBetween`, `Turn`, `FindCover` | the arithmetic of the rotation over weekends and holidays, as pure operators |

Abstractions: `Working` stands for weekends and holidays together. The web form
reconciles covers before it assigns new ones and refreshes the schedule when a
member is added; the API (and the command line) only assigns, and refreshes
nothing. A request whose first write is also its first read of shared data
starts with it. Ids of rows are the least unused number.

`MCRota` adds a specification without midnight (`SpecOneDay`) for the run with
interleaving handlers. `MCReassign` adds what two runs of ReassignCovers are compared by:
`settled` is what the last run left behind, until anybody else takes a step,
`steady` says that the run in progress found a steady rota (`SteadyRota`) and was
not disturbed, and `scope` selects, for TLC, which requests a behaviour has.
`SpecHistory` is `Spec` with the first two; no action depends on them.

### Wfh

`rows` is `wfh_requests`: UNIQUE(member_id, date) makes a request the row of its
member and day. As in Rota, `work[h]` is the list of statements a goroutine has
still to run, with what was read for each.

| In the module | In the code |
|---|---|
| `handleWFHRequestPost`, `handleRequestWFH`, `handleWFHReportToday`, `CheckQuota`, `CreateWFHRequest` | asking for a day: checks, quota, INSERT or the revival of an old row (`resurrectOrDuplicate`) |
| `handleWFHCancel`, `handleWFHSelfWithdraw`, `handleWFHTodayOnSite`, `handleWFHOnSiteOnDate`, `handleWFHAdminWithdraw`, `handleWithdrawWFH` | `CancelWFHRequest`, `withdrawWFH` with its gate on the origin |
| `handleAdminMarkWFH`, `handleWFHAdminReassign`, `WithdrawAssignedWFHRequest` | an administrator overrules: two statements for a reassignment |
| `runSettle`, `materializeForMember`, `GetPendingForSettlement`, `settleDate` | `SettlePendingRequests`: contracts first, then dates in order, members by usage in the last period |
| `runPicker`, `orderByPickerPriority`, `Write` | `AssignWFHForDate` and `insertPicks` |
| `handleWFHSwapCreate`, `handleWFHSwapAnswer`, `handleWFHSwapCancel`, `AutoCancelExpiredSwaps` | swaps of assigned days |
| `handleWFHPurge`, `runWFHPurge`, `PurgePastPeriods` | purges by page, command line and settlement |
| `accounts`, `handleUserDeny` | the accounts of administrators. Deleting one clears `withdrawn_by` in the rows it names (ON DELETE SET NULL, `schema.sql:200`), and a withdrawal in the name of an account that is gone is refused by the foreign key |
| `CalendarFeed`, `handleWFHList` | reads that write: a feed materializes contracts and runs the picker |
| `ReportLeave`, `SetActive`, `RemoveMember`, `Tick`, `Fail`, `Restart` | the rest of the program, midnight, SQLite errors, restarts |

Abstractions: `Contract` is the set of recurring days of each member, fixed
during a behaviour, and `Permanent` is independent of it, where the code calls those
permanent whose contract has all weekdays (`internal/database/db.go:212`); ties between candidates of the picker that co-presence
would break are broken either way (CoPresence has the score).

### Access

| In the module | In the code |
|---|---|
| `HandleCallback`, `GetOrCreateUser`, `CreateUserAsFirstAdmin`, `EnsureTeamMember`, `StoreOAuthToken`, `CreateSession` | the OAuth callback, statement by statement |
| `handleTeam`, `page` | the team page and the buttons that stay on the screen while accounts change |
| `handleUserApprove`, `handleUserDeny`, `handleUserReactivate`, `handleUserDeactivate`, `handleUserAdminUpdate` | the buttons, with `requireAdmin` and the guards of the last administrator |
| `handleGenerateAPIToken`, `handleRevokeAPIToken`, `handleCleanupExpiredTokens`, `authenticateOptional` | API tokens |
| `Expire`, `DeleteExpiredSessions`, `Restart` | time, the hourly cleanup, a restart between statements |

Abstractions: an email address belongs to one person, who may sign in through
several providers; a browser shows one page; `lanes` is the number of requests
served at the same time, one or two.

### Restore

A table is a set of rows, a row an id and the references it holds. SQLite's
foreign keys are operators: `DeleteFrom` removes rows with everything that
cascades from them and clears the references of SET NULL, `Refers` is
`foreign_key_check`.

| In the module | In the code |
|---|---|
| `handleDatabaseBackup`, `runBackup` | `VACUUM INTO` a file, from browser and command line |
| `handleDatabaseRestore`, `storePendingRestore`, `consumePendingRestore`, `cleanupExpiredPendingRestoresLocked` | upload, validation and the staged file with its token |
| `handleDatabaseRestoreApply`, `TakeMutex`, `ApplyRestoreCandidate` | apply by token, or by a second upload, under the mutex |
| `runRestore` | `support-rota restore` |
| `prepareRestoreTransaction`, `copyTablesFromRestore`, `applyRestoreFromFile`, `detachRestoreDatabase` | ATTACH, BEGIN, one table after another, integrity checks, COMMIT, DETACH |
| `CancelRequest`, `Killed`, `RestartServer`, `Age` | a browser that goes away, a crash, a restart, tokens that expire |

Abstractions: files differ in kind, version, the tables they lack (`missing`),
whether they have a table of somebody else's (`extra`), and data; the schema is
the constants `Order` and `ForeignKeys`. `getRestoreTableNames` are the tables of
the upload, `Place` their order in its sqlite_master, taken to be the migrations'
own. `copyTablesFromRestore` names a table without its database: one that the
database has is the database's, one it lacks is restore_db's, emptied and filled
from itself; the statements succeed and the restore goes on without its rows.

### Holiday, RateLimit, CoPresence, Feeds, Presence

* `Holiday`: `periodicFetch`, `handleRefreshHolidays` and the start each spawn a
  fetch (`FetchStep`: look at `running`, fetch all feeds, store); `Stop` waits
  for them. `purpose` distinguishes the server's service from the one that
  `reassign-covers` makes for itself.
* `RateLimit`: a token bucket in whole units, so that one tick refills one unit;
  `Allow` and the middleware's Retry-After, rounded up to whole seconds.
* `CoPresence`: `BackfillCoPresence` walks back over calendar days and writes the
  pairs of each working day; `coPresenceScore` and `pickerCohortIDs` read them.
* `Feeds`: a personal feed, the feed of the others, the meetings feed and the
  day page, each with its queries as steps while `CreateRotaAssignment`,
  `UpdateAssignmentMember`, `DeleteRotaAssignment`, `DeleteTeamMember`,
  `SetMemberActive` and `ReportLeave` change what they read. Meetings are made
  day by day and each of them twice, as text and as HTML, with the members, the
  leave and the duty read again each time (`getPresenceForDate`,
  `leaveOnMeetingDay`, `GenerateMeetings`); the mark goes to a holder who is
  present, or to nobody (`NoOne`). `NoOne` is also "Unknown", the name of an
  inactive holder in the others' feed. The last day of the range is in the
  others' feed (`ToTheEnd`) and in neither of the other two (`BeforeTheEnd`).
  Subscriptions have their creation on first use, `Touch` and cleanup. Names stand
  for members, and the local and the UTC calendar are one.
* `Presence`: the pages that tell who is where today. The dashboard goes from
  `buildUserLeaveDates` (the badge of one viewer) over `EnsureSchedule` and
  `loadCurrentHAT` (the banner) to `buildPresenceList` (the matrix, read by
  `cell`); a calendar snapshot from `materializeRecurring` to `getHATForDate`;
  `handleGetPresenceToday` to `selectSupportMember`. `shown` holds what each has
  put on its page so far, `news` counts what happened besides. The dashboard passes over
  the error of a query and goes on with a default (`GoesOn`, `Asks`; `failed`
  remembers which), also with that of the member's own record (`noMember`); an
  error of EnsureSchedule ends it, and any error ends the other two. Rows that are
  pending, denied, cancelled or withdrawn are one state, which no page tells
  apart; a name stands for a member; today is a working day.


## 3. What is model-checked

| Run | Instance | Shows |
|---|---|---|
| `outbox_single` | one server, two rows, two members, an admin, batch 2, 3 attempts, two faults | a row marked sent was delivered (`SentWasDelivered`), attempts bounded (`RetryBudget`), copies beyond the first accounted for by counted failures and faults (`CopiesAreAccountedFor`), death only with attempts used up or without a channel (`DeadOnlyWhenExhausted`), growing delays (`RetriesBackOff`), and refinement of Delivery (`SettledOnce`) |
| `outbox_live` | one server, two rows, batch 1, one fault, fair | the fair Delivery is implemented (`SettledOnceAndEventually`): every mail is settled, also behind a full batch and behind fresh rows that the text order puts first |
| `outbox_admins` (violated) | one admin | pending approvals notify nobody |
| `swap_races` | two handlers, the cover scheduler, three days of which one a cover, two swaps, midnight | `PendingExclusive`, `DecidedOnce`, `RotaFollowsSwaps` under interleaving at every database call |
| `swap_deletions` | one handler, three members, deletions with cascades, one reconcile run | `CapturedPairIsLive`, `OwnersMoveBySwap`, `DaysAreConserved` |
| `rota_alone` | one request at a time, a team of three and a fourth member who may join, three days with a weekend, two leaves, three requests of which one may change the team, dashboards free; or three requests about leaves and swaps of one day and two runs of ReassignCovers | `ReportedLeaveIsCovered`, `EnsureRepairs`, `FairRotation`, `SteadyReassignIsIdempotent` |
| `rota_races` | two handlers interleaved, one working day, two leaves, three requests, one fault or crash | `RestartHeals` |
| `rota_reassign_twice` (violated) | one request at a time, four members, two days, two leaves, one failed statement, two runs of ReassignCovers | on a rota that is not steady the second run may choose other covers (`ReassignIsIdempotent`) |
| `wfh_alone` | three members, one permanently at home, one with a contract; two days, quota 1, floor 50 %, one seat; any three requests of all fourteen kinds, one at a time, among them the deletion of the one administrator's account | `FloorHeld`, `QuotaHeld`, `AdminDecisionStands`, `PickerStopsAtTheCap` |
| `wfh_races` | two members, two days, two handlers and the scheduler, two of them at a time and interleaved at every statement; two requests, the deletion of an account among them, and one fault or restart | `AssignedDaysStand`, and `PendingIsSettled` under fairness |
| `services` | Access with two people, two providers, five requests in one or two lanes; one client of the limiter over eight ticks; three members over eight days with a weekend; a client reading feeds about two members, or a page creating subscriptions, during two changes of rota, leave or team; two of three pages about two members, one with a contract, during two changes or failed queries | `SessionsAreAdmitted`, `NothingLeftOfTheDenied`, `AdminRemains`, `RateIsKept`, `ScoreKnowsTheLastDays`, `FeedTellsDuty`, `PagesAgree` |
| `upkeep` | Restore with three tables (a cascade, a self reference, a cascade in two steps), sound, empty and broken uploads, one that lacks a table and one with a table too many, two browsers or a browser and the command line on one connection; Holiday with two feeds and two overlapping fetches | `RestoredIsTheBackup`, `TokenIsSpent`, `RestoreEnds`, `QuietAfterStop`, `FeedsArrive` |

Each module's type invariant is checked along, but those of HatSwap, which is
proved, and of Rota, whose properties fail to evaluate when a row has not its
shape.

**Two runs check several components side by side.** `MCServices` and `MCUpkeep`
combine modules that share no state: `part` chooses one at the start, and only
that one takes steps. This is the union of the separate state spaces, never
their product, and claims nothing about interaction.

**Why the bounds suffice.** They are chosen so that each hazard fits and one
more of its kind adds only repetitions.

* *Outbox*: three attempts give a first, a middle and a last one, so the delay
  doubles once and meets its cap. Two rows and batches of one or two cover a
  full and a half full batch and a row that waits behind another. Two faults
  let a crash hit the recovery of an earlier fault. `Horizon` limits how long a
  row is known to be overdue, which only the claim's order depends on.
* *HatSwap*: a race needs two handlers; a chain of swaps needs three
  assignments and two swaps; a cover among them brings in the scheduler; days
  before and after midnight need two dates. The proofs of section 4 lift these
  bounds for four of the properties.
* *Rota*: with three members the search for a cover has to walk past one that
  is away, and may find none. Two leaves can overlap in one day, where the
  cover of the first is the owner of the second. Three days with a weekend in
  the middle tell calendar from working days. Handlers race for one day at
  a time, so `rota_races` has one and spends its states on a third request. For
  two runs of ReassignCovers to differ, the choice of one day must shift the
  turn of another: two days and two leaves, after a swap so that one member has
  to be replaced on both, or with a fourth member who is free on both. `scope`
  keeps these behaviours from multiplying with the others.
* *Wfh*: three members are needed for one above and one below the floor next to
  one who is always at home; two days are a period whose quota one of them
  uses up, and today and tomorrow for midnight. Three requests suffice to get a
  day, lose it and ask again. Races need two goroutines, and a stale step of one
  is stale after a single statement of the other.
* *Access*: the last administrator takes two people, and a denied account that is
  signing in takes its own request and an administrator's. Five requests are, in
  a database that has its first user: a sign-in, an approval, a promotion and two
  acts on stale pages. In an empty one they leave room for both first sign-ins.
* *Restore*: three tables in a chain have the cascade of a cascade that the
  transaction's order must survive; two restorers race for a token and for the
  mutex. The proofs lift these bounds.
* *Holiday*: two fetches overlap, two feeds make a partial failure. *RateLimit*:
  a capacity of two and a price of three units give every remainder. *CoPresence*:
  eight days have a weekend in the middle and at either end of the walk. *Feeds*:
  two changes hit the gap between any two queries of a feed twice, and the first
  may be undone or built upon by the second. That the query for covered days is
  needed besides the list shows where the cover is the one who asks; with a third member
  it shows in more ways, which the proof includes. *Presence*: a
  leave with its cover, a withdrawn day with anything else, or a failed query with
  a change, takes two; what the pages tell of one member depends on no third.

**Symmetry** is used over rows, over members where no order of theirs matters
(HatSwap; never in Rota, where members are ordered) and over handlers, and in
no run with a liveness property.

**Deadlock** is checked in every run but `services` and `upkeep`, where a
component that has used up its bounds (requests, ticks, changes) really stops.
Elsewhere no bound stops time in the outbox and in WFH or the views of pages in
swaps and rota, and a request that has begun always has a next statement or a
reply.

**Fairness.**

* *Outbox*: `Worker.Run` polls for ever, so a claim that stays possible is made
  (`WF Claim`); within a batch the loop goes on by itself (`WF Dispatch`, `WF
  Mark`); a process that is down is started again and a cancelled one exits (`WF
  Start \/ Exit`), by the container's supervision; time passes (`WF Tick`). `WF
  Send` is an assumption about the mail server: `Send` sets no deadline, so a
  server that accepts a connection and never answers stops the worker, and with
  it the liveness shown here. Producers, members and administrators are under
  no obligation.
* *Wfh*: the ticker fires for ever and its goroutine, once it has begun, runs on
  (`WF Settlement` for the scheduler's goroutines only).
* *Restore*: a handler's goroutine runs on (`WF RestoreStep`), and the mutex is
  handed to every waiter in the end (`SF TakeMutex`): `sync.Mutex` is fair after
  a millisecond of starvation.
* *Holiday*: fetches have a timeout and so end (`WF FetchStep`), and the daily
  ticker fires (`WF periodicFetch`). `FeedsArrive` asks besides that the feeds
  stay reachable; administrators refresh a bounded number of times.
* Swaps, the rota, access, the limiter and the feeds make no progress by
  themselves, so they have safety properties only.


## 4. What is proved

TLAPS proves these for every value of the constants that meets the modules'
assumptions: any number of rows, members, assignments, tables, servers or
handlers, and any limits. Where a theorem speaks of one server, one handler or
one request at a time, that is its hypothesis, and the text says what fails
without it.

**Outbox** (`OutboxProofs`), assumption `OutboxAssumption`: positive batch,
attempts and delays, user ids that are not member ids, finitely many rows.

* `TypeCorrect`.
* `SentImpliesDelivered`, for any number of servers: a worker that is about to
  mark a row as sent has delivered it (`AcceptedWasDelivered`), and `delivered`
  never decreases.
* `OneServerInvariant`, for one server. `RetryBudget` is not inductive: whether
  an attempt is the last is decided on the snapshot of the claim, while the
  UPDATE increments the row. So the invariant adds `ClaimsAreFresh`: rows
  claimed are still pending with the attempts of the snapshot, and nothing but
  the worker's own marks changes them. With two servers this is false, and so is
  the budget. `CopiesArePaidFor` bounds the copies of a mail by its counted
  attempts, the faults and its `Credit`: one when the row is sent or the answer
  of `Send` is about to be marked, minus one while a worker whose stop was
  already counted is still sending it. That rows not yet drawn have no attempts
  (`UndrawnAreUncounted`) goes with it.
* `AttemptsAreBounded` and `CopiesAreBounded` follow, and so does
  `RowsDieExhausted`: `GiveUp` decides on the attempts of the claimed copy, which
  by `ClaimsAreFresh` are those of the row.
* `RetriesArePostponed`, for one server: a row that goes back to pending is due
  in the backoff of its attempt. Its hypothesis `Doubling` says that the
  schedule of the constants doubles up to its cap before it overflows, which is
  the range the code's own limit on attempts keeps it in.
* `OutboxImplementsDelivery`: initial states map to initial states, and each
  step to a step of Delivery or a stutter, under the mapping `Verdict`. One
  server is needed: two would confirm a message already abandoned.

**HatSwap** (`HatSwapProofs`), assumptions: the bounds are numbers, covers are
assignments with dates, there are finitely many assignments and members, `None`
is no row.

* `TypeCorrect`.
* `PendingSwapsAreExclusive`, from `SwapTableInv`: types, `FreshIds` (rows not
  yet inserted are absent) and the property itself. Only `Insert` creates a
  pending swap, and there the trigger refuses busy assignments; the earlier
  check of the handler plays no part in the argument.
* `DecisionsAreFinal`: each write of `swaps` changes pending rows only, inserts
  under a fresh id, or deletes.
* `OwnersMoveOnlyBySwap`: an assignment changes its owner by an accepted swap, a
  repair or, for a cover not yet swapped, the engine.
* `CapturedPairsAreLive`, for one handler and before any repair: the owners a
  pending swap captured still own its days, covers aside. The invariant adds
  that what the handler has read for a swap is still so at its INSERT, and the
  trigger keeps two pending swaps off one day, so no other decision can move an
  owner. With two handlers it is false (section 5).
* `SwapsConserveDays`, for one handler: a swap of two days that are no covers
  leaves every member as many days as before. It rests on
  `CapturedPairsAreLive`, since the transaction writes the captured pair without
  looking again.
* `SwapsExplainTheRota`, without deletions and repairs, from `HistoryInv`. It
  adds `PendingIsNewest`: among the swaps of an assignment a pending one is
  the last inserted, so accepting it makes it the newest accepted one. Covers
  are re-pointed only while not swapped, and an assignment of an accepted swap is
  swapped for good.

**Restore** (`RestoreProofs`), assumption `RestoreAssumption`: in `Order`, the
order of sqlite_master, a table comes after the tables it refers to (or refers
to itself), as the migrations create them; what is restored keeps its
references inside the schema.

* `RestoreTypeCorrect`. The work is in the lemmas on deletion: the rows doomed by a
  DELETE are a closed set, and what is left holds references of its own table.
* `RestoredIsTheFile`. `RestoredIsTheBackup` speaks of finished copies only, so
  the invariant is `CopiedSoFar`: while a restore copies, the tables that are
  `done` equal the file's, and every other has at most rows of the database
  (`KeptFrom`), which does not change meanwhile because one connection writes at
  a time (`OneWriter`). A DELETE cascades from a table to tables
  that come later (`CascadesGoDown`, where the set of all rows at or below the
  table is closed under the foreign keys, hence contains the smallest closed
  set), and so spares those already done (`DeleteFromSpares`). This is the
  reason why a PRAGMA without effect does no harm, and why a future migration
  that lets an early table refer to a later one would.
* `TokensAreSpentOnce`, from `TokensApart`: a token not yet handed out stages
  nothing, and who holds a token has taken it out of the map under the lock,
  so nobody else holds it.

**Access** (`AccessProofs`), assumption `AccessAssumption`: finitely many people,
some provider, room for at least one account, and `None` is no account. One
inductive invariant, `IInv`, serves all four theorems.

* `TypesHold`.
* `TheDeniedAreGone`, for any number of requests at the same time: every table
  of credentials is written under a foreign key, and ids are not used twice
  (`IdsAreFresh`).
* `OnlyTheAdmittedHaveSessions`, with one lane. `StatementsHold` says that what a
  statement relies on, read by an earlier one, is still true: the account about
  to get a session is active, the `is_active` about to be written back is the
  one in the row. `OneAtATime` and `InOrder` (after a statement that changes
  accounts a request only writes the team member) make that inductive.
* `AnAdminRemains`, with one lane. For a demotion or deactivation `StatementsHold`
  carries from the guard to the UPDATE that another administrator exists
  (`Spared`). Denial has no guard at all: the button on a stale page could remove
  an administrator who was pending when the page was loaded. It is safe because
  the one who presses it is an administrator and never denies himself, and that
  rests on `PagesDenyOthers` and `OneAccountEach`, the UNIQUE email.

**Wfh** (`WfhProofs`), assumptions: the constants have their
types, members and goroutines are finitely many, and `None` is no row.

* `TypeCorrect`: the tables, and each statement on the list of any goroutine with
  all that it has read.
* `AssignedDaysAreKept`, for any number of goroutines. The question is which statement,
  decided before a day was assigned, may still overwrite it. `AssignedInv` says
  that none of those on any list can: the rows that a settlement decides and a
  member withdraws were read with another origin, and a row of another origin
  never becomes an assigned one (`NeverAssigned` is stable). It holds as long as
  no account of an administrator was deleted: after that a member can revive an
  assigned day that was withdrawn, as a row to be decided again.
* `AdminDecisionIsFinal`, `QuotaIsKept`, `FloorIsKept` and `CapIsReached` with
  `MaxBusy = 1`: one request or settlement at a time, since all four are false for
  two (section 5). They share `WorkInv`, which says what a statement relies on:
  the list holds statements in the order its handler wrote them (`InOrder`), an
  administrator's withdrawal stands against what is still to be written
  (`WorkRespectful`; up to the deletion of the administrator's account, where the
  row stays withdrawn and loses nothing but the name), the INSERT or the revival still fits the quota that was
  read (`QuotaChecked`), the slots counted for a date cover the approvals still
  to be made (`FloorKept`), and so do the seats for the picks (`CapKept`).

**Rota** (`RotaProofs`, `RotaRepairProofs`), assumptions: numbers and types of the
constants, finitely many members, leaves and handlers, `None` is no row.

* The operators, for every team and calendar: a list made by `Ranked` holds each
  element once, so `PerDay` runs each day of its set; `SlotOf` and `At` are inverse
  to each other; working days add up over adjacent intervals, also backwards, so
  turns computed from any stored position are as many slots apart as there are
  working days (`TurnsAreSlots`); `FindCover` names a member who is not away, or
  nobody when all are away.
* `RequestsAreTyped`, for any number of handlers: a statement on a list carries
  the fields that its action reads, with dates inside the calendar.
* `HatGoesRound`, for one handler and while nobody changes the team and no
  statement fails. The invariant `FairInv` says that an original not swapped is
  the member whose turn it is by the first row of `r1_rotation_state`, that
  a choice still to be written will be too, and that the first row is written
  before a second choice is made. With two handlers it is false: both may find
  no row, and each starts the rotation at its own date with slot 0.
* `TablesAreTyped`, for any number of handlers, from `TablesInv`: the rows of all
  tables have their types, a cover that names an original has one on its day,
  and so have the rows that an edit is about to write.
* `EnsureScheduleRepairs`, for one handler. While an EnsureSchedule runs, `EnsureInv`
  says of every coming day of its window that it is assigned, or a statement of
  the list leads to its original (`Assigns`), and that its cover is not stale,
  or a statement of the list leads to its deletion (`Clears`); and that what a
  statement has read still holds (`Sound`). An empty list then leaves the first
  alternatives. With two handlers it is false: a day found assigned is wiped by
  a regeneration before EnsureSchedule ends.
* `ReportedLeavesAreCovered`, for one handler, and `RestartsHeal`, for any number, from
  one invariant, `CoverInv`. While a leave request or the startup reassignment
  runs, every coming day of each leave it is for is settled, or the leave is
  still on the list of leaves, or a statement sees to the day (`Sees`); and what
  each statement has read is still `Current`: the away set of a day, the team
  the cover is chosen from, that the cover chosen is not away. An edit is the one
  statement that would make the others stale, and it comes first
  (`EditsFirst`). `Exclusive` is why `RestartsHeal` needs no hypothesis: nobody else
  has a statement to run while the startup reassignment has. A leave request
  has no such protection, and with two handlers `ReportedLeaveIsCovered` is false: a day
  generated at the same time, by a request that read the leaves before this one
  was stored, gets its original after the leave request has found none.
  Midnight, failed saves of the cover's slot and leaves that overlap are
  covered by the proofs.
* `SteadyReassignmentsRepeat`, for any number of handlers, over `SpecHistory`. What a run
  reads and never changes is `World`. A run passes through points: the leaves and days
  to come, the position, the choices so far. `Following` computes the next point
  from the world and a point alone. `InRun` says where between two points a run is,
  and each statement leaves it at its point or takes it to the next (`Moves`,
  `RunMoves`). The invariant `SteadyInv` remembers the points the first run
  passed (`Trail`). Every point the second run passes is one of them, so it ends
  where the first ended; `Kept` and `Recalls` relate the covers to what the first left
  behind, on the days chosen again and on those still to come. No induction is
  needed over the length of the run: the set of points passed is closed under
  `Following`, except at the end. A steady rota is why no day is held by a cover
  who is himself on leave, the one choice that depends on the covers; without
  it the property is false, as `rota_reassign_twice` shows.

**Rate limiter** (`ServicesProofs`), assumption `RateAssumption`: the constants are
positive numbers and `NoBucket` is no bucket.

* `TheRateIsKept`. `Paid` says that for every tick `s` so far, the requests let in since
  then and the credit left now were paid by the capacity and what came back
  since `s`; `Kept` that whoever was refused has the missing credit by the time
  it was told to come back, rounding included. A tick refills exactly what
  passes, so idle time earns no more than the capacity.
* Sums over ticks are a fold of the community modules. That it adds up
  (`TotalTakesAny`, `TotalAgrees`) would be an induction over sets; it is proved here
  from a smallest counterexample, a member of a finite family of sets with no
  smaller one in the family (`SmallestOfFamily`).
* `RateTypeCorrect`.

**Co-presence**, assumption `CoPresenceAssumption`, with a retention of three days or
more, as the code's default of seven is.

* `BackfillIsKnown`. `WalkedDays` says that every day an undisturbed backfill has left behind
  has its rows, `CohortInHand` that what it holds is the cohort of the day it is
  at. That the walk over calendar days reaches every one of the last working
  days counts them: working days are enumerated over weekends (`WorkingDay`), so a
  day that were too far back would have too many between it and today
  (`LastDaysAreVisited`).
* `CoTypeCorrect`.

**Feeds**, assumption `FeedAssumption`.

* `FeedsTellDuty`, for any interleaving of a feed's queries with changes of rota, leave and
  team: no feed names two people for one day in one place, and one made without a
  change in between names whoever is on duty, the text and the HTML of a meeting
  if he is present. The
  rota has one original and one cover a day, pairs point at each other and
  outlive each other as the cascades say (`RotaSound`, `WellPaired`). `ReadSoFar` says what a client
  has: a list feed such a set of rows, which is the rota itself as long as nothing has
  changed (`ListSoFar`), and then suppressing the originals that have a cover leaves
  exactly those on duty (`SuppressedIsDuty`, `DutyIsTold`); a meetings feed the lines of the texts already
  written, and the members of the query it is at (`MeetingsSoFar`). On a
  sound rota a day has one holder, so the mark is no choice (`TheMark`).
* `FeedTypeCorrect`.

**Presence**, assumption `PresenceAssumption`: finitely many colleagues, and `Nobody` is none.

* `PagesTellTheSame`. A page reads the day in pieces, so the invariant remembers the days there
  have been (`Remembered`): what a page nobody interrupted has put together so far is what its
  queries tell of the day as it was (`DashboardOf`, `CalendarOf`, `ApiOf`, each up
  to the query the page is at), and a day is the same for all who saw it. What
  the dashboard has from a query that failed is left out of it, so that the
  parts which need no failed query are shown to agree.
  There is a lemma for each query; that the finished pages agree is then a fact
  about one day (`RememberedPagesAgree`).

**Holiday**, assumption `HolidayAssumption`.

* `StoreIsQuietAfterStop`, for any number of feeds and goroutines: once Stop has returned,
  whatever fetch is still there has not looked at `running` yet
  (`FetchesAreWaitedFor`), and will find it false.
* `HolidayTypeCorrect`.

**Only model-checked**:

* `ReassignIsIdempotent` of Rota is the claim that the code contradicts
  (`rota_reassign_twice`); what is true of it is proved as `SteadyReassignmentsRepeat`.
* The types of Presence's pages, whose bound on `news` counts what the pages
  themselves add, and `ServicesTypeOK` and `UpkeepTypeOK`, which put the types of
  components that do not interact side by side.
* Liveness under fairness, with ENABLED, is beyond the prover: `SettledOnceAndEventually`,
  `PendingIsSettled`, `RestoreEnds`, `FeedsArrive`.
* So is induction over data by the library's theorems. Where a proof needs one, as
  for the limiter's sums, it takes a smallest counterexample instead; the order
  in which a settlement ranks members is taken as any order that the code's
  comparison allows.


## 5. Where code and documentation disagree

With a run that shows it:

* `outbox_admins`: pending approvals look users' ids up as team members' ids,
  and so never notify an administrator (`internal/notify/channel_notifier.go:136`).
* `rota_reassign_twice`: two runs of ReassignCovers on the same leaves are said to
  produce the same covers (`internal/rota/reassign.go:33-35`, `engine.go:566-567`).
  When the first finds a cover who is on leave himself, because the request for
  his leave failed halfway, it replaces him; that choice moves the position from which
  the next day is chosen. The second run finds nobody to replace, starts the next
  day from another position and chooses another cover for it
  (`internal/rota/engine.go:837`). On a rota in which nobody covers a day of his own leave
  who could be replaced, the runs agree (`rota_alone`).

Without a run of their own, modelled as the code has it:

* *Outbox*: a comment says the claim is atomic, by bumping `next_attempt_at`; the
  query is a SELECT, and two servers mail the same row
  (`internal/database/sqlc/notification_outbox.sql.go:24`). From 30 attempts on
  the delay overflows and the row is due at once
  (`internal/notify/outbox_worker.go:186`); within the default of five it
  cannot. Rows queued before an unsubscribe are mailed after it
  (`internal/web/unsubscribe_handler.go:155`); the resume form posts an empty
  token (line 157).
* *Swaps*: README.md:612 calls reconcile idempotent. It is for one swap, but not
  for swaps that share a day (`internal/database/hat_swaps.go:817`).
  `executeSwapTx` trusts that the captured pair was verified (line 405); the
  ownership checks precede the INSERT, so another accept in between leaves a
  stale pair. `CapturedPairIsLive` holds for one request at a time. A swap opened
  just before midnight UTC is accepted just after it.
* *Rota*: EnsureSchedule "fills any gaps", except a day whose owner was removed
  while somebody covered it (`internal/rota/maintenance.go:158`).
  `r1_rotation_state` has no key, so INSERT OR REPLACE appends and the reader
  keeps getting the first row, where a comment expects at most one
  (`internal/database/rota.go:196`); the rotation is still fair, since the first
  row is as good an anchor as any. On a fresh database the row that holds the
  position of reassign runs is never created: its columns are NOT NULL
  (`migrations/000017`), INSERT OR IGNORE skips it, and no migration made them
  nullable, though a comment says 000021 did
  (`internal/database/rota.go:163-172`). A leave that is moved reconciles only
  its new range. A removed cover, or a leave reported while a cover is chosen,
  is put right by the next restart only (hence `RestartHeals`). Two dashboards
  that fill the same day: the second gets an error from UNIQUE. Members added
  through the API refresh no schedule.
* *WFH*: floor, quota and an administrator's withdrawal hold for one request at a
  time; two settlements, or two requests of one member, can pass the checks
  together, and a stale withdrawal by the member replaces the administrator's
  (`internal/database/wfh_crud.go:105`). The comment there says that a day an
  administrator withdrew cannot be revived. It can when his account is deleted
  (`handleUserDeny` deletes any account): `withdrawn_by` is set to NULL
  (`schema.sql:200`), and `isUserResurrectable` (line 163) takes the row for one the
  member withdrew. An assigned row revived so becomes an ordinary pending request that is
  counted neither as assigned nor as voluntary. A stale denial overwrites any status
  (line 562). The picker's comment says its candidates have no row for the date
  (`internal/wfh/service_picker.go:167-170`); only approved rows are looked at
  (line 187), so a member with a withdrawn row is picked at every tick and never
  inserted. A reassignment is documented as one transaction and is two
  statements (`internal/wfh/service.go:914-936`). A settlement with nothing
  pending returns before it expires swaps and backfills co-presence
  (`internal/wfh/service.go:497`), on which the comment in
  `internal/web/wfh_swap_handlers.go:337` relies. An accepted WFH swap moves no
  day. The cohort of the picker is cut to three members, where a comment speaks
  of a fallback.
* *Co-presence*: "the last 7 working days" are the working days among the last 13
  (`daysBack` counts down but never ends the loop), which a retention below
  three days would turn into fewer than promised; rows are never pruned, since `PruneWFHCoPresenceOlderThan` has no caller.
* *Access*: the guard of the last administrator counts those there are, while its
  comment speaks of those that would remain
  (`internal/web/user_admin_handlers.go:126-129`); it is equivalent for one
  request at a time, and two administrators who deactivate each other at once
  both pass. `UpdateUser` writes back an `is_active` it read before. Any sign-in
  while no active administrator exists becomes the first administrator. A stale
  denial deletes an account approved meanwhile. API tokens are honoured without
  a look at `is_active`.
* *Restore*: PRAGMA foreign_keys = OFF has no effect inside the transaction
  (`internal/database/restore_apply.go:92`); section 4 says why no harm is done.
  An upload straight to "apply" is not checked for a header, as the validation
  page and `cmd/restore.go:56-62` check it: an empty file counts as a database
  of version 0, is migrated, and leaves every table empty. A restore that fails leaves `restore_db`
  attached to its connection, on which the next restore fails. A file of the
  same version is not compared table by table
  (`internal/database/restore_validation.go:162-170`): when it lacks a table, the
  database keeps its own rows of it, less what the cascades take, and when it has
  one the database lacks, those rows are dropped in silence; both restores commit
  and report success. A request
  cancelled between COMMIT and DETACH reports a failure after it has restored.
  `restoreBusy` can never be seen set. Staged files survive a restart on disk.
* *Presence*: the lists of GET /presence/today are called a partition
  (`internal/api/handlers_presence.go:80`), but a member on leave who also has an
  approved WFH day is in two of them, and a member who withdrew a contractual day
  is still at home, whom the dashboard and the calendar have in the office. The
  banner of the hat "must agree with the matrix" (`internal/web/dashboard.go:20`);
  when the owner of a covered day was removed, the matrix names the cover and
  the banner is missing. When one query fails the dashboard goes on without it
  (`internal/web/dashboard_data.go:112-113`, `157-158`, `198-201`, `729-731`;
  `dashboard_matrix.go:208-211`): a viewer on leave then has the badge of the
  office, or the banner names the owner where the matrix has nobody or the cover.
  `PagesAgree` holds the parts to each other that need no failed query.
* *Holiday*: a feed that fails drops its holidays when another one answers. A
  forced refresh runs in the context of its request, which ends with the
  response. A fetch that was overtaken stores older holidays. The startup
  reassignment (and the command) asks a service whose first fetch still runs
  (`cmd/root.go:361`, `378-413`), so covers may land on holidays;
  `ReassignDay` has this and no property denies it.
* *Feeds*: the comment on the day page (`internal/web/calendar_handlers.go:352-354`)
  says it touches the subscription; it does not, so a subscription used through
  that page alone is cleaned up as stale. Feeds read the WFH days before they run
  the picker. The text and the HTML of one meeting may mark two people when the rota
  changes in between (`internal/calendar/meetings.go:650-657`). A personal
  feed lacks the last day of its range: the query compares datetime text with a
  plain date (`internal/database/sqlc/rota_assignments.sql.go:382`).


## 6. What is not modelled

* The text of mails, pages, feeds and logs, the colours of members.
* Requests of the command line or of a second server during the startup reassignment.
  Rota lets no request begin meanwhile (`Begin`), as the server itself does not listen yet:
  `RestartsHeal` is about such a restart.
* Who may press which button outside of Access: in the other modules any handler
  may take any step.
* The sign-in's redirect and state cookie, the development login.
* Editing of recurring WFH patterns and of the permanent and exempt flags: they
  are constants of Wfh. Purges with a cutoff after today.
* Sick leave's guard against duplicates and leave categories: they select which
  form is shown.
* `golang-migrate` and SMTP: external libraries. SMTP appears as the outcome of
  Send.
* SQLite itself: statements are atomic and durable, transactions serialisable.
* Templates, what the dashboard tells of other days, CSRF, flash messages and configuration have no
  state that anything else depends on.


## 7. Plan

Done: Delivery and Outbox, HatSwap, Restore, Access, Wfh, Rota, Holiday, RateLimit,
CoPresence, Feeds and Presence, all with proofs.

Left: a composition of HatSwap and Rota over one assignment table, in place of the
two modules' summaries of each other (`SwapDays`, `ReadCover`), and one of Wfh with
CoPresence, so that the score decides between candidates.
