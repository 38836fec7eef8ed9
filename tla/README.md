# Formal model of ego-trainer

ego-trainer ("Cogito") is a Python course platform: a FastAPI server over SQLite
(`ego_server/`), a checker library (`ego/`), a terminal client (`ego_tui/`), a VS Code
extension (`vscode-ego/`), an administrator's console (`admin-ui/`), a student page
(`ego_server/static/`) and the course content (`docs/tasks/`). This directory holds TLA+
modules of its concurrent and stateful parts, TLC configurations that check them on
small instances, and theorems about them that TLAPS checks for every instance. Paths
below are relative to the repository root.

## 1. Inventory

| Component | State it keeps | Operations | What must hold | Modules |
|---|---|---|---|---|
| **AI tutoring and billing** `ego_server/ai.py`, `routers/ai.py`, `ai_schema.sql` | `ai_accounts`, `ai_credits`, `ai_submissions`, `ai_sessions`, `ai_messages`, `ai_requests`, `ai_usage` | read account (which recovers interrupted requests), access, credit, submission, session, message (reserve, two model calls, deliver, settle) | the books balance; money is held before it is spent; one turn of a dialogue at a time; a defense passes three stages in order or fails on two refusals; nothing stays locked | `Tutoring`, `Wallet`, `Defense` |
| **Forgejo sign-in** `routers/forgejo_auth.py`, `forgejo.py`, `cli.py` | `oauth_flows`, `external_identities`, `forgejo_link_approvals` | start, authorize, callback, exchange, approve, link | one token per attempt, for the person who signed in; subjects and accounts one to one; equal names never link | `ForgejoServer`, `Handoff` |
| **Editor sign-in** `vscode-ego/src/forgejoFlow.ts`, `forgejoLogin.ts` | waiting attempts | start, browser, poll, callback, cancel | attempts do not mix; nothing after a cancellation; every attempt ends | `ForgejoLogin` |
| **Users, roles, local sign-in** `routers/admin.py`, `routers/auth.py`, `deps.py`, `cli.py` | `students`, `mentor_grants`, the list on the page | register, appoint, demote, create, delete, list | only mentors appoint mentors; a deleted account stays off the page | `Users` |
| **Content sync, Task Studio** `sync.py`, `routers/admin.py`, `entrypoint.py` | three files per task, `tasks`, `task_versions`, stale marks | walk, validate, save, roll back, restore, start | versions only grow; a save is whole or undone; a crash leaves files that start | `Content`, `ContentVersions` |
| **Checks and progress** `routers/check.py`, `routers/progress.py`, `ego/cli/check_cmd.py`, `offlineCheck.ts`, `cmdPush` | `progress`, `runs`, `.ego/progress.json`, run logs | check offline and online, save, log, push | a solved task was solved; attempts count runs; "pushed" is true | `LocalChecks` |
| **Service settings** `service_settings.py`, `routers/admin_settings.py`, `Settings.svelte` | one row with a revision; the forms | load, edit, save, draft, sync | no save is lost; replaced keys never return; locks hold | `ServiceSettings` |
| **Administrator's assistant** `assistant.py`, `routers/admin_assistant.py`, `Assistant.svelte` | `admin_chat_*`; the panel | create, send, stream, stop, delete, recover | one reply at a time; a complete reply stays complete | `AdminChat` |
| **Console: frame** `admin-ui/src/App.svelte`, `api.ts`, `AISettings.svelte` | tokens in memory and storage, view, flags | sign in, restore, expire, navigate, save | a page belongs to the account it shows; unsaved work is asked about | `Console` |
| **Console: catalogue editor** `EditorWorkspace.svelte`, `StudioWorkspace.svelte` | tabs, buffers, loads, proposals | load, edit, check, save, discard, review | typed text is kept; a save replaces only what it was based on | `CatalogEditor` |
| **Student page** `ego_server/static/student.js` | token, dashboard, open task | sign in three ways, load, refresh, open, sign out | what is drawn belongs to the token held | `StudentPage` |
| **VS Code: session** `extension.ts`, `modeSwitch.ts`, `initWizard.ts`, `sessionDecision.ts` | secret, config, api object, context keys, bar | sign in, switch mode, set server, init, reload | the copies agree at rest | `EditorSession` |
| **VS Code: workspace** `pullTasks.ts`, `pullSafety.ts`, `egoWorkspace.ts`, `studentStub.ts` | task files, backups, manifest, progress | pull, open, init, import | no work of the student is lost | `Workspace` |
| **VS Code: views** `taskViewPanel.ts`, `statusBar.ts`, `resultsPanel.ts`, `treeProvider.ts`, `dashboardView.ts`, `dashboardLoader.ts` | current task, results, lists | follow, open, check, load, refresh | what is shown is of the current task and says why it is missing | `TaskView`, `TaskLists` |
| **VS Code: assistant panel** `assistantPanel.ts`, `assistant.svelte` | a context per task | follow, start, send, refresh | an answer lands in its task; stale code is not defended | `AssistantPanel` |
| **Startup** `main.py`, `entrypoint.py`, `config.py`, `db.py` | environment | validate, migrate, start | - | the sync it depends on, in `Content` |
| **Checker, parser, catalogue** `ego/` | none between calls | run tests, parse | - | not modelled |
| **Catalogue API** `routers/tasks.py`; **terminal client** `ego_tui/`; **rest of the console** | none of their own | queries, rendering | - | not modelled |

How they interact. Handlers share nothing but SQLite and the content files: each request
opens one connection (`deps.py`), and an `async def` handler runs on its worker's event
loop without interruption between two awaits. `EGO_UVICORN_WORKERS` may start several
processes over one database. `POST /check` ends with `record_submission`, which is where
checking feeds tutoring; the Task Studio calls the sync while it holds SQLite's write
lock. The extension, the console and the student page are single-threaded programs that
talk to the server by requests; between two of their own awaits nothing of theirs runs.
They share accounts and tasks with the server and, in one window, the session
(`EditorSession`), whose mode and token the other modules take as an input that an action
of their own may change at any wait (`SwitchMode`, sign-ins). The hard behaviours, and the line each bites at, are the `hazards`
of `PROJECT.json`.

Left aside: the generated bundle of the console (`ego_server/static/admin/`), the course
exercises, `.beads/`, deployment files, scripts, and the tests (read as statements of
intent).

## 2. Plan: what is done and what is left

Done: every module of section 3, every run of section 4, and theorems on every module
that models a component, among them the four refinements (section 5).

Every safety property the runs check is proved; liveness is beyond the provers (section 5).
Left to model: the estimate of a turn's cost from the prompts' sizes
(`ai.py:449`), the deletion of a student inside `Tutoring`, and the Forgejo providers'
page.

## 3. The modules

Conventions. A step is what the program does without letting anybody else in: from one
await to the next in a single event loop, one SQL transaction or one `SELECT` outside a
transaction where several processes may run. In the extension and the console, local
files, settings and secret storage are read and written in one step with the code around
them, except where another command is known to come between (the manifest that
`followEditor` reads, the two writes of a pull or of an opening, the command line's copy of
`progress.json`) or where a write may fail after others were done. A write of a file
happens whole, or fails and leaves the file as it was; an access to secret storage or to
the settings succeeds, or ends the command before it has changed anything. A counter that is only compared with the
value a function took (a generation, an epoch) is a flag `fresh` of the waiting function,
true until the counter moves on. Every request may be answered or fail. Every history
variable is named as such where it is declared, and no action reads one.

### Server

**Tutoring** (`ai.py`, `routers/ai.py`). The state is the rows of one student, since every
query is restricted to a `student_id`: `account`, `credited`, `submission`, `session` and
`request` are the tables; `request` carries the sum and the last outcome of its `ai_usage`
rows, and `session` the number of its `ai_messages`. `fails` is a history variable.
`Calls` are requests being handled, `Workers` the processes, and `loop[w]` the call that
keeps a worker's event loop until it awaits a model (`Await`, `Resume`) or returns. With
one worker the code between two awaits is atomic; with two, calls of different workers
interleave at every query.

| Action | Code |
|---|---|
| `Poll`, `View`, `Recover` | `GET /ai/me`; the `account()` that ends most handlers and recovers interrupted requests |
| `SaveAccess`, `SaveCredit`, `RefuseCredit` | `PUT` and `POST` under `/admin/ai/students` |
| `RecordSubmission` | the end of `POST /check` |
| `CreateSession` ... `InsertSession`, `InsertConflict` | `create_session` |
| `SendMessage`, `FirstUse`, `Replay`, `Prepare`, `ReserveTurn` | `send_message` up to the reservation |
| `TutorDrafts`, `GuardAllows`, `GuardRefuses`, `ModelFails` | `_call` for the two models |
| `Revoked`, `StillEnabled`, `ReadEvidence`, `Deliver`, `Settle` | delivery and settlement |
| `Crash`, `TenMinutes` | a worker dies; the age that recovery waits for |

Refusals that depend on sizes or configuration (413, 503) are possible always. `Deliver`
keeps a subtle path: when its last `UPDATE`, graded turn or not, breaks the unique index of
active defenses, the exception leaves the earlier statements in the open transaction and the commit in
`_settle` keeps them (`Lands`). `Wallet` is what billing promises without workers, calls
or crashes, `Defense` what the tutor promises about a solution; `TutoringImplements` has
the refinement mappings.

**ForgejoServer** (`forgejo_auth.py`, `forgejo.py`, `cli.py`). Four tables and the
registration switch; `signed`, `token`, `minted` and `linked` are history. PKCE and the
ticket are what lets a client exchange its own flow, so `Exchange` has only "with the
ticket" and "without". `Calls` are requests on any number of workers and runs of the
command line; every `SELECT` and every transaction is a step, `Dies` ends a call between
any two. `Start`, `Authorize`/`OpenLogin`, `Callback`/`Claim`, `Fetched`, the four
`Resolve...`, `Exchange`/`Consume`/`Mint` follow the handlers; `Approve`, `LinkSubject`,
`DeleteUser`, `SetRegistration`, `Expire` are what else changes the tables. A flow that is
consumed or purged is `gone`. `Handoff` is the promise of the exchange without browsers,
tickets, workers or time.

**Users** (`admin.py`, `auth.py`, `deps.py`, `cli.py`, `StudentList.svelte`). `role`,
`grants`, `progress`, running checks, the requests under way (`asks`) and the list each
console shows. The caller's role is read in a dependency (`Authorize`) and the handler
runs later in one go (`Serves`); `Answered`, `Listed` and `Lost` are what the page gets. A
page may have several requests under way, as the buttons of `StudentList.svelte` allow: it
deletes, adds and loads while a deletion is pending, and lists may be answered in any
order. The history `overtaken` says that the list shown was asked for before another one.

**Content** (`sync.py`, `admin.py`, `entrypoint.py`, `check.py`). The three files of each
task, the rows, the version history, progress marks, and each save of the Task Studio
through its stages: `Open`, `Validate`, `Lock`, `Replace` (one file at a time),
`Published` (sync, verification and commit), `Abort`, `Restore`. A transaction's writes
are seen when it commits, so a sync is one step. `Workers` says how many handlers may run
at once; the handlers of the studio are `async def` without an await between the first
replacement and the last restoration, so one process serves one of them at a time.
A version is any string, as in `catalog.py:116`: the first `MaxSemver` of the model's
versions are SemVer in their order, the others are not, and `Text` is the order of all of
them as strings, by which `_semver_gt` falls back (`Raised`); `_bump_minor` of what is no
SemVer is 1.0.0 (`Bumped`). The content hash is of the statement and the solution; the stub
it covers too (`ego/parser.py:136`) is generated from the solution. `ContentVersions` is the
promise: a history whose versions are all SemVer, or all other strings, is only extended.

**LocalChecks** (`extension.ts`, `offlineCheck.ts`, `check_cmd.py`, `check.py`,
`progress.py`). Checks (`RunCheckOnCode`, `Detected`, `Spawned`, `CliRuns`, `CliLoads`,
`CliSaves`, `CliLogs`, `CliDies`, `ServerStores`) and pushes (`CmdPush`, `PushNext`, `PushStored`,
`PushAnswered`, `PushFails`) over the task's file, `.ego/progress.json`, the run logs and
the server's rows. The command line is a process of its own: it copies `progress.json`, and writes the copy
back with its entry whatever another command line has saved in between. Of the server one worker
process is modelled, the default, in which reading a row and writing it are one step.

**ServiceSettings** (`service_settings.py`, `admin_settings.py`, `Settings.svelte`). The
row with its revision, the environment's locks, the provider's key, and each
administrator's form with its loads, edits, save and reply. A configuration is the content
path and the set of edits that made the rest.

**AdminChat** (`assistant.py`, `admin_assistant.py`, `Assistant.svelte`). Chats, turns with
their status, the generator of each reply with everything that ends it (done, failure,
disconnection, deadline, crash), and the panel of each tab.

### VS Code extension

**EditorSession**: four copies of "who am I and where do I work" (secret, `config.yaml`,
the api object, the window's context keys and status bar) under `BeginLogin`/`SignedIn`,
`PickOffline`, `PickServer`, `BeginSetServer`/`SetServer`, the init wizards and `Reload`
at any moment. Writes to `.ego/` fail after the token was stored or dropped
(`LoginNotWritten`, `InitNotWritten`, `OfflineNotWritten`, `OfflineNotReady`): the history
`lag` names the copy that such a failure has left behind until a command, or a reload, has
set it anew.

**Workspace**: `StartPull`, `Fetched`, `WriteStatement`, `WriteCode`, `WriteFailed`,
`FinishPull` for each pull; `BeginOpen`, `OpenStatement`, `OpenCode` and `OpenFailed` for
Open Task, whose two files are two writes; `OfflineInit`, `ServerSkeleton` and `InitFails`,
which stops at any of the files; with the student's edits and reloads between. The history
`torn` has the tasks whose last opening wrote the statement and not the code. A file's content is a
number: none, a server version, a local stub, or a text of the student's own.

**ForgejoLogin**: attempts of one window that share the URI handler: `Begin`, `Started`,
`Opened`, `Poll`, `Paused`, `Exchanged`, `HandleUri`, `Cancel`, `DeadlinePasses`. Its other
half is `ForgejoServer`.

**TaskView**: `FollowEditor`, `ManifestRead`, `OpenTask`, `OpenTaskView`, `Check`, the loads
of the side bar (`PushData`, `Loaded`), the webview's `Deliver` and clicks, the status bar
and the Test Results panel. `op` holds the functions that wait. `SwitchMode` may come at
any of the waits; a check keeps the mode it began in.

**TaskLists**: a load of the tree or of the dashboard is its chain of requests
(`ListAnswers`, `ProgressAnswers` and their failures), raced by switches of the mode,
sign-ins, checks, publications and page closings.

**AssistantPanel**: contexts per task, the operation each runs with all its waits
(`AccountAnswered`, `ListsAnswered`, `CodeRead`, `Created`, `Answered`, `Recovered`),
selection, focus, closing, and the webview's snapshot.

### Web front ends

**Console**: tokens in each tab's memory and in the storage the tabs share, `Open`,
`submit`, `handleLogin`, `navTo`, `logout`, requests answered in any order, and the flags
by which the mounted form tells the frame about unsaved work.

**CatalogEditor**: navigation, tabs, buffers and one call per task (`LoadEnds`,
`ValidateEnds`, `SaveEnds`), proposals (`ReviewTask`, `OpenWaiting`, `ApplyPendingDraft`),
expired sessions, and other authors who write meanwhile.

**StudentPage**: sign-ins by form, Forgejo and stored token, each ending in `Enter` and
four requests for the dashboard; `Refresh`, `openTask`, `Logout`, `Reload`.

## 4. The runs

| Run | Instance | Shows |
|---|---|---|
| `tutoring_defense` | 1 worker, 2 calls, 4 requests, 2 sessions, 1 solution, 1 crash | types, one turn at a time, evidence follows the stages, two refusals end a defense, a confirmation is final, nothing is delivered after a revocation; `Tutoring` implements `Defense` |
| `tutoring_billing` | 1 worker, 2 calls, 3 requests, 2 sessions, a credit id with two amounts, 1 crash | the ledger balances in every state; the saved answer is true |
| `tutoring_two_workers` | 2 workers, 2 calls, 2 requests, 2 sessions, 1 crash | no overdraft, one payment per request id, `Tutoring` implements `Wallet` |
| `tutoring_liveness` | 1 worker, 2 calls, 1 crash, fairness | every reservation and every busy dialogue is released |
| `tutoring_lost_refusal` | 2 workers, no crash | **violation**: a refused answer is forgotten, section 6 |
| `forgejo_handoff` | 2 attempts, 2 browsers, 3 calls, 2 people, 2 new accounts | one token per attempt, for its signer; `ForgejoServer` implements `Handoff` |
| `forgejo_accounts` | 2 attempts, 1 browser, 2 calls, 2 people of one name, 1 old and 1 new account, 1 approval | types, one-to-one accounts, only operators link, identities stay |
| `commands` | `MCCommands` | `SessionAgrees`, `ProgressIsEarned`, `AttemptsApart`, `WorkKept` |
| `views` | `MCViews` | `TaskViewInStep`: the side bar is of the current task, its result of the task's last check; `DashboardSaysWhy`; `PanelOfItsTask`: dialogues, messages and defenses are of the task and the code they were asked for |
| `consoles` | `MCConsoles` | `FormIsTheirs`, `FrameTellsTruth`: what the console's frame shows, sends and asks is of the account and the form it has; `UnsavedWorkKept`: catalogue editor and settings lose no work of anybody; `ChatsKept`: one reply at a time, in its own chat |
| `platform` | `MCPlatform` | `EveryMentorIsAppointed`, `DeletedIsNotListed`, `RowIsLatest`, `ImplementsVersions`, `SavesAreWhole`, `PageIsOfItsStudent`, `PageTellsTruth` |
| `ends` | `MCEnds`, fairness | `EveryOperationEnds`, `EveryViewSettles` |

The `tutoring_*` runs instantiate `MCTutoring`, the `forgejo_*` runs `MCForgejo`;
`tutoring_defense`, `tutoring_two_workers` and `forgejo_handoff` also check the refinements
`ImplementsDefense`, `ImplementsWallet` and `ImplementsHandoff`.

**Side by side.** The last five runs check several components at once. Each has a variable
`part`, drawn at the start; in a behaviour only the component of that part moves and the
others stay in one initial state. The modules of a run share no variable, so a behaviour
of the run is a behaviour of one module with the rest standing still, and a property
holds in the run exactly when it holds of each module's own specification under that
part's bounds. A part also says which cast a module is given: `MCCommands` has four casts
of `Workspace` (one task pulled twice at once; one pulled again and again; two tasks; two
tasks opened and imported) because each question needs another corner of the module, and
their union would not be explored in full. The properties are conjunctions "in this part,
this holds"; the conjuncts are defined and explained in the component's module.

**Bounds.** Two calls, saves, pulls or functions that wait are enough for every race
between two operations, since each property relates at most two; a third operation of a
scenario comes after one of them has returned. In `Tutoring` four requests take a defense
through three stages with one refusal, or through two refusals and a second defense; one
crash, at any point, interrupts either call. Amounts and costs are small integers; two
model calls cost no more than `Reserve`, which is what `NoOverdraft` assumes of
`guard_budget` (`ai.py:449`), and `TutorCosts = {0, 1}` leaves turns cheaper than was
reserved. In `ForgejoServer` nothing is counted and the identifiers are the only bounds:
three calls are two repeated callbacks, or two exchanges, and a request that purges; one
name, everybody's, is the hardest case for accounts. In `LocalChecks` a right and a wrong
text of one task, two checks and a push; two tasks to push. In `Users` two requests of one
page under way while deletions are looked at, one where roles or checks are. In `Content`
one part has versions whose order as strings differs from that as SemVer, and one that is
no SemVer. In `TaskLists` versions 9 and 10, because the server orders versions as text;
`MaxChecks` bounds its checks and its switches of mode together. In `Console` two tabs that share a
storage, of which the second stays in the overview and the settings. Symmetry is used on
sets of identifiers and in no run with a liveness property; where a set of two may not be
declared symmetric because another choice depends on it, `InOrder` has the first used
before the second.

Constraints, each commented "Bound" where it is defined, leave out of one part what
another part explores: `OneLoad` (at most one load of a form is under way; of the student
page, where solutions are checked), `OnlySaves` and `OnlyKeys` (a settings page saves, or
edits the key), `OneSave` (of two forms one saves at a time: the server's compare-and-set
is one step, and a form's answer may still come any time later), `DraftsEarly`, `OneCall`,
`NothingDeleted` and `OnlySends` (chats), `OnlyRoles`, `OnlyDeletions`, `OnlyChecks` (which
requests administrators make), `Plain`, `Untouched`, `OneMarked` (hand edits of the repository,
breaking versions, versions with progress), `Attentive`, `InSight` (what the student does while a part asks about
something else), `NoAccess`, `NothingOpened`, `SignedIn`, `ToolStays`, `StatementStays`.
`Unhurried` is a premise of `LastChoiceShown`, and `NothingLate` of `FlagsAreTheForms`, and
not only bounds: without them the properties are false (section 6, section 5).

**Deadlock** is not checked in the bounded runs, which stop when their acts are used up;
the liveness runs show that what has begun ends.

**Fairness.** `Tutoring!FairSpec`: strong fairness of `Step(c)` (a handler goes on when it
has the loop; a model call ends at the latest by the HTTP timeout; asyncio runs ready
handlers first in, first out); weak fairness of `TenMinutes`; strong fairness of `Poll`
(some client keeps reading the account, as the editor does on every refresh; without it
nothing in the server would recover the request). `MCEnds` assumes weak fairness of what
ends a wait and nothing else: a request is answered or fails (browsers and `fetch` give a
dead connection up; `/auth/` requests time out after 15 s), a child process ends, a deadline
passes, VS Code resolves a view and delivers its
messages, a webview that was loaded says it is ready. Of these, the end of the command line is an assumption about it and nothing the extension
ensures: `offlineCheck.ts:72-123` waits for its `close` without a limit. What it runs of the
student's is killed at a timeout (`runner.py:102`), and the rest of it is local work. Nothing
is assumed of the student, the administrator, the browser's sign-in or the provider.

## 5. Proofs

All theorems are of the form "for every value of the constants that satisfies the
module's assumption", and for unbounded numbers of calls, requests, people, tasks and
texts. The assumptions only say that `None` is no identifier, that amounts are numbers and
the like; where a theorem needs more it is an `ASSUME` of the theorem, and the table names
it. Every invariant that is not inductive has its strengthening in the proof module.

| Theorem | Says | Needs |
|---|---|---|
| `TutoringProofs!TypeCorrect` | `[]TypeOK` | |
| `TutoringProofs!OneTurnWithOneWorker` | `[]OneTurnAtATime` | one worker |
| `TutoringProofs!AnswersAreTrue`, `OneTurnPerPayment` | `[]SavedAnswerIsTrue`, `OnePaymentPerRequest` | |
| `TutoringProofs!WalletNeverOverdrawn` | `[]NoOverdraft` | `ReserveCovers`: two calls cost no more than was reserved |
| `TutoringProofs!WalletBalances` | `[]LedgerBalanced` | finitely many ids |
| `TutoringProofs!WalletImplemented` | `Tutoring` implements `Wallet` | |
| `TutoringDialogues!EvidenceIsOfItsStages`, `SecondFailureEnds`, `ConfirmedForGood`, `NothingAfterRevocation` | `[]EvidenceMatchesStages`, `[]TwoFailuresEndDefense`, `ConfirmedStays`, `DeliveredUnderAccess` | one worker |
| `TutoringDialogues!DefenseImplemented` | `Tutoring` implements `Defense` | one worker |
| `ForgejoProofs!TypeCorrect`, `OneToken`, `OneToOne`, `NeverMoved`, `OperatorsLink`, `SignersToken` | every property of the two Forgejo runs | |
| `ForgejoProofs!HandsOver` | `ForgejoServer` implements `Handoff` | |
| `CommandsProofs!AttemptsApartHolds` | `AttemptsApart` | |
| `PlatformProofs!UsersTypes`, `MentorsAreAppointed` | `[]TypeOK`, `[]EveryMentorIsAppointed` | |
| `PlatformProofs!DeletedStayAway` | `[]DeletedIsNotListed`, for any number of requests under way | |
| `ContentProofs!TypeCorrect`, `RowsAreLatest`, `CurrentNeverStale`, `SavesBuildUpon` | `[]TypeOK`, `[]RowIsLatest`, `[]CurrentIsNotStale`, `[][SavesBuild]` | |
| `ContentProofs!VersionsImplemented` | `Content` implements `ContentVersions` | |
| `ContentProofs!SavesWhole` | `PublishedIsOnDisk`, `StartsAfterCrash`, `RestoresAll` and the two above | one worker, finitely many saves |
| `CommandsProofs!SessionInAgreement` | `EditorSession`: `ContextFollowsConfig`, `ApiFollowsSession`, `SignedInMeansToken` | one command at a time |
| `CommandsProofs!WorkIsKept` | `Workspace`: `ManifestTellsTruth`, `KeepsCode`, `KeepsAnnotations`, `KeepsEgoData` | see below |
| `CommandsProofs!ProgressEarned` | `LocalChecks`: `SolvedIsEarned`, `AttemptsCountRuns`, `PushedIsStored` | |
| `ConsoleProofs!TypeCorrect`, `FormsAreTheirs` | `Console`: `[]TypeOK`, `[]FormIsTheirs` | |
| `ConsoleProofs!SentForTheShown` | `Console`: `[]SentAsShown` | one tab |
| `ConsoleProofs!FlagsAreTrue` | `Console`: `[]FlagsAreTheForms` | `NothingLate`: no save outlives its form |
| `ConsoleProofs!KeysStayGone`, `SavesLoseNothing` | `ServiceSettings`: `KeysNeverReturn`, `PendingIsOld`; `LosesNothing`, `InForce` | |
| `ConsoleProofs!OneReplyPerChat`, `CompleteStays` | `AdminChat`: `OneReplyAtATime`, `ContextIsTheSenders`, `ShownIsActive`; `StaysComplete` | |
| `ConsoleProofs!TypedTextStays`, `SavesWhatItKnows` | `CatalogEditor`: `TypedTextKept`, `SavedNoticeTrue`; `SavesKnown` | |
| `ViewsProofs!ListsTyped`, `DashboardTellsWhy` | `TaskLists`: `[]TypeOK`, `[]DashboardSaysWhy` | |
| `ViewsProofs!PanelIsOfItsTask`, `ClosedCallsNobody` | `AssistantPanel`: `MessageGoesToItsTask`, `DefendsCheckedCode`, `SessionOfTask`, `ScreenUpToDate`; `StopsPaying` | |
| `ViewsProofs!TaskViewTellsNow`, `ClicksCheckTheirTask` | `TaskView`: `ShownTaskIsCurrent`, `LoadingMeansLoad`, `LastResultShown`, `SpinnerMeansCheck`; `ClickChecks` | |
| `ViewsProofs!LastChoiceIsShown` | `TaskView!LastChoiceShown` | `Unhurried` |
| `PlatformProofs!PageOfItsStudent`, `SignInsApart` | `StudentPage`: `PageIsOfItsStudent`, `SolvedIsDefended`; `DropsForCause`, `KeepsAbandonedOut` | |

The arguments:

* **Tutoring.** `TypeOK` is not inductive: `Deliver` writes `stage + 1` from a row it read
  earlier. `TypeInv` adds that an active row has not passed its last stage (`RowOK`) and
  what a call has read at each place (`Fits`). `TurnsInv` adds `LoopInv` (a call that does
  not wait for a model keeps its worker's loop), `LocksInv` (a busy dialogue is one with
  exactly one running request) and `UnlockInv`; only the last needs the single worker.
* **Money.** `PaidInv` says who owns a running request and what it holds; from it follow
  the answers and the single payment. `CoveredInv` adds that what the account holds back
  is what the running requests reserved and that a turn has spent no more so far. The
  ledger's sums are folds: that a sum changes by one summand is proved from the recursive
  definition by the least size at which it could fail. `WalletSteps` maps every action to
  an action of `Wallet` or a stutter.
* **Dialogues.** With one worker a call that is not waiting for a model is alone, so what
  it has read is what is there (`SeenInv`, `HandlerInv`); `DefenseInv` relates stage,
  evidence and refusals of a running defense; every step passes, refuses, begins or
  leaves alone (`DialogueSteps`), which gives both the properties and the refinement.
* **Forgejo.** `TakenOnce`: a call about to mint is the only one that holds its attempt,
  whose row is gone and has given no token. `OneToOneInv` adds that the account of an
  identity is live and an id is a name of its own account only. `OperatorsInv` ties
  approvals to the accounts they were written for. `ClaimedInv` and `SignerInv` follow a
  person from the callback to the token; with `TakenOnce` they give the refinement.
* **Users.** `AppointInv`: whoever acts as a mentor, in the table or in a request that was
  authorized, is appointed. `ListInv`: a list on its way, or shown, names none who was gone
  before it was asked for, unless another one was asked for since (`old`, `overtaken`); what
  a page is told makes it ask anew, so the newest list knows of every deletion told.
* **Content.** `HistoryInv` (rows are the latest of their histories, stale marks lie
  before them); `BasedInv` (the lock keeps a save on its version); `FilesKept` (with one
  save busy, the files are those before it with the replaced ones in order, `Left`).
* **Session.** `StartInv` is what holds while `activate` waits, `WaitInv` what each place of
  a command relies on, `AgreeInv` what holds at rest; a reload starts from any of them. A
  copy that a failed write has left behind is named in `lag` from that step on, and the
  properties except it there: with "api" in `lag` the api may not follow the session, with
  "window" the context keys may not follow the config. Every command that completes takes
  out of `lag` what it sets.
* **Workspace.** `TruthInv`: what a pull has noted down is on disk already (`WritingInv`),
  and files are only taken by replacing them (`FilesStay`). `OpenInv` and `EgoInv` follow
  one opening, and one pull's copy of the manifest.
* **Checks.** `ProgressInv`: a check under way runs a text that is there (`CheckKept`), a
  result that says "passed" was executed (`EarnedInv`), and what a push has read is
  stored, being sent, still to send or counted as an error (`PushKept`).

* **Frame.** `FrameInv`: a tab's form fits its account (`TypesInv`), a save under way is the
  mounted form's only one or its form is gone (`SavesInv`), a tab that looks up its session
  does nothing else (`CheckInv`), and the token in memory, with one tab the stored one too,
  is of the account shown (`SentInv`). `AllFlagged` ties a form's flags to its state; a save
  whose form is gone would clear the flags of the next one, hence `NothingLate`.
* **Settings.** `SettingsInv`, per administrator: a form, a load, a save and its reply each
  hold a configuration that has every edit saved up to their revision (`UpToDate`) and, where
  a key was typed, one that is or was in the row only at an older revision (`KeyIsOld`); the
  compare-and-set of revisions does the rest.
* **Chats.** `ChatInv`: a generator that writes has a streaming row that is not old
  (`TurnsInv`), which is why recovery and `begin_reply` take no row from under it; a message
  on its way keeps its chat and task (`PostInv`); unless a deletion was crossed, a panel does
  one thing at a time, in the chat that is open (`PanelInv`).
* **Catalogue editor.** `EditorInv`: `RowOK` ties, task by task, the state, the call under
  way, the text typed and the content it stems from, which the base of every save carries
  (`RowsInv`); every tab is of a task with a state (`DeskInv`). The server accepts a save
  only upon the base it was sent with.
* **Dashboard and tree.** `ListsInv`: loads under way have numbers of their own (`LoadsInv`)
  and what the dashboard was given says why it is not the server's (`ShownInv`).
* **Assistant's panel.** `PanelInv`: the session, the typed text and the submission of a
  context, and the dialogue its operation uses, are its task's (`CtxInv`); a context in the
  map is its task's (`MapInv`); a text is held only by the operation that will send it, and
  one that begins a defense holds none.
* **Task view.** `ViewInv`: a load that is not outdated is of the current task in a side
  bar that is ready (`FreshInv`), so late data is dropped; the result on the screen is
  none or the task's last (`ScreenInv`), since `postResult` and the end of a load both
  write it; a function that waits is about a task (`NamedInv`). `ChoiceInv`: the task chosen
  last is current, or a function that waits is about to make it so; an older command that
  shows its task after a newer choice would break it, hence `Unhurried`.
* **Student page.** `PageInv` (`PlatformProofs`): answers are awaited, and kept, for a
  student's token (`OwnInv`); what is drawn is of the token the page holds, and calls of the
  page's epoch were made with it (`TokenInv`); what an answer or the page says was confirmed
  is never taken back (`GotInv`, `ShownInv`).

Conditions of `WorkIsKept`, each needed: `KeepsCode` where nothing is opened from the
server (`Opener = {}`), `KeepsAnnotations` where nothing is opened, or one opening at a
time without a pull (and but for a task that is opened again after an opening which stopped
between its two files), `KeepsEgoData` for one pull at a time that no offline initialization
overlaps. Without them TLC finds the divergences of section 6.

Conditions elsewhere: with two workers TLC refutes `OneTurnAtATime` and
`TwoFailuresEndDefense` (run `tutoring_lost_refusal`), and `PublishedIsOnDisk` and
`RestoresAll` (the lock is released by the rollback before the files are put back); with
two commands at once, `ApiFollowsSession`. `RowIsLatest` and `CurrentIsNotStale` say
nothing of a task whose history mixes SemVer and other strings, and `ContentVersions` says
of it only that no version is taken back (section 6): no order relates the two kinds.

Only model-checked: the liveness properties (`EveryTurnEnds`, `EveryOperationEnds`,
`EveryViewSettles`; fairness and ENABLED are beyond the provers). The composite properties of the `MC` modules say of each part
what the theorems above say of its module.

## 6. Findings and divergences

**`tutoring_lost_refusal`.** `send_message` reads the session at `ego_server/ai.py:399` and
its messages at `:414`; the transaction at `:454` compares the status, the stage and the
number of messages with what was read, not the refusals, and `:553` writes the refusals
as read plus one. With a second worker process a refusal that was settled between the two
reads is overwritten, so a defense goes on after two refusals, which
`docs/AI_TUTORING.md:75` says end it. It needs `EGO_UVICORN_WORKERS` above one; with one
worker `TwoFailuresEndDefense` is proved.

The following were met while translating the code. They bound the properties of section 4
(each property says what the code does keep) and have no run of their own.

*Session.*
- In offline mode `cmdLogin` (`extension.ts:334`) puts the token into the api object and
  sets the bar to "Server"; `sessionDecision.test.ts:15` ignores a stored token there.
- `activate` (`extension.ts:298`) deletes the stored token when `api.me()` fails for any
  reason; the comment above it speaks of invalid tokens only.
- `ego.init` (`extension.ts:156`) sets the bar to the mode picked even when the wizard was
  cancelled later.
- An initialization that fails after the token was stored (`initWizard.ts:135`, `:149-154`)
  returns as if cancelled, with the config, the api and the context as they were; a switch
  to offline that cannot write `config.yaml` (`modeSwitch.ts:145`) has dropped the api's token
  (`:108`). The copies disagree until a reload or the next command that sets them. A login
  that cannot write the account's name says "failed" although the token is stored and in
  use (`extension.ts:334-348`).
- Two commands at once: a switch that retries with the api object as `Set Server` has
  recreated it drops the token (`modeSwitch.ts:91`).

*Workspace.*
- Of two pulls the one that ends last writes the manifest as it was when it began, with
  its own tasks (`pullTasks.ts:136`, `pullSafety.test.ts:52`); an offline initialization
  during a pull loses entries the same way.
- An opening whose second write fails (`extension.ts:679-682`) leaves a statement without
  its code. The next opening finds no code, fetches again and overwrites the statement, with
  the student's annotations and without a backup. A pull whose code could not be written
  leaves the same.
- An initialization that fails after `createEgoSkeleton` has written its empty manifest
  leaves it without the tasks found, and later ones do not add them, since it exists.
- `cmdOpenTask` writes the stub after a wait without looking again (`extension.ts:670-680`).
- A manifest entry records the version of the list, not of the files fetched later
  (`pullTasks.ts:118`, `docs/adr/0001` line 69).

*Views and panel.*
- After `createAISession` only `attached()` is asked before the paid opening message
  (`assistantPanel.ts:139`; `docs/AI_TUTORING.md:151`); `show()` skips its refresh while
  the panel is busy, so a required defense may not open (`:90`; `AI_TUTORING.md:82`);
  `cmdLogin` closes the panel before the sign-in, not after it (`extension.ts:334`).
- `ego.openTaskView` shows its task after `api.getTask` whatever was chosen meanwhile
  (`extension.ts:251`); the bar is set when an outdated load ends (`extension.ts:108`);
  `setTask` keeps the status and score of the former task (`statusBar.ts:59`).
- With the side bar closed `postResult` keeps the result and answers true, so no panel
  shows it (`extension.ts:761`; `docs/adr/0015` line 134); the error path of `pushData` posts
  no result (`taskViewPanel.ts:147` against `:105`).
- An older refresh that ends later overwrites the dashboard (`dashboardView.ts:83`); the
  tree keeps the former account's progress (`treeProvider.ts:195`); of several versions
  the last one by text order counts (`dashboardLoader.ts:133`); the summary counts stale
  and untested tasks as new, the filter does not (`dashboardLoader.ts:66`,
  `dashboard.svelte:13`).

*Console.*
- `openExternal` gives a proposal up when another navigation has started, and
  `lastDraft` then refuses the same one again (`EditorWorkspace.svelte:153`;
  `docs/TASK_AUTHORING.md:582`); "Проверка пройдена" stays over text typed since (`:172`);
  a proposal is compared with a version that an outdated proposal set (`:156`); a second
  outdated proposal, or a discard whose reload fails, lifts the block (`:157`, `:256`). The
  server still refuses such a save, which is what `SavesKnown` rests on.
- A save of `AISettings.svelte` that ends after its form was left still reports "not dirty"
  and "not busy" (`AISettings.svelte:22-24`), which clears the flags of the form that took its
  place (`App.svelte:68-69`); hence `NothingLate`.
- `StudentList.svelte:36-58` numbers no request: a list asked for before a deletion and
  answered after the list that follows it shows the deleted account again.
- `Settings.svelte:224` syncs the path it has loaded, not the one typed (`:356`).

*Server.*
- `push_progress` stores any status it is sent, so a row may go back from passed
  (`progress.py:82`; `docs/adr/0001` line 112); `POST /check` stores under the version read
  before its wait, and stale progress becomes passed again (`check.py:75`).
- `_semver_gt` compares as strings when either version is no SemVer, and `_bump_minor` then
  begins at 1.0.0 (`sync.py:460-479`), while a version may be any string (`catalog.py:116`).
  After 1.9.0, 1.10.0 and then `1.2`, the file may declare 1.9.0 again, and `INSERT OR REPLACE`
  (`sync.py:399`) gives that published version another content.
- Two command lines at once: both read `progress.json`, and the one that writes last takes
  the other's entry away (`check_cmd.py:209-236`).
- A mentor demoted between the check of the role and the statement still appoints
  (`admin.py:142`); a running check stores progress of a student deleted meanwhile
  (`admin.py:184`, `check.py:69`).
- With two worker processes a save that fails releases SQLite's lock by its rollback
  before it has put the files back, and another process may publish in between.

## 7. Not modelled

- The checker's sandbox and the task parser (`ego/`): pure functions and operating-system
  limits; `Content` takes "the task is valid", `LocalChecks` takes the verdict as given.
- The catalogue API, the terminal client, and the console's overview, student and AI
  account pages: queries and rendering. `TaskStudio.svelte` and `Catalog.svelte` are not
  reached from `App.svelte`.
- `Tutoring`: prices, the sizes of prompts (so the estimate of `ai.py:449` is an input, the
  one hazard without a property), waits for SQLite's lock, texts, and the deletion of a
  student.
- `ForgejoServer`: registration by password and the change of a role after the start, and
  the page of providers.
- `AdminChat`: the provider's stream, its tools, proposals and the budget of the history.
- `Content`: `import-tasks` of the command line (`cli.py:316`, `db_helpers.upsert_task`, with a
  `_bump_minor` of its own), rows of projects and folders, the log of the sync, a second process in the
  runs.
- `ServiceSettings`: encryption, validation of the fields and a key from the environment.
- `LocalChecks`: the text of the run history. `EditorSession`: `maybeFallbackOffline`, which
  nothing calls, and `ego.aiEnabled`.

The notes of the components in `PROJECT.json` say the rest, one part at a time.
