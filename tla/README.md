# TLA+ model of Lyrarma Cloud

Lyrarma Cloud is a Go server for file storage: an HTTP API and a web interface,
two PostgreSQL databases, two S3 buckets, and scanner workers that inspect every
upload before it can be downloaded. This directory holds TLA+ models of its
core, TLC configurations that check them on small instances, and TLAPS proofs
of the properties that matter most. Paths below are relative to the repository.

To check: `tlc -config <run>.cfg MC<Module>.tla`, and `tlapm <Module>Proofs.tla`.

## 1. Inventory

| Component | Source | State | Operations | Module |
|---|---|---|---|---|
| File requests | `src/handlers/file_handlers.go`, `src/storage/postgres_files.go` | the `files` table | upload, delete, change of access | `FileLifecycle` |
| Downloads | `src/handlers/file_handlers.go` | none | find the row, open the object | `Downloads` |
| Object storage | `src/storage/s3.go` | keys of the quarantine and the production bucket | put, copy, delete, get | `FileLifecycle`, `Downloads` (partly) |
| Scanner workers | `src/scanner/scanner.go` | leases (`scan_started_at`) and the position of each worker | claim, inspect, promote, complete, clean up, stop | `FileLifecycle` |
| Scan policy | `src/scanner/scanner.go` | the walk through a file and its archives, the file budget | MIME, antivirus, archive and media tools, moderation | `ScanPolicy` |
| Storage quota | `src/storage/postgres_quota.go` | `upload_reservations`, the row lock of a user | reserve, commit, release, expire | `UploadQuota` |
| Folders, archives | `src/handlers/folder_handlers.go`, `src/storage/postgres_folders.go` | the `folders` table, `files.folder_id` | create, delete tree, publish, ZIP download | `Folders` |
| Registration, login | `src/handlers/auth_handler.go`, `src/storage/postgres_registration.go`, `postgres_auth.go` | `registration_requests`, authentication `users`, cloud `users` | register, mail, confirm, login, expire | `Registration`, `AccountRegistry` |
| Start-up reconciliation | `src/storage/postgres_user_links.go`, `postgres_auth.go` | identifiers, plans and legacy columns of both `users` tables | link, assign, merge, validate, finalise, drop | `Reconcile` |
| Plan limits | `src/config/user_limits.go`, `load.go` | limits of plans and system ceilings | build, combine, compare | `PlanLimits` (partly) |
| Configuration text | `src/config/load.go` | none after start | parse | not modelled |
| Information requests | `src/handlers/info_handlers.go` | none | read | the answer to the storage meter, in `Session` |
| Tokens, middleware | `src/middleware/auth.go`, `src/webui/session.go` | none on the server: a signed token in a cookie | lapse, refuse, redirect, sign out | `Session` (partly) |
| Wiring, process start | `src/api/api.go`, `src/main.go` | none of its own | order of start-up | order only, in `Reconcile` |
| Web interface | `src/webui/` | none | upload, scan states, meter, access, deletion | `Session`, `UploadBatch`, `FileRows` (partly) |
| Dashboard script | `web/static/dashboard.js` | the batch, the rows, their switches, the meter | upload, poll, switch, delete, refresh | `Dashboard` of `Session`, `UploadBatch`, `FileRows` (partly) |
| NudeNet tool | `tools/nudenet/` | none | classify | not modelled |

How they interact. The components call each other directly, but they share
state only through the databases and the buckets. An upload reserves quota in
one transaction, puts its object into quarantine, and stores the row in a second
transaction that consumes the reservation and looks up the folder. A worker,
perhaps of another process, claims the row, inspects the object with external
tools, copies it to production and stores the verdict. Deletion removes the row
first and the objects after it. The two databases have no common transaction:
confirmation commits the account and then creates the profile, and start-up
moves links and plans from one to the other. The dashboard page is a client of
all this: its script sends uploads, polls, switches and deletions at the same
time, through web handlers that translate API answers into redirects, under a
session that lapses on the server and in the browser on different clocks.

What makes this hard: transactions run under READ COMMITTED with few locks and
no foreign keys between folders and files; a claim is a lease that can expire
while its holder works; every S3 or database call may fail after it was applied;
processes stop anywhere; the two databases and the buckets never commit
together; and the page learns what happened from answers that may be late, lost
or those of another page. `PROJECT.json` lists each hazard at its line.

What correctness means, per component:

* files and scanner: an approved file can be served; an acknowledged upload
  keeps its only copy until it is decided; nothing undecided or refused is
  shared; one decision per file; every file is decided in the end;
* quota: stored and reserved bytes never exceed the limit; no request waits for
  ever; bytes leak only by a fault;
* downloads: a file that was found can be opened, unless S3 fails or its owner
  has deleted it meanwhile;
* folders: no row outlives its folder, no object outlives its row, an archive
  holds nothing that was not published;
* registration: one account per name, email and key; a confirmation is one step
  of an atomic registry; sessions have both rows;
* reconciliation: nothing is dropped before it was moved; a serving process can
  use every account; an interrupted start can be repeated;
* limits: the combination is the documented one, and arithmetic at the end of
  the integer range is exact;
* scan policy: approval exactly when all of a file passes, never after a failure;
* dashboard: no file is stored twice or forgotten, every batch ends, rows and
  meter catch up with the server.

## 2. Modules

`FileLifecycle` models one row and at most one object per bucket for every
upload. Actions carry the names of the code: `UploadQuarantineFile`,
`CommitReservedFile`, `ClaimFileForScan`, `PromoteQuarantineFile`,
`CompleteFileScan` and so on. A SQL statement or transaction is a step, every
S3 call another; `phase` is the line of `Service.process` a worker has reached.
`claims` numbers the leases, so that `scanStartedAt` is the number of the claim
that set it. `CompleteFileScanMisses` and `CheckFileExists` are separate because
the code asks twice. Faults are `crash`, `s3` (refused, not applied), `db`, and
`ambiguous` (applied, but the caller sees an error).

`FileContract` is the abstract specification of a file as clients see it:
`unknown`, `pending`, one verdict, `removed`, and shared only when approved.
`FileLifecycle!Contract` instantiates it with a refinement mapping that hides
buckets, leases and workers: `uploading` and `scanning` are both pending.

`Downloads` adds the download handlers to the actions of `FileLifecycle`: a
request finds an approved row, its owner's or a public one, and a later step
opens the production object. Nothing holds the object in between.

`QuotaBytes` has the constants of the quota and the sum of sizes, written as the
cardinality of a set of byte positions, a form about which one can prove without
induction. `UploadQuota` models `ReserveUpload` in the four steps between which
other transactions can commit (lock, sums, insert and commit, or refusal), and
the other transactions, which take no lock, as one step each. `GrowOld` and
`StartServer` are the age of a reservation and the cleanup at the start of any
process. `QuotaLedger` is the promise: an account charged atomically.

`Folders` splits `CreateFolder`, `CommitReservedFile` and `DeleteFolder` at
their statements, because nothing but time lies between reading a folder and
writing below it. `removal[r]` keeps what a folder deletion has read so far: its
tree, the files its SELECT found, and the rows its DELETE removed. Objects are
one set for both buckets, and approval is a step of the environment; both are
refined in `FileLifecycle`. A row that a folder deletion removes is a
`DeleteFile` step there. `FolderTree` is the abstract specification: what the
listings show from the root folder down, where a deletion is one step.
`Folders!Tree` maps the rows to it by reachability: a row below a folder that is
gone exists, but no listing leads to it.

`Registration` models `CreatePendingRegistration` as three statements of one
transaction, with the row locks and unique indexes that order it against others
(`Held`, `Clashing`), and confirmation as transaction, profile and session.
`AccountRegistry` is the abstract specification: a key is asked, reserved, an
account or void, in one step each, and nobody else of its name or email is
reserved or an account at the same time. `Registration!Registry` maps the rows
of both tables to it: a row that has expired is void, since any sweep may delete
it, unless a confirmation has consumed it before.

`Reconcile` models `ReconcileUserProfiles` one statement at a time, for several
processes; `Stop` ends a process after any of them. Logins of serving processes
go on meanwhile, since they create profiles.

`PlanLimits` follows one list of plans through `NewUserLimitSet`, `ForPlans`,
the size check and `reserveUpload`, on integers that wrap at `MaxInt`.

`ScanPolicy` is the walk of `inspect` over a file and its nested archives: a
work list, the budget carried along, and a failure of any tool at any point.

`Session` is what every part of the page shares: the token in its cookie
(`refused` once the token has expired, `none` once the browser has dropped the
cookie), the requests lost so far, and the storage meter. `UploadBatch` is the
upload form with its asynchronous workers: a step is the arrival of an answer
with all the script does before its next await. `FileRows` is the poll of scan
states, the switches and the delete forms, next to scans and another tab.
`Dashboard` composes the three on one page; whatever leaves the page ends it.

Otherwise composition is by interface: `FileLifecycle` takes the verdict of `ScanPolicy`
as an input of `Inspect` and begins where the reservation of `UploadQuota` is
made; `UploadQuota` takes as `Limit` what `PlanLimits` calls `MaxStorageBytes`;
`Folders` uses the files of `FileLifecycle` without their scan. The definitions
of a mutant ("Mutant: ..." in its comment) belong to no specification. They are
plausible slips in the code, at least one for each property, which the runs must refute.

## 3. Runs

| Run | Instance | Shows |
|---|---|---|
| `lifecycle_faults` | 1 file, 2 workers, 1 download, 3 faults of any kind, 3 claims, leases that may look stale at any time | `ApprovedIsServable`, `AcknowledgedKeepsQuarantine`, `DownloadSucceeds`, refinement of `FileContract` |
| `lifecycle_fair` | 1 file, 2 workers, 3 claims, 2 faults of any kind, leases that may look stale at any time | `OrphansNeedFault`, `EveryFileIsDecided`; without a fault `DeletedLeavesNoObject` |
| `quota` | 4 uploads of one user, of which two fit only if they are the small ones and one never fits, 2 faults | `QuotaHolds`, `LeakNeedsFault`, refinement of `QuotaLedger`, `EveryRequestEnds` |
| `folders_tree` | 2 users, 2 folders, 1 file, 2 folder deletions, 1 fault | `OrphansNeedOverlap`, `LeftoversNeedOverlap`, `ArchiveHoldsPublicTree`, refinement of `FolderTree` |
| `folders_delete` | 1 user, 2 folders, 1 file, 1 deletion, no fault | violation of `DeleteRemovesEverything` |
| `registration` | 3 requests that clash by name and by email, 3 confirmations, 2 faults | `IdentityUnique`, `ConsumedOnce`, `CloudFollowsAuth`, refinement of `AccountRegistry` |
| `reconcile` | 2 processes, 2 accounts, 2 legacy profiles, 1 stop | `NothingLost`, `ProfilesHaveAccounts`, `ServedAccountsUsable`, `StartupSucceeds` |
| `limits` | 2 plans, lists of length 2, five-bit integers | `LimitsAreBest`, `AdmissionIsExact`, `BodyLimitSuffices` |
| `scan_policy` | a file that holds an archive and a leaf, the inner archive another leaf | `VerdictIsExact` |
| `scan_breakdown` | the same with fewer kinds | violation of `BreakdownIsScanFailed` |
| `dashboard` | four kinds of page: 3 uploads by 2 workers; a row next to an upload; each of the two next to the meter; 1 lost request | `OneCopy`, `PageAgrees`, `NothingForgotten`, `BatchEnds`, `DecisionIsShown`, `MeterCatchesUp` |
| `dashboard_done` | 2 uploads | violation of `DoneIsDone` |

Each passing run also checks the type invariant of its module, except
`lifecycle_fair`, which shares the one of `lifecycle_faults`, and `scan_policy`,
whose `VerdictIsExact` reads every variable.

**Why the bounds are enough.** Files do not share rows, objects or leases; they
meet only in the order of the queue, which no property needs. A download only
reads, so that one at a time meets every state. Three claims let a file be
claimed by the worker that lost it, by another, and once more. Users share
neither rows nor locks of the quota, so that one user with three uploads that
fit alone, and one that does not, shows every interleaving of it. Two folders
are a folder and a nested one, or two deletions of one tree; a third level only
repeats the recursion of `selectFolderTreeSQL`. Three registrations are the
smallest set in which one clashes with the others in different columns. A stop
can come after any statement of the reconciliation, and the second process
continues from whatever mixture it left; it needs four random identifiers at
most. The numbers of `limits` are the ends of each range and their neighbours,
under a scaled MiB: 7 is the last number of MiB that fits, and 17 one whose
product would wrap to a small limit. Two upload workers and
three files give a file that is taken second and one that is never taken. Rows
share nothing but the poll; the parts of a page share only the session, the
meter and the lost requests, which each of the four `Pages` has with one other
part. Every bound is a CONSTANT of the cfg. Constants that the specification
treats alike may be permuted (`SYMMETRY`, in safety runs only).

**Deadlock** is not checked: every model ends when its requests are done, its
claims used up, its process serving or its page
left. Liveness properties stand in for it.

**Fairness.** A handler that was called runs to its end, because Go schedules
every goroutine and a database or network call returns or fails in the end: weak
fairness of the steps of a request. A worker polls for ever, and every command and S3 call
within `process` runs under a context with a timeout: weak fairness of its claim
and of its next step. `New` runs the reconciliation without waiting for
anyone, and a process that stopped or refused to start is started again by its
operator: weak fairness of the steps of the reconciliation, the start included. Nobody is
obliged to upload, delete, confirm or to fail, so these have no fairness, and a
fault is never required for progress. `StartupSucceeds` promises only what the
README asks of the operator (`Consistent`: every legacy profile has an account
and every plan is configured), and that stops are finitely many.
On a page the server answers and the browser delivers the answer or reports an
error, and timers fire: weak fairness of the answers, of the handlers of the
script and of its polls. The user need not do anything, sign in again or keep
the page visible: `DecisionIsShown` and `MeterCatchesUp` are about pages that
are visible from some point on, since a hidden page does not poll.

**Time.** A lease is stale when `scan_started_at` lies before the claimant's time
minus the scan timeout. The former is `NOW()` of the claim on the database
(`postgres.go:125`), the latter the clock of a server (`scanner.go:127`), and the
holder's own timeout starts only when its claim has returned (`scanner.go:145`).
A lease can therefore look stale before its holder has left its scan context. The
model has no clocks and assumes nothing about them: in every run and every proof a
lease may look stale in any phase of its holder (`Stale`).
Claims are bounded by `MaxClaims`, and each fault allows one more, so that no
bound keeps an interrupted scan from being taken up again. `EveryFileIsDecided`
is thus about finitely many lost leases: if every lease looked stale before its
holder is done, a file would be claimed for ever. The age of a reservation
(`GrowOld`), of a registration (`Expire`) and of a session (`EndSession`) is a
step that may come at any time.

## 4. Proofs

`FileLifecycleProofs` proves, for every number of files, workers, claims and
faults, with leases that may look stale at any time:

* `TypeCorrect`, `ApprovedServable`, `AcknowledgedKept`, `PublicApproved`:
  the type invariant and three safety invariants, of which the runs check the
  last one as a part of the contract;
* `Implementation`: `Spec => ImplementsContract`;
* `DownloadsSucceed`: `DownloadsSpec => DownloadSucceeds`, for any number of
  downloads;
* `OrphansAreFaults`: `Spec => []OrphansNeedFault`.

The invariants are not inductive. A worker about to delete a production object
is harmless only because of what was stored before, so `IInv` adds
`InsertedOnce` (rows, deletions, permission changes and busy workers exist only
for uploads past their insertion, hence a row never comes back),
`UploadOrder` (what an upload has done at each of its steps), `Leases` (each
claim has a number of its own, so that at most one busy worker can complete) and
`WorkerKnows` (what a worker at each phase knows of the row: after a completion
the row keeps that verdict or is gone). The proof has a lemma for each group of
actions and a step for each action; the refinement shows that five kinds of step
are `Accept`, `Decide`, `Share` or `Remove`, and that the others do not change
what clients see.

`DownloadsSucceed` follows from `IInv` and one conjunct more, `FoundIsFinal`: the
row that a download has found is approved or gone, which no later step changes.

`OrphansAreFaults` counts. An object is orphaned if nothing in the system will
use or remove it any more, and there are never more files with such objects than
faults. One race without a fault leaves a copy all the same, the late copy of
section 5. `lateCopies`, a history variable that no guard reads, names the files
to which it may happen: a worker copied them although they had been claimed again
since its own claim. `Orphaned` leaves their production objects out, and nothing
else. That a copy under the latest claim is never forgotten rests on `LeaseHeld`:
until its holder leaves the scan context, the latest claim is the current lease, or
the row is gone.
`Orphaned` itself is not a good measure, because a worker that has lost its lease
may still be in charge of a copy and forget it by a step that is no fault. `Owed`
leaves such workers out: the copy they have made is the business of the row that
was claimed again. Then each step of an upload, an owner or a worker adds at most
one file to `Debts`, and none if it is not a fault (`UploadDebts`, `OwnerDebts`,
`WorkerDebts`).

`UploadQuotaProofs` proves, for any users, uploads, sizes and limits:

* `TypeCorrect` and `QuotaNeverExceeded`;
* `Implementation`: `Spec => ImplementsLedger`;
* `LeaksAreFaults`: `Spec => []LeakNeedsFault`, by counting: a step that is not a
  fault leaks nothing, and a fault leaks the reservation of one request.

`IInv` adds `HoldsLock` (a request between its lock and its commit holds the row
of its user), `ChargedOnce` (an upload is in one of the two tables at most, and
in none before it has inserted) and `SeenBounds`: the sums that a transaction
has read are still an upper bound when it inserts. The last is the heart of the
matter: the steps that take no lock are all `Frugal`, they never make the sum of
a user grow, and the one that does, the insertion, needs the lock. The lemmas on
`Bytes` reduce sums to cardinalities of finite sets.

`RegistrationProofs` proves, for any keys, names, emails and confirmations:

* `TypeCorrect`, `IdentityUniqueHolds`, `ConsumedOnceHolds`,
  `CloudFollowsAuthHolds`;
* `Implementation`: `Spec => ImplementsRegistry`.

Its `IInv` has two halves. `RequestInv` is about the pending rows: two of them
never clash (`PendingUnique`), a key is inserted once and never again
(`InsertedFirst`), what a sweep has read is expired (`SweptIsExpired`), and the
key of a confirmation between its two statements still holds its identity
(`ConsumedIsHeld`). `AccountInv` says that accounts do not clash with each other,
that a confirmation past its transaction has an account and that a session has a
profile. The heart is that the account is inserted while the lock on the deleted
request is held: `Held` keeps clashing requests from being inserted meanwhile.

`DashboardProofs` proves, for any files, rows, workers, pages and lost requests:

* `TypeCorrect`, `OneCopyHolds`, `PageAgreesHolds`, `NothingForgottenHolds`.

`UploadInv` relates the workers of a batch to the server: a file is stored again
only if an answer about it was lost (`CopiesCounted`), an answer of success is
about a stored file (`SuccessIsStored`), and each file of the batch is in the
queue, in flight, completed or remains (`BatchShared`). `RowInv` relates rows to
the server: a switch that can be used has no request (`OneSwitchRequest`), a
pending row has no switch to use (`PendingIsIdle`), a row is removed only after
the server has removed it (`GoneIsGone`), and a switch shows the access that is
stored, or the one asked for while the answer is under way (`SwitchTells`).

`FoldersProofs` proves, for trees of any depth and any deletions and faults:

* `TypeCorrect`, `OrphansOverlap`, `LeftoversOverlap`, `ArchiveIsPublic`.

`TreeInv` says what each request knows. An item between its lookup and its
insertion that overlaps no deletion still has its folder, and no deletion is
reading (`CheckedIsKnown`); what a deletion has read is closed downwards but for
what overlaps it (`ReadingIsComplete`); items are inserted once, with one owner
from folder to folder (`InsertedOnce`, `OneOwner`). `ArchiveInv` keeps each read
of an archive below its root. Trees of any depth need no induction because
`Subtree`, the recursive query, is defined as the least set closed under
children: `SubtreeIsClosed` and `SubtreeIsBelow` follow from that.

`Implementation`, that is `Spec => ImplementsTree`, adds `BranchInv`: what a
deletion has read lies below its folder, that folder included, and an identifier
that names a folder is one that was inserted, hence never inserted later. Of the
four statements of a deletion only the commit changes the listings. `ShownShrinks`
shows that they lose exactly `Below` of the deleted folder, although the rows
that are deleted may be fewer (something was created meanwhile) and the folder may
be out of reach already (`UnderHidden`); `ShownGrows` shows that an insertion
never brings anything back with it.

`PlanLimitsProofs` proves, for integers of any width and any list of plans:

* `TypeCorrect`, `LimitsBest`, `AdmissionExact`, `BodyLimitSufficient`.

`LoopInv` says that the limits are the highest of the plans combined so far, or
the initial zeros; `ConfigExact` that every limit is the unbounded product of the
MiB it was configured with, which a ghost keeps (`mebibytes`); `WrapOfFitting` and
its kin show that no sum or product leaves the range of its integers.

`ScanPolicyProofs` proves, for archives of any depth, order and content, any
settings and any failure of a tool:

* `VerdictExact`: `Spec => []VerdictIsExact`.

The walk is depth first over a list, the property is about a set. `IInv` relates
them: the nodes on the list are disjoint branches of the tree, each with its depth
(`TodoOK`); what is in none of these branches has passed (`Walked`); the budget
is the number of entries listed so far (`BudgetOK`); and what the stages before
the present one found out about the first node is true of it (`Judged`).
No step needs an induction over the depth, because `Within` is the
least set closed under contents. The lemmas on it (`WithinIsLeast`,
`WithinUnfolds`, `TreeIsAcyclic`, `SiblingsAreDisjoint`, `EntriesBelow`,
`DepthOfEntry`) follow from that and from the shape of an archive: an entry is in
one place of one archive.

`ReconcileProofs` proves, for any accounts, profiles, plans, processes and stops:

* `TypeCorrect`, `NothingIsLost`, `ProfilesKeepAccounts`, `ServedUsable`.

`ProgressOf` says what a process has established at each stage: all links after
the loop over the links, all plans after the loop over the plans. It survives the
other processes because of `IdsAreLinks`, by which an account with a link takes
no other identifier, so that neither a second start nor the random identifiers
undo what was linked. `SchemaInv` says that the constraints, once there, stay;
`ProfileOf` does the same for profiles while starts do not overlap.

Assumptions are the named `ASSUME`s of the modules: finite uploads with sizes in
`0..MaxSize`, limits in `Nat`, known kinds of faults, a file at least, a worker
at least, natural numbers of lost requests and of stops, a root that is no folder,
a width of integers with room for a multipart envelope, identifiers and plans
that differ from NULL, finitely many archive entries, each in one place of one
archive and none of them the file itself. TLC evaluates them in the runs above.

Only model-checked: liveness (`EveryFileIsDecided`, `DeletedLeavesNoObject`,
`EveryRequestEnds`, `StartupSucceeds`, `BatchEnds`, `DecisionIsShown`,
`MeterCatchesUp`), which needs fairness and ENABLED, beyond TLAPS here. Every
invariant and every refinement that a passing run checks is also proved.

## 5. Findings

* **A folder deletion misses what is created meanwhile** (`folders_delete`).
  `DeleteFolder` (`postgres_folders.go:151`) reads the tree before its
  transaction. A folder or file whose request has looked up its parent already
  is stored below a folder that no longer exists: no listing shows it, no folder
  deletion reaches it, and its bytes count against the quota. README.md:384 and
  `folder_handlers.go:128` promise that all of it is deleted. `folders_tree`
  shows that such overlap is the only cause.
  The same deletion can forget objects: the SELECT and the DELETE
  (`postgres_folders.go:172`, `:192`) see different snapshots, and a file
  committed between them loses its row without being returned, contrary to
  `postgres_folders.go:146`; its object stays for ever.
* **A broken tool blocks files** (`scan_breakdown`). A command killed at the
  deadline is exit code -1 without an error (`scanner.go:575-578`), which
  `inspectArchive` answers with `blocked`, and any error of the media validators
  is `blocked` as well (`scanner.go:258-266`). README.md:309 says that timeouts
  and failed utilities end as `scan_failed`. The difference is not only wording:
  the object of a blocked file is deleted from quarantine.
* **A lapsed session looks like a success** (`dashboard_done`). The load handler
  of an upload takes every status below 300 for a success (`dashboard.js:540`).
  When the browser has dropped the cookie, `requireSession`
  (`session.go:75-80`) redirects the upload to the login page, and the batch ends
  with "Done! Files uploaded" although nothing was stored. Switches and delete
  forms trust `response.ok` in the same way, and their web handlers redirect
  after an API error too (`files.go:229-232`, `:240-243`): the page then shows an
  access or a deletion that never happened. `PageAgrees` and `NothingForgotten`
  hold for everything else; `misled` and `doubtful` mark these items.

* **A late copy stays in production** (no run of its own; with `lateCopies` left
  out of `Orphaned`, `lifecycle_fair` shows it without a fault). `process` compares
  its lease only when it stores the verdict, not before it promotes
  (`scanner.go:154`, `:168`). Worker 1 approves a file and is about to copy it when
  its lease looks stale; worker 2 claims the file, finds it blocked or fails, stores
  that and removes the production object; then worker 1 copies, if the object is
  still in quarantine or the copy was under way. Its completion misses, the row
  exists, and so it leaves the copy alone. No client can download it
  (`DownloadSucceeds` and the contract are about approved rows), and
  the owner's deletion removes it (`DeletedLeavesNoObject` has no exception), but
  until then a file that is not approved has an object in production, while
  README.md:286 says "Only approved files are copied to the production bucket".

## 6. Limits of the models

* `FileLifecycle`: content, MIME type and hash of objects are left out, as is
  the folder of a file. After a lost answer or a failed deletion objects do stay,
  which the code logs and does not retry: `OrphansNeedFault` counts them against
  the faults, and `DeletedLeavesNoObject` holds without faults only. A late copy is
  the one orphan that needs no fault (section 5). The
  quarantine object of a `scan_failed` file is kept on purpose and is no orphan.
* `UploadQuota`: limits are constant during a run, and sizes are far below 2^63
  (`PlanLimits` has the arithmetic at the boundary). A reservation of any age
  may outlive a slow upload.
* `Folders`: names are left out, and with them the order of a listing and the
  duplicate numbers in an archive. A client that remembers the identifier of an
  orphaned folder can still list it; `FolderTree` shows what a walk from the root
  finds.
* `Registration`: keys are unguessable and digests collide never; a login
  appears only in what it changes, the profile.
* `Reconcile`: legacy usernames are unique, as login names were; the id column is new at
  the first start; random identifiers never collide, and the model draws them in
  a fixed order. Two processes that assign missing identifiers at the same time
  can give an account a second identifier after its first login;
  `ProfilesHaveAccounts` excludes overlapping starts for this reason. The check
  for the legacy columns and the SELECT of them are one step; an error in between
  ends the process like `Stop`.
* `PlanLimits`: five-bit integers stand for int64, and a MiB of two bytes for
  2^20. The code's int is as wide as its int64 here.
* `ScanPolicy`: the tools tell the truth about what they are given, and an entry
  has one trait. The byte budget follows the file budget and is left out.
* `Downloads`: a download is over when the object is open. A stream that breaks
  later is S3's or the client's.
* The page: folders behave like approved rows; the user chooses a file again
  only if the page has not shown it as uploaded; access is changed from one tab;
  an API error that is not a refusal counts against `MaxLost` like a lost answer.
  Progress, drag and drop, dialogs, links, tooltips and the navigation between
  folders are left out: they change nothing that another part reads.

**Not modelled** are

* the text of the configuration (`load.go`): parsing and validation, run once;
* the NudeNet tool: a program of its own, in `ScanPolicy` an exit code;
* routes, templates, languages, policies and the readiness check: no state;
* graceful shutdown, but for its effect on a scan (`StopWorker`);
* signing and parsing of tokens, password hashes: a library's.

## 7. Plan

Done, in the order of importance: `FileLifecycle` with its contract and proofs;
`UploadQuota` with its ledger and proofs; `Folders`; `Registration`;
`Reconcile`; `PlanLimits`; `ScanPolicy`; the proofs of `Folders`, `PlanLimits`
and `Reconcile`; the dashboard page (`Session`, `UploadBatch`, `FileRows`,
`Dashboard`) with proofs; `AccountRegistry` and the proofs of `Registration`;
`Downloads` with proofs; the proofs about orphaned objects and of `ScanPolicy`;
`FolderTree` and its refinement.

Next:

1. Model: an upload that composes `UploadQuota` and `FileLifecycle`, so that a
   leak of bytes and a leftover object are related; limits that change during an
   upload; the byte budget and dishonest listings in `ScanPolicy`.
2. Prove: that the composition keeps the invariants of its two parts.
