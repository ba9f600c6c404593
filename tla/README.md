# seedrlike in TLA+

A TLA+ development beside seedrlike, the Go server that takes magnets and
`.torrent` files, downloads them, uploads the content to Gofile and lists it in
a shared library. The modules are translated from `src/`; TLC checks them on
small instances, and TLAPS proves all the safety properties of the passing runs, and that
the queue implements its contract, for instances of any size. Paths below are relative to the repository.

    tlc -workers 2 -config Jobs.cfg MCJobQueue.tla
    tlapm JobQueueProofs.tla

## 1. The system

One process serves HTTP, runs one worker goroutine per job, one goroutine per
websocket connection and one that distributes progress. MySQL keeps what must
survive a crash; the job directories survive as well; everything else is
memory. Gofile, the torrent peers and the mail service are environments.

    browser --HTTP--> handlers --Add, StopOwned--> queue --Create, Save, Finish--> MySQL
       |                 |                          | worker per job
       |                 +--Save, Verify, Test--> notifications --mails--> owner
       |                 +--delete---+              | emit          | upload
       +<--websocket-- hub <---------|--------------+               |
                                     +--> library rows + Gofile <---+

| Component | State it keeps | Operations | Talks to |
| --- | --- | --- | --- |
| Download queue (`core/queue/queue.go`) | `q.tasks`, `task.job`, `task.reserved`, `q.activeBytes`, all under `q.mu`; worker goroutines | `Configure`, `Add`, `StopOwned`, `ProcessTasks`, `run`, `saveStage`, `finishWithReason` | store, torrent client, disk, uploader, hub, notifications |
| Durable job store (`jobs/store.go`) | `Download_Jobs` (unique info hash), `Download_Metrics` | `Create`, `Active`, `Save`, `Finish`, `Metrics` | MySQL |
| Capacity admission (`run`'s wait loop) | reservations, the budget, free space of the disk | `Statfs`, directory walks, grant, release | disk |
| Progress hub (`core/websocket`) | broadcast channel of 256, `activeDownloads` under `wm.mu`, client map owned by `Run` | `SendProgress`, `Run`'s select, `UpgradeRequest` | workers, browsers |
| Notification settings (`notifications/service.go`) | one row per user: address, verification, link, times | `Save`, `RequestVerification`, `Verify`, `Test`, `Notify` | MySQL row locks, mail service, clock |
| Uploader (`core/upload`) | none of its own | `SendTorrentToServer`, `createFolder`, `uploadFile`, `ZipFolder` | Gofile, library |
| Library (`handlers/folders.go`, `sqlc`) | `Folders`, `Files` with foreign keys and owners | list, search, delete an item, delete what is stale | Gofile, MySQL |
| Job directory (`queue.go`, `torrent_file.go`, `ZipFolder`) | the cached `.torrent` under its names, the torrent's pieces, `payload`, the ZIP file | `persistMetadata`, `loadSpec`, `removeTorrentMetadata`, `stagePaths`, `reservation` | disk |
| Download handlers (`handlers/torrent.go`) | `previewMu`, the preview client | add, stop, preview | queue, peers |
| Accounts (`auth`, `handlers/auth.go`) | `Users`; signed session cookies in browsers | register, login, logout, `AuthMiddleware` | MySQL |
| Migrations (`migrations/migrate.go`) | a named lock, the schema, `goose_db_version` | `Up` | MySQL |
| Server wiring (`api/server.go`, `cmd/main.go`) | the torrent port | `New`, `main` | all of the above |
| Others | none | origin checks, admin page, health, search proxy, logging, templates | |

What is hard, and what makes each part correct:

* **Queue and store.** Every worker runs against requests, against the other
  workers and against crashes, and any answer of the database may be lost after
  it took effect. A remote upload must never be repeated (Gofile uploads are
  not idempotent); an acknowledged cancellation must prevent it; an accepted
  job is never lost, is counted once and reported once; two live torrents never
  share a hash; the reservation is returned exactly once on every path; what
  start-up finds never stops it; and every job settles.
* **Capacity.** The check reads the disk while downloads that hold no lock
  write to it. Reservations must keep admitted jobs from running out of space.
* **Hub.** Updates overtake snapshots, connections come and go, slow clients
  block the loop, a full channel drops updates. Nobody sees another user's job,
  an ended job does not come back, and whoever watches learns of the end.
* **Notifications.** A link in flight while the address changes; two
  transactions of one test mail; mails sent while the row is locked. Only a
  verified address gets mail, a verification proves the present address, a link
  works once, limits hold whatever is edited in between.
* **Library.** Remote deletion, local deletion and running uploads are separate
  steps that share only the foreign keys. What was deleted stays deleted,
  nobody's content goes by another's request, rows without content are not
  silent.

* **Job directory.** The cached `.torrent` is written, synced, renamed, kept and
  removed in steps between which the process or the machine may stop; pieces,
  links and ZIPs of an interrupted attempt stay. What start-up finds must let
  the next attempt succeed, exactly the chosen files arrive, hashed, and all of
  it stays within the reservation.
* **Previews.** They share one torrent client and must not drop each other's
  torrent.
* **Accounts.** Two registrations of a name look it up before either inserts;
  answers of several tabs replace each other's cookies. A name stays its first
  registrant's, and nobody is served longer than a password allowed.
* **Start-up.** Processes start together, break off inside a migration, and
  leave sessions that go on without them. Nothing runs on half a schema, starts
  do not spoil each other, and one process of a host takes over the jobs.

`PROJECT.json` lists each hazard at its line with the properties that cover it.

## 2. The modules

Order of work: the queue first, since it is the program; then the parts whose
interleavings the queue takes as one step (capacity, the job's files) or ignores
(hub, mails, library); then what surrounds them (previews, accounts, start-up).

    JobContract  <==implements==  JobQueue  <--  MCJobQueue, JobQueueProofs
                                     |
               Reserve, emit, Notify, Upload and the stages of run stand for
        +----------------+-----------+-----------+------------------+
    CapacityGate    ProgressHub   Notification-  Library        JobFiles
    (+ MC; proofs   (+ MC,        Settings       (+ MC,            ^ extends
    in Submission-  HubProofs)    (+ MC, Proofs) Proofs)        Submission
    Proofs)                                                     (+ MC, Proofs)
    Startup (+ MC, Proofs)        Accounts (+ MC, Proofs)

Each `MC` module gives the constants of its module values for TLC; each `Proofs`
module extends the module it is about. `SubmissionProofs` extends `CapacityGate` too:
that a job keeps to its reservation, which it proves of `JobFiles`, is what admission
builds on (hence names such as `GateInit`, which do not meet those of `JobFiles`). `Sums` has the lemmas on sums over finite
sets that three of them use.

### JobQueue

`JobQueue.tla` composes `queue.go` and `store.go`. A job is one submission. The
database half is `row` and `metrics`, the disk half `dirs` and `original` (the
uploaded `.torrent`), memory is `up`, `tasks`, `job`, `reserved`, `activeBytes`
and `handles` (torrents in the client). `pc` is the place of each worker in
`run`, from `begin` to `notify`; `outcome` is `run`'s local `status`.
`attempted`, `uploaded` and `told` are the outside world: the first remote side
effect, the complete content, the mails. `submission`, `asked`, `cancelled`,
`verdict` and `crashes` only record history.

| Action | Code |
| --- | --- |
| `Configure`, `Recovered` | `configure`: rows become tasks; an upload that may have begun becomes `failed` |
| `Add`, `AddFails` | `Add` under `q.mu`, with `Create`'s INSERT, its unique key and its lost answer |
| `Stop` | `StopOwned`: the row first, then memory, or an error after the row |
| `ProcessTasks` | the ticker starts a worker for each idle task |
| `Begin` ... `Download`, `Zip` | `run` up to the upload, in its order |
| `SaveStage`, `SaveStageFails` | `saveStage`: refused once stopped, applied or not when it fails |
| `Reserve` | the grant of the capacity loop; its inside is `CapacityGate` |
| `Upload`, `UploadEnd` | the first remote side effect and the complete end of the upload |
| `Fail`, `SeeStop`, `Exit` | early returns, the polls that notice a stop, `run`'s deferred calls |
| `Finish`, `FinishFails` | `finishWithReason` up to the unlock, with `Store.Finish`'s transaction, or its error at any point |
| `Cleanup`, `Notify` | artifacts and the mail, after the unlock |
| `Crash` | the process dies; memory and workers are gone |

Code that runs with `q.mu` held is one action, its database calls included,
because no other holder can come between; `Exit` and `Finish` are two actions
because `run` lets go of the lock between them. A database call that fails has
been applied by the time it returns or never will be. Progress numbers, names,
file selection and parsing are left out here (they are in `JobFiles`): what fails in them is `Fail`.

`JobContract.tla` is the promise about one submission without any of this: it
is accepted, may be cancelled until its upload starts, is uploaded at most
once, and gets one verdict that agrees with what happened. `ImplementsContract`
maps a job's row, remote effects and verdict to its `life`; a retried finish,
a lost answer and a crash must all map to one step or a stutter.

### CapacityGate

`Reserve` of `JobQueue`, at the grain of its system calls: `Statfs` first, one
`Walk` per task that holds a reservation, then `Grant` or `Wait`, all with `q.mu`.
Directories change without the lock: `WriteEarly` (a job that has no reservation yet
caches its `.torrent`), `Write` (torrent client, ZIP writer), `Shed` (an admitted job
deletes the cached `.torrent`, and truncates the ZIP of an interrupted attempt) and
`Remove` (all that a job that is over leaves, unless it failed or the process dies
first). `Leave` is `finishWithReason`, which takes the lock; `Restart` a crash. Space
is in blocks. `since` counts what was written since `Statfs`; `drift` is that count at
the last grant, and what `WriteEarly` has written after it.

### ProgressHub

`Emit` reads a task's status under `q.mu`; `Publish` updates `activeDownloads`
under `wm.mu`; `Enqueue` offers the update to the channel. `Run` takes one case
at a time: `Register` (with the snapshot), `Unregister`, `Deliver`; each
`Write` of the case is a step and may fail. `Connect` and `Disconnect` are the
handler. Of an update only its job and whether its status is terminal matter.

### NotificationSettings

One user's row; users do not interact. Each method's transaction is an action
that needs the row free; `Test` is two (`TestReserve`, `TestSend`), and a
transaction that sends a mail holds the row until `Sent`, which ends mail and lock
together: a transaction that the database drops while its mail is still being sent,
and so frees the row earlier, is not modelled. A verification mail is
handed over after the commit, and arrives late or never. `Verify` takes the
time before its UPDATE can wait, so it is `Present` and `Verify`.

### Library

Uploads go through their walk node by node: `CheckParent`, `Create` or
`CreateNameless` (remote), `Insert` (row, if the foreign key and the primary key
allow). `createFolder` looks at neither the status nor the id of the answer, and the
SDK makes no error of an API-level failure (`folders.go:247`): so a folder that was
not made is taken for one with the empty id. `nameless` are those folders, and
`blank` is the one of them whose row is in the table, since the primary key allows
one empty id at a time; such a row refers to no remote folder, its folders and files
go into no folder (Gofile puts such a file in a folder of its own), and `BlankLeft`
is what a deletion leaves of it. A request reads owners (`AskDelete`;
`AskStale`, `ReadFolders`, `CheckOwner`), deletes remotely whatever the remote
store agrees to (`RemoteFiles`, `RemoteFolders`), reads the folders of its
transaction (`Snapshot`), deletes and commits (`Commit`) or fails. Folders of a
transaction come from its consistent read while its DELETEs see all committed
rows, which is why the two are separate steps. A file added to a folder between
its DELETE and the folder's is either blocked by InnoDB or makes the second
fail; both are behaviours of the model. `Above` gives each node what it lies in
as a constant with an assumption, so no definition is recursive. Browsing
changes nothing; `Opens` and `Lists` are what `GetTorrentsFromDB` answers, and
`Reached` what a user can open from the root folder on.

The library starts empty and only today's code fills it. A database whose
folders were given owners by an earlier release before files had that column
may hold mixed trees; `LibrarySubtreeOwned` guards against them, and the model
has none.

### JobFiles and Submission

`JobFiles` follows the files of one job through `Add`, `run` and `ZipFolder`, a
file operation at a time, with sizes in units. `meta` is the cached `.torrent`
under its three names, `stable` what the last fsync of the directory has put on
disk; `data` and `complete` are the pieces as they are and as the torrent client
records them, which is not the same after a loss of power; `links`, `zip` and
`remote` are what the later stages make of them.

| Action | Code |
| --- | --- |
| `Submit`, `Keep`, `Create`, `AddFails` | `Add`: a `.torrent` is written to a directory of its own and renamed to the name `loadSpec` prefers; then the row |
| `WriteTmp`, `SyncTmp`, `Rename`, `SyncDir`, `PersistFails` | `persistMetadata`, called by `Add` and by `run` |
| `Load`, `GotInfo`, `Inspect`, `Reserve` | `loadSpec`, the peers' metadata, the checks on names, selection and sizes, `VerifyData`, the grant |
| `DropMetadata`, `Receive`, `Downloaded` | `removeTorrentMetadata`, the download, `selectedProgress` |
| `Stage`, `Link`, `CreateZip`, `ZipEntry`, `FlushZip` | `stagePaths`, `ZipFolder` |
| `SaveUploading`, `Upload`, `UploadFails`, `RunFails`, `Stopped` | the barrier, the upload, the other ends of `run` |
| `Crash`, `PowerLoss`, `Boot` | the process or the machine stops; `configure` |

`Reservation` is `reservation` with its overflow checks, on integers that wrap
at `MaxInt`, and `Declared` the length of the torrent as the client adds it up, which
wraps as well: `ParseTorrentFile` keeps negative lengths and large sums out of an
uploaded `.torrent`, and nothing but the checks in `Acceptable` out of a magnet's
metadata. A loss of power keeps of each name what it holds now or held at the
last fsync, tears what was not synced, spoils any pieces, and may lose the whole
directory, whose own entry is never synced.

`Submission` puts browsers before it: previews with `previewMu` and the shared
client (`AskPreview`, `ListMagnet`, `PreviewEnds`, then the deferred calls `Drop`
and `Unlock`), the listing of a `.torrent`, and the forms that reach `Add`
(`Ask`, `Added`, `Refused`). The steps of `JobFiles` go on behind them.

### Startup

Each process goes through `main` and `api.New`: the named lock, the history, the
pending migrations a statement at a time (`Apply`, then `Record`), the torrent
port, `Configure`, the server. MySQL commits each statement by itself. `Break`
fails any call or kills the process; in the middle of a statement the session
lives on as an orphan, keeps the lock and may still change the schema
(`OrphanEnds`). `Repair` is the operator README.md:53 speaks of.

### Accounts

`users` are rows in the order of their INSERTs, so a user's id is a position;
`request` is what each tab waits for, `cookie` the token each browser has.
`Lookup` and `Insert` are the two statements of `Register`; `InsertLost` commits
without an answer; `Arrive` is the answer's `Set-Cookie`, which may come late and
out of order. `Valid` and `ServedAs` are `ValidateToken` and `AuthMiddleware`.
`proofs` records what each browser was let in for and how long.

## 3. The runs

| Run | Instance | Checks | States | Result |
| --- | --- | --- | --- | --- |
| `Jobs` | one torrent submitted by a member as a zipped `.torrent` and by a guest as a magnet, 3 crashes | `IInv`, `NoReplay`, `CancelledNeverUploaded`, `AccountedOnce`, `ToldOnceAndTruly`, `NoneLost`, `IsolatedTorrent`, `Restartable`, `OriginalKeptWhileQueued`, `CleanupAfterCommit`, `ImplementsContract`, `StopSettles` | 245,016 | holds |
| `SharedBudget` | two jobs of 2, budget 3, no crash | `BudgetConserved`, `EveryJobSettles` | 11,969 | holds |
| `CancelRace` | two members' jobs | `CancelledEndsStopped` | | violated |
| `CapacityScan` | jobs of 3, 2, 2 blocks, 6 blocks of disk | `ShortByDriftOnly`, `WithinBudget` | 1,209,886 | holds |
| `CapacityRace` | the same, every `.torrent` cached already | `Solvent` | | violated |
| `Hub` | a member's browser and an anonymous one, her job and another's, channel of 1 | `Private`, `EndedLeavesSnapshot`, `EndReachesViewers`, `NoResurrection`, `HandlersEnd` | 185,936 | holds |
| `HubDrop` | one browser, one job, channel of 1 | `EndIsShown` | | violated |
| `Notifications` | 2 addresses, 3 links, 3 changes, 4 ticks | `VerifiedIsProven`, `OnlyToVerified`, `LinkSingleUse`, `RateLimited` | 769,740 | holds |
| `LibraryRequests` | a tree of 3 and a guest's file, two requests | `WellRooted`, `OthersUntouched`, `DeletedIsGone`, `GhostsAreReported`, `CompletedIsListed` | 1,114,729 | holds |
| `Submission` | two browsers, 4 torrents, 8 submissions, 2 crashes or losses of power | `CacheWhole`, `ChosenIsUploaded`, `FitsReservation`, `FailsForCause`, `PreviewIsolated` | 1,370,210 | holds |
| `Startup` | 3 processes of 2 builds on 2 hosts, the 6 migrations of the repository, 2 faults | `SchemaFirst`, `StartsApart`, `OneQueue` | 23,856 | holds |
| `Accounts` | one name, 2 passwords, 2 tabs of a browser and another browser, 3 ticks | `AccountsStand`, `WithinLifetime` | 1,493,984 | holds |

`PROJECT.json` names, for each property of a passing run, a change of the code (a
missing guard, a lost reset, an ignored error) under which it fails. A module's
type invariant is part of one of its invariants (`IInv`, `WithinBudget`,
`Private`, `WellRooted`, `FitsReservation`, `PreviewIsolated`, `SchemaFirst`,
`AccountsStand`); that of `NotificationSettings` is proved, as part of its
inductive invariant. The inductive invariants of the proofs were checked by TLC on
these instances before they were proved; `IInv` of `JobQueue` is checked by `Jobs`.

**Why the bounds are enough.** Jobs interact through the hash, the queue's
size, the budget and the torrent client only, always two at a time; hence two
jobs, which `Jobs` lets run one after or beside the other. After a crash the
queue is again in a start-up state, so three crashes (one to interrupt, one to
interrupt the recovery, one after it) see every kind of row at start-up. In
`SharedBudget` one of the two jobs has to wait; a reservation larger than the
whole budget occurs in `Jobs`, where reservations are 2 or 4 of a budget of 3. A
crash empties all reservations, so `SharedBudget` has none. In `CapacityScan` two
jobs can be admitted while the third is checked, so a write or a deletion can hit a
directory before and after its walk; the disk is short of the three together by two
blocks, the budget by one. The channel of 1
stands for 256: with the update that `Run` is writing there are two that a
snapshot can overtake, and a longer channel only fills later. With three links,
three changes of address and four ticks, a link can be in flight while the
address changes and changes back, a cooldown (2) and a lifetime (3) can pass or
not. Two requests are enough for one to delete what the other has read; an
upload of three levels has a folder without a row above a file about to get one.

In `Submission` the album has a file that shares its first piece with its
neighbour and an empty one; another torrent fits the budget alone and overflows
with its ZIP, a third has names that `run` refuses. The fourth is a magnet's, with a
negative length, a sum of lengths that wraps to a small one, and a `.torrent` larger
than the fixed allowance; it is asked for with a selection that `run` takes and with
two that it refuses, for a negative length and for more than the torrent declares.
`MaxInt` is 60, so that sizes reach it. The first interruption can hit any file operation and the second the
attempt that follows. In `Startup` two processes of a host compete for the port,
a third of an older build for the lock; two faults allow one inside a migration
and one in the start that meets what it left. In `Accounts` one name is enough,
since names do not interact; sessions last one tick or two of three, so one can
outlive the other in the same jar.

### What the violations show

* `CancelRace`: `run`'s deferred function reads the status, lets go of `q.mu`,
  and `finishWithReason` takes it again. A cancellation acknowledged in between
  is overwritten with `failed`: counted and mailed as a failure, and the
  directory stays, although the project's README says cancelled artifacts are
  cleaned up.
* `CapacityRace`: free space is read before the directories are walked; what
  active jobs write in between is counted as free and as already written.
  `CapacityScan` bounds the shortfall by that amount and by what is written
  without a reservation; `SolventIfQuiet` proves that nothing else causes one.
* `HubDrop`: the last update of a job is dropped like any other when the
  channel is full; the browser shows the job as running until it reconnects.
  The channel fills while `Run` waits up to two seconds for a slow client and
  the ZIP callback emits on every read.

Seen while modelling, of too little weight for a run: an INSERT whose answer is
lost leaves a row that `q.tasks` does not know, so that a restart may restore
more than the 10 unfinished jobs of README.md:58 (`AddFails`, `Recovered`); a
process that starts on a second host takes over the first one's jobs, which
README.md:65 leaves to the operator (`OneQueue` is about one host); and what a
failed job keeps on disk is in no reservation (README.md:65 says so).

A magnet's cached `.torrent` has no limit of its own, unlike an uploaded one, so
until it is removed it may take more than the fixed allowance of the reservation;
`FitsReservation` states the bound for the other cases, and for this one from the
first block on.

A folder that was answered without an id gets a row with the empty id
(`CreateNameless`, `Insert`). Its upload still fails at the first file below, which
Gofile puts in a folder that has no row, so no such upload reports success
(`GhostsAreReported`); but the row stays. When that row is deleted while the upload
has not reached its first file (with the folder it lies in, say), the next
folder without an id becomes a row that is its own parent: no listing shows it, the
UNION ALL recursion of `GetFoldersToDelete` does not end on a stale cleanup that
names it, and by the primary key it keeps later folders without an id from being
inserted. `WellRooted` and `DeletedIsGone` allow for exactly this row.

### Fairness

* `JobQueue!FairSpec`: the service is restarted after it dies and the ticker
  ticks (`Configure`, `ProcessTasks`); a goroutine that waits for nobody takes
  its steps, and the metadata wait ends by its timer (`LocalStep`); a finish
  that is retried forever succeeds (strong fairness of `Finish`: `ProcessTasks`
  retries each tick, and a database that never again answers is not a case in
  which anything is promised). Nothing is assumed of peers, Gofile or capacity.
* `JobQueue!PatientSpec` adds that peers deliver and Gofile answers, one way or
  the other, and that a worker waiting for capacity does not give up for an I/O
  error. It is for `EveryJobSettles` only.
* `ProgressHub!FairSpec`: goroutines that can run do (`Step`); a write ends, by
  its deadline if need be (`AnyWrite`); `select` picks among ready cases at
  random, so a case that is ready again and again is taken (strong fairness);
  a handler notices that its connection was closed. Browsers may never leave
  and jobs may never end.

The other specifications are about safety and assume none.

## 4. The proofs

tlapm 1.4.5 checks every step.

**JobQueueProofs**, for every set of jobs, budget, queue size and number of
crashes, from the assumptions of `JobQueue` on its constants. The invariant has two
layers.

* `CoreInv` (`CoreInvariance`, `TypeCorrect`, `UploadAtMostOnce`,
  `CancellationHonoured`). `NoReplay` is not inductive: that no worker stands
  before an upload that was attempted depends on what row and memory say, on what
  start-up makes of the row, and on where each worker is. `JobInv` says it job by
  job: `Placed` (a worker has a task, a refused submission left no trace),
  `RowsSaved` (rows have equal status and stage), `Outcomes`, `Completed`, `Barrier`
  (the uploading stage is durable before the first side effect), `Attempted` (after
  it, row and memory say uploading or an end), `Cancelled` (a cancelled job's row
  and memory allow no further stage).
* `IInv` (`Invariance`) adds, again job by job, what is booked of a job
  (`JobBooks`): a verdict is final although `Finish` is retried (`Settled`), what is
  to be done has a row and a task (`Rooted`), the mail comes last (`Told`), and
  what is in the torrent client and in the budget belongs to a worker at the right
  place (`InClient`, `Holding`). Across jobs it says that hashes are apart
  (`HashesApart`), that counters are exact (`AccountedOnce`) and that `activeBytes` is
  the sum of the reservations (`BudgetConserved`). `AcceptedNeverLost`, `CountedOnce`,
  `MailIsTrue`, `BudgetExact`, `RestartAlwaysPossible` and `TorrentIsolation` follow,
  and so do the action properties `OriginalKept` and `CleanedAfterCommit`.

The proof of a step has two lemmas per layer: `OtherJobs`, a step of job `j` leaves
alone all that the invariant of `k` reads (`SameViewKeeps`, `SameViewBooks`); and
`OwnJob`, `OwnBooks`, one step per action. `ProcessSteps` and `ProcessBooks` treat the
three actions of the whole process, `HashesStep`, `CountStep` and `BudgetStep` what
goes across jobs.

`QueueImplementsContract` is the refinement of `JobContract`: `JobRefines` takes the
five steps an outsider sees (`Add`, `Stop`, `Upload`, `UploadEnd` and the transaction
of `Finish`) to a step of the contract each, by way of what `IInv` says of the state
they are taken in, and all others to a stutter (`OwnUnseen`, `OtherLives`). What holds
of the contract then holds of the queue: no step of the contract begins from a verdict
(`NoLifeAfterVerdict`), so none of the queue's changes one, retried finishes and crashes
included (`VerdictIsFinal`).

**Sums**: `SumFunctionOnSet` adds the elements of a set in an order of its own
choice. Induction over the subsets of a finite set (`SubsetInduction`) shows that
the order does not matter (`SumRemove`, `SumAdd`), that sums are monotone, and what
becomes of them when one summand changes (`SumChange`, `SumExcept`).

**NotificationProofs** (`Invariance`, `Proven`, `SentToVerified`, `SingleUse`,
`Cooldowns`), for every set of addresses, cooldown, lifetime and bound, from
the assumptions of `NotificationSettings`. The strengthening: the row's link is
the newest one made, for the row's address since its last change
(`LinkIsCurrent`); the row's times are the true ones (`CooldownsKept`); tokens
are used after they are made (`Made`). `Cooldowns` is the action property.

**StartupProofs** (`Invariance`, `SchemaBeforeServing`, `NoSpoiledStart`,
`OneQueuePerHost`), for every set of processes and hosts, list of migrations and
number of faults, from the two assumptions of `Startup`. `SchemaFirst` alone is
not inductive: that a recorded migration is whole depends on who may record it.
The strengthening: whoever migrates has the lock, and an orphan has it while its
statement runs (`Locked`); what a process has planned is what is not recorded
(`Planned`); the statements it counts are those of the schema (`InPlace`);
before the first fault, what is there in part belongs to the process that is
applying it (`PartsOwned`); and whoever passed `Bind` has its host's port
(`Bound`). `ExitStep` treats every way a process ends.

**SubmissionProofs**, for every set of torrents, submissions and browsers and any
number of crashes and losses of power, from the assumptions of `JobFiles` and
`Submission`. For the cache (`CacheNeverTorn`): no name that is read is torn or
unsynced, on disk or in memory, and what is about to be renamed has been synced
(`CacheInv`). For previews (`PreviewsApart`): who holds `previewMu` is the one preview
under way, and the client has its torrent and no other (`PreviewInv`). For the files
(`ChosenAreUploaded`, `FailuresHaveCauses`): what is linked, zipped or sent is chosen,
whatever an interrupted attempt left (`OnlyChosen`); each step of an attempt has what
the one before has finished (`Delivered`); past the inspection the torrent is one that
passed it (`Passed`), and the client takes for complete only what it hashed itself
(`PiecesGood`). `JobsFit` follows with arithmetic: the sum is over at most three
names, some of the pieces, and a part of the chosen files, whose allowances of a
twentieth, rounded down one by one, are no more than that of their sum
(`ThreeNames`, `SomePieces`, `RoundingDown`, `ZipWithinAllowance`); and of whatever
lengths the metadata declares, those that passed the checks are not negative and
neither they nor the reservation wrap (`ExtraNatural`, `ReservationInRange`). That
the fixed allowance covers the cached `.torrent` needs two things more (`MetaInv`,
`CacheFits`): an uploaded one has passed `ParseTorrentFile`, whose limit of 4 MiB
leaves room for three copies in `queue.go`'s 16 MiB, and a job that asks for blocks
has removed it.

The same module has the proofs of `CapacityGate`, for every finite set of jobs, their
reservations, the budget and the disk, from `SpaceAssumption`. `ShortByDriftOnly` is
about granted jobs and says nothing of a check under way, which may be interrupted by
writes and deletions in directories walked already or not. `GateInv` (`GateInvariance`)
adds `Gathered`: what the walked tasks may still write, plus what free space was, is at
most what the walks added up, plus what free space is and what was written since. A
write or a deletion moves both sides alike, wherever the walk is
(`DirectoryChanges`, `DirectoryStep`); a grant, which compares the sum with what free
space was, turns it into the bound on the shortfall (`GrantStep`). `BudgetKept` and
`ShortfallBounded` follow. `SolventIfQuiet` is the converse of the race: if no directory
grows during a check, and every `.torrent` was cached before, there is no shortfall.
That a job writes no more than it reserved is the guard of `Writes` here and
`JobsFit` there.

**LibraryProofs**, for every set of uploads, folder trees, users and requests, from
the assumptions of `Library`. The five properties hold together or not at all: that
a deletion finds its whole subtree depends on owners being those of the upload, and
that nothing comes back on what a request asked for not being still to be inserted.
Folders without an id have no row of their own and at most one of them the row they
share, which lies in a row or in itself (`Strays`); an upload that met one has failed
or is on its way into it (`Astray`).
`LibraryInv` says: rows have the owner of their upload and lie in rows (`Owned`);
what a request holds at each step (`Shaped`), all of it its user's to delete
(`Entitled`) and none of it still to come (`NotDue`); and for whatever is missing, in
the remote store or in the database, there is a request that says so (`Explained`,
`Kept`). `AlwaysRooted`, `DeletedForGood`, `NoSilentGhosts` and `OthersContentSafe`
follow; `UploadsAreListed` needs that what a user can reach is closed under
containment, by induction along the walk (`NodeInduction`).

**HubProofs**, for every set of jobs, owners and connections and every capacity of
the channel, from the assumption of `ProgressHub` that there is one. `HubInv` says:
writes go to whoever may see them (`Addressed`); how far a job's last update is
(`Finals`); once an update says that a job has ended, no other follows it through
the channel, in the writes of `Run` and on screens (`Ordered`); a connection that has
not registered has seen nothing (`Newcomers`); and once the last update has left the
channel, whoever lags is being written to (`Reaching`). From it `UpdatesArePrivate`,
`SnapshotsForget`, `LastUpdateReaches`, and the action property `EndsStayEnded`: the
last conjunct of `Ordered` leaves no write that would bring a job back.

**AccountsProofs** (`Invariance`, `AccountsStay`, `SessionsEnd`), for any tabs,
browsers, names, passwords and lifetimes, from the assumptions of `Accounts`. The
strengthening: each token, in a jar or in an answer on its way, is backed by what
its browser proved (`AllBacked`), and later proofs only extend that (`OneProof`,
`LetInStep`).

Only model-checked: all liveness (`StopSettles`, `EveryJobSettles`, `HandlersEnd`),
which is out of this prover's reach. A sum over a set of any size is proved about
by induction over its subsets as a set of sets; induction over what a recursive
definition computes is not possible, and nothing above needs it. The violations of
section 3 are TLC's.

Looking for the proofs changed the models in five places. `JobQueue`'s `Life` had a
`CASE` whose guards overlap, which leaves the value open: it is a chain of conditions
now, as TLC took it. `JobFiles` got the size of the cached `.torrent`, and
`FitsReservation` its exception. `Library` got assumptions that each upload has
something to upload and that an owner is not the mark of an absent row. Each step of a `Library` request states the whole record it leaves. And
`CapacityGate` had left out what jobs write before they have a reservation and what
admitted jobs delete, which came up when the proof had to say of every step in the
program that touches a directory why the sum still bounds what is to come. With them
the shortfall is no longer how far free space fell, which a deletion hides, but what
was written.

## 5. What is not modelled

Request origin checks decide on the headers of one request; the admin page,
health, metrics and the search proxy read and change nothing; logging, templates
and assets have no state. Of what is modelled, the encodings are left out:
bencoding, hashing and signing are taken to work, names are safe or not, sorting
and search patterns do not matter. Routes and the environment variables of the
server are not modelled, which is why its component is listed as partly.

What the models take for granted:

* A statement whose context ended is not applied by MySQL after its caller has gone
  on, except in `Startup`, where it is.
* Progress callbacks of an upload happen within the upload call, so a job's updates
  have one sender.
* A file system keeps what fsync returned for.
* The torrent client takes no metadata whose pieces are for another length than its
  files declare, summed in an int64 (`TorrentAssumption`); which pieces a file touches
  is given.
* Gofile's answer has no id where no folder was made; a file it answers for with a
  server (`validateUploadServers`) is stored and has an id; it makes no folder
  in a folder without an id, and puts a file that is sent without a folder into one of its
  own, whose id has no row.

Jobs also wait for each other's space on the disk: a job that waits may hold partial
data of an earlier run. `EveryJobSettles` is about the budget alone, in which waiting
jobs hold nothing. Sessions may also be replaced by answers that overtake each other,
so that a logout is undone in the browser's jar; `WithinLifetime` bounds how long that
can be used, and no more.
