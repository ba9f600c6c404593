------------------------------ MODULE JobQueue ------------------------------
(***************************************************************************)
(* internal/core/queue/queue.go over internal/jobs/store.go: the download  *)
(* queue.  One process holds the task list in memory under q.mu; one       *)
(* worker goroutine per task drives the job from submission to verdict;    *)
(* MySQL keeps one row per unfinished job; the job directory is on disk;   *)
(* the torrent client and the remote store are environments.               *)
(*                                                                         *)
(* A job is one submission (one UUID): it is added at most once, whatever  *)
(* the outcome.  A step that runs with q.mu held is one action, the        *)
(* database calls it makes included.  A database call that returns an      *)
(* error has either been applied or never will be.  A crash loses memory   *)
(* and workers and keeps the database and the disk.                        *)
(***************************************************************************)
EXTENDS Integers, FiniteSets, Sequences, FiniteSetsExt

CONSTANTS
    Jobs,          \* submissions
    Request,       \* [Jobs -> [hash, owner, zipped, torrentFile]]
    Guest,         \* the owner of an anonymous submission (UserID = "")
    MaxQueueSize,  \* maxQueueSize
    Budget,        \* maxActiveBytes
    Reserves,      \* what reservation() may return
    MaxCrashes     \* bound on crashes

ASSUME RequestAssumption ==
    \A j \in Jobs : /\ DOMAIN Request[j] = {"hash", "owner", "zipped", "torrentFile"}
                    /\ Request[j].zipped \in BOOLEAN
                    /\ Request[j].torrentFile \in BOOLEAN
ASSUME BudgetAssumption == Budget \in Nat /\ Reserves \subseteq Nat \ {0}
ASSUME BoundsAssumption == MaxQueueSize \in Nat \ {0} /\ MaxCrashes \in Nat

Terminal == {"completed", "failed", "stopped"}
Statuses == {"pending", "started", "downloading", "zipping", "uploading"} \cup Terminal
NoRow    == [status |-> "none", stage |-> "none", reserve |-> 0]
Records  == [status : Statuses, stage : Statuses, reserve : Reserves \cup {0}]

Locations ==
    {"idle", "begin", "openDir", "addTorrent", "saveStarted", "awaitInfo",
     "inspect", "capacity", "saveDownloading", "dropMetadata", "download",
     "saveZipping", "zip", "saveUploading", "upload", "uploadEnd", "exit",
     "finish", "cleanup", "notify"}

VARIABLES
    row,        \* database: Download_Jobs, NoRow where there is none
    metrics,    \* database: Download_Metrics, jobs counted per status
    dirs,       \* disk: jobs with a directory
    original,   \* disk: jobs whose directory holds uploaded.torrent
    up,         \* memory: the process runs and Configure succeeded
    tasks,      \* memory: q.tasks, the jobs the queue knows
    job,        \* memory: task.job
    reserved,   \* memory: tasks with task.reserved
    activeBytes,\* memory: q.activeBytes
    handles,    \* memory: torrents in the client
    pc,         \* worker goroutine of each job; running iff not "idle"
    outcome,    \* run's local status, "failed" until it says otherwise
    attempted,  \* remote: jobs whose first remote side effect has happened
    uploaded,   \* remote: jobs whose content and library entry are complete
    told,       \* mails: the outcomes each job's owner was sent
    submission, \* history: how Add answered
    asked,      \* history: jobs on which Stop reached the database
    cancelled,  \* history: jobs on which Stop was acknowledged
    verdict,    \* history: the status under which Finish deleted the row
    crashes     \* history: number of crashes

database == <<row, metrics, verdict>>
disk     == <<dirs, original>>
memory   == <<up, tasks, job, reserved, activeBytes>>
remote   == <<attempted, uploaded, told>>
history  == <<submission, asked, cancelled, crashes>>
vars     == <<database, disk, memory, handles, pc, outcome, remote, history>>

TypeOK ==
    /\ row \in [Jobs -> Records \cup {NoRow}]
    /\ metrics \in [Terminal -> Nat]
    /\ dirs \in SUBSET Jobs
    /\ original \in SUBSET Jobs
    /\ up \in BOOLEAN
    /\ tasks \in SUBSET Jobs
    /\ job \in [Jobs -> Records \cup {NoRow}]
    /\ reserved \in SUBSET Jobs
    /\ activeBytes \in Int
    /\ handles \in SUBSET Jobs
    /\ pc \in [Jobs -> Locations]
    /\ outcome \in [Jobs -> Terminal]
    /\ attempted \in SUBSET Jobs
    /\ uploaded \in SUBSET Jobs
    /\ told \in [Jobs -> Seq(Terminal)]
    /\ submission \in [Jobs -> {"none", "accepted", "unconfirmed", "refused"}]
    /\ asked \in SUBSET Jobs
    /\ cancelled \in SUBSET Jobs
    /\ verdict \in [Jobs -> Terminal \cup {"none"}]
    /\ crashes \in 0..MaxCrashes

Init ==
    /\ row = [j \in Jobs |-> NoRow]
    /\ metrics = [s \in Terminal |-> 0]
    /\ dirs = {}
    /\ original = {}
    /\ up = FALSE
    /\ tasks = {}
    /\ job = [j \in Jobs |-> NoRow]
    /\ reserved = {}
    /\ activeBytes = 0
    /\ handles = {}
    /\ pc = [j \in Jobs |-> "idle"]
    /\ outcome = [j \in Jobs |-> "failed"]
    /\ attempted = {}
    /\ uploaded = {}
    /\ told = [j \in Jobs |-> <<>>]
    /\ submission = [j \in Jobs |-> "none"]
    /\ asked = {}
    /\ cancelled = {}
    /\ verdict = [j \in Jobs |-> "none"]
    /\ crashes = 0

Goto(j, loc) == pc' = [pc EXCEPT ![j] = loc]
HasRow(j)    == row[j] # NoRow
Persisted    == {j \in Jobs : HasRow(j)}
Hash(j)      == Request[j].hash

\* Store.Save: an UPDATE of the job's row; Save reports ErrNoRows when absent.
Save(j, record) == row' = [row EXCEPT ![j] = record]
In(record, status) == [record EXCEPT !.status = status, !.stage = status]

-----------------------------------------------------------------------------
(* Start-up: configure *)

\* Mutant: an interrupted upload resumes like any other work.
RecoveredReplays(record) ==
    IF record.status \in Terminal THEN record ELSE [record EXCEPT !.status = "pending"]

\* What start-up makes of a persisted job.  An upload that may have begun is
\* never begun again; other work restarts from the top, keeping its stage.
Recovered(record) ==
    IF record.stage = "uploading" THEN In(record, "failed")
    ELSE IF record.status \in Terminal THEN record
    ELSE [record EXCEPT !.status = "pending"]

DistinctHashes(S) == \A j, k \in S : j # k => Hash(j) # Hash(k)

Configure ==
    /\ ~up
    /\ DistinctHashes(Persisted)
    /\ up' = TRUE
    /\ tasks' = Persisted
    /\ job' = [j \in Jobs |-> IF HasRow(j) THEN Recovered(row[j]) ELSE NoRow]
    /\ UNCHANGED <<database, disk, reserved, activeBytes, handles, pc, outcome, remote, history>>

-----------------------------------------------------------------------------
(* Requests: Add and StopOwned *)

NewJob == [status |-> "pending", stage |-> "pending", reserve |-> 0]

AddAllowed(j) ==
    /\ up
    /\ submission[j] = "none"
    /\ Cardinality(tasks) < MaxQueueSize
    /\ \A k \in tasks : Hash(k) # Hash(j)

\* Mutant: the migration lacks the unique key.
HashUnchecked(j) == TRUE

\* UNIQUE KEY active_info_hash.
HashFree(j) == \A k \in Persisted : Hash(k) # Hash(j)

\* An uploaded .torrent is on disk before the INSERT.
KeepOriginal(j) ==
    LET kept == IF Request[j].torrentFile THEN {j} ELSE {}
    IN  dirs' = dirs \cup kept /\ original' = original \cup kept

\* Create's INSERT commits.  When its answer is an error all the same, the
\* row exists and the queue does not know it until the next start.
Add(j) ==
    /\ AddAllowed(j)
    /\ HashFree(j)
    /\ KeepOriginal(j)
    /\ row' = [row EXCEPT ![j] = NewJob]
    /\ \/ /\ tasks' = tasks \cup {j}
          /\ job' = [job EXCEPT ![j] = NewJob]
          /\ submission' = [submission EXCEPT ![j] = "accepted"]
       \/ /\ submission' = [submission EXCEPT ![j] = "unconfirmed"]
          /\ UNCHANGED <<tasks, job>>
    /\ UNCHANGED <<metrics, verdict, up, reserved, activeBytes, handles, pc, outcome,
                   remote, asked, cancelled, crashes>>

\* Mutant: the error of the INSERT is not looked at.
AddUnchecked(j) ==
    /\ AddAllowed(j)
    /\ KeepOriginal(j)
    /\ tasks' = tasks \cup {j}
    /\ job' = [job EXCEPT ![j] = NewJob]
    /\ submission' = [submission EXCEPT ![j] = "accepted"]
    /\ UNCHANGED <<database, up, reserved, activeBytes, handles, pc, outcome,
                   remote, asked, cancelled, crashes>>

\* The disk or the INSERT fails; what was written to disk may remain.
AddFails(j) ==
    /\ AddAllowed(j)
    /\ \/ KeepOriginal(j)
       \/ Request[j].torrentFile /\ dirs' = dirs \cup {j} /\ UNCHANGED original
       \/ UNCHANGED disk
    /\ submission' = [submission EXCEPT ![j] = "refused"]
    /\ UNCHANGED <<database, memory, handles, pc, outcome, remote, asked, cancelled, crashes>>

\* Mutant: the stage is not checked.
StoppableLate(j) ==
    j \in tasks /\ Request[j].owner # Guest /\ job[j].status \notin Terminal

Stoppable(j) ==
    /\ j \in tasks
    /\ Request[j].owner # Guest
    /\ job[j].status \notin Terminal
    /\ job[j].stage \notin {"uploading", "zipping"}

\* The row is written first.  If the answer is an error the queue's copy is
\* left as it was and the job runs on.  An error that wrote nothing is a stutter.
Stop(j) ==
    /\ up
    /\ Stoppable(j)
    /\ HasRow(j)
    /\ Save(j, In(job[j], "stopped"))
    /\ asked' = asked \cup {j}
    /\ \/ /\ job' = [job EXCEPT ![j] = In(@, "stopped")]
          /\ cancelled' = cancelled \cup {j}
       \/ UNCHANGED <<job, cancelled>>
    /\ UNCHANGED <<metrics, verdict, disk, up, tasks, reserved, activeBytes, handles,
                   pc, outcome, remote, submission, crashes>>

-----------------------------------------------------------------------------
(* Workers: ProcessTasks and run *)

\* The ticker: every task that is not running gets a worker.
ProcessTasks ==
    /\ up
    /\ pc' = [j \in Jobs |-> IF j \in tasks /\ pc[j] = "idle" THEN "begin" ELSE pc[j]]
    /\ UNCHANGED <<database, disk, memory, handles, outcome, remote, history>>

workerOnly == <<database, disk, memory, handles, remote, history>>

\* A task that is already terminal goes straight to finish with that status.
Begin(j) ==
    /\ pc[j] = "begin"
    /\ IF job[j].status \in Terminal
       THEN Goto(j, "finish") /\ outcome' = [outcome EXCEPT ![j] = job[j].status]
       ELSE Goto(j, "openDir") /\ outcome' = [outcome EXCEPT ![j] = "failed"]
    /\ UNCHANGED workerOnly

OpenDir(j) ==
    /\ pc[j] = "openDir"
    /\ dirs' = dirs \cup {j}
    /\ Goto(j, "addTorrent")
    /\ UNCHANGED <<database, original, memory, handles, outcome, remote, history>>

\* AddTorrentSpec must create the torrent: sharing one that is there is an error.
AddTorrent(j) ==
    /\ pc[j] = "addTorrent"
    /\ \A k \in handles : Hash(k) # Hash(j)
    /\ handles' = handles \cup {j}
    /\ Goto(j, "saveStarted")
    /\ UNCHANGED <<database, disk, memory, outcome, remote, history>>

SaveTarget == [saveStarted |-> "started", saveDownloading |-> "downloading",
               saveZipping |-> "zipping", saveUploading |-> "uploading"]
AfterSave  == [saveStarted |-> "awaitInfo", saveDownloading |-> "dropMetadata",
               saveZipping |-> "zip", saveUploading |-> "upload"]

\* saveStage: refused once stopped; memory follows the row.
SaveStage(j) ==
    /\ pc[j] \in DOMAIN SaveTarget
    /\ job[j].status # "stopped"
    /\ HasRow(j)
    /\ LET next == In(job[j], SaveTarget[pc[j]])
       IN  Save(j, next) /\ job' = [job EXCEPT ![j] = next]
    /\ Goto(j, AfterSave[pc[j]])
    /\ UNCHANGED <<metrics, verdict, disk, up, tasks, reserved, activeBytes,
                   handles, outcome, remote, history>>

\* saveStage returns an error: stopped, or a failed UPDATE that may be applied.
SaveStageFails(j) ==
    /\ pc[j] \in DOMAIN SaveTarget
    /\ \/ UNCHANGED row
       \/ /\ job[j].status # "stopped"
          /\ HasRow(j)
          /\ Save(j, In(job[j], SaveTarget[pc[j]]))
    /\ Goto(j, "exit")
    /\ UNCHANGED <<metrics, verdict, disk, memory, handles, outcome, remote, history>>

\* Mutant: the uploaded file is removed as soon as there is metadata.
GotInfoCleaning(j) ==
    /\ pc[j] = "awaitInfo"
    /\ original' = original \ {j}
    /\ Goto(j, "inspect")
    /\ UNCHANGED <<database, dirs, memory, handles, outcome, remote, history>>

GotInfo(j) ==
    /\ pc[j] = "awaitInfo"
    /\ Goto(j, "inspect")
    /\ UNCHANGED <<workerOnly, outcome>>

\* Mutant: the download loop does not look at the status.
SeeStopEarly(j) ==
    /\ pc[j] \in {"awaitInfo", "capacity"}
    /\ job[j].status = "stopped"
    /\ Goto(j, "exit")
    /\ UNCHANGED <<workerOnly, outcome>>

\* The polls that notice a cancellation.
SeeStop(j) ==
    /\ pc[j] \in {"awaitInfo", "capacity", "download"}
    /\ job[j].status = "stopped"
    /\ Goto(j, "exit")
    /\ UNCHANGED <<workerOnly, outcome>>

\* The metadata fixes the reservation; one beyond the whole budget is an error.
Inspect(j) ==
    /\ pc[j] = "inspect"
    /\ \E r \in Reserves :
         /\ job' = [job EXCEPT ![j].reserve = r]
         /\ Goto(j, IF r > Budget THEN "exit" ELSE "capacity")
    /\ UNCHANGED <<database, disk, up, tasks, reserved, activeBytes, handles,
                   outcome, remote, history>>

\* Capacity is granted against the logical budget.  The stop poll precedes
\* the lock, so a job stopped in between still gets its reservation.
Reserve(j) ==
    /\ pc[j] = "capacity"
    /\ activeBytes <= Budget - job[j].reserve
    /\ activeBytes' = activeBytes + job[j].reserve
    /\ reserved' = reserved \cup {j}
    /\ Goto(j, "saveDownloading")
    /\ UNCHANGED <<database, disk, up, tasks, job, handles, outcome, remote, history>>

DropMetadata(j) ==
    /\ pc[j] = "dropMetadata"
    /\ \/ original' = original \ {j} /\ Goto(j, "download")
       \/ original' \in {original, original \ {j}} /\ Goto(j, "exit")
    /\ UNCHANGED <<database, dirs, memory, handles, outcome, remote, history>>

\* Mutant: the torrent is left in the client.
TorrentKept(j) == handles

TorrentDropped(j) == handles \ {j}

\* All selected pieces are there: the torrent is dropped, its storage closed and
\* the selected files are staged, or one of these fails.
Download(j) ==
    /\ pc[j] = "download"
    /\ handles' = TorrentDropped(j)
    /\ \/ Goto(j, IF Request[j].zipped THEN "saveZipping" ELSE "saveUploading")
       \/ Goto(j, "exit")
    /\ UNCHANGED <<database, disk, memory, outcome, remote, history>>

\* Mutant: the upload follows without the uploading stage being saved.
ZipThenUpload(j) ==
    /\ pc[j] = "zip"
    /\ Goto(j, "upload")
    /\ UNCHANGED <<workerOnly, outcome>>

Zip(j) ==
    /\ pc[j] = "zip"
    /\ Goto(j, "saveUploading")
    /\ UNCHANGED <<workerOnly, outcome>>

\* Mutant: the job counts as completed before the upload's error is looked at.
UploadOptimistic(j) ==
    /\ pc[j] = "upload"
    /\ attempted' = attempted \cup {j}
    /\ outcome' = [outcome EXCEPT ![j] = "completed"]
    /\ Goto(j, "uploadEnd")
    /\ UNCHANGED <<database, disk, memory, handles, uploaded, told, history>>

\* A server was found: the upload's first remote side effect, and its end.
Upload(j) ==
    /\ pc[j] = "upload"
    /\ attempted' = attempted \cup {j}
    /\ Goto(j, "uploadEnd")
    /\ UNCHANGED <<database, disk, memory, handles, outcome, uploaded, told, history>>

UploadEnd(j) ==
    /\ pc[j] = "uploadEnd"
    /\ uploaded' = uploaded \cup {j}
    /\ outcome' = [outcome EXCEPT ![j] = "completed"]
    /\ Goto(j, "exit")
    /\ UNCHANGED <<database, disk, memory, handles, attempted, told, history>>

\* Every other early return of run.
Fail(j) ==
    /\ pc[j] \in {"openDir", "addTorrent", "awaitInfo", "inspect", "capacity",
                  "zip", "upload", "uploadEnd"}
    /\ Goto(j, "exit")
    /\ UNCHANGED <<workerOnly, outcome>>

\* run's deferred calls: drop the torrent, then read the status.  The lock is
\* released before finishWithReason takes it again.
Exit(j) ==
    /\ pc[j] = "exit"
    /\ handles' = TorrentDropped(j)
    /\ outcome' = [outcome EXCEPT ![j] = IF job[j].status = "stopped" THEN "stopped" ELSE @]
    /\ Goto(j, "finish")
    /\ UNCHANGED <<database, disk, memory, remote, history>>

-----------------------------------------------------------------------------
(* The end of a job: finishWithReason *)

\* Mutant: the job is counted whether or not the DELETE removed a row.
DeleteAndCountAlways(j) ==
    /\ row' = [row EXCEPT ![j] = NoRow]
    /\ metrics' = [metrics EXCEPT ![outcome[j]] = @ + 1]
    /\ verdict' = [verdict EXCEPT ![j] = outcome[j]]

\* Store.Finish: delete the row and count the job, if the row is there.
DeleteAndCount(j) ==
    IF HasRow(j)
    THEN /\ row' = [row EXCEPT ![j] = NoRow]
         /\ metrics' = [metrics EXCEPT ![outcome[j]] = @ + 1]
         /\ verdict' = [verdict EXCEPT ![j] = outcome[j]]
    ELSE UNCHANGED database

\* Mutants: the reservation is returned without asking whether it was granted,
\* or never.
ReleaseAlways(j) == activeBytes - job[j].reserve
ReleaseNever(j)  == activeBytes

\* activeBytes once j has ended.
Released(j) == IF j \in reserved THEN activeBytes - job[j].reserve ELSE activeBytes

Finish(j) ==
    /\ pc[j] = "finish"
    /\ DeleteAndCount(j)
    /\ job' = [job EXCEPT ![j] = In(@, outcome[j])]
    /\ tasks' = tasks \ {j}
    /\ activeBytes' = Released(j)
    /\ reserved' = reserved \ {j}
    /\ Goto(j, "cleanup")
    /\ UNCHANGED <<disk, up, handles, outcome, remote, history>>

\* Mutant: the early return after the error is missing.
FinishFallsThrough(j) ==
    /\ pc[j] = "finish"
    /\ job' = [job EXCEPT ![j] = In(@, outcome[j])]
    /\ Goto(j, "cleanup")
    /\ UNCHANGED <<database, disk, up, tasks, reserved, activeBytes, handles, outcome, remote, history>>

\* Save or Finish returns an error, at any point: the status stays in memory,
\* the task stays in the queue, and a later tick retries.
FinishFails(j) ==
    /\ pc[j] = "finish"
    /\ \/ UNCHANGED database
       \/ HasRow(j) /\ Save(j, In(job[j], outcome[j])) /\ UNCHANGED <<metrics, verdict>>
       \/ DeleteAndCount(j)
    /\ job' = [job EXCEPT ![j] = In(@, outcome[j])]
    /\ outcome' = [outcome EXCEPT ![j] = "failed"]
    /\ Goto(j, "idle")
    /\ UNCHANGED <<disk, up, tasks, reserved, activeBytes, handles, remote, history>>

\* Mutant: failed jobs lose their artifacts too.
CleanupAll(j) ==
    /\ pc[j] = "cleanup"
    /\ dirs' = dirs \ {j}
    /\ original' = original \ {j}
    /\ Goto(j, "notify")
    /\ UNCHANGED <<database, memory, handles, outcome, remote, history>>

\* Failed jobs keep their artifacts.  Removal is best effort.
Cleanup(j) ==
    /\ pc[j] = "cleanup"
    /\ \/ /\ outcome[j] # "failed"
          /\ dirs' \in {dirs, dirs \ {j}}
          /\ original' = original \ {j}
       \/ UNCHANGED disk
    /\ Goto(j, "notify")
    /\ UNCHANGED <<database, memory, handles, outcome, remote, history>>

\* One mail about a completed or failed job to its owner, best effort.  Then
\* nothing refers to the task.
Notify(j) ==
    /\ pc[j] = "notify"
    /\ told' \in {told} \cup
         (IF Request[j].owner # Guest /\ outcome[j] # "stopped"
          THEN {[told EXCEPT ![j] = Append(@, outcome[j])]} ELSE {})
    /\ job' = [job EXCEPT ![j] = NoRow]
    /\ outcome' = [outcome EXCEPT ![j] = "failed"]
    /\ Goto(j, "idle")
    /\ UNCHANGED <<database, disk, up, tasks, reserved, activeBytes, handles,
                   attempted, uploaded, history>>

-----------------------------------------------------------------------------

\* The process dies.
Crash ==
    /\ up
    /\ crashes < MaxCrashes
    /\ crashes' = crashes + 1
    /\ up' = FALSE
    /\ tasks' = {}
    /\ job' = [j \in Jobs |-> NoRow]
    /\ reserved' = {}
    /\ activeBytes' = 0
    /\ handles' = {}
    /\ pc' = [j \in Jobs |-> "idle"]
    /\ outcome' = [j \in Jobs |-> "failed"]
    /\ UNCHANGED <<database, disk, remote, submission, asked, cancelled>>

Worker(j) ==
    \/ Begin(j) \/ OpenDir(j) \/ AddTorrent(j) \/ SaveStage(j) \/ SaveStageFails(j)
    \/ GotInfo(j) \/ SeeStop(j) \/ Inspect(j) \/ Reserve(j) \/ DropMetadata(j)
    \/ Download(j) \/ Zip(j) \/ Upload(j) \/ UploadEnd(j) \/ Fail(j) \/ Exit(j) \/ Finish(j) \/ FinishFails(j)
    \/ Cleanup(j) \/ Notify(j)

Next ==
    \/ Configure
    \/ \E j \in Jobs : Add(j) \/ AddFails(j) \/ Stop(j)
    \/ ProcessTasks
    \/ \E j \in Jobs : Worker(j)
    \/ Crash

Spec == Init /\ [][Next]_vars

-----------------------------------------------------------------------------
(* Fairness.  The container is restarted after it dies, the ticker ticks and a
   goroutine with work of its own does it; a metadata wait ends by its timer.
   Nothing is assumed of peers, of the remote store or of free capacity. *)
Unbounded == {"capacity", "download", "upload", "uploadEnd"}
LocalStep(j) == SeeStop(j) \/ (pc[j] \notin Unbounded /\ Worker(j))

\* The database answers a finishing worker that asks forever.
DatabaseAnswers == \A j \in Jobs : SF_vars(Finish(j))

FairSpec ==
    /\ Spec
    /\ WF_vars(Configure)
    /\ WF_vars(ProcessTasks)
    /\ \A j \in Jobs : WF_vars(LocalStep(j))
    /\ DatabaseAnswers

\* In addition peers deliver, the remote store answers one way or the other,
\* and the disk has room for what the budget allows.
Advance(j) == Worker(j) /\ ~(pc[j] = "capacity" /\ pc'[j] = "exit" /\ job[j].status # "stopped")
PatientSpec == FairSpec /\ \A j \in Jobs : WF_vars(Advance(j))

-----------------------------------------------------------------------------
(* Properties *)

\* A job whose remote upload may have begun never begins another, whatever
\* crashes, lost answers and recoveries lie between (run's comment at the
\* uploading barrier; TestRecoveryNeverReplaysAmbiguousUpload).
NoReplay == \A j \in Jobs : pc[j] = "upload" => j \notin attempted

\* A cancellation the user was told of is honoured: no remote side effect
\* happens for that job, before or after (StopOwned against saveStage).
CancelledNeverUploaded == cancelled \cap attempted = {}

\* activeBytes is exactly what the reserved tasks hold, and within the budget:
\* no path through failure, stop, retry or recovery leaks or returns twice.
BudgetConserved ==
    /\ reserved \subseteq tasks
    /\ activeBytes = SumFunctionOnSet([j \in Jobs |-> job[j].reserve], reserved)
    /\ activeBytes <= Budget

\* Each finished job is in the daily counters exactly once, under the status it
\* ended with, however often Finish was retried; and its row is gone for good.
AccountedOnce ==
    /\ \A s \in Terminal : metrics[s] = Cardinality({j \in Jobs : verdict[j] = s})
    /\ \A j \in Jobs : verdict[j] # "none" => ~HasRow(j)

\* What Add acknowledged is never lost: there is a row to recover from, or a
\* verdict, and while the process is up the queue works on it.
NoneLost ==
    \A j \in Jobs : submission[j] = "accepted" =>
        /\ HasRow(j) \/ verdict[j] # "none"
        /\ up /\ verdict[j] = "none" => j \in tasks

\* An owner hears of a job at most once, only after its row is gone, and hears
\* the verdict; "completed" means the content is really there.
ToldOnceAndTruly ==
    \A j \in Jobs :
        /\ Len(told[j]) <= 1
        /\ Len(told[j]) = 1 => told[j][1] = verdict[j]
        /\ verdict[j] = "completed" => j \in uploaded

\* No two live torrents share a hash, so AddTorrentSpec is never refused a
\* fresh one: a worker drops its torrent before its hash is free again.
IsolatedTorrent ==
    \A j, k \in Jobs :
        /\ j # k /\ j \in handles /\ k \in handles => Hash(j) # Hash(k)
        /\ pc[j] = "addTorrent" /\ k \in handles => Hash(j) # Hash(k)

\* The rows of unfinished jobs never make configure refuse to start
\* ("invalid or duplicate persisted job").
Restartable == DistinctHashes(Persisted)

\* An uploaded .torrent (its private flag and trackers) leaves the disk only
\* once the job is persisted as downloading or later, or is finished.
OriginalKeptWhileQueued ==
    [][\A j \in original \ original' : row[j].stage \notin {"pending", "started"}]_vars

\* A job's directory is removed only after its row is, and never for a failed
\* job: after a crash no row points at data that was removed.
CleanupAfterCommit ==
    [][\A j \in dirs \ dirs' : ~HasRow(j) /\ verdict[j] \in {"completed", "stopped"}]_vars

\* What README.md says of cancelled jobs: they are cleaned up, so they end as
\* "stopped".  The code does not ensure it: Exit and Finish are two steps.
CancelledEndsStopped ==
    \A j \in cancelled : verdict[j] \in {"none", "stopped"}

\* A job whose cancellation was acknowledged gets its verdict, though peers,
\* remote store and capacity never respond and the process may crash.
StopSettles == \A j \in Jobs : j \in cancelled ~> verdict[j] # "none"

\* If peers and the remote store respond, every accepted job gets its verdict:
\* jobs waiting for capacity do not wait on each other.
EveryJobSettles == \A j \in Jobs : submission[j] = "accepted" ~> verdict[j] # "none"

-----------------------------------------------------------------------------
(* The queue implements JobContract. *)

Life(j) ==
    IF verdict[j] # "none" THEN verdict[j]
    ELSE IF row[j] = NoRow THEN "none"
    ELSE IF j \in uploaded THEN "published"
    ELSE IF j \in attempted THEN "uploading" ELSE "open"

Contract == INSTANCE JobContract WITH life <- [j \in Jobs |-> Life(j)]
ImplementsContract == Contract!ContractSpec
-----------------------------------------------------------------------------
(* Why the safety properties hold: an inductive strengthening, mostly job by
   job.  JobQueueProofs proves it for every value of the constants. *)

\* Where a job can be: a worker past "idle" works on a task of the queue until
\* its row is gone; a submission not accepted left no trace but on disk.
Placed(k) ==
    /\ k \in tasks => up /\ job[k] \in Records
    /\ pc[k] # "idle" => up
    /\ pc[k] \notin {"idle", "cleanup", "notify"} => k \in tasks
    /\ pc[k] \in {"cleanup", "notify"} => k \notin tasks
    /\ submission[k] \in {"none", "refused"} =>
         /\ row[k] = NoRow /\ k \notin tasks /\ pc[k] = "idle" /\ verdict[k] = "none"
         /\ k \notin attempted /\ k \notin cancelled

\* Rows are only ever written by Create and Save, with status and stage equal.
RowsSaved(k) == row[k].status = row[k].stage

\* "completed" is said only of uploaded content.
Completed(k) ==
    /\ k \in uploaded => k \in attempted
    /\ \/ row[k].status = "completed"
       \/ k \in tasks /\ job[k].status = "completed"
       \/ outcome[k] = "completed"
       \/ verdict[k] = "completed"
       => k \in uploaded

\* run's outcome is "failed" until its end, and a task that has its terminal
\* status is not given to run's body again.
Outcomes(k) ==
    /\ pc[k] \notin {"exit", "finish", "cleanup", "notify"} => outcome[k] = "failed"
    /\ k \in tasks /\ job[k].status \in {"failed", "completed"} =>
         pc[k] \in {"idle", "begin", "finish"}

\* The uploading stage is durable before the first remote side effect.
Barrier(k) ==
    /\ pc[k] \in {"upload", "uploadEnd"} =>
         job[k].status = "uploading" /\ job[k].stage = "uploading" /\ row[k].stage = "uploading"
    /\ pc[k] = "uploadEnd" => k \in attempted

\* After it, memory and row say so, and no worker is before the upload.
Attempted(k) ==
    k \in attempted =>
        /\ row[k] = NoRow \/ row[k].stage \in {"uploading", "failed", "completed"}
        /\ k \in tasks => /\ job[k].status = job[k].stage
                          /\ job[k].stage \in {"uploading", "failed", "completed"}
        /\ pc[k] \in {"idle", "begin", "uploadEnd", "exit", "finish", "cleanup", "notify"}
        /\ k \in tasks /\ pc[k] \in {"idle", "begin"} => job[k].status # "uploading"
        /\ outcome[k] # "stopped"

\* A cancelled job's memory and row never again allow a stage to be saved.
Cancelled(k) ==
    k \in cancelled =>
        /\ k \notin attempted
        /\ row[k] = NoRow \/ row[k].stage \in {"stopped", "failed"}
        /\ k \in tasks => /\ job[k].status = job[k].stage
                          /\ job[k].stage \in {"stopped", "failed"}

JobInv(k) ==
    /\ Placed(k) /\ RowsSaved(k) /\ Completed(k) /\ Outcomes(k)
    /\ Barrier(k) /\ Attempted(k) /\ Cancelled(k)

CoreInv == TypeOK /\ \A k \in Jobs : JobInv(k)

\* A verdict is final: the row is gone, and a task that is still in the queue,
\* because Finish's answer was lost, can only end again under the same status.
Settled(k) ==
    /\ verdict[k] # "none" =>
         /\ row[k] = NoRow
         /\ k \in tasks => /\ pc[k] \in {"idle", "begin", "finish"}
                           /\ job[k].status = verdict[k]
                           /\ pc[k] = "finish" => outcome[k] = verdict[k]
    /\ pc[k] \in {"cleanup", "notify"} => verdict[k] = outcome[k]

\* What is to be done is in the database, and while the process is up in memory.
Rooted(k) ==
    /\ k \in tasks \/ submission[k] = "accepted" => HasRow(k) \/ verdict[k] # "none"
    /\ submission[k] = "accepted" /\ up /\ verdict[k] = "none" => k \in tasks

\* The mail is the last that is done about a job.
Told(k) ==
    \/ told[k] = <<>>
    \/ /\ told[k] = <<verdict[k]>> /\ verdict[k] # "none"
       /\ k \notin tasks /\ pc[k] = "idle"

\* "stopped" is said only of jobs somebody asked to stop.
AskedFor(k) ==
    \/ row[k].status = "stopped"
    \/ k \in tasks /\ job[k].status = "stopped"
    \/ outcome[k] = "stopped"
    \/ verdict[k] = "stopped"
    => k \in asked

\* Content is completed once.
UploadedOnce(k) == k \in uploaded => pc[k] # "uploadEnd"

\* The downloading stage is saved before the uploaded .torrent is removed.
StageSaved(k) == pc[k] = "dropMetadata" => row[k].stage \notin {"pending", "started"}

\* A torrent is in the client from AddTorrent to Exit at most.
InClient(k) ==
    k \in handles =>
        pc[k] \notin {"idle", "begin", "openDir", "addTorrent", "finish", "cleanup", "notify"}

\* A reservation is held from Reserve until the task leaves the queue, also by
\* the task that waits for another try at finishing.
Holding(k) ==
    k \in reserved =>
        /\ k \in tasks
        /\ \/ pc[k] \in {"saveDownloading", "dropMetadata", "download", "saveZipping", "zip",
                         "saveUploading", "upload", "uploadEnd", "exit", "finish"}
           \/ pc[k] \in {"idle", "begin"} /\ job[k].status \in Terminal

JobBooks(k) ==
    /\ Settled(k) /\ Rooted(k) /\ Told(k) /\ AskedFor(k)
    /\ UploadedOnce(k) /\ StageSaved(k) /\ InClient(k) /\ Holding(k)

HashesApart == DistinctHashes(tasks \cup Persisted)
FewFinished == IsFiniteSet({j \in Jobs : verdict[j] # "none"}) /\ IsFiniteSet(reserved)

IInv ==
    /\ CoreInv
    /\ \A k \in Jobs : JobBooks(k)
    /\ HashesApart
    /\ FewFinished /\ AccountedOnce /\ BudgetConserved
=============================================================================
