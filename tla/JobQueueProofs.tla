--------------------------- MODULE JobQueueProofs ---------------------------
(* Proofs about JobQueue, for every set of jobs, budget and number of crashes. *)
EXTENDS JobQueue, Sums, TLAPS

\* In sets status and stage of any record the model uses and yields a record
\* of the database's type.
LEMMA InRecord ==
    ASSUME NEW r \in Records \cup {NoRow}, NEW s \in Statuses
    PROVE  /\ In(r, s) \in Records
           /\ In(r, s).status = s /\ In(r, s).stage = s
<1>1. CASE r \in Records
    BY <1>1 DEF In, Records
<1>2. CASE r = NoRow
    BY <1>2 DEF In, Records, NoRow
<1> QED BY <1>1, <1>2

\* In leaves the reservation alone.
LEMMA InReserve ==
    ASSUME NEW r \in Records \cup {NoRow}, NEW s
    PROVE  In(r, s).reserve = r.reserve
    BY DEF In, Records, NoRow

\* Absent rows and records are told apart by their status.
LEMMA NoRowDistinct ==
    /\ NoRow \notin Records
    /\ NewJob \in Records
    /\ \A r \in Records : r.status \in Statuses /\ r.stage \in Statuses
    BY DEF NoRow, NewJob, Records, Statuses, Terminal

\* Start-up makes records of records; only an interrupted upload changes stage.
LEMMA RecoveredRecord ==
    ASSUME NEW r \in Records
    PROVE  /\ Recovered(r) \in Records
           /\ r.stage = "uploading" =>
                Recovered(r).status = "failed" /\ Recovered(r).stage = "failed"
           /\ r.stage # "uploading" => Recovered(r).stage = r.stage
           /\ r.stage # "uploading" /\ r.status \in Terminal => Recovered(r).status = r.status
           /\ Recovered(r).status = "completed" => r.status = "completed"
    BY DEF Recovered, In, Records, Statuses, Terminal

\* The initial state satisfies the inductive invariant.
LEMMA InitCore == Init => CoreInv
<1>1. SUFFICES ASSUME Init PROVE CoreInv
    OBVIOUS
<1>2. TypeOK
    <2>1. told \in [Jobs -> Seq(Terminal)]
        <3>1. <<>> \in Seq(Terminal)
            OBVIOUS
        <3> QED BY <1>1, <3>1 DEF Init
    <2>2. crashes \in 0..MaxCrashes
        BY <1>1, BoundsAssumption DEF Init
    <2>3. /\ row \in [Jobs -> Records \cup {NoRow}]
          /\ job \in [Jobs -> Records \cup {NoRow}]
        BY <1>1 DEF Init
    <2>4. /\ metrics \in [Terminal -> Nat]
          /\ outcome \in [Jobs -> Terminal]
          /\ pc \in [Jobs -> Locations]
          /\ submission \in [Jobs -> {"none", "accepted", "unconfirmed", "refused"}]
          /\ verdict \in [Jobs -> Terminal \cup {"none"}]
        BY <1>1 DEF Init, Terminal, Locations
    <2>5. /\ dirs \in SUBSET Jobs /\ original \in SUBSET Jobs /\ tasks \in SUBSET Jobs
          /\ reserved \in SUBSET Jobs /\ handles \in SUBSET Jobs
          /\ attempted \in SUBSET Jobs /\ uploaded \in SUBSET Jobs
          /\ asked \in SUBSET Jobs /\ cancelled \in SUBSET Jobs
          /\ activeBytes \in Int
        BY <1>1 DEF Init
    <2>6. up \in BOOLEAN
        BY <1>1 DEF Init
    <2> QED BY <2>1, <2>2, <2>3, <2>4, <2>5, <2>6 DEF TypeOK
<1>3. \A k \in Jobs : JobInv(k)
    BY <1>1 DEF Init, JobInv, Placed, RowsSaved, Completed, Outcomes, Barrier, Attempted,
           Cancelled, NoRow
<1> QED BY <1>2, <1>3 DEF CoreInv

\* Deleting and counting a row preserves the database's types.
LEMMA CountTyped ==
    ASSUME TypeOK, NEW j \in Jobs, DeleteAndCount(j)
    PROVE  /\ row' \in [Jobs -> Records \cup {NoRow}]
           /\ metrics' \in [Terminal -> Nat]
           /\ verdict' \in [Jobs -> Terminal \cup {"none"}]
<1>1. CASE HasRow(j)
    <2>1. outcome[j] \in Terminal
        BY DEF TypeOK
    <2>2. row' = [row EXCEPT ![j] = NoRow]
        BY <1>1 DEF DeleteAndCount
    <2>3. metrics' = [metrics EXCEPT ![outcome[j]] = metrics[outcome[j]] + 1]
        BY <1>1 DEF DeleteAndCount
    <2>4. verdict' = [verdict EXCEPT ![j] = outcome[j]]
        BY <1>1 DEF DeleteAndCount
    <2>5. row' \in [Jobs -> Records \cup {NoRow}]
        BY <2>2 DEF TypeOK
    <2>6. metrics' \in [Terminal -> Nat]
        BY <2>1, <2>3 DEF TypeOK
    <2>7. verdict' \in [Jobs -> Terminal \cup {"none"}]
        BY <2>1, <2>4 DEF TypeOK
    <2> QED BY <2>5, <2>6, <2>7
<1>2. CASE ~HasRow(j)
    BY <1>2 DEF TypeOK, DeleteAndCount, database
<1> QED BY <1>1, <1>2

\* Every step preserves the types.
LEMMA TypeStep ==
    ASSUME CoreInv, [Next]_vars
    PROVE  TypeOK'
<1> USE DEF CoreInv, TypeOK, database, disk, memory, remote, history
<1>1. CASE Configure
    BY <1>1, RecoveredRecord DEF Configure, HasRow, Persisted
<1>2. ASSUME NEW j \in Jobs, Add(j) PROVE TypeOK'
    <2>1. /\ row' \in [Jobs -> Records \cup {NoRow}]
          /\ job' \in [Jobs -> Records \cup {NoRow}]
        <3>1. row' = [row EXCEPT ![j] = NewJob] /\ job' \in {job, [job EXCEPT ![j] = NewJob]}
            BY <1>2 DEF Add
        <3> QED BY <3>1, NoRowDistinct
    <2>2. tasks' \in SUBSET Jobs /\ dirs' \in SUBSET Jobs /\ original' \in SUBSET Jobs
        BY <1>2 DEF Add, KeepOriginal
    <2>3. submission' \in [Jobs -> {"none", "accepted", "unconfirmed", "refused"}]
        BY <1>2 DEF Add
    <2> QED BY <1>2, <2>1, <2>2, <2>3 DEF Add
<1>3. ASSUME NEW j \in Jobs, AddFails(j) PROVE TypeOK'
    BY <1>3, InRecord, NoRowDistinct DEF AddFails, Goto, Locations, Statuses, Terminal, KeepOriginal
<1>4. ASSUME NEW j \in Jobs, Stop(j) PROVE TypeOK'
    BY <1>4, InRecord, NoRowDistinct DEF Stop, Goto, Locations, Statuses, Terminal, Save
<1>5. ASSUME NEW j \in Jobs, Begin(j) PROVE TypeOK'
    <2>1. pc' \in [Jobs -> Locations]
        <3>1. Goto(j, "finish") \/ Goto(j, "openDir")
            BY <1>5 DEF Begin
        <3> QED BY <3>1 DEF Goto, Locations
    <2>2. outcome' \in [Jobs -> Terminal]
        BY <1>5 DEF Begin, Terminal
    <2> QED BY <1>5, <2>1, <2>2 DEF Begin, workerOnly
<1>6. ASSUME NEW j \in Jobs, OpenDir(j) PROVE TypeOK'
    BY <1>6, InRecord, NoRowDistinct DEF OpenDir, Goto, Locations, Statuses, Terminal
<1>7. ASSUME NEW j \in Jobs, AddTorrent(j) PROVE TypeOK'
    BY <1>7, InRecord, NoRowDistinct DEF AddTorrent, Goto, Locations, Statuses, Terminal
<1>8. ASSUME NEW j \in Jobs, SaveStage(j) PROVE TypeOK'
    BY <1>8, InRecord, NoRowDistinct DEF SaveStage, Goto, Locations, Statuses, Terminal, Save, SaveTarget, AfterSave
<1>9. ASSUME NEW j \in Jobs, SaveStageFails(j) PROVE TypeOK'
    <2>1. row' \in [Jobs -> Records \cup {NoRow}]
        <3>1. CASE UNCHANGED row
            BY <3>1
        <3>2. CASE Save(j, In(job[j], SaveTarget[pc[j]]))
            <4>1. SaveTarget[pc[j]] \in Statuses
                BY <1>9 DEF SaveStageFails, SaveTarget, Statuses
            <4> QED BY <3>2, <4>1, InRecord DEF Save
        <3> QED BY <1>9, <3>1, <3>2 DEF SaveStageFails
    <2>2. pc' \in [Jobs -> Locations]
        BY <1>9 DEF SaveStageFails, Goto, Locations
    <2> QED BY <1>9, <2>1, <2>2 DEF SaveStageFails
<1>10. ASSUME NEW j \in Jobs, GotInfo(j) PROVE TypeOK'
    BY <1>10, InRecord, NoRowDistinct DEF GotInfo, Goto, Locations, Statuses, Terminal, workerOnly
<1>11. ASSUME NEW j \in Jobs, SeeStop(j) PROVE TypeOK'
    BY <1>11, InRecord, NoRowDistinct DEF SeeStop, Goto, Locations, Statuses, Terminal, workerOnly
<1>12. ASSUME NEW j \in Jobs, Inspect(j) PROVE TypeOK'
    <2>1. job[j] \in Records
        BY <1>12 DEF Inspect, JobInv, Placed
    <2>2. PICK r \in Reserves : job' = [job EXCEPT ![j].reserve = r]
        BY <1>12 DEF Inspect
    <2>3. job' \in [Jobs -> Records \cup {NoRow}]
        BY <2>1, <2>2 DEF Records
    <2>4. pc' \in [Jobs -> Locations]
        BY <1>12 DEF Inspect, Goto, Locations
    <2> QED BY <1>12, <2>3, <2>4 DEF Inspect
<1>13. ASSUME NEW j \in Jobs, Reserve(j) PROVE TypeOK'
    BY <1>13, InRecord, NoRowDistinct DEF Reserve, Goto, Locations, Statuses, Terminal
<1>14. ASSUME NEW j \in Jobs, DropMetadata(j) PROVE TypeOK'
    BY <1>14, InRecord, NoRowDistinct DEF DropMetadata, Goto, Locations, Statuses, Terminal
<1>15. ASSUME NEW j \in Jobs, Download(j) PROVE TypeOK'
    BY <1>15, InRecord, NoRowDistinct DEF Download, TorrentDropped, Goto, Locations, Statuses, Terminal
<1>16. ASSUME NEW j \in Jobs, Zip(j) PROVE TypeOK'
    BY <1>16, InRecord, NoRowDistinct DEF Zip, Goto, Locations, Statuses, Terminal, workerOnly
<1>17. ASSUME NEW j \in Jobs, Upload(j) PROVE TypeOK'
    BY <1>17, InRecord, NoRowDistinct DEF Upload, Goto, Locations, Statuses, Terminal
<1>18. ASSUME NEW j \in Jobs, UploadEnd(j) PROVE TypeOK'
    BY <1>18, InRecord, NoRowDistinct DEF UploadEnd, Goto, Locations, Statuses, Terminal
<1>19. ASSUME NEW j \in Jobs, Fail(j) PROVE TypeOK'
    BY <1>19, InRecord, NoRowDistinct DEF Fail, Goto, Locations, Statuses, Terminal, workerOnly
<1>20. ASSUME NEW j \in Jobs, Exit(j) PROVE TypeOK'
    BY <1>20, InRecord, NoRowDistinct DEF Exit, TorrentDropped, Goto, Locations, Statuses, Terminal
<1>21. ASSUME NEW j \in Jobs, Finish(j) PROVE TypeOK'
    <2>1. /\ row' \in [Jobs -> Records \cup {NoRow}]
          /\ metrics' \in [Terminal -> Nat]
          /\ verdict' \in [Jobs -> Terminal \cup {"none"}]
        BY <1>21, CountTyped, InRecord DEF Finish, Save, Terminal, Statuses
    <2>2. job' \in [Jobs -> Records \cup {NoRow}] /\ outcome[j] \in Terminal
        BY <1>21, InRecord DEF Finish, Statuses
    <2>3. pc' \in [Jobs -> Locations]
        BY <1>21 DEF Finish, Goto, Locations
    <2>4. activeBytes' \in Int
        <3>1. job[j] \in Records
            BY <1>21 DEF Finish, JobInv, Placed
        <3>2. job[j].reserve \in Reserves \cup {0}
            BY <3>1 DEF Records
        <3>3. job[j].reserve \in Int
            <4>1. \A r \in Reserves : r \in Nat
                BY BudgetAssumption
            <4> QED BY <3>2, <4>1
        <3> QED BY <1>21, <3>3 DEF Finish, Released
    <2> QED BY <1>21, <2>1, <2>2, <2>3, <2>4 DEF Finish
<1>22. ASSUME NEW j \in Jobs, FinishFails(j) PROVE TypeOK'
    <2>1. /\ row' \in [Jobs -> Records \cup {NoRow}]
          /\ metrics' \in [Terminal -> Nat]
          /\ verdict' \in [Jobs -> Terminal \cup {"none"}]
        <3>1. CASE UNCHANGED database
            BY <3>1
        <3>2. CASE Save(j, In(job[j], outcome[j])) /\ UNCHANGED <<metrics, verdict>>
            BY <3>2, InRecord DEF Save, Statuses
        <3>3. CASE DeleteAndCount(j)
            BY <3>3, CountTyped
        <3> QED BY <1>22, <3>1, <3>2, <3>3 DEF FinishFails
    <2>2. job' \in [Jobs -> Records \cup {NoRow}] /\ outcome[j] \in Terminal
        BY <1>22, InRecord DEF FinishFails, Statuses
    <2>3. pc' \in [Jobs -> Locations]
        BY <1>22 DEF FinishFails, Goto, Locations
    <2>4. outcome' \in [Jobs -> Terminal]
        BY <1>22 DEF FinishFails, Terminal
    <2> QED BY <1>22, <2>1, <2>2, <2>3, <2>4 DEF FinishFails
<1>23. ASSUME NEW j \in Jobs, Cleanup(j) PROVE TypeOK'
    BY <1>23, InRecord, NoRowDistinct DEF Cleanup, Goto, Locations, Statuses, Terminal
<1>24. ASSUME NEW j \in Jobs, Notify(j) PROVE TypeOK'
    <2>1. told' \in [Jobs -> Seq(Terminal)]
        <3>1. Append(told[j], outcome[j]) \in Seq(Terminal)
            BY <1>24
        <3> QED BY <1>24, <3>1 DEF Notify
    <2>2. job' \in [Jobs -> Records \cup {NoRow}]
        BY <1>24 DEF Notify
    <2>3. pc' \in [Jobs -> Locations] /\ outcome' \in [Jobs -> Terminal]
        BY <1>24 DEF Notify, Goto, Locations, Terminal
    <2> QED BY <1>24, <2>1, <2>2, <2>3 DEF Notify
<1>25. CASE ProcessTasks
    BY <1>25 DEF ProcessTasks, Locations
<1>26. CASE Crash
    <2>1. job' \in [Jobs -> Records \cup {NoRow}]
        BY <1>26 DEF Crash
    <2>2. pc' \in [Jobs -> Locations] /\ outcome' \in [Jobs -> Terminal]
        BY <1>26 DEF Crash, Locations, Terminal
    <2>3. crashes' \in 0..MaxCrashes
        BY <1>26, BoundsAssumption DEF Crash
    <2>4. up' \in BOOLEAN
        BY <1>26 DEF Crash
    <2> QED BY <1>26, <2>1, <2>2, <2>3, <2>4 DEF Crash
<1>27. CASE UNCHANGED vars
    BY <1>27 DEF vars
<1> QED BY <1>1, <1>2, <1>3, <1>4, <1>5, <1>6, <1>7, <1>8, <1>9, <1>10, <1>11, <1>12, <1>13, <1>14, <1>15, <1>16, <1>17, <1>18, <1>19, <1>20, <1>21, <1>22, <1>23, <1>24, <1>25, <1>26, <1>27 DEF Next, Worker

\* What JobInv(k) and JobBooks(k) read, unchanged by a step.
SameView(k) ==
    /\ row'[k] = row[k] /\ job'[k] = job[k] /\ pc'[k] = pc[k] /\ outcome'[k] = outcome[k]
    /\ verdict'[k] = verdict[k] /\ submission'[k] = submission[k] /\ told'[k] = told[k]
    /\ k \in handles' <=> k \in handles
    /\ k \in reserved' <=> k \in reserved
    /\ k \in asked' <=> k \in asked
    /\ k \in tasks' <=> k \in tasks
    /\ k \in attempted' <=> k \in attempted
    /\ k \in uploaded' <=> k \in uploaded
    /\ k \in cancelled' <=> k \in cancelled
    /\ up' <=> up

\* A step that leaves what JobInv(k) reads alone keeps it.
LEMMA SameViewKeeps ==
    ASSUME NEW k \in Jobs, JobInv(k), SameView(k)
    PROVE  JobInv(k)'
    BY DEF SameView, JobInv, Placed, RowsSaved, Completed, Outcomes, Barrier, Attempted, Cancelled

\* The same for what is booked of it.
LEMMA SameViewBooks ==
    ASSUME NEW k \in Jobs, JobBooks(k), SameView(k)
    PROVE  JobBooks(k)'
    BY DEF SameView, JobBooks, Settled, Rooted, Told, AskedFor, UploadedOnce, StageSaved,
           InClient, Holding, HasRow

\* A step about job j leaves every other job as it was.
LEMMA OtherJobs ==
    ASSUME TypeOK, NEW j \in Jobs, NEW k \in Jobs, j # k,
           Add(j) \/ AddFails(j) \/ Stop(j) \/ Worker(j)
    PROVE  SameView(k)
<1> USE DEF TypeOK, SameView, database, disk, memory, remote, history
<1>1. CASE Add(j)
    BY <1>1 DEF Add, KeepOriginal
<1>2. CASE AddFails(j)
    BY <1>2 DEF AddFails, KeepOriginal
<1>3. CASE Stop(j)
    BY <1>3 DEF Stop, Save
<1>4. CASE Begin(j)
    BY <1>4 DEF Begin, Goto, workerOnly
<1>5. CASE OpenDir(j)
    BY <1>5 DEF OpenDir, Goto
<1>6. CASE AddTorrent(j)
    BY <1>6 DEF AddTorrent, Goto
<1>7. CASE SaveStage(j)
    BY <1>7 DEF SaveStage, Goto, Save
<1>8. CASE SaveStageFails(j)
    BY <1>8 DEF SaveStageFails, Goto, Save
<1>9. CASE GotInfo(j)
    BY <1>9 DEF GotInfo, Goto, workerOnly
<1>10. CASE SeeStop(j)
    BY <1>10 DEF SeeStop, Goto, workerOnly
<1>11. CASE Inspect(j)
    BY <1>11 DEF Inspect, Goto
<1>12. CASE Reserve(j)
    BY <1>12 DEF Reserve, Goto
<1>13. CASE DropMetadata(j)
    BY <1>13 DEF DropMetadata, Goto
<1>14. CASE Download(j)
    BY <1>14 DEF Download, Goto, TorrentDropped
<1>15. CASE Zip(j)
    BY <1>15 DEF Zip, Goto, workerOnly
<1>16. CASE Upload(j)
    BY <1>16 DEF Upload, Goto
<1>17. CASE UploadEnd(j)
    BY <1>17 DEF UploadEnd, Goto
<1>18. CASE Fail(j)
    BY <1>18 DEF Fail, Goto, workerOnly
<1>19. CASE Exit(j)
    BY <1>19 DEF Exit, Goto, TorrentDropped
<1>20. CASE Finish(j)
    BY <1>20 DEF Finish, Goto, DeleteAndCount
<1>21. CASE FinishFails(j)
    BY <1>21 DEF FinishFails, Goto, Save, DeleteAndCount
<1>22. CASE Cleanup(j)
    BY <1>22 DEF Cleanup, Goto
<1>23. CASE Notify(j)
    BY <1>23 DEF Notify, Goto
<1> QED BY <1>1, <1>2, <1>3, <1>4, <1>5, <1>6, <1>7, <1>8, <1>9, <1>10, <1>11, <1>12, <1>13, <1>14, <1>15, <1>16, <1>17, <1>18, <1>19, <1>20, <1>21, <1>22, <1>23 DEF Worker

\* A step about job j keeps JobInv(j).
LEMMA OwnJob ==
    ASSUME TypeOK, NEW j \in Jobs, JobInv(j),
           Add(j) \/ AddFails(j) \/ Stop(j) \/ Worker(j)
    PROVE  JobInv(j)'
<1> USE DEF TypeOK, JobInv, Placed, RowsSaved, Completed, Outcomes, Barrier, Attempted, Cancelled,
            database, disk, memory, remote, history, Terminal
<1>1. CASE Add(j)
    <2>1. /\ row'[j] = NewJob /\ submission'[j] \in {"accepted", "unconfirmed"} /\ up' = up
          /\ j \in tasks' => job'[j] = NewJob /\ up
          /\ pc' = pc /\ outcome' = outcome /\ verdict' = verdict
          /\ attempted' = attempted /\ uploaded' = uploaded /\ cancelled' = cancelled
          /\ submission[j] = "none"
        <3>1. j \notin tasks /\ submission[j] = "none" /\ up
            BY <1>1 DEF Add, AddAllowed
        <3> QED BY <1>1, <3>1 DEF Add
    <2>2. NewJob \in Records /\ NewJob.status = "pending" /\ NewJob.stage = "pending"
        BY NoRowDistinct DEF NewJob
    <2> QED BY <2>1, <2>2
<1>2. CASE AddFails(j)
    BY <1>2 DEF AddFails, AddAllowed, KeepOriginal
<1>3. CASE Stop(j)
    <2>1. /\ row'[j] = In(job[j], "stopped") /\ job'[j] \in {job[j], In(job[j], "stopped")}
          /\ j \in cancelled' \/ j \in cancelled => j \in cancelled' \/ cancelled' = cancelled
          /\ j \in cancelled' => j \in cancelled \/ job'[j] = In(job[j], "stopped")
          /\ tasks' = tasks /\ up' = up /\ pc' = pc /\ outcome' = outcome /\ verdict' = verdict
          /\ attempted' = attempted /\ uploaded' = uploaded /\ submission' = submission
          /\ row[j] # NoRow
        BY <1>3 DEF Stop, Save, HasRow
    <2>2. /\ j \in tasks /\ job[j].status \notin Terminal
          /\ job[j].stage \notin {"uploading", "zipping"}
        BY <1>3 DEF Stop, Stoppable
    <2>3. /\ In(job[j], "stopped") \in Records
          /\ In(job[j], "stopped").status = "stopped" /\ In(job[j], "stopped").stage = "stopped"
        BY InRecord DEF Statuses
    <2>4. j \notin attempted /\ j \notin cancelled /\ pc[j] \notin {"upload", "uploadEnd"}
        BY <2>2
    <2>5. Placed(j)' /\ RowsSaved(j)' /\ Completed(j)'
        BY <2>1, <2>2, <2>3
    <2>6. Outcomes(j)' /\ Barrier(j)'
        BY <2>1, <2>2, <2>3, <2>4
    <2>7. Attempted(j)' /\ Cancelled(j)'
        BY <2>1, <2>2, <2>3, <2>4
    <2> QED BY <2>5, <2>6, <2>7
<1>4. CASE Begin(j)
    BY <1>4 DEF Begin, Goto, workerOnly
<1>5. CASE OpenDir(j)
    BY <1>5 DEF OpenDir, Goto
<1>6. CASE AddTorrent(j)
    BY <1>6 DEF AddTorrent, Goto
<1>7. CASE SaveStage(j)
    <2> DEFINE stage == SaveTarget[pc[j]]
    <2>1. /\ pc[j] \in {"saveStarted", "saveDownloading", "saveZipping", "saveUploading"}
          /\ stage \in {"started", "downloading", "zipping", "uploading"}
          /\ stage = "uploading" <=> pc[j] = "saveUploading"
          /\ AfterSave[pc[j]] \in {"awaitInfo", "dropMetadata", "zip", "upload"}
          /\ AfterSave[pc[j]] = "upload" <=> pc[j] = "saveUploading"
        BY <1>7 DEF SaveStage, SaveTarget, AfterSave
    <2>2. /\ row'[j] = In(job[j], stage) /\ job'[j] = In(job[j], stage)
          /\ pc'[j] = AfterSave[pc[j]]
          /\ tasks' = tasks /\ up' = up /\ outcome' = outcome /\ verdict' = verdict
          /\ attempted' = attempted /\ uploaded' = uploaded /\ cancelled' = cancelled
          /\ submission' = submission /\ job[j].status # "stopped"
        BY <1>7 DEF SaveStage, Save, Goto
    <2>3. /\ In(job[j], stage) \in Records
          /\ In(job[j], stage).status = stage /\ In(job[j], stage).stage = stage
        BY <2>1, InRecord DEF Statuses
    <2> HIDE DEF stage
    <2>4. j \in tasks /\ j \notin attempted /\ j \notin cancelled
        BY <2>1, <2>2
    <2>5. Placed(j)' /\ RowsSaved(j)' /\ Completed(j)'
        BY <2>1, <2>2, <2>3, <2>4
    <2>6. Outcomes(j)' /\ Barrier(j)' /\ Attempted(j)' /\ Cancelled(j)'
        BY <2>1, <2>2, <2>3, <2>4
    <2> QED BY <2>5, <2>6
<1>8. CASE SaveStageFails(j)
    <2> DEFINE stage == SaveTarget[pc[j]]
    <2>1. /\ pc[j] \in {"saveStarted", "saveDownloading", "saveZipping", "saveUploading"}
          /\ stage \in {"started", "downloading", "zipping", "uploading"}
        BY <1>8 DEF SaveStageFails, SaveTarget
    <2>2. /\ row' = row \/ (row'[j] = In(job[j], stage) /\ job[j].status # "stopped" /\ row[j] # NoRow)
          /\ pc'[j] = "exit" /\ job' = job
          /\ tasks' = tasks /\ up' = up /\ outcome' = outcome /\ verdict' = verdict
          /\ attempted' = attempted /\ uploaded' = uploaded /\ cancelled' = cancelled
          /\ submission' = submission
        BY <1>8 DEF SaveStageFails, Save, Goto, HasRow
    <2>3. /\ In(job[j], stage) \in Records
          /\ In(job[j], stage).status = stage /\ In(job[j], stage).stage = stage
        BY <2>1, InRecord DEF Statuses
    <2> HIDE DEF stage
    <2>4. j \in tasks /\ j \notin attempted /\ (j \in cancelled => job[j].status = "stopped")
        BY <2>1
    <2>5. Placed(j)' /\ RowsSaved(j)' /\ Completed(j)'
        BY <2>1, <2>2, <2>3, <2>4
    <2>6. Outcomes(j)' /\ Barrier(j)' /\ Attempted(j)' /\ Cancelled(j)'
        BY <2>1, <2>2, <2>3, <2>4
    <2> QED BY <2>5, <2>6
<1>9. CASE GotInfo(j)
    BY <1>9 DEF GotInfo, Goto, workerOnly
<1>10. CASE SeeStop(j)
    BY <1>10 DEF SeeStop, Goto, workerOnly
<1>11. CASE Inspect(j)
    <2>1. j \in tasks /\ job[j] \in Records
        BY <1>11 DEF Inspect
    <2>2. PICK r \in Reserves : job' = [job EXCEPT ![j].reserve = r]
        BY <1>11 DEF Inspect
    <2>3. /\ job'[j] \in Records
          /\ job'[j].status = job[j].status /\ job'[j].stage = job[j].stage
        BY <2>1, <2>2 DEF Records
    <2>4. /\ pc[j] = "inspect" /\ pc'[j] \in {"exit", "capacity"} /\ row' = row
          /\ tasks' = tasks /\ up' = up /\ outcome' = outcome /\ verdict' = verdict
          /\ attempted' = attempted /\ uploaded' = uploaded /\ cancelled' = cancelled
          /\ submission' = submission
        BY <1>11 DEF Inspect, Goto
    <2> QED BY <2>1, <2>3, <2>4
<1>12. CASE Reserve(j)
    BY <1>12 DEF Reserve, Goto
<1>13. CASE DropMetadata(j)
    BY <1>13 DEF DropMetadata, Goto
<1>14. CASE Download(j)
    BY <1>14 DEF Download, Goto
<1>15. CASE Zip(j)
    BY <1>15 DEF Zip, Goto, workerOnly
<1>16. CASE Upload(j)
    BY <1>16 DEF Upload, Goto
<1>17. CASE UploadEnd(j)
    <2>1. /\ pc[j] = "uploadEnd" /\ pc'[j] = "exit" /\ outcome'[j] = "completed"
          /\ uploaded' = uploaded \cup {j} /\ row' = row /\ job' = job
          /\ tasks' = tasks /\ up' = up /\ verdict' = verdict
          /\ attempted' = attempted /\ cancelled' = cancelled /\ submission' = submission
        BY <1>17 DEF UploadEnd, Goto
    <2>2. j \in attempted
        BY <2>1
    <2> QED BY <2>1, <2>2
<1>18. CASE Fail(j)
    BY <1>18 DEF Fail, Goto, workerOnly
<1>19. CASE Exit(j)
    BY <1>19 DEF Exit, Goto
<1>20. CASE Finish(j)
    BY <1>20 DEF Finish, Goto, DeleteAndCount, NoRow, In
<1>21. CASE FinishFails(j)
    <2>1. /\ pc[j] = "finish" /\ pc'[j] = "idle" /\ outcome'[j] = "failed"
          /\ job'[j] = In(job[j], outcome[j])
          /\ \/ row' = row /\ verdict' = verdict
             \/ row'[j] = In(job[j], outcome[j]) /\ verdict' = verdict /\ row[j] # NoRow
             \/ row'[j] = NoRow /\ (verdict'[j] = outcome[j] \/ verdict' = verdict)
          /\ tasks' = tasks /\ up' = up
          /\ attempted' = attempted /\ uploaded' = uploaded /\ cancelled' = cancelled
          /\ submission' = submission
        BY <1>21 DEF FinishFails, Goto, Save, DeleteAndCount, HasRow
    <2>2. /\ In(job[j], outcome[j]) \in Records
          /\ In(job[j], outcome[j]).status = outcome[j] /\ In(job[j], outcome[j]).stage = outcome[j]
        BY InRecord DEF Statuses
    <2>3. j \in cancelled => outcome[j] \in {"failed", "stopped"}
        OBVIOUS
    <2>4. j \in attempted => outcome[j] \in {"failed", "completed"}
        OBVIOUS
    <2>5. Placed(j)'
        BY <2>1, <2>2
    <2>6. RowsSaved(j)' /\ Completed(j)'
        BY <2>1, <2>2 DEF NoRow
    <2>7. Outcomes(j)' /\ Barrier(j)'
        BY <2>1, <2>2
    <2>8. Attempted(j)'
        BY <2>1, <2>2, <2>4
    <2>9. Cancelled(j)'
        BY <2>1, <2>2, <2>3
    <2> QED BY <2>5, <2>6, <2>7, <2>8, <2>9
<1>22. CASE Cleanup(j)
    BY <1>22 DEF Cleanup, Goto
<1>23. CASE Notify(j)
    <2>1. /\ pc[j] = "notify" /\ pc'[j] = "idle" /\ outcome'[j] = "failed"
          /\ row' = row /\ tasks' = tasks /\ up' = up /\ verdict' = verdict
          /\ attempted' = attempted /\ uploaded' = uploaded /\ cancelled' = cancelled
          /\ submission' = submission
        BY <1>23 DEF Notify, Goto
    <2> QED BY <2>1
<1> QED BY <1>1, <1>2, <1>3, <1>4, <1>5, <1>6, <1>7, <1>8, <1>9, <1>10, <1>11, <1>12, <1>13, <1>14, <1>15, <1>16, <1>17, <1>18, <1>19, <1>20, <1>21, <1>22, <1>23 DEF Worker

\* Steps of the whole process.
LEMMA ProcessSteps ==
    ASSUME TypeOK, NEW k \in Jobs, JobInv(k), Configure \/ ProcessTasks \/ Crash
    PROVE  JobInv(k)'
<1> USE DEF TypeOK, JobInv, database, disk, memory, remote, history
<1>1. CASE Configure
    <2>1. /\ tasks' = Persisted /\ up' = TRUE /\ ~up
          /\ k \in Persisted => row[k] \in Records /\ job'[k] = Recovered(row[k])
          /\ row' = row /\ pc' = pc /\ outcome' = outcome /\ verdict' = verdict
          /\ attempted' = attempted /\ uploaded' = uploaded /\ cancelled' = cancelled
          /\ submission' = submission
        BY <1>1 DEF Configure, Persisted, HasRow
    <2>2. pc[k] = "idle" /\ outcome[k] = "failed" /\ (k \in Persisted <=> row[k] # NoRow)
        BY <2>1 DEF Placed, Outcomes, Persisted, HasRow
    <2>3. Placed(k)' /\ RowsSaved(k)'
        BY <2>1, <2>2, RecoveredRecord DEF Placed, RowsSaved
    <2>4. Completed(k)' /\ Outcomes(k)' /\ Barrier(k)'
        BY <2>1, <2>2, RecoveredRecord DEF Completed, Outcomes, Barrier, RowsSaved
    <2>5. k \in Persisted => row[k].status = row[k].stage
        BY DEF RowsSaved
    <2>6. Attempted(k)'
        BY <2>1, <2>2, <2>5, RecoveredRecord DEF Attempted, Terminal
    <2>7. Cancelled(k)'
        BY <2>1, <2>2, <2>5, RecoveredRecord DEF Cancelled, Terminal
    <2> QED BY <2>3, <2>4, <2>6, <2>7
<1>2. CASE ProcessTasks
    <2>1. /\ pc'[k] = pc[k] \/ (k \in tasks /\ pc[k] = "idle" /\ pc'[k] = "begin")
          /\ row' = row /\ job' = job /\ tasks' = tasks /\ outcome' = outcome
          /\ up' = up /\ verdict' = verdict /\ attempted' = attempted
          /\ uploaded' = uploaded /\ cancelled' = cancelled /\ submission' = submission
        BY <1>2 DEF ProcessTasks
    <2> QED BY <2>1 DEF Placed, RowsSaved, Completed, Outcomes, Barrier, Attempted, Cancelled
<1>3. CASE Crash
    <2>1. /\ tasks' = {} /\ pc'[k] = "idle" /\ outcome'[k] = "failed" /\ row' = row
          /\ verdict' = verdict /\ attempted' = attempted
          /\ uploaded' = uploaded /\ cancelled' = cancelled /\ submission' = submission
        BY <1>3 DEF Crash
    <2> QED BY <2>1 DEF Placed, RowsSaved, Completed, Outcomes, Barrier, Attempted, Cancelled
<1> QED BY <1>1, <1>2, <1>3

\* The first layer of the strengthening, by itself inductive.
THEOREM CoreInvariance == Spec => []CoreInv
<1>1. Init => CoreInv
    BY InitCore
<1>2. CoreInv /\ [Next]_vars => CoreInv'
    <2>1. SUFFICES ASSUME CoreInv, [Next]_vars PROVE CoreInv'
        OBVIOUS
    <2>2. TypeOK'
        BY <2>1, TypeStep
    <2>3. ASSUME NEW k \in Jobs PROVE JobInv(k)'
        <3>1. TypeOK /\ JobInv(k)
            BY <2>1 DEF CoreInv
        <3>2. ASSUME NEW j \in Jobs, Add(j) \/ AddFails(j) \/ Stop(j) \/ Worker(j)
              PROVE  JobInv(k)'
            <4>1. CASE j = k
                BY <3>1, <3>2, <4>1, OwnJob
            <4>2. CASE j # k
                BY <3>1, <3>2, <4>2, OtherJobs, SameViewKeeps
            <4> QED BY <4>1, <4>2
        <3>3. CASE Configure \/ ProcessTasks \/ Crash
            BY <3>1, <3>3, ProcessSteps
        <3>4. CASE UNCHANGED vars
            <4>1. SameView(k)
                BY <3>4 DEF SameView, vars, database, memory, remote, history
            <4> QED BY <3>1, <4>1, SameViewKeeps
        <3> QED BY <2>1, <3>2, <3>3, <3>4 DEF Next
    <2> QED BY <2>2, <2>3 DEF CoreInv
<1> QED BY <1>1, <1>2, PTL DEF Spec

\* Every variable keeps its type (what the store and the queue hold is always a
\* job's record, whatever crashes and failed calls lie between).
THEOREM TypeCorrect == Spec => []TypeOK
<1>1. CoreInv => TypeOK
    BY DEF CoreInv
<1> QED BY <1>1, CoreInvariance, PTL

\* No job's remote upload is begun twice, for any number of crashes and retries:
\* the uploading stage is durable before the first remote side effect, and
\* recovery turns it into a terminal failure.
THEOREM UploadAtMostOnce == Spec => []NoReplay
<1>1. CoreInv => NoReplay
    BY DEF CoreInv, JobInv, Attempted, NoReplay
<1> QED BY <1>1, CoreInvariance, PTL

\* After a cancellation was acknowledged nothing of the job reaches the remote
\* store, and none is acknowledged for a job that has reached it.
THEOREM CancellationHonoured == Spec => []CancelledNeverUploaded
<1>1. CoreInv => CancelledNeverUploaded
    BY DEF CoreInv, TypeOK, JobInv, Cancelled, CancelledNeverUploaded
<1> QED BY <1>1, CoreInvariance, PTL
-----------------------------------------------------------------------------
(* The second layer: what the database, the mails, the torrent client and the
   budget say of a job.  Its steps are proved in a state of the first layer. *)

\* A step about job j keeps what is booked of j.
LEMMA OwnBooks ==
    ASSUME TypeOK, NEW j \in Jobs, JobInv(j), JobBooks(j),
           Add(j) \/ AddFails(j) \/ Stop(j) \/ Worker(j)
    PROVE  JobBooks(j)'
<1> USE DEF TypeOK, JobBooks, Settled, Rooted, Told, AskedFor, UploadedOnce, StageSaved, InClient,
            Holding, database, disk, memory, remote, history, Terminal, workerOnly, HasRow
<1>0. Placed(j) /\ Attempted(j) /\ Completed(j) /\ Outcomes(j) /\ Cancelled(j) /\ Barrier(j)
    BY DEF JobInv
<1>1. CASE Add(j)
    <2>1. /\ submission[j] = "none" /\ j \notin tasks /\ up
          /\ row'[j] = NewJob /\ submission'[j] \in {"accepted", "unconfirmed"}
          /\ \/ tasks' = tasks \cup {j} /\ job'[j] = NewJob
             \/ tasks' = tasks /\ submission'[j] = "unconfirmed"
          /\ up' = up /\ outcome' = outcome /\ verdict' = verdict /\ handles' = handles /\ reserved' = reserved /\ uploaded' = uploaded
          /\ asked' = asked /\ told' = told /\ pc' = pc
        BY <1>1 DEF Add, AddAllowed
    <2>2. verdict[j] = "none" /\ row[j] = NoRow /\ pc[j] = "idle"
        BY <1>0, <2>1 DEF Placed
    <2>3. NewJob # NoRow /\ NewJob.status = "pending"
        BY NoRowDistinct DEF NewJob
    <2>4. Settled(j)' /\ Rooted(j)' /\ Told(j)'
        BY <1>0, <2>1, <2>2, <2>3
    <2>5. AskedFor(j)' /\ UploadedOnce(j)' /\ StageSaved(j)'
        BY <1>0, <2>1, <2>2, <2>3
    <2>6. InClient(j)' /\ Holding(j)'
        BY <1>0, <2>1, <2>2, <2>3
    <2> QED BY <2>4, <2>5, <2>6
<1>2. CASE AddFails(j)
    BY <1>0, <1>2 DEF AddFails, Goto, AddAllowed, HasRow, Placed
<1>3. CASE Stop(j)
    <2>1. /\ row'[j] = In(job[j], "stopped") /\ row[j] # NoRow
          /\ asked' = asked \cup {j} /\ job'[j] \in {job[j], In(job[j], "stopped")}
          /\ tasks' = tasks /\ up' = up /\ outcome' = outcome /\ verdict' = verdict /\ handles' = handles /\ reserved' = reserved
          /\ uploaded' = uploaded /\ submission' = submission /\ told' = told /\ pc' = pc
        BY <1>3 DEF Stop, Save
    <2>2. j \in tasks /\ job[j].status \notin {"completed", "failed", "stopped"}
        BY <1>3 DEF Stop, Stoppable
    <2>3. /\ In(job[j], "stopped") # NoRow
          /\ In(job[j], "stopped").status = "stopped" /\ In(job[j], "stopped").stage = "stopped"
        BY InRecord, NoRowDistinct DEF Statuses
    <2>4. Settled(j)' /\ Rooted(j)' /\ Told(j)'
        BY <1>0, <2>1, <2>2, <2>3
    <2>5. AskedFor(j)' /\ UploadedOnce(j)' /\ StageSaved(j)'
        BY <1>0, <2>1, <2>2, <2>3
    <2>6. InClient(j)' /\ Holding(j)'
        BY <1>0, <2>1, <2>2, <2>3
    <2> QED BY <2>4, <2>5, <2>6
<1>4. CASE Begin(j)
    <2>1. /\ pc[j] = "begin" /\ up
          /\ \/ /\ job[j].status \in {"completed", "failed", "stopped"}
                /\ pc'[j] = "finish" /\ outcome'[j] = job[j].status
             \/ /\ job[j].status \notin {"completed", "failed", "stopped"}
                /\ pc'[j] = "openDir" /\ outcome'[j] = "failed"
          /\ row' = row /\ job' = job /\ tasks' = tasks /\ verdict' = verdict /\ handles' = handles /\ reserved' = reserved
          /\ uploaded' = uploaded /\ asked' = asked /\ submission' = submission /\ told' = told
          /\ up' = up
        BY <1>0, <1>4 DEF Begin, Goto, Placed
    <2>2. j \in tasks
        BY <1>0, <2>1 DEF Placed
    <2>3. Settled(j)' /\ Rooted(j)' /\ Told(j)'
        BY <1>0, <2>1, <2>2
    <2>4. AskedFor(j)' /\ UploadedOnce(j)' /\ StageSaved(j)'
        BY <1>0, <2>1, <2>2
    <2>5. InClient(j)' /\ Holding(j)'
        BY <1>0, <2>1, <2>2
    <2> QED BY <2>3, <2>4, <2>5
<1>5. CASE OpenDir(j)
    BY <1>0, <1>5 DEF OpenDir, Goto, Placed
<1>6. CASE AddTorrent(j)
    BY <1>0, <1>6 DEF AddTorrent, Goto, Placed
<1>7. CASE SaveStage(j)
    <2> DEFINE stage == SaveTarget[pc[j]]
    <2>1. /\ pc[j] \in {"saveStarted", "saveDownloading", "saveZipping", "saveUploading"}
          /\ stage \in {"started", "downloading", "zipping", "uploading"}
          /\ AfterSave[pc[j]] \in {"awaitInfo", "dropMetadata", "zip", "upload"}
          /\ pc[j] = "saveStarted" <=> AfterSave[pc[j]] = "awaitInfo"
          /\ AfterSave[pc[j]] = "dropMetadata" => stage = "downloading"
        BY <1>7 DEF SaveStage, SaveTarget, AfterSave
    <2>2. /\ row'[j] = In(job[j], stage) /\ row[j] # NoRow /\ job'[j] = In(job[j], stage)
          /\ pc'[j] = AfterSave[pc[j]]
          /\ tasks' = tasks /\ up' = up /\ outcome' = outcome /\ verdict' = verdict /\ handles' = handles /\ reserved' = reserved
          /\ uploaded' = uploaded /\ asked' = asked /\ submission' = submission /\ told' = told
        BY <1>7 DEF SaveStage, Save, Goto
    <2>3. /\ In(job[j], stage) # NoRow
          /\ In(job[j], stage).status = stage /\ In(job[j], stage).stage = stage
        BY <2>1, InRecord, NoRowDistinct DEF Statuses
    <2>4. j \in tasks
        BY <1>0, <2>1 DEF Placed
    <2> HIDE DEF stage
    <2>5. Settled(j)' /\ Rooted(j)' /\ Told(j)'
        BY <1>0, <2>1, <2>2, <2>3, <2>4
    <2>6. AskedFor(j)' /\ UploadedOnce(j)' /\ StageSaved(j)'
        BY <1>0, <2>1, <2>2, <2>3, <2>4
    <2>7. InClient(j)' /\ Holding(j)'
        BY <1>0, <2>1, <2>2, <2>3, <2>4
    <2> QED BY <2>5, <2>6, <2>7
<1>8. CASE SaveStageFails(j)
    <2> DEFINE stage == SaveTarget[pc[j]]
    <2>1. /\ pc[j] \in {"saveStarted", "saveDownloading", "saveZipping", "saveUploading"}
          /\ stage \in {"started", "downloading", "zipping", "uploading"}
        BY <1>8 DEF SaveStageFails, SaveTarget
    <2>2. /\ row' = row \/ (row'[j] = In(job[j], stage) /\ row[j] # NoRow)
          /\ pc'[j] = "exit"
          /\ job' = job /\ tasks' = tasks /\ up' = up /\ outcome' = outcome /\ verdict' = verdict /\ handles' = handles
          /\ reserved' = reserved /\ uploaded' = uploaded /\ asked' = asked /\ submission' = submission /\ told' = told
        BY <1>8 DEF SaveStageFails, Save, Goto
    <2>3. /\ In(job[j], stage) # NoRow
          /\ In(job[j], stage).status = stage /\ In(job[j], stage).stage = stage
        BY <2>1, InRecord, NoRowDistinct DEF Statuses
    <2>4. j \in tasks
        BY <1>0, <2>1 DEF Placed
    <2> HIDE DEF stage
    <2>5. Settled(j)' /\ Rooted(j)' /\ Told(j)'
        BY <1>0, <2>1, <2>2, <2>3, <2>4
    <2>6. AskedFor(j)' /\ UploadedOnce(j)' /\ StageSaved(j)'
        BY <1>0, <2>1, <2>2, <2>3, <2>4
    <2>7. InClient(j)' /\ Holding(j)'
        BY <1>0, <2>1, <2>2, <2>3, <2>4
    <2> QED BY <2>5, <2>6, <2>7
<1>9. CASE GotInfo(j)
    BY <1>0, <1>9 DEF GotInfo, Goto, Placed
<1>10. CASE SeeStop(j)
    BY <1>0, <1>10 DEF SeeStop, Goto, Placed
<1>11. CASE Inspect(j)
    BY <1>0, <1>11 DEF Inspect, Goto, Placed
<1>12. CASE Reserve(j)
    BY <1>0, <1>12 DEF Reserve, Goto, Placed
<1>13. CASE DropMetadata(j)
    <2>1. /\ pc[j] = "dropMetadata" /\ pc'[j] \in {"download", "exit"}
          /\ row' = row /\ job' = job /\ tasks' = tasks /\ up' = up /\ outcome' = outcome /\ verdict' = verdict
          /\ handles' = handles /\ reserved' = reserved /\ uploaded' = uploaded /\ asked' = asked /\ submission' = submission /\ told' = told
        BY <1>13 DEF DropMetadata, Goto
    <2>2. j \in tasks
        BY <1>0, <2>1 DEF Placed
    <2>3. Settled(j)' /\ Rooted(j)' /\ Told(j)'
        BY <1>0, <2>1, <2>2
    <2>4. AskedFor(j)' /\ UploadedOnce(j)' /\ StageSaved(j)'
        BY <1>0, <2>1, <2>2
    <2>5. InClient(j)' /\ Holding(j)'
        BY <1>0, <2>1, <2>2
    <2> QED BY <2>3, <2>4, <2>5
<1>14. CASE Download(j)
    BY <1>0, <1>14 DEF Download, Goto, TorrentDropped, Placed
<1>15. CASE Zip(j)
    BY <1>0, <1>15 DEF Zip, Goto, Placed
<1>16. CASE Upload(j)
    <2>1. /\ pc[j] = "upload" /\ pc'[j] = "uploadEnd" /\ attempted' = attempted \cup {j}
          /\ row' = row /\ job' = job /\ tasks' = tasks /\ up' = up /\ outcome' = outcome /\ verdict' = verdict
          /\ handles' = handles /\ reserved' = reserved /\ uploaded' = uploaded /\ asked' = asked /\ submission' = submission /\ told' = told
        BY <1>16 DEF Upload, Goto
    <2>2. j \in tasks /\ j \notin uploaded
        BY <1>0, <2>1 DEF Placed, Attempted, Completed
    <2>3. Settled(j)' /\ Rooted(j)' /\ Told(j)'
        BY <1>0, <2>1, <2>2
    <2>4. AskedFor(j)' /\ UploadedOnce(j)' /\ StageSaved(j)'
        BY <1>0, <2>1, <2>2
    <2>5. InClient(j)' /\ Holding(j)'
        BY <1>0, <2>1, <2>2
    <2> QED BY <2>3, <2>4, <2>5
<1>17. CASE UploadEnd(j)
    BY <1>0, <1>17 DEF UploadEnd, Goto, Placed
<1>18. CASE Fail(j)
    BY <1>0, <1>18 DEF Fail, Goto, Placed
<1>19. CASE Exit(j)
    BY <1>0, <1>19 DEF Exit, Goto, TorrentDropped, Placed
<1>20. CASE Finish(j)
    <2>1. /\ pc[j] = "finish" /\ pc'[j] = "cleanup" /\ tasks' = tasks \ {j}
          /\ reserved' = reserved \ {j}
          /\ \/ row[j] # NoRow /\ row'[j] = NoRow /\ verdict'[j] = outcome[j]
             \/ row[j] = NoRow /\ row'[j] = NoRow /\ verdict' = verdict
          /\ up' = up /\ outcome' = outcome /\ handles' = handles /\ uploaded' = uploaded /\ asked' = asked /\ submission' = submission
          /\ told' = told
        BY <1>20 DEF Finish, Goto, DeleteAndCount
    <2>2. j \in tasks /\ outcome[j] \in Terminal /\ NoRow.status = "none"
        BY <1>0, <2>1 DEF Placed, NoRow
    <2>3. verdict'[j] = outcome[j] /\ told[j] = <<>> /\ j \notin handles
        BY <2>1, <2>2
    <2>4. Settled(j)' /\ Rooted(j)' /\ Told(j)'
        BY <1>0, <2>1, <2>2, <2>3
    <2>5. AskedFor(j)' /\ UploadedOnce(j)' /\ StageSaved(j)'
        BY <1>0, <2>1, <2>2, <2>3
    <2>6. InClient(j)' /\ Holding(j)'
        BY <1>0, <2>1, <2>2, <2>3
    <2> QED BY <2>4, <2>5, <2>6
<1>21. CASE FinishFails(j)
    <2>1. /\ pc[j] = "finish" /\ pc'[j] = "idle" /\ outcome'[j] = "failed"
          /\ job'[j] = In(job[j], outcome[j])
          /\ \/ row' = row /\ verdict' = verdict
             \/ row[j] # NoRow /\ row'[j] = In(job[j], outcome[j]) /\ verdict' = verdict
             \/ row[j] # NoRow /\ row'[j] = NoRow /\ verdict'[j] = outcome[j]
          /\ tasks' = tasks /\ up' = up /\ handles' = handles /\ reserved' = reserved /\ uploaded' = uploaded /\ asked' = asked
          /\ submission' = submission /\ told' = told
        BY <1>21 DEF FinishFails, Goto, DeleteAndCount, Save
    <2>2. j \in tasks /\ outcome[j] \in Terminal /\ NoRow.status = "none"
        BY <1>0, <2>1 DEF Placed, NoRow
    <2>3. /\ In(job[j], outcome[j]) # NoRow
          /\ In(job[j], outcome[j]).status = outcome[j]
        BY <2>2, InRecord, NoRowDistinct DEF Statuses
    <2>4. told[j] = <<>> /\ j \notin handles
        BY <2>1, <2>2
    <2>5. Settled(j)' /\ Rooted(j)' /\ Told(j)'
        BY <1>0, <2>1, <2>2, <2>3, <2>4
    <2>6. AskedFor(j)' /\ UploadedOnce(j)' /\ StageSaved(j)'
        BY <1>0, <2>1, <2>2, <2>3, <2>4
    <2>7. InClient(j)' /\ Holding(j)'
        BY <1>0, <2>1, <2>2, <2>3, <2>4
    <2> QED BY <2>5, <2>6, <2>7
<1>22. CASE Cleanup(j)
    BY <1>0, <1>22 DEF Cleanup, Goto, Placed
<1>23. CASE Notify(j)
    <2>1. /\ pc[j] = "notify" /\ pc'[j] = "idle" /\ outcome'[j] = "failed"
          /\ told'[j] \in {told[j], Append(told[j], outcome[j])}
          /\ row' = row /\ tasks' = tasks /\ up' = up /\ verdict' = verdict /\ handles' = handles /\ reserved' = reserved
          /\ uploaded' = uploaded /\ asked' = asked /\ submission' = submission
        BY <1>23 DEF Notify, Goto
    <2>2. j \notin tasks /\ outcome[j] \in Terminal
        BY <1>0, <2>1 DEF Placed
    <2>3. told[j] = <<>> /\ verdict[j] = outcome[j]
        BY <2>1
    <2>4. told'[j] \in {<<>>, <<verdict[j]>>}
        BY <2>1, <2>3
    <2>5. Settled(j)' /\ Rooted(j)' /\ Told(j)'
        BY <1>0, <2>1, <2>2, <2>3, <2>4
    <2>6. AskedFor(j)' /\ UploadedOnce(j)' /\ StageSaved(j)'
        BY <1>0, <2>1, <2>2, <2>3, <2>4
    <2>7. InClient(j)' /\ Holding(j)'
        BY <1>0, <2>1, <2>2, <2>3, <2>4
    <2> QED BY <2>5, <2>6, <2>7
<1> QED BY <1>1, <1>2, <1>3, <1>4, <1>5, <1>6, <1>7, <1>8, <1>9, <1>10, <1>11, <1>12, <1>13, <1>14, <1>15, <1>16, <1>17, <1>18, <1>19, <1>20, <1>21, <1>22, <1>23 DEF Worker

\* Steps of the whole process keep what is booked.
LEMMA ProcessBooks ==
    ASSUME TypeOK, NEW k \in Jobs, JobInv(k), JobBooks(k), Configure \/ ProcessTasks \/ Crash
    PROVE  JobBooks(k)'
<1> USE DEF TypeOK, JobBooks, Settled, Rooted, Told, AskedFor, UploadedOnce, StageSaved, InClient,
            Holding, database, disk, memory, remote, history, Terminal, HasRow
<1>0. Placed(k) /\ Attempted(k) /\ Completed(k) /\ Outcomes(k) /\ RowsSaved(k)
    BY DEF JobInv
<1>1. CASE Configure
    <2>1. /\ ~up /\ up' = TRUE /\ (k \in tasks' <=> row[k] # NoRow)
          /\ row[k] # NoRow => row[k] \in Records /\ job'[k] = Recovered(row[k])
          /\ row' = row /\ pc' = pc /\ outcome' = outcome /\ verdict' = verdict
          /\ handles' = handles /\ reserved' = reserved /\ uploaded' = uploaded
          /\ asked' = asked /\ submission' = submission /\ told' = told
        BY <1>1 DEF Configure, Persisted
    <2>2. k \notin tasks /\ pc[k] = "idle" /\ k \notin handles /\ k \notin reserved
        BY <1>0, <2>1 DEF Placed
    <2>3. row[k] # NoRow => (Recovered(row[k]).status = "stopped" => row[k].status = "stopped")
        BY <2>1 DEF Recovered, In, Records, Statuses
    <2> QED BY <1>0, <2>1, <2>2, <2>3
<1>2. CASE ProcessTasks
    <2>1. /\ pc'[k] = pc[k] \/ (k \in tasks /\ pc[k] = "idle" /\ pc'[k] = "begin")
          /\ row' = row /\ job' = job /\ tasks' = tasks /\ up' = up /\ outcome' = outcome
          /\ verdict' = verdict /\ handles' = handles /\ reserved' = reserved
          /\ uploaded' = uploaded /\ asked' = asked /\ submission' = submission /\ told' = told
        BY <1>2 DEF ProcessTasks
    <2> QED BY <1>0, <2>1
<1>3. CASE Crash
    <2>1. /\ tasks' = {} /\ handles' = {} /\ reserved' = {} /\ up' = FALSE
          /\ pc'[k] = "idle" /\ outcome'[k] = "failed" /\ row' = row
          /\ verdict' = verdict /\ uploaded' = uploaded /\ asked' = asked
          /\ submission' = submission /\ told' = told
        BY <1>3 DEF Crash
    <2> QED BY <1>0, <2>1
<1> QED BY <1>1, <1>2, <1>3

\* Only Add brings a row or a task: every other write finds the row there.
LEMMA OnlyAddBrings ==
    ASSUME TypeOK, NEW j \in Jobs, AddFails(j) \/ Stop(j) \/ Worker(j)
    PROVE  tasks' \subseteq tasks /\ (row'[j] # NoRow => row[j] # NoRow)
<1> USE DEF TypeOK, database, disk, memory, remote, history, HasRow
<1>1. CASE AddFails(j)
    BY <1>1 DEF AddFails
<1>2. CASE Stop(j)
    BY <1>2 DEF Stop, Save
<1>3. CASE Begin(j)
    BY <1>3 DEF Begin, workerOnly
<1>4. CASE OpenDir(j)
    BY <1>4 DEF OpenDir
<1>5. CASE AddTorrent(j)
    BY <1>5 DEF AddTorrent
<1>6. CASE SaveStage(j)
    BY <1>6 DEF SaveStage, Save
<1>7. CASE SaveStageFails(j)
    BY <1>7 DEF SaveStageFails, Save
<1>8. CASE GotInfo(j)
    BY <1>8 DEF GotInfo, workerOnly
<1>9. CASE SeeStop(j)
    BY <1>9 DEF SeeStop, workerOnly
<1>10. CASE Inspect(j)
    BY <1>10 DEF Inspect
<1>11. CASE Reserve(j)
    BY <1>11 DEF Reserve
<1>12. CASE DropMetadata(j)
    BY <1>12 DEF DropMetadata
<1>13. CASE Download(j)
    BY <1>13 DEF Download
<1>14. CASE Zip(j)
    BY <1>14 DEF Zip, workerOnly
<1>15. CASE Upload(j)
    BY <1>15 DEF Upload
<1>16. CASE UploadEnd(j)
    BY <1>16 DEF UploadEnd
<1>17. CASE Fail(j)
    BY <1>17 DEF Fail, workerOnly
<1>18. CASE Exit(j)
    BY <1>18 DEF Exit
<1>19. CASE Finish(j)
    BY <1>19 DEF Finish, DeleteAndCount
<1>20. CASE FinishFails(j)
    BY <1>20 DEF FinishFails, DeleteAndCount, Save
<1>21. CASE Cleanup(j)
    BY <1>21 DEF Cleanup
<1>22. CASE Notify(j)
    BY <1>22 DEF Notify
<1> QED BY <1>1, <1>2, <1>3, <1>4, <1>5, <1>6, <1>7, <1>8, <1>9, <1>10, <1>11, <1>12, <1>13, <1>14, <1>15, <1>16, <1>17, <1>18, <1>19, <1>20, <1>21, <1>22 DEF Worker

\* No two jobs of queue and database share a torrent.
LEMMA HashesStep ==
    ASSUME TypeOK, \A k \in Jobs : JobInv(k), HashesApart, [Next]_vars
    PROVE  HashesApart'
<1> USE DEF HashesApart, DistinctHashes, Hash
<1>1. ASSUME tasks' \cup Persisted' \subseteq tasks \cup Persisted PROVE HashesApart'
    BY <1>1
<1>2. ASSUME NEW j \in Jobs, AddFails(j) \/ Stop(j) \/ Worker(j) PROVE HashesApart'
    <2>1. tasks' \subseteq tasks /\ (row'[j] # NoRow => row[j] # NoRow)
        BY <1>2, OnlyAddBrings
    <2>2. \A k \in Jobs : k # j => row'[k] = row[k]
        BY <1>2, OtherJobs DEF SameView
    <2>3. Persisted' \subseteq Persisted
        BY <2>1, <2>2 DEF Persisted, HasRow
    <2> QED BY <1>1, <2>1, <2>3
<1>3. ASSUME NEW j \in Jobs, Add(j) PROVE HashesApart'
    <2>1. /\ \A k \in tasks : Request[k].hash # Request[j].hash
          /\ \A k \in Persisted : Request[k].hash # Request[j].hash
        BY <1>3 DEF Add, AddAllowed, HashFree
    <2>2. tasks' \subseteq tasks \cup {j}
        BY <1>3 DEF Add
    <2>3. Persisted' \subseteq Persisted \cup {j}
        BY <1>3 DEF Add, Persisted, HasRow, TypeOK
    <2> QED BY <2>1, <2>2, <2>3
<1>4. CASE Configure
    BY <1>1, <1>4 DEF Configure, Persisted, HasRow, database
<1>5. CASE ProcessTasks \/ Crash \/ UNCHANGED vars
    BY <1>1, <1>5 DEF ProcessTasks, Crash, Persisted, HasRow, database, memory, vars
<1> QED BY <1>2, <1>3, <1>4, <1>5 DEF Next

\* The counters and the verdicts change together or not at all.
LEMMA CountEffect ==
    ASSUME TypeOK, NEW j \in Jobs, Add(j) \/ AddFails(j) \/ Stop(j) \/ Worker(j)
    PROVE  \/ UNCHANGED <<metrics, verdict>>
           \/ /\ row[j] # NoRow
              /\ metrics' = [metrics EXCEPT ![outcome[j]] = @ + 1]
              /\ verdict' = [verdict EXCEPT ![j] = outcome[j]]
<1> USE DEF database, disk, memory, remote, history, HasRow
<1>1. CASE Add(j)
    BY <1>1 DEF Add
<1>2. CASE AddFails(j)
    BY <1>2 DEF AddFails
<1>3. CASE Stop(j)
    BY <1>3 DEF Stop
<1>4. CASE Begin(j)
    BY <1>4 DEF Begin, workerOnly
<1>5. CASE OpenDir(j)
    BY <1>5 DEF OpenDir
<1>6. CASE AddTorrent(j)
    BY <1>6 DEF AddTorrent
<1>7. CASE SaveStage(j)
    BY <1>7 DEF SaveStage
<1>8. CASE SaveStageFails(j)
    BY <1>8 DEF SaveStageFails
<1>9. CASE GotInfo(j)
    BY <1>9 DEF GotInfo, workerOnly
<1>10. CASE SeeStop(j)
    BY <1>10 DEF SeeStop, workerOnly
<1>11. CASE Inspect(j)
    BY <1>11 DEF Inspect
<1>12. CASE Reserve(j)
    BY <1>12 DEF Reserve
<1>13. CASE DropMetadata(j)
    BY <1>13 DEF DropMetadata
<1>14. CASE Download(j)
    BY <1>14 DEF Download
<1>15. CASE Zip(j)
    BY <1>15 DEF Zip, workerOnly
<1>16. CASE Upload(j)
    BY <1>16 DEF Upload
<1>17. CASE UploadEnd(j)
    BY <1>17 DEF UploadEnd
<1>18. CASE Fail(j)
    BY <1>18 DEF Fail, workerOnly
<1>19. CASE Exit(j)
    BY <1>19 DEF Exit
<1>20. CASE Finish(j)
    BY <1>20 DEF Finish, DeleteAndCount
<1>21. CASE FinishFails(j)
    BY <1>21 DEF FinishFails, DeleteAndCount
<1>22. CASE Cleanup(j)
    BY <1>22 DEF Cleanup
<1>23. CASE Notify(j)
    BY <1>23 DEF Notify
<1> QED BY <1>1, <1>2, <1>3, <1>4, <1>5, <1>6, <1>7, <1>8, <1>9, <1>10, <1>11, <1>12, <1>13, <1>14, <1>15, <1>16, <1>17, <1>18, <1>19, <1>20, <1>21, <1>22, <1>23 DEF Worker

\* Every verdict is counted, once.
LEMMA CountStep ==
    ASSUME CoreInv, \A k \in Jobs : JobBooks(k), FewFinished, AccountedOnce, [Next]_vars
    PROVE  /\ IsFiniteSet({j \in Jobs : verdict[j] # "none"})'
           /\ (\A s \in Terminal : metrics[s] = Cardinality({j \in Jobs : verdict[j] = s}))'
<1> DEFINE Ended == {k \in Jobs : verdict[k] # "none"}
           With(s) == {k \in Jobs : verdict[k] = s}
<1>0. /\ TypeOK /\ IsFiniteSet(Ended) /\ \A s \in Terminal : metrics[s] = Cardinality(With(s))
    BY DEF CoreInv, FewFinished, AccountedOnce
<1>1. ASSUME UNCHANGED <<metrics, verdict>>
      PROVE  IsFiniteSet(Ended') /\ \A s \in Terminal : metrics'[s] = Cardinality(With(s)')
    BY <1>0, <1>1
<1>2. ASSUME NEW j \in Jobs, Add(j) \/ AddFails(j) \/ Stop(j) \/ Worker(j)
      PROVE  IsFiniteSet(Ended') /\ \A s \in Terminal : metrics'[s] = Cardinality(With(s)')
    <2>0. PICK o \in Terminal : o = outcome[j]
        BY <1>0 DEF TypeOK
    <2>1. SUFFICES ASSUME row[j] # NoRow,
                          metrics' = [metrics EXCEPT ![o] = @ + 1],
                          verdict' = [verdict EXCEPT ![j] = o]
                   PROVE  IsFiniteSet(Ended') /\ \A s \in Terminal : metrics'[s] = Cardinality(With(s)')
        BY <1>0, <1>1, <1>2, <2>0, CountEffect
    <2>2. o \in Terminal /\ o # "none" /\ verdict[j] = "none" /\ \A s \in Terminal : s # "none"
        BY <1>0, <2>1 DEF TypeOK, JobBooks, Settled, Terminal
    <2>3. Ended' = Ended \cup {j} /\ With(o)' = With(o) \cup {j} /\ j \notin With(o)
        BY <1>0, <2>1, <2>2 DEF TypeOK
    <2>4. \A s \in Terminal : s # o => With(s)' = With(s) /\ metrics'[s] = metrics[s]
        BY <1>0, <2>1, <2>2 DEF TypeOK
    <2>5. IsFiniteSet(With(o)) /\ metrics'[o] = metrics[o] + 1
        <3>1. With(o) \in SUBSET Ended
            BY <2>2
        <3>2. IsFiniteSet(With(o))
            <4> HIDE DEF With, Ended
            <4> QED BY <1>0, <3>1, FS_Subset
        <3> QED BY <1>0, <2>1, <2>2, <3>2 DEF TypeOK
    <2> HIDE DEF With, Ended
    <2>6. IsFiniteSet(Ended') /\ Cardinality(With(o)') = Cardinality(With(o)) + 1
        BY <1>0, <2>3, <2>5, FS_AddElement
    <2> QED BY <1>0, <2>2, <2>4, <2>5, <2>6
<1>3. CASE Configure \/ ProcessTasks \/ Crash \/ UNCHANGED vars
    BY <1>1, <1>3 DEF Configure, ProcessTasks, Crash, database, vars
<1> QED BY <1>1, <1>2, <1>3 DEF Next

\* Besides Reserve and Finish no step about a job touches the budget, or what a
\* reserving task holds.
LEMMA BudgetUntouched ==
    ASSUME TypeOK, NEW j \in Jobs, Holding(j),
           Add(j) \/ AddFails(j) \/ Stop(j) \/ Worker(j), ~ Reserve(j), ~ Finish(j)
    PROVE  /\ UNCHANGED <<reserved, activeBytes>>
           /\ \A k \in reserved : job'[k].reserve = job[k].reserve
<1> USE DEF TypeOK, Holding, database, disk, memory, remote, history
<1>0. /\ \A k \in reserved : k \in Jobs
      /\ "stopped" \in Statuses /\ outcome[j] \in Statuses
      /\ \A r : In(job[j], r).reserve = job[j].reserve
    BY InReserve DEF Statuses, Terminal
<1>1. CASE Add(j)
    BY <1>1, <1>0 DEF Add, AddAllowed
<1>2. CASE AddFails(j)
    BY <1>2, <1>0 DEF AddFails
<1>3. CASE Stop(j)
    <2>1. /\ UNCHANGED <<reserved, activeBytes>>
          /\ job' = job \/ job' = [job EXCEPT ![j] = In(job[j], "stopped")]
        BY <1>3 DEF Stop
    <2>2. In(job[j], "stopped").reserve = job[j].reserve
        BY <1>0
    <2>3. job'[j].reserve = job[j].reserve /\ \A k \in Jobs : k # j => job'[k] = job[k]
        BY <2>1, <2>2
    <2> QED BY <1>0, <2>1, <2>3
<1>4. CASE Begin(j)
    BY <1>4, <1>0 DEF Begin, workerOnly
<1>5. CASE OpenDir(j)
    BY <1>5, <1>0 DEF OpenDir
<1>6. CASE AddTorrent(j)
    BY <1>6, <1>0 DEF AddTorrent
<1>7. CASE SaveStage(j)
    BY <1>7, <1>0 DEF SaveStage
<1>8. CASE SaveStageFails(j)
    BY <1>8, <1>0 DEF SaveStageFails
<1>9. CASE GotInfo(j)
    BY <1>9, <1>0 DEF GotInfo, workerOnly
<1>10. CASE SeeStop(j)
    BY <1>10, <1>0 DEF SeeStop, workerOnly
<1>11. CASE Inspect(j)
    BY <1>11, <1>0 DEF Inspect, Goto
<1>12. CASE DropMetadata(j)
    BY <1>12, <1>0 DEF DropMetadata
<1>13. CASE Download(j)
    BY <1>13, <1>0 DEF Download
<1>14. CASE Zip(j)
    BY <1>14, <1>0 DEF Zip, workerOnly
<1>15. CASE Upload(j)
    BY <1>15, <1>0 DEF Upload
<1>16. CASE UploadEnd(j)
    BY <1>16, <1>0 DEF UploadEnd
<1>17. CASE Fail(j)
    BY <1>17, <1>0 DEF Fail, workerOnly
<1>18. CASE Exit(j)
    BY <1>18, <1>0 DEF Exit
<1>19. CASE FinishFails(j)
    BY <1>19, <1>0 DEF FinishFails
<1>20. CASE Cleanup(j)
    BY <1>20, <1>0 DEF Cleanup
<1>21. CASE Notify(j)
    BY <1>21, <1>0 DEF Notify, Goto
<1> QED BY <1>1, <1>2, <1>3, <1>4, <1>5, <1>6, <1>7, <1>8, <1>9, <1>10, <1>11, <1>12, <1>13, <1>14, <1>15, <1>16, <1>17, <1>18, <1>19, <1>20, <1>21 DEF Worker

\* A task's reservation is a number of bytes.
LEMMA ReserveType ==
    ASSUME CoreInv, NEW k \in tasks
    PROVE  k \in Jobs /\ job[k].reserve \in Nat
<1>1. k \in Jobs /\ job[k] \in Records
    BY DEF CoreInv, TypeOK, JobInv, Placed
<1>2. job[k].reserve \in Reserves \cup {0}
    BY <1>1 DEF Records
<1>3. \A r \in Reserves : r \in Nat
    BY BudgetAssumption
<1> QED BY <1>1, <1>2, <1>3

\* The budget is conserved: Reserve adds what Finish takes off.
LEMMA BudgetStep ==
    ASSUME CoreInv, \A k \in Jobs : JobBooks(k), FewFinished, BudgetConserved, [Next]_vars
    PROVE  /\ IsFiniteSet(reserved')
           /\ activeBytes' = SumFunctionOnSet([k \in Jobs |-> job'[k].reserve], reserved')
           /\ activeBytes' <= Budget
<1> DEFINE held  == [k \in Jobs |-> job[k].reserve]
           held2 == [k \in Jobs |-> job'[k].reserve]
           Conserved == /\ IsFiniteSet(reserved')
                        /\ activeBytes' = SumFunctionOnSet(held2, reserved')
                        /\ activeBytes' <= Budget
<1>0. /\ TypeOK /\ IsFiniteSet(reserved) /\ reserved \subseteq tasks
      /\ activeBytes = SumFunctionOnSet(held, reserved)
      /\ activeBytes <= Budget /\ Budget \in Nat /\ activeBytes \in Int
    BY BudgetAssumption DEF CoreInv, FewFinished, BudgetConserved, TypeOK
<1>1. \A k \in reserved : k \in Jobs /\ held[k] = job[k].reserve /\ held[k] \in Nat
    BY <1>0, ReserveType
<1>2. ASSUME UNCHANGED <<reserved, activeBytes>>,
             \A k \in reserved : job'[k].reserve = job[k].reserve
      PROVE  Conserved
    <2>1. \A k \in reserved : held[k] \in Int /\ held[k] = held2[k]
        BY <1>1, <1>2
    <2> HIDE DEF held, held2
    <2>2. SumFunctionOnSet(held, reserved) = SumFunctionOnSet(held2, reserved)
        BY <1>0, <2>1, SumSame
    <2> QED BY <1>0, <1>2, <2>2
<1>3. ASSUME NEW j \in Jobs, Reserve(j) PROVE Conserved
    <2>1. /\ pc[j] = "capacity" /\ activeBytes <= Budget - job[j].reserve
          /\ activeBytes' = activeBytes + job[j].reserve
          /\ reserved' = reserved \cup {j} /\ job' = job
        BY <1>3 DEF Reserve
    <2>2. j \in tasks /\ j \notin reserved
        BY <2>1 DEF CoreInv, JobInv, Placed, JobBooks, Holding
    <2>3. job[j].reserve \in Nat /\ held[j] = job[j].reserve /\ held2 = held
        BY <2>1, <2>2, ReserveType
    <2>4. \A k \in reserved \cup {j} : held[k] \in Int
        BY <1>1, <2>3
    <2> HIDE DEF held, held2
    <2>5. SumFunctionOnSet(held, reserved \cup {j}) = SumFunctionOnSet(held, reserved) + held[j]
        BY <1>0, <2>2, <2>4, SumAdd
    <2>6. IsFiniteSet(reserved')
        BY <1>0, <2>1, FS_AddElement
    <2> QED BY <1>0, <2>1, <2>3, <2>5, <2>6
<1>4. ASSUME NEW j \in Jobs, Finish(j) PROVE Conserved
    <2>1. /\ pc[j] = "finish" /\ reserved' = reserved \ {j}
          /\ activeBytes' = IF j \in reserved THEN activeBytes - job[j].reserve ELSE activeBytes
          /\ \A k \in Jobs : k # j => job'[k] = job[k]
        BY <1>0, <1>4 DEF Finish, Released, TypeOK
    <2>2. \A k \in reserved \ {j} : held[k] \in Int /\ held[k] = held2[k]
        BY <1>1, <2>1
    <2>3. \A k \in reserved : held[k] \in Int
        BY <1>1
    <2>4. j \in reserved => held[j] = job[j].reserve /\ held[j] \in Nat
        BY <1>1
    <2>5. IsFiniteSet(reserved \ {j})
        BY <1>0, FS_Subset
    <2> HIDE DEF held, held2
    <2>6. SumFunctionOnSet(held, reserved \ {j}) = SumFunctionOnSet(held2, reserved \ {j})
        BY <2>2, <2>5, SumSame
    <2>7. CASE j \in reserved
        <3>1. SumFunctionOnSet(held, reserved) = SumFunctionOnSet(held, reserved \ {j}) + held[j]
            BY <1>0, <2>3, <2>7, SumRemove
        <3>2. SumFunctionOnSet(held, reserved \ {j}) \in Int
            BY <2>2, <2>5, SumType
        <3>3. activeBytes' = SumFunctionOnSet(held, reserved \ {j})
            BY <1>0, <2>1, <2>4, <2>7, <3>1, <3>2
        <3>4. activeBytes' <= Budget
            BY <1>0, <2>1, <2>4, <2>7
        <3> QED BY <2>1, <2>5, <2>6, <3>3, <3>4
    <2>8. CASE j \notin reserved
        <3>1. reserved \ {j} = reserved
            BY <2>8
        <3> QED BY <1>0, <2>1, <2>6, <2>8, <3>1
    <2> QED BY <2>7, <2>8
<1>5. ASSUME NEW j \in Jobs, Add(j) \/ AddFails(j) \/ Stop(j) \/ Worker(j) PROVE Conserved
    <2>1. Holding(j)
        BY DEF JobBooks
    <2>2. CASE ~ Reserve(j) /\ ~ Finish(j)
        BY <1>0, <1>2, <1>5, <2>1, <2>2, BudgetUntouched
    <2> HIDE DEF Conserved
    <2> QED BY <1>3, <1>4, <2>2
<1>6. CASE Configure
    <2>1. reserved = {} /\ UNCHANGED <<reserved, activeBytes>>
        BY <1>0, <1>6 DEF Configure, CoreInv, TypeOK, JobInv, Placed
    <2> QED BY <1>2, <2>1
<1>7. CASE ProcessTasks \/ UNCHANGED vars
    BY <1>2, <1>7 DEF ProcessTasks, memory, vars
<1>8. CASE Crash
    <2>1. reserved' = {} /\ activeBytes' = 0
        BY <1>8 DEF Crash
    <2>2. SumFunctionOnSet(held2, {}) = 0
        <3> HIDE DEF held2
        <3> QED BY SumEmpty
    <2>3. IsFiniteSet(reserved')
        BY <2>1, FS_EmptySet
    <2> QED BY <1>0, <2>1, <2>2, <2>3
<1> QED BY <1>5, <1>6, <1>7, <1>8 DEF Next

\* The initial state satisfies the whole invariant.
LEMMA InitIInv == Init => IInv
<1> SUFFICES ASSUME Init PROVE IInv
    OBVIOUS
<1>1. CoreInv
    BY InitCore
<1>2. \A k \in Jobs : JobBooks(k)
    BY DEF Init, JobBooks, Settled, Rooted, Told, AskedFor, UploadedOnce, StageSaved, InClient,
           Holding, HasRow, NoRow
<1>3. tasks \cup Persisted = {} /\ {k \in Jobs : verdict[k] # "none"} = {} /\ reserved = {}
    BY DEF Init, Persisted, HasRow
<1>4. HashesApart /\ FewFinished
    BY <1>3, FS_EmptySet DEF HashesApart, DistinctHashes, FewFinished
<1>5. AccountedOnce
    <2>1. \A s \in Terminal : {k \in Jobs : verdict[k] = s} = {} /\ metrics[s] = 0
        BY DEF Init, Terminal
    <2>2. \A k \in Jobs : verdict[k] = "none"
        BY DEF Init
    <2> QED BY <2>1, <2>2, FS_EmptySet DEF AccountedOnce
<1>6. BudgetConserved
    <2>1. activeBytes = 0 /\ reserved = {}
        BY DEF Init
    <2> QED BY <2>1, SumEmpty, BudgetAssumption DEF BudgetConserved
<1> QED BY <1>1, <1>2, <1>4, <1>5, <1>6 DEF IInv

\* Every step keeps it.
LEMMA IInvStep == IInv /\ CoreInv' /\ [Next]_vars => IInv'
<1> SUFFICES ASSUME IInv, CoreInv', [Next]_vars PROVE IInv'
    OBVIOUS
<1>0. TypeOK /\ CoreInv /\ \A k \in Jobs : JobInv(k) /\ JobBooks(k)
    BY DEF IInv, CoreInv
<1>1. ASSUME NEW k \in Jobs PROVE JobBooks(k)'
    <2>1. ASSUME NEW j \in Jobs, Add(j) \/ AddFails(j) \/ Stop(j) \/ Worker(j)
          PROVE  JobBooks(k)'
        <3>1. CASE j = k
            BY <1>0, <2>1, <3>1, OwnBooks
        <3>2. CASE j # k
            BY <1>0, <2>1, <3>2, OtherJobs, SameViewBooks
        <3> QED BY <3>1, <3>2
    <2>2. CASE Configure \/ ProcessTasks \/ Crash
        BY <1>0, <2>2, ProcessBooks
    <2>3. CASE UNCHANGED vars
        <3>1. SameView(k)
            BY <2>3 DEF SameView, vars, database, memory, remote, history
        <3> QED BY <1>0, <3>1, SameViewBooks
    <2> QED BY <2>1, <2>2, <2>3 DEF Next
<1>2. HashesApart'
    BY <1>0, HashesStep DEF IInv
<1>3. /\ IsFiniteSet({j \in Jobs : verdict[j] # "none"})'
      /\ (\A s \in Terminal : metrics[s] = Cardinality({j \in Jobs : verdict[j] = s}))'
    BY <1>0, CountStep DEF IInv
<1>4. /\ IsFiniteSet(reserved')
      /\ activeBytes' = SumFunctionOnSet([k \in Jobs |-> job'[k].reserve], reserved')
      /\ activeBytes' <= Budget
    BY <1>0, BudgetStep DEF IInv
<1>5. AccountedOnce'
    BY <1>1, <1>3 DEF AccountedOnce, JobBooks, Settled, HasRow
<1>6. BudgetConserved'
    <2>1. reserved' \subseteq tasks'
        BY <1>1 DEF JobBooks, Holding, CoreInv, TypeOK
    <2> QED BY <1>4, <2>1 DEF BudgetConserved
<1>7. FewFinished'
    BY <1>3, <1>4 DEF FewFinished
<1> QED BY <1>1, <1>2, <1>5, <1>6, <1>7 DEF IInv

\* The inductive invariant holds in every reachable state.
THEOREM Invariance == Spec => []IInv
<1>1. Init => IInv
    BY InitIInv
<1>2. IInv /\ CoreInv' /\ [Next]_vars => IInv'
    BY IInvStep
<1>3. Spec => []CoreInv
    BY CoreInvariance
<1> QED BY <1>1, <1>2, <1>3, PTL DEF Spec

\* What Add acknowledged has a row or a verdict, and the queue works on it while
\* the process is up, after any number of crashes and lost answers.
THEOREM AcceptedNeverLost == Spec => []NoneLost
<1>1. IInv => NoneLost
    BY DEF IInv, JobBooks, Rooted, NoneLost
<1> QED BY <1>1, Invariance, PTL

\* The daily counters hold each finished job once, under its verdict, although
\* Finish is retried after lost answers.
THEOREM CountedOnce == Spec => []AccountedOnce
<1>1. IInv => AccountedOnce
    BY DEF IInv
<1> QED BY <1>1, Invariance, PTL

\* An owner hears of a job at most once, the verdict, and "completed" only when
\* the content is in the remote store.
THEOREM MailIsTrue == Spec => []ToldOnceAndTruly
<1>1. IInv => ToldOnceAndTruly
    <2> SUFFICES ASSUME IInv, NEW j \in Jobs
                 PROVE  /\ Len(told[j]) <= 1
                        /\ Len(told[j]) = 1 => told[j][1] = verdict[j]
                        /\ verdict[j] = "completed" => j \in uploaded
        BY DEF ToldOnceAndTruly
    <2>1. told[j] = <<>> \/ told[j] = <<verdict[j]>>
        BY DEF IInv, JobBooks, Told
    <2>2. verdict[j] = "completed" => j \in uploaded
        BY DEF IInv, CoreInv, JobInv, Completed
    <2>3. told[j] = <<>> => Len(told[j]) = 0
        OBVIOUS
    <2>4. told[j] = <<verdict[j]>> => Len(told[j]) = 1 /\ told[j][1] = verdict[j]
        OBVIOUS
    <2>5. Len(told[j]) <= 1
        <3>1. PICK n \in {0, 1} : Len(told[j]) = n
            BY <2>1, <2>3, <2>4
        <3>2. n <= 1
            OBVIOUS
        <3> QED BY <3>1, <3>2, Zenon
    <2>6. Len(told[j]) = 1 => told[j][1] = verdict[j]
        <3>1. told[j] = <<>> => Len(told[j]) # 1
            BY <2>3
        <3> QED BY <2>1, <2>4, <3>1
    <2> QED BY <2>2, <2>5, <2>6
<1> QED BY <1>1, Invariance, PTL

\* The logical budget: activeBytes is the sum of the reservations and never more
\* than maxActiveBytes, whatever way jobs end.
THEOREM BudgetExact == Spec => []BudgetConserved
<1>1. IInv => BudgetConserved
    BY DEF IInv
<1> QED BY <1>1, Invariance, PTL

\* configure can always load the rows there are: no two share a torrent.
THEOREM RestartAlwaysPossible == Spec => []Restartable
<1>1. IInv => Restartable
    BY DEF IInv, HashesApart, Restartable, DistinctHashes
<1> QED BY <1>1, Invariance, PTL

\* A torrent in the client is its worker's alone, and AddTorrent finds its hash
\* free.
THEOREM TorrentIsolation == Spec => []IsolatedTorrent
<1>1. IInv => IsolatedTorrent
    <2> SUFFICES ASSUME IInv, NEW j \in Jobs, NEW k \in Jobs
                 PROVE  /\ j # k /\ j \in handles /\ k \in handles => Hash(j) # Hash(k)
                        /\ pc[j] = "addTorrent" /\ k \in handles => Hash(j) # Hash(k)
        BY DEF IsolatedTorrent
    <2>1. \A m \in Jobs : m \in handles \/ pc[m] = "addTorrent" => m \in tasks
        BY DEF IInv, CoreInv, JobInv, Placed, JobBooks, InClient
    <2>2. pc[j] = "addTorrent" => j \notin handles
        BY DEF IInv, JobBooks, InClient
    <2> QED BY <2>1, <2>2 DEF IInv, HashesApart, DistinctHashes
<1> QED BY <1>1, Invariance, PTL

\* Only two steps remove anything from a job's directory.
LEMMA DiskShrinks ==
    ASSUME TypeOK, NEW j \in Jobs, Add(j) \/ AddFails(j) \/ Stop(j) \/ Worker(j),
           ~ DropMetadata(j), ~ Cleanup(j)
    PROVE  dirs \subseteq dirs' /\ original \subseteq original'
<1> USE DEF database, disk, memory, remote, history
<1>1. CASE Add(j)
    BY <1>1 DEF Add, KeepOriginal
<1>2. CASE AddFails(j)
    BY <1>2 DEF AddFails, KeepOriginal
<1>3. CASE Stop(j)
    BY <1>3 DEF Stop
<1>4. CASE Begin(j)
    BY <1>4 DEF Begin, workerOnly
<1>5. CASE OpenDir(j)
    BY <1>5 DEF OpenDir
<1>6. CASE AddTorrent(j)
    BY <1>6 DEF AddTorrent
<1>7. CASE SaveStage(j)
    BY <1>7 DEF SaveStage
<1>8. CASE SaveStageFails(j)
    BY <1>8 DEF SaveStageFails
<1>9. CASE GotInfo(j)
    BY <1>9 DEF GotInfo, workerOnly
<1>10. CASE SeeStop(j)
    BY <1>10 DEF SeeStop, workerOnly
<1>11. CASE Inspect(j)
    BY <1>11 DEF Inspect
<1>12. CASE Reserve(j)
    BY <1>12 DEF Reserve
<1>13. CASE Download(j)
    BY <1>13 DEF Download
<1>14. CASE Zip(j)
    BY <1>14 DEF Zip, workerOnly
<1>15. CASE Upload(j)
    BY <1>15 DEF Upload
<1>16. CASE UploadEnd(j)
    BY <1>16 DEF UploadEnd
<1>17. CASE Fail(j)
    BY <1>17 DEF Fail, workerOnly
<1>18. CASE Exit(j)
    BY <1>18 DEF Exit
<1>19. CASE Finish(j)
    BY <1>19 DEF Finish
<1>20. CASE FinishFails(j)
    BY <1>20 DEF FinishFails
<1>21. CASE Notify(j)
    BY <1>21 DEF Notify
<1> QED BY <1>1, <1>2, <1>3, <1>4, <1>5, <1>6, <1>7, <1>8, <1>9, <1>10, <1>11, <1>12, <1>13, <1>14, <1>15, <1>16, <1>17, <1>18, <1>19, <1>20, <1>21 DEF Worker

\* What any step takes from the disk.
LEMMA Removals ==
    ASSUME IInv, [Next]_vars
    PROVE  /\ \A k \in original \ original' : row[k].stage \notin {"pending", "started"}
           /\ \A k \in dirs \ dirs' : ~HasRow(k) /\ verdict[k] \in {"completed", "stopped"}
<1>1. ASSUME NEW j \in Jobs, Add(j) \/ AddFails(j) \/ Stop(j) \/ Worker(j)
      PROVE  /\ \A k \in original \ original' : row[k].stage \notin {"pending", "started"}
             /\ \A k \in dirs \ dirs' : ~HasRow(k) /\ verdict[k] \in {"completed", "stopped"}
    <2>1. CASE DropMetadata(j)
        BY <2>1 DEF DropMetadata, IInv, JobBooks, StageSaved
    <2>2. CASE Cleanup(j)
        <3>1. /\ pc[j] = "cleanup" /\ original \ original' \subseteq {j}
              /\ dirs \ dirs' \subseteq {j} /\ (dirs' # dirs => outcome[j] # "failed")
            BY <2>2 DEF Cleanup, disk
        <3>2. verdict[j] = outcome[j] /\ outcome[j] \in Terminal
            BY <3>1 DEF IInv, CoreInv, TypeOK, JobBooks, Settled
        <3>3. row[j] = NoRow
            BY <3>2 DEF IInv, JobBooks, Settled, Terminal
        <3> QED BY <3>1, <3>2, <3>3 DEF HasRow, NoRow, Terminal
    <2>3. CASE ~ DropMetadata(j) /\ ~ Cleanup(j)
        BY <1>1, <2>3, DiskShrinks DEF IInv, CoreInv
    <2> QED BY <2>1, <2>2, <2>3
<1>2. CASE Configure \/ ProcessTasks \/ Crash \/ UNCHANGED vars
    BY <1>2 DEF Configure, ProcessTasks, Crash, disk, vars
<1> QED BY <1>1, <1>2 DEF Next

\* An uploaded .torrent stays on disk until the downloading stage is saved or the
\* row is gone, so a restart finds it while it still needs it.
THEOREM OriginalKept == Spec => OriginalKeptWhileQueued
<1>1. IInv /\ [Next]_vars => [\A j \in original \ original' : row[j].stage \notin {"pending", "started"}]_vars
    BY Removals
<1> QED BY <1>1, Invariance, PTL DEF Spec, OriginalKeptWhileQueued

\* No directory is removed that a row points at, or that belongs to a failed job.
THEOREM CleanedAfterCommit == Spec => CleanupAfterCommit
<1>1. IInv /\ [Next]_vars =>
        [\A j \in dirs \ dirs' : ~HasRow(j) /\ verdict[j] \in {"completed", "stopped"}]_vars
    BY Removals
<1> QED BY <1>1, Invariance, PTL DEF Spec, CleanupAfterCommit

-----------------------------------------------------------------------------
(* The refinement of JobContract, step by step. *)

\* What an outsider sees of job j is changed by no step but j's own.
LEMMA OtherLives ==
    ASSUME TypeOK, NEW j \in Jobs, NEW k \in Jobs, j # k,
           Add(j) \/ AddFails(j) \/ Stop(j) \/ Worker(j)
    PROVE  Life(k)' = Life(k)
    BY OtherJobs DEF SameView, Life, HasRow

\* A step that changes nothing an outsider sees.
LEMMA Unseen ==
    ASSUME NEW k \in Jobs, verdict'[k] = verdict[k], row'[k] # NoRow <=> row[k] # NoRow,
           k \in uploaded' <=> k \in uploaded, k \in attempted' <=> k \in attempted
    PROVE  Life(k)' = Life(k)
    BY DEF Life, HasRow

\* The steps of a job's own that an outsider does not see.
LEMMA OwnUnseen ==
    ASSUME IInv, NEW j \in Jobs, AddFails(j) \/ Worker(j),
           ~ Upload(j), ~ UploadEnd(j), ~ Finish(j), ~ FinishFails(j)
    PROVE  /\ verdict' = verdict /\ (row'[j] # NoRow <=> row[j] # NoRow)
           /\ uploaded' = uploaded /\ attempted' = attempted
           /\ asked' = asked /\ cancelled' = cancelled
<1> USE DEF database, disk, memory, remote, history
<1>0. row \in [Jobs -> Records \cup {NoRow}]
    BY DEF IInv, CoreInv, TypeOK
<1>1. CASE AddFails(j)
    BY <1>1 DEF AddFails
<1>2. CASE Begin(j)
    BY <1>2 DEF Begin, workerOnly
<1>3. CASE OpenDir(j)
    BY <1>3 DEF OpenDir
<1>4. CASE AddTorrent(j)
    BY <1>4 DEF AddTorrent
<1>5. CASE GotInfo(j)
    BY <1>5 DEF GotInfo, workerOnly
<1>6. CASE SeeStop(j)
    BY <1>6 DEF SeeStop, workerOnly
<1>7. CASE Inspect(j)
    BY <1>7 DEF Inspect
<1>8. CASE Reserve(j)
    BY <1>8 DEF Reserve
<1>9. CASE DropMetadata(j)
    BY <1>9 DEF DropMetadata
<1>10. CASE Download(j)
    BY <1>10 DEF Download
<1>11. CASE Zip(j)
    BY <1>11 DEF Zip, workerOnly
<1>12. CASE Fail(j)
    BY <1>12 DEF Fail, workerOnly
<1>13. CASE Exit(j)
    BY <1>13 DEF Exit
<1>14. CASE Cleanup(j)
    BY <1>14 DEF Cleanup
<1>15. CASE Notify(j)
    BY <1>15 DEF Notify
<1>16. CASE SaveStage(j) \/ SaveStageFails(j)
    <2>1. /\ row' = row \/ (row'[j] = In(job[j], SaveTarget[pc[j]]) /\ row[j] # NoRow)
          /\ verdict' = verdict /\ uploaded' = uploaded /\ attempted' = attempted
          /\ asked' = asked /\ cancelled' = cancelled
        BY <1>0, <1>16 DEF SaveStage, SaveStageFails, Save, HasRow
    <2>2. SaveTarget[pc[j]] \in Statuses /\ job[j] \in Records \cup {NoRow}
        BY <1>16 DEF SaveStage, SaveStageFails, SaveTarget, Statuses, IInv, CoreInv, TypeOK
    <2>3. In(job[j], SaveTarget[pc[j]]) # NoRow
        BY <2>2, InRecord, NoRowDistinct
    <2> QED BY <2>1, <2>3
<1> QED BY <1>1, <1>2, <1>3, <1>4, <1>5, <1>6, <1>7, <1>8, <1>9, <1>10, <1>11, <1>12, <1>13, <1>14, <1>15, <1>16 DEF Worker

\* A change of one job's life, seen as a step of the contract.
LEMMA OneLife ==
    ASSUME TypeOK, NEW j \in Jobs, Add(j) \/ AddFails(j) \/ Stop(j) \/ Worker(j)
    PROVE  Contract!Become(j, Life(j), Life(j)')
<1>1. \A k \in Jobs : k # j => Life(k)' = Life(k)
    BY OtherLives
<1> QED BY <1>1 DEF Contract!Become

\* A step of a job that changes neither its life nor the requests.
LEMMA LifeStutters ==
    ASSUME TypeOK, NEW j \in Jobs, Add(j) \/ AddFails(j) \/ Stop(j) \/ Worker(j),
           Life(j)' = Life(j), asked' = asked, cancelled' = cancelled
    PROVE  UNCHANGED Contract!contractVars
<1>1. \A k \in Jobs : Life(k)' = Life(k)
    BY OtherLives
<1> QED BY <1>1 DEF Contract!contractVars

\* Every step about one job is a step of the contract or invisible in it.
LEMMA JobRefines ==
    ASSUME IInv, NEW j \in Jobs, Add(j) \/ AddFails(j) \/ Stop(j) \/ Worker(j)
    PROVE  [Contract!ContractNext]_Contract!contractVars
<1>0. /\ TypeOK /\ Placed(j) /\ Attempted(j) /\ Completed(j) /\ Outcomes(j) /\ Cancelled(j)
      /\ Barrier(j) /\ JobBooks(j)
    BY DEF IInv, CoreInv, JobInv
<1>1. CASE Add(j)
    <2>1. /\ submission[j] = "none" /\ row'[j] = NewJob /\ verdict' = verdict
          /\ uploaded' = uploaded /\ attempted' = attempted
          /\ asked' = asked /\ cancelled' = cancelled
        BY <1>0, <1>1 DEF Add, AddAllowed, remote, TypeOK
    <2>2. Life(j) = "none"
        BY <1>0, <2>1 DEF Placed, Life
    <2>3. Life(j)' = "open"
        BY <1>0, <2>1, NoRowDistinct DEF Placed, Completed, Life
    <2>4. Contract!Accept(j)
        BY <1>0, <1>1, <2>1, <2>2, <2>3, OneLife DEF Contract!Accept
    <2> QED BY <2>4 DEF Contract!ContractNext
<1>2. CASE Stop(j)
    <2>1. /\ j \in tasks /\ job[j].status \notin Terminal
          /\ job[j].stage \notin {"uploading", "zipping"} /\ row[j] # NoRow
          /\ row'[j] = In(job[j], "stopped") /\ verdict' = verdict
          /\ uploaded' = uploaded /\ attempted' = attempted
          /\ asked' = asked \cup {j} /\ cancelled' \in {cancelled, cancelled \cup {j}}
        BY <1>0, <1>2 DEF Stop, Stoppable, Save, HasRow, remote, TypeOK
    <2>2. j \notin attempted /\ j \notin uploaded /\ verdict[j] = "none"
        BY <1>0, <2>1 DEF Attempted, Completed, JobBooks, Settled, Terminal
    <2>3. row'[j] # NoRow
        BY <1>0, <2>1, InRecord, NoRowDistinct DEF TypeOK, Statuses, Terminal
    <2>4. Life(j) = "open" /\ Life(j)' = "open"
        BY <2>1, <2>2, <2>3 DEF Life
    <2>5. \A k \in Jobs : Life(k)' = Life(k)
        BY <1>0, <1>2, <2>4, OtherLives
    <2>6. Contract!Cancel(j)
        BY <2>1, <2>4, <2>5 DEF Contract!Cancel
    <2> QED BY <2>6 DEF Contract!ContractNext
<1>3. CASE Upload(j)
    <2>1. /\ pc[j] = "upload" /\ attempted' = attempted \cup {j} /\ row' = row
          /\ verdict' = verdict /\ uploaded' = uploaded
          /\ asked' = asked /\ cancelled' = cancelled
        BY <1>3 DEF Upload, database, history
    <2>2. j \in tasks /\ j \notin attempted /\ j \notin uploaded /\ j \notin cancelled
        BY <1>0, <2>1 DEF Placed, Attempted, Completed, Cancelled, Barrier
    <2>3. verdict[j] = "none" /\ row[j] # NoRow
        BY <1>0, <2>1, <2>2 DEF JobBooks, Settled, Rooted, HasRow
    <2>4. Life(j) = "open" /\ Life(j)' = "uploading"
        BY <2>1, <2>2, <2>3 DEF Life
    <2>5. Contract!StartUpload(j)
        BY <1>0, <1>3, <2>1, <2>2, <2>4, OneLife DEF Contract!StartUpload, Worker
    <2> QED BY <2>5 DEF Contract!ContractNext
<1>4. CASE UploadEnd(j)
    <2>1. /\ pc[j] = "uploadEnd" /\ uploaded' = uploaded \cup {j} /\ row' = row
          /\ verdict' = verdict /\ attempted' = attempted
          /\ asked' = asked /\ cancelled' = cancelled
        BY <1>4 DEF UploadEnd, database, history
    <2>2. j \in tasks /\ j \in attempted /\ j \notin uploaded
        BY <1>0, <2>1 DEF Placed, Barrier, JobBooks, UploadedOnce
    <2>3. verdict[j] = "none" /\ row[j] # NoRow
        BY <1>0, <2>1, <2>2 DEF JobBooks, Settled, Rooted, HasRow
    <2>4. Life(j) = "uploading" /\ Life(j)' = "published"
        BY <2>1, <2>2, <2>3 DEF Life
    <2>5. Contract!Publish(j)
        BY <1>0, <1>4, <2>1, <2>4, OneLife DEF Contract!Publish, Worker
    <2> QED BY <2>5 DEF Contract!ContractNext
<1>5. CASE Finish(j) \/ FinishFails(j)
    <2>1. /\ pc[j] = "finish" /\ uploaded' = uploaded /\ attempted' = attempted
          /\ asked' = asked /\ cancelled' = cancelled
          /\ \/ row' = row /\ verdict' = verdict
             \/ row[j] # NoRow /\ row'[j] = In(job[j], outcome[j]) /\ verdict' = verdict
             \/ row[j] # NoRow /\ row'[j] = NoRow /\ verdict'[j] = outcome[j]
        BY <1>0, <1>5 DEF Finish, FinishFails, DeleteAndCount, Save, HasRow, database, remote,
                          history, TypeOK
    <2>2. In(job[j], outcome[j]) # NoRow /\ outcome[j] \in Terminal
        <3>1. outcome[j] \in Terminal /\ outcome[j] \in Statuses /\ job[j] \in Records \cup {NoRow}
            BY <1>0 DEF TypeOK, Statuses
        <3>2. In(job[j], outcome[j]) \in Records
            BY <3>1, InRecord
        <3> QED BY <3>1, <3>2, NoRowDistinct
    <2>3. CASE verdict'[j] = verdict[j] /\ (row'[j] # NoRow <=> row[j] # NoRow)
        BY <1>0, <1>5, <2>1, <2>3, Unseen, LifeStutters DEF Worker
    <2>4. CASE row[j] # NoRow /\ row'[j] = NoRow /\ verdict'[j] = outcome[j]
        <3>1. verdict[j] = "none" /\ Life(j)' = outcome[j]
            BY <1>0, <2>2, <2>4 DEF JobBooks, Settled, Terminal, Life
        <3>2. /\ outcome[j] = "completed" => Life(j) = "published"
              /\ outcome[j] = "stopped" => Life(j) = "open" /\ j \in asked
              /\ Life(j) \in {"open", "uploading", "published"}
            BY <1>0, <2>4, <3>1 DEF Completed, Attempted, JobBooks, AskedFor, Life
        <3>3. Contract!Become(j, Life(j), outcome[j])
            BY <1>0, <1>5, <3>1, OneLife DEF Worker
        <3>4. Contract!Settle(j)
            BY <2>1, <2>2, <3>2, <3>3 DEF Contract!Settle, Terminal
        <3> QED BY <3>4 DEF Contract!ContractNext
    <2> QED BY <2>1, <2>2, <2>3, <2>4
<1>6. CASE /\ AddFails(j) \/ Worker(j)
           /\ ~ Upload(j) /\ ~ UploadEnd(j) /\ ~ Finish(j) /\ ~ FinishFails(j)
    <2>1. /\ verdict' = verdict /\ (row'[j] # NoRow <=> row[j] # NoRow)
          /\ uploaded' = uploaded /\ attempted' = attempted
          /\ asked' = asked /\ cancelled' = cancelled
        BY <1>6, OwnUnseen
    <2>2. Life(j)' = Life(j)
        BY <2>1, Unseen
    <2> QED BY <1>0, <2>1, <2>2, LifeStutters
<1> QED BY <1>1, <1>2, <1>3, <1>4, <1>5, <1>6

\* Every step is a step of the contract or invisible in it.
LEMMA ContractStep ==
    ASSUME IInv, [Next]_vars
    PROVE  [Contract!ContractNext]_Contract!contractVars
<1>1. ASSUME NEW j \in Jobs, Add(j) \/ AddFails(j) \/ Stop(j) \/ Worker(j)
      PROVE  [Contract!ContractNext]_Contract!contractVars
    BY <1>1, JobRefines
<1>2. CASE Configure \/ ProcessTasks \/ Crash \/ UNCHANGED vars
    <2>1. /\ verdict' = verdict /\ row' = row /\ uploaded' = uploaded
          /\ attempted' = attempted /\ asked' = asked /\ cancelled' = cancelled
        BY <1>2 DEF Configure, ProcessTasks, Crash, vars, database, remote, history
    <2>2. \A k \in Jobs : Life(k)' = Life(k)
        BY <2>1 DEF Life, HasRow
    <2> QED BY <2>1, <2>2 DEF Contract!contractVars
<1> QED BY <1>1, <1>2 DEF Next

\* The download queue implements the contract: every accepted submission is
\* uploaded at most once and gets one verdict, whatever the process goes through.
THEOREM QueueImplementsContract == Spec => ImplementsContract
<1>1. Init => Contract!ContractInit
    BY DEF Init, Contract!ContractInit, Life, HasRow
<1>2. IInv /\ [Next]_vars => [Contract!ContractNext]_Contract!contractVars
    BY ContractStep
<1> QED BY <1>1, <1>2, Invariance, PTL DEF Spec, ImplementsContract, Contract!ContractSpec

\* No step of the contract begins from a verdict.
LEMMA NoLifeAfterVerdict ==
    ASSUME [Contract!ContractNext]_Contract!contractVars, NEW k \in Jobs, Life(k) \in Terminal
    PROVE  Life(k)' = Life(k)
<1> DEFINE life == [j \in Jobs |-> Life(j)]
<1>1. life[k] = Life(k) /\ life'[k] = Life(k)'
    OBVIOUS
<1>2. ASSUME NEW j \in Jobs, NEW from, NEW to, Contract!Become(j, from, to), from \notin Terminal
      PROVE  life'[k] = life[k]
    <2>1. life[j] = from /\ life' = [life EXCEPT ![j] = to]
        BY <1>2 DEF Contract!Become
    <2>2. j # k
        BY <1>1, <1>2, <2>1
    <2> HIDE DEF life
    <2> QED BY <2>1, <2>2
<1>3. ASSUME UNCHANGED life PROVE life'[k] = life[k]
    BY <1>3
<1>4. CASE Contract!ContractNext
    <2>1. PICK j \in Jobs : \/ Contract!Accept(j) \/ Contract!Cancel(j) \/ Contract!StartUpload(j)
                            \/ Contract!Publish(j) \/ Contract!Settle(j)
        BY <1>4 DEF Contract!ContractNext
    <2>2. CASE Contract!Cancel(j)
        BY <1>3, <2>2 DEF Contract!Cancel
    <2>3. CASE ~ Contract!Cancel(j)
        <3>1. PICK from \in {"none", "open", "uploading", "published"}, to \in Contract!Lives :
                 Contract!Become(j, from, to)
            BY <2>1, <2>3 DEF Contract!Accept, Contract!StartUpload, Contract!Publish, Contract!Settle, Contract!Lives
        <3>2. from \notin Terminal
            BY DEF Terminal
        <3> HIDE DEF life
        <3>3. life'[k] = life[k]
            BY <1>2, <3>1, <3>2
        <3> QED BY <1>1, <3>3
    <2> HIDE DEF life
    <2> QED BY <2>2, <2>3
<1>5. CASE UNCHANGED Contract!contractVars
    BY <1>3, <1>5 DEF Contract!contractVars
<1> HIDE DEF life
<1> QED BY <1>1, <1>4, <1>5

\* A verdict is final: after it the job has no row again and is counted under no
\* other status, although Finish is retried after lost answers and the process
\* may die (Store.Finish).  It holds because the queue implements the contract.
THEOREM VerdictIsFinal ==
    Spec => [][\A k \in Jobs : verdict[k] # "none" => verdict'[k] = verdict[k] /\ row'[k] = NoRow]_vars
<1>1. ASSUME IInv, IInv', [Next]_vars
      PROVE  \A k \in Jobs : verdict[k] # "none" => verdict'[k] = verdict[k] /\ row'[k] = NoRow
    <2> SUFFICES ASSUME NEW k \in Jobs, verdict[k] # "none"
                 PROVE  verdict'[k] = verdict[k] /\ row'[k] = NoRow
        OBVIOUS
    <2>1. Life(k) = verdict[k] /\ verdict[k] \in Terminal
        BY <1>1 DEF Life, IInv, CoreInv, TypeOK
    <2>2. Life(k)' = verdict[k]
        BY <1>1, <2>1, ContractStep, NoLifeAfterVerdict
    <2>3. verdict'[k] # "none"
        BY <2>1, <2>2 DEF Life, Terminal
    <2>4. verdict'[k] = verdict[k]
        BY <2>2, <2>3 DEF Life
    <2>5. row'[k] = NoRow
        BY <1>1, <2>3 DEF IInv, JobBooks, Settled
    <2> QED BY <2>4, <2>5
<1> QED BY <1>1, Invariance, PTL DEF Spec
=============================================================================
