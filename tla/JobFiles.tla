----------------------------- MODULE JobFiles -----------------------------
(***************************************************************************)
(* The files of one job, from the request that brings it to the remote     *)
(* store: the cached .torrent (persistMetadata, loadSpec), the pieces the  *)
(* torrent client writes, the hard links of the chosen files (stagePaths)  *)
(* and the ZIP (ZipFolder).  JobQueue says when these steps are taken and  *)
(* what becomes of the row; here the directory survives what happens to    *)
(* the machine: errors, crashes of the process, losses of power.           *)
(*                                                                         *)
(* Sizes are in units.  What a loss of power keeps is what fsync put on    *)
(* disk; of everything else, each name and each block may have got there   *)
(* or not.                                                                 *)
(***************************************************************************)
EXTENDS Integers, Sequences, FiniteSets, FiniteSetsExt

CONSTANTS
    Torrents,        \* see TorrentAssumption
    Submissions,     \* what may be submitted: [torrent, upload, zipped, selection]
    All,             \* no explicit selection: nil
    MaxInt,          \* math.MaxInt64
    Flat, PerFile,   \* the fixed allowance of a reservation, and that of a file
    MaxActive,       \* maxActiveBytes
    MaxCrashes       \* bound: crashes and losses of power

Index(t)     == 0..Len(t.length) - 1
Length(t, i) == t.length[i + 1]
Blocks(t)    == 1..Len(t.piece)
Total(t)     == SumFunction([i \in Index(t) |-> Length(t, i)])
\* int64
Wrap(n) == ((n + MaxInt + 1) % (2 * (MaxInt + 1))) - (MaxInt + 1)
\* t.Length(), a sum the client takes in an int64.
Declared(t)  == Wrap(Total(t))
Files        == UNION {Index(t) : t \in Torrents}
Pieces       == UNION {Blocks(t) : t \in Torrents}

\* length: of each file, which in the metadata of a magnet may be anything; piece:
\* the size of each piece; touches: the pieces of each file; meta: the size of the
\* .torrent; parses: ParseTorrentFile accepts it; safe: run accepts its names.  The
\* client takes no metadata with pieces for another length than it declares, and
\* 16 MiB are three times MaxTorrentFileSize and more.
ASSUME TorrentAssumption ==
    \A t \in Torrents :
        /\ t.length \in Seq(Int) /\ t.piece \in Seq(Nat) /\ t.meta \in Nat
        /\ t.touches \in [Index(t) -> SUBSET Blocks(t)]
        /\ {t.parses, t.safe} \subseteq BOOLEAN
        /\ Declared(t) >= 0 => SumFunction(t.piece) = Declared(t)
        /\ t.parses => t.length \in Seq(Nat) /\ Total(t) <= MaxInt /\ 3 * t.meta <= Flat
ASSUME SubmissionAssumption ==
    \A s \in Submissions : /\ DOMAIN s = {"torrent", "upload", "zipped", "selection"}
                           /\ s.torrent \in Torrents /\ {s.upload, s.zipped} \subseteq BOOLEAN
                           /\ s.selection = All \/ s.selection \in SUBSET Nat
ASSUME SizeAssumption == {MaxInt, Flat, PerFile, MaxActive, MaxCrashes} \subseteq Nat

VARIABLES
    pc,         \* what the process does next for the job
    caller,     \* of persistMetadata: Add or run
    job,        \* the submission, in memory and in the row
    row,        \* the row's status, or none
    meta,       \* the cached .torrent under each of its names
    stable,     \* the same as of the last fsync of the directory
    data,       \* what torrent/ has of each piece
    complete,   \* pieces the torrent client takes for complete
    links,      \* files in payload/
    todo,       \* chosen files that remain to be linked, or zipped
    zip,        \* the ZIP
    reserved,   \* the job's reservation
    remote,     \* what the remote store got
    faulted,    \* history: a call failed, or peers did not answer
    crashes

cache   == <<meta, stable>>
payload == <<links, todo, zip>>
torrent == <<data, complete>>
outside == <<row, remote, faulted, crashes>>
vars    == <<pc, caller, job, cache, torrent, payload, reserved, outside>>

Names    == {"uploaded", "metadata", "tmp"}
Contents == {"absent", "torn", "soft", "whole"}   \* soft: not on disk yet
AddSteps     == {"keep", "create"}
PersistSteps == {"write", "sync", "rename", "syncDir"}
RunSteps     == {"queued", "info", "inspect", "wait", "drop", "download", "stage", "link",
                 "zip", "entry", "flush", "save", "upload"}
Ended        == {"done", "failed", "stopped"}

NoJob   == [upload |-> FALSE]
NoZip   == [there |-> FALSE, body |-> {}, whole |-> FALSE]
Nothing == [there |-> FALSE, body |-> {}, good |-> FALSE]
Cached(c) == [n \in Names |-> c]

TypeOK ==
    /\ pc \in {"idle", "down"} \cup AddSteps \cup PersistSteps \cup RunSteps
    /\ caller \in {"Add", "run"}
    /\ job \in Submissions \cup {NoJob} /\ (pc \notin {"idle", "down"} => job # NoJob)
    /\ row \in {"none", "pending", "uploading"} \cup Ended /\ (row # "none" => job # NoJob)
    /\ {meta, stable} \subseteq [Names -> Contents]
    /\ data \in [Pieces -> {"none", "bad", "good"}] /\ complete \subseteq Pieces
    /\ links \subseteq Files /\ todo \subseteq Files
    /\ zip \in [there : BOOLEAN, body : SUBSET Files, whole : BOOLEAN]
    /\ reserved \in 0..MaxActive
    /\ remote \in [there : BOOLEAN, body : SUBSET Files, good : BOOLEAN]
    /\ faulted \in BOOLEAN /\ crashes \in 0..MaxCrashes

Init ==
    /\ pc = "idle" /\ caller = "Add" /\ job = NoJob /\ row = "none"
    /\ meta = Cached("absent") /\ stable = Cached("absent")
    /\ data = [p \in Pieces |-> "none"] /\ complete = {}
    /\ links = {} /\ todo = {} /\ zip = NoZip
    /\ reserved = 0 /\ remote = Nothing
    /\ faulted = FALSE /\ crashes = 0

Go(from, to) == pc = from /\ pc' = to

-----------------------------------------------------------------------------
(* What a submission asks for *)

T == job.torrent

\* selectedIndexes.
SelectionFits(s) == s.selection # All => s.selection \subseteq Index(s.torrent)
Chosen  == IF job.selection = All THEN Index(T) ELSE job.selection
Size(S) == SumFunction([i \in S |-> Length(T, i)])
Wanted  == UNION {T.touches[i] : i \in Chosen}

\* Mutant: the ZIP is not reserved for.
ExtraWithoutZip(s, selected) == Flat + PerFile * Len(s.torrent.length)

Extra(s, selected) ==
    Flat + PerFile * Len(s.torrent.length) + (IF s.zipped THEN selected + selected \div 20 ELSE 0)

\* The sums before the last one do not overflow unless it does.
Overflows(s, extra) == Declared(s.torrent) > MaxInt - extra

Reservation == Wrap(Declared(T) + Extra(job, Size(Chosen)))

\* What run asks of the torrent once it has its metadata.
Acceptable ==
    /\ Len(T.length) > 0 /\ SelectionFits(job)
    /\ T.safe
    /\ \A i \in Chosen : Length(T, i) >= 0
    /\ Size(Chosen) <= MaxInt /\ Size(Chosen) <= Declared(T)
    /\ ~Overflows(job, Extra(job, Size(Chosen)))
    /\ Reservation <= MaxActive

-----------------------------------------------------------------------------
(* Endings *)

\* The job ends for good; only a failed one keeps its directory.
Finish(status) ==
    /\ pc' = "idle" /\ row' = status /\ reserved' = 0
    /\ IF status = "failed" THEN UNCHANGED <<cache, torrent, links, zip>>
       ELSE /\ meta' = Cached("absent") /\ stable' = Cached("absent")
            /\ data' = [p \in Pieces |-> "none"] /\ complete' = {}
            /\ links' = {} /\ zip' = NoZip
    /\ todo' = {}

\* run returns an error of its own, or one of the file system's or the network's.
Fail == Finish("failed") /\ UNCHANGED <<caller, job, remote, faulted, crashes>>
Fault == Finish("failed") /\ faulted' = TRUE /\ UNCHANGED <<caller, job, remote, crashes>>

-----------------------------------------------------------------------------
(* Add *)

\* The request is well formed; a .torrent file gets a directory of its own.
Submit(s) ==
    /\ Go("idle", IF s.upload THEN "write" ELSE "create")
    /\ job = NoJob
    /\ s.selection # {}
    /\ s.upload => s.torrent.parses
    /\ job' = s /\ caller' = "Add"
    /\ UNCHANGED <<cache, torrent, payload, reserved, outside>>

\* Under the name loadSpec looks for first.
Keep ==
    /\ Go("keep", "create")
    /\ meta' = [meta EXCEPT !["uploaded"] = meta["metadata"], !["metadata"] = "absent"]
    /\ UNCHANGED <<caller, job, stable, torrent, payload, reserved, outside>>

\* The INSERT commits.
Create ==
    /\ Go("create", "queued")
    /\ row' = "pending"
    /\ UNCHANGED <<caller, job, cache, torrent, payload, reserved, remote, faulted, crashes>>

\* A step of Add fails and the request with it.  The directory goes if the
\* metadata was not written, and stays if the row may be there.
AddFails ==
    /\ pc \in AddSteps \cup PersistSteps /\ caller = "Add"
    /\ pc' = "idle" /\ faulted' = TRUE
    /\ row' \in {row} \cup (IF pc = "create" THEN {"pending"} ELSE {})
    /\ IF pc \in PersistSteps THEN meta' = Cached("absent") /\ stable' = Cached("absent")
       ELSE UNCHANGED cache
    /\ UNCHANGED <<caller, job, torrent, payload, reserved, remote, crashes>>

-----------------------------------------------------------------------------
(* persistMetadata, for Add and for run *)

WriteTmp ==
    /\ Go("write", "sync")
    /\ meta' = [meta EXCEPT !["tmp"] = "soft"]
    /\ UNCHANGED <<caller, job, stable, torrent, payload, reserved, outside>>

\* Mutant: the file is not synced.
SyncNothing ==
    /\ Go("sync", "rename")
    /\ UNCHANGED <<caller, job, cache, torrent, payload, reserved, outside>>

SyncTmp ==
    /\ Go("sync", "rename")
    /\ meta' = [meta EXCEPT !["tmp"] = "whole"]
    /\ UNCHANGED <<caller, job, stable, torrent, payload, reserved, outside>>

Rename ==
    /\ Go("rename", "syncDir")
    /\ meta' = [meta EXCEPT !["metadata"] = meta["tmp"], !["tmp"] = "absent"]
    /\ UNCHANGED <<caller, job, stable, torrent, payload, reserved, outside>>

SyncDir ==
    /\ Go("syncDir", IF caller = "Add" THEN "keep" ELSE "inspect")
    /\ stable' = meta
    /\ UNCHANGED <<caller, job, meta, torrent, payload, reserved, outside>>

\* A write that fails leaves part of the file behind.
PersistFails ==
    /\ pc \in PersistSteps /\ caller = "run"
    /\ pc' = "idle" /\ row' = "failed" /\ faulted' = TRUE
    /\ meta' \in {meta} \cup (IF pc = "write" THEN {[meta EXCEPT !["tmp"] = "torn"]} ELSE {})
    /\ UNCHANGED <<caller, job, stable, torrent, payload, reserved, remote, crashes>>

-----------------------------------------------------------------------------
(* run, until the torrent is downloaded *)

\* The file loadSpec reads, or none: then the magnet is all there is.
Source ==
    IF meta["uploaded"] # "absent" THEN {"uploaded"}
    ELSE IF meta["metadata"] # "absent" THEN {"metadata"} ELSE {}

\* jobPath, MkdirAll, rejectSymlinks, loadSpec: a torn file does not parse.
Load ==
    /\ pc = "queued"
    /\ IF \E n \in Source : meta[n] = "torn" THEN Fail
       ELSE /\ pc' = IF Source = {} THEN "info" ELSE "write"
            /\ caller' = "run"
            /\ UNCHANGED <<job, cache, torrent, payload, reserved, outside>>

\* Peers send the metadata of the magnet.
GotInfo ==
    /\ Go("info", "write")
    /\ UNCHANGED <<caller, job, cache, torrent, payload, reserved, outside>>

\* Mutant: what the client has recorded as complete is not hashed again.
TrustRecord == complete

\* VerifyData.
Verified == {p \in Pieces : data[p] = "good"}

Inspect ==
    /\ pc = "inspect"
    /\ IF Acceptable
       THEN /\ pc' = "wait" /\ complete' = Verified
            /\ UNCHANGED <<caller, job, cache, data, payload, reserved, outside>>
       ELSE Fail

\* The budget and the disk have room for it; the stage is saved.
Reserve ==
    /\ Go("wait", "drop")
    /\ reserved' = Reservation
    /\ UNCHANGED <<caller, job, cache, torrent, payload, outside>>

\* removeTorrentMetadata, a file at a time.
DropMetadata ==
    /\ pc = "drop"
    /\ IF meta = Cached("absent") THEN pc' = "download" /\ UNCHANGED meta
       ELSE /\ \E n \in IF Source = {} THEN {"tmp"} ELSE Source : meta' = [meta EXCEPT ![n] = "absent"]
            /\ UNCHANGED pc
    /\ UNCHANGED <<caller, job, stable, torrent, payload, reserved, outside>>

\* A block of a piece arrives; the piece as a whole hashes.
Receive(p) ==
    /\ pc = "download" /\ p \in Wanted \ complete
    /\ \/ data[p] = "none" /\ data' = [data EXCEPT ![p] = "bad"] /\ UNCHANGED complete
       \/ data[p] # "none" /\ data' = [data EXCEPT ![p] = "good"] /\ complete' = complete \cup {p}
    /\ UNCHANGED <<pc, caller, job, cache, payload, reserved, outside>>

\* selectedProgress; the torrent is dropped and its storage closed.
Downloaded ==
    /\ Go("download", "stage")
    /\ Wanted \subseteq complete
    /\ UNCHANGED <<caller, job, cache, torrent, payload, reserved, outside>>

-----------------------------------------------------------------------------
(* stagePaths and ZipFolder *)

\* Mutant: what an interrupted attempt linked is still there.
StageAgain ==
    /\ Go("stage", "link")
    /\ todo' = Chosen
    /\ UNCHANGED <<caller, job, cache, torrent, links, zip, reserved, outside>>

\* RemoveAll, Mkdir.
Stage ==
    /\ Go("stage", "link")
    /\ links' = {} /\ todo' = Chosen
    /\ UNCHANGED <<caller, job, cache, torrent, zip, reserved, outside>>

\* os.Root.Link refuses a name that exists.
Link ==
    /\ pc = "link"
    /\ IF todo = {} THEN /\ pc' = IF job.zipped THEN "zip" ELSE "save"
                         /\ UNCHANGED <<caller, job, cache, torrent, payload, reserved, outside>>
       ELSE LET i == Min(todo) IN
            IF i \in links THEN Fail
            ELSE /\ links' = links \cup {i} /\ todo' = todo \ {i}
                 /\ UNCHANGED <<pc, caller, job, cache, torrent, zip, reserved, outside>>

\* os.Create truncates what an interrupted attempt wrote.
CreateZip ==
    /\ Go("zip", "entry")
    /\ zip' = [there |-> TRUE, body |-> {}, whole |-> FALSE] /\ todo' = links
    /\ UNCHANGED <<caller, job, cache, torrent, links, reserved, outside>>

\* An entry; after the last, zipWriter.Close puts the directory in the buffer.
ZipEntry ==
    /\ pc = "entry"
    /\ IF todo = {} THEN pc' = "flush" /\ UNCHANGED <<zip, todo>>
       ELSE LET i == Min(todo) IN
            zip' = [zip EXCEPT !.body = @ \cup {i}] /\ todo' = todo \ {i} /\ UNCHANGED pc
    /\ UNCHANGED <<caller, job, cache, torrent, links, reserved, outside>>

\* The buffer reaches the file, and the file is closed.
FlushZip ==
    /\ Go("flush", "save")
    /\ zip' = [zip EXCEPT !.whole = TRUE]
    /\ UNCHANGED <<caller, job, cache, torrent, links, todo, reserved, outside>>

-----------------------------------------------------------------------------
(* The upload *)

SaveUploading ==
    /\ Go("save", "upload")
    /\ row' = "uploading"
    /\ UNCHANGED <<caller, job, cache, torrent, payload, reserved, remote, faulted, crashes>>

\* What uploadPath names.
Sent == IF job.zipped THEN zip.body ELSE links

SentGood == /\ \A i \in Sent, p \in Pieces : p \in T.touches[i] => data[p] = "good"
            /\ job.zipped => zip.whole

Upload ==
    /\ pc = "upload"
    /\ remote' = [there |-> TRUE, body |-> Sent, good |-> SentGood]
    /\ Finish("done")
    /\ UNCHANGED <<caller, job, faulted, crashes>>

\* The remote store may have taken some of it.
UploadFails ==
    /\ pc = "upload"
    /\ \E S \in SUBSET Sent : remote' = [there |-> S # {}, body |-> S, good |-> SentGood]
    /\ Finish("failed") /\ faulted' = TRUE
    /\ UNCHANGED <<caller, job, crashes>>

\* A file, the database or a peer fails run; what was half done stays so.
RunFails ==
    /\ pc \in RunSteps \ {"queued", "upload"}
    /\ Fault

\* run sees the cancellation, or saveStage refuses to save a stage after it, or the
\* job is found cancelled when it fails.
Stopped ==
    /\ \/ pc \in RunSteps \ {"upload"}
       \/ pc \in PersistSteps /\ caller = "run"
    /\ Finish("stopped")
    /\ UNCHANGED <<caller, job, remote, faulted, crashes>>

-----------------------------------------------------------------------------
(* The machine *)

Die ==
    /\ crashes < MaxCrashes /\ crashes' = crashes + 1
    /\ pc' = "down"
    /\ reserved' = 0 /\ todo' = {}
    /\ UNCHANGED <<caller, job, row, remote, faulted>>

\* The process dies: a file it was writing may be there in part.
Crash ==
    /\ Die /\ pc # "down"
    /\ meta' \in {meta} \cup (IF pc = "write" THEN {[meta EXCEPT !["tmp"] = "torn"]} ELSE {})
    /\ UNCHANGED <<stable, torrent, links, zip>>

\* What a name may hold after a loss of power: what it held, or held when the
\* directory was last synced; content that was not synced may be torn.  The
\* job's own entry in the data directory is never synced.
Survives(n) ==
    LET after(c) == IF c = "soft" THEN {"whole", "torn"} ELSE {c}
    IN  after(meta[n]) \cup after(stable[n])

PowerLoss ==
    /\ Die
    /\ \/ /\ meta' \in {m \in [Names -> Contents] : \A n \in Names : m[n] \in Survives(n)}
          /\ \E S \in SUBSET {p \in Pieces : data[p] = "good"} :
                data' = [p \in Pieces |-> IF p \in S THEN "bad" ELSE data[p]]
          /\ links' \in SUBSET links
          /\ zip' \in {zip, [zip EXCEPT !.whole = FALSE]}
          /\ UNCHANGED complete
       \/ /\ meta' = Cached("absent")
          /\ data' = [p \in Pieces |-> "none"] /\ complete' = {}
          /\ links' = {} /\ zip' = NoZip
    /\ stable' = meta'

\* configure: an upload that was interrupted is not tried again.
Boot ==
    /\ pc = "down"
    /\ pc' = IF row = "pending" THEN "queued" ELSE "idle"
    /\ row' = IF row = "uploading" THEN "failed" ELSE row
    /\ faulted' = (faulted \/ row = "uploading")
    /\ UNCHANGED <<caller, job, cache, torrent, payload, reserved, remote, crashes>>

Add     == (\E s \in Submissions : Submit(s)) \/ Keep \/ Create \/ AddFails
Persist == WriteTmp \/ SyncTmp \/ Rename \/ SyncDir \/ PersistFails
Fetch   == Load \/ GotInfo \/ Inspect \/ Reserve \/ DropMetadata
           \/ (\E p \in Pieces : Receive(p)) \/ Downloaded
Deliver == Stage \/ Link \/ CreateZip \/ ZipEntry \/ FlushZip \/ SaveUploading
           \/ Upload \/ UploadFails \/ RunFails \/ Stopped
Machine == Crash \/ PowerLoss \/ Boot

Next == Add \/ Persist \/ Fetch \/ Deliver \/ Machine

Spec == Init /\ [][Next]_vars

-----------------------------------------------------------------------------
(* Properties *)

\* loadSpec never meets a cached .torrent that is there in part, whatever was
\* interrupted: the order of write, fsync and rename in persistMetadata.
CacheWhole == \A n \in {"uploaded", "metadata"} : meta[n] \in {"absent", "whole"}

\* The remote store gets the files the request chose and no other, and a job
\* reported as completed sent all of them, hashed, in a ZIP with its directory.
ChosenIsUploaded ==
    /\ remote.there => remote.body \subseteq Chosen
    /\ row = "done" => remote.there /\ remote.body = Chosen /\ remote.good

MetaUnits == T.meta * Cardinality({n \in Names : meta[n] # "absent"})
DataUnits == SumFunction([p \in {q \in Blocks(T) : data[q] # "none"} |-> T.piece[p]])
ZipUnits  == SumFunction([i \in zip.body |-> Length(T, i) + Length(T, i) \div 20 + PerFile])

\* The type invariant, and: the pieces and the ZIP of a job that has its reservation,
\* what earlier attempts left behind included, take no more of the disk than it
\* reserved above the fixed allowance, and the cached .torrent no more than that.
\* Only the .torrent of a magnet may be larger, until it is removed before the first
\* block is asked for.  Hard links take no blocks of their own.
FitsReservation ==
    /\ TypeOK
    /\ reserved # 0 => /\ Flat + DataUnits + ZipUnits <= reserved
                       /\ MetaUnits <= Flat \/ (pc = "drop" /\ ~job.upload)

\* A job fails for a cause: a call that failed, an upload that was interrupted
\* or a torrent that cannot be taken.  What a crash or a loss of power leaves
\* behind never makes the next attempt fail.
FailsForCause == row = "failed" => faulted \/ ~Acceptable
=============================================================================
