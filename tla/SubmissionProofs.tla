-------------------------- MODULE SubmissionProofs --------------------------
(***************************************************************************)
(* Proofs about JobFiles and Submission for every set of torrents, sizes,  *)
(* submissions, browsers and crashes: the cached .torrent, previews, and   *)
(* the files from the request to the remote store.  That a job takes no    *)
(* more than it reserved is what CapacityGate takes for granted: the last  *)
(* section has its proofs, for every set of jobs, budget and disk.         *)
(***************************************************************************)
EXTENDS Submission, CapacityGate, Sums, TLAPS

-----------------------------------------------------------------------------
(* The cached .torrent *)

Read == {"uploaded", "metadata"}    \* the names loadSpec looks for

\* Nothing unfinished is under a name that is read, in memory or on disk, and
\* what is about to be renamed to one has been synced.
CacheInv ==
    /\ {meta, stable} \subseteq [Names -> Contents]
    /\ \A n \in Read : meta[n] \in {"absent", "whole"} /\ stable[n] \in {"absent", "whole"}
    /\ pc = "rename" => meta["tmp"] = "whole"

\* An empty cache, and what is left of the cache when a job ends.
LEMMA EmptyCache == Cached("absent") \in [Names -> Contents] /\ \A n \in Read : Cached("absent")[n] = "absent"
  BY DEF Cached, Names, Contents, Read

\* A job that ends drops the cache or leaves it.
LEMMA FinishKeeps ==
    ASSUME CacheInv, NEW status, Finish(status)
    PROVE  CacheInv'
<1>1. pc' # "rename"
  BY DEF Finish
<1>2. UNCHANGED cache \/ (meta' = Cached("absent") /\ stable' = Cached("absent"))
  BY DEF Finish
<1> QED  BY <1>1, <1>2, EmptyCache DEF CacheInv, cache

\* Of what a loss of power leaves, a name that is read holds all or nothing.
LEMMA SurvivesWhole ==
    ASSUME CacheInv, NEW n \in Read
    PROVE  Survives(n) \subseteq {"absent", "whole"}
  BY DEF CacheInv, Survives, Read

\* The steps that write names of the cache.
LEMMA CacheSteps ==
    ASSUME CacheInv, Keep \/ WriteTmp \/ SyncTmp \/ Rename \/ SyncDir \/ PersistFails \/ DropMetadata
    PROVE  CacheInv'
<1> USE DEF CacheInv, Read, Names, Contents, Go
<1>1. CASE Keep
  BY <1>1 DEF Keep
<1>2. CASE WriteTmp
  BY <1>2 DEF WriteTmp
<1>3. CASE SyncTmp
  BY <1>3 DEF SyncTmp
<1>4. CASE Rename
  BY <1>4 DEF Rename
<1>5. CASE SyncDir
  BY <1>5 DEF SyncDir
<1>6. CASE PersistFails
  BY <1>6 DEF PersistFails
<1>7. CASE DropMetadata
  <2>1. CASE meta = Cached("absent")
    BY <1>7, <2>1 DEF DropMetadata
  <2>2. CASE meta # Cached("absent")
    <3>1. PICK n \in Names : meta' = [meta EXCEPT ![n] = "absent"]
      BY <1>7, <2>2 DEF DropMetadata, Source
    <3> QED  BY <1>7, <3>1 DEF DropMetadata
  <2> QED  BY <2>1, <2>2
<1> QED  BY <1>1, <1>2, <1>3, <1>4, <1>5, <1>6, <1>7

\* The ways in which the machine interrupts a job.
LEMMA MachineSteps == ASSUME CacheInv, Crash \/ PowerLoss \/ Boot PROVE CacheInv'
<1>1. CASE Crash
  BY <1>1 DEF Crash, Die, CacheInv, Read, Names, Contents
<1>2. CASE PowerLoss
  <2>1. pc' # "rename" /\ stable' = meta'
    BY <1>2 DEF PowerLoss, Die
  <2>2. CASE meta' = Cached("absent")
    BY <2>1, <2>2, EmptyCache DEF CacheInv
  <2>3. CASE meta' \in {m \in [Names -> Contents] : \A n \in Names : m[n] \in Survives(n)}
    <3>1. \A n \in Read : meta'[n] \in {"absent", "whole"}
      BY <2>3, SurvivesWhole DEF Read, Names
    <3> QED  BY <2>1, <2>3, <3>1 DEF CacheInv
  <2> QED  BY <1>2, <2>2, <2>3 DEF PowerLoss
<1>3. CASE Boot
  BY <1>3 DEF Boot, CacheInv, cache
<1> QED  BY <1>1, <1>2, <1>3

\* Every other step leaves the cache alone, drops it, or ends the job.
LEMMA OtherSteps ==
    ASSUME CacheInv, \/ \E s \in Submissions : Submit(s)
                     \/ Create \/ AddFails \/ Load \/ GotInfo \/ Inspect \/ Reserve
                     \/ \E p \in Pieces : Receive(p)
                     \/ Downloaded \/ Deliver
    PROVE  CacheInv'
<1> USE DEF Go, cache, outside
<1>1. CASE (\E s \in Submissions : Submit(s)) \/ Create \/ GotInfo \/ Reserve \/ Downloaded
  BY <1>1 DEF Submit, Create, GotInfo, Reserve, Downloaded, CacheInv
<1>2. CASE AddFails
  BY <1>2, EmptyCache DEF AddFails, CacheInv
<1>3. CASE Load \/ Inspect
  BY <1>3, FinishKeeps DEF Load, Inspect, Fail, CacheInv
<1>4. CASE \E p \in Pieces : Receive(p)
  BY <1>4 DEF Receive, CacheInv
<1>5. CASE Stage \/ CreateZip \/ ZipEntry \/ FlushZip \/ SaveUploading
  BY <1>5 DEF Stage, CreateZip, ZipEntry, FlushZip, SaveUploading, CacheInv
<1>6. CASE Link
  BY <1>6, FinishKeeps DEF Link, Fail, CacheInv
<1>7. CASE Upload \/ UploadFails \/ RunFails \/ Stopped
  BY <1>7, FinishKeeps DEF Upload, UploadFails, RunFails, Stopped, Fault
<1> QED  BY <1>1, <1>2, <1>3, <1>4, <1>5, <1>6, <1>7 DEF Deliver

\* Every step of the job, of the requests and of the machine.
LEMMA CacheStep == ASSUME CacheInv, [NextAll]_all PROVE CacheInv'
<1>1. CASE UNCHANGED vars
  BY <1>1 DEF vars, cache, CacheInv
<1>2. CASE \E b \in Browsers, s \in Submissions : Ask(b, s)
  BY <1>2, OtherSteps DEF Ask
<1>3. CASE Added \/ Refused
  BY <1>3, OtherSteps DEF Added, Refused
<1>4. CASE Keep \/ Persist \/ Fetch \/ Deliver
  BY <1>4, CacheSteps, OtherSteps DEF Persist, Fetch
<1>5. CASE Crash \/ PowerLoss \/ Boot
  BY <1>5, MachineSteps
<1> QED  BY <1>1, <1>2, <1>3, <1>4, <1>5 DEF NextAll, all, Front, Behind

\* Whatever is interrupted, and however often, the .torrent that the next
\* attempt reads is whole (persistMetadata, loadSpec).
THEOREM CacheNeverTorn == SpecAll => []CacheWhole
<1>1. Init => CacheInv
  BY EmptyCache DEF Init, CacheInv
<1>2. CacheInv /\ [NextAll]_all => CacheInv'
  BY CacheStep
<1>3. CacheInv => CacheWhole
  BY DEF CacheInv, CacheWhole, Read
<1> QED  BY <1>1, <1>2, <1>3, PTL DEF SpecAll, InitAll

-----------------------------------------------------------------------------
(* Previews *)

USE DEF Places, Pages

\* The lock's holder is the one preview under way, the client has its torrent and
\* no other, and whoever waits for Add does nothing else.
PreviewInv ==
    /\ FrontOK
    /\ \A b \in Browsers : page[b].at \in Held <=> previewMu = b
    /\ \A b \in Browsers : page[b].at \in {"waiting", "drop"} => handles = {page[b].of}
    /\ handles # {} => \E b \in Browsers : page[b].at \in {"waiting", "drop"}
    /\ asker # Nobody => page[asker].at = "asked"

\* What a browser shows next, and that the others show what they did.
LEMMA Shown ==
    ASSUME FrontOK, NEW b \in Browsers, NEW where, NEW t \in Torrents \cup {None}, NEW got \in BOOLEAN,
           where \in Places, Show(b, where, t, got)
    PROVE  /\ page' \in [Browsers -> Pages]
           /\ page'[b].at = where /\ page'[b].of = t
           /\ \A c \in Browsers \ {b} : page'[c] = page[c]
  BY DEF FrontOK, Show

\* The handler of Preview, from TryLock to its last deferred call.
LEMMA PreviewSteps ==
    ASSUME PreviewInv, NEW b \in Browsers, Front(b)
    PROVE  PreviewInv'
<1>1. /\ FrontOK
      /\ page[b] \in Pages
  BY DEF PreviewInv, FrontOK
<1>2. asker' = asker
  BY DEF Front, AskPreview, ListFile, ListMagnet, PreviewEnds, Drop, Unlock
<1>3. ASSUME NEW t \in Previewed, AskPreview(b, t)
      PROVE  PreviewInv'
  <2>1. /\ Idle(b) /\ previewMu = Nobody /\ previewMu' = b /\ handles' = handles \cup {t}
        /\ Show(b, "waiting", t, FALSE)
    BY <1>3 DEF AskPreview
  <2>2. t \in Torrents
    BY BrowserAssumption
  <2>3. /\ page' \in [Browsers -> Pages]
        /\ page'[b].at = "waiting" /\ page'[b].of = t
        /\ \A c \in Browsers \ {b} : page'[c] = page[c]
    BY <1>1, <2>1, <2>2, Shown DEF Held
  <2>4. \A c \in Browsers : page[c].at \notin Held
    BY <2>1, BrowserAssumption DEF PreviewInv
  <2>5. handles = {}
    BY <2>4 DEF PreviewInv, Held
  <2>6. asker # Nobody => asker # b /\ asker \in Browsers
    BY <1>1, <2>1 DEF PreviewInv, Idle, FrontOK
  <2> QED  BY <1>1, <1>2, <2>1, <2>2, <2>3, <2>4, <2>5, <2>6 DEF PreviewInv, FrontOK, Held
<1>4. CASE ListMagnet(b) \/ PreviewEnds(b)
  <2>1. PICK got \in BOOLEAN : Show(b, "drop", page[b].of, got)
    BY <1>4 DEF ListMagnet, PreviewEnds
  <2>2. page[b].at = "waiting" /\ UNCHANGED <<handles, previewMu>>
    BY <1>4 DEF ListMagnet, PreviewEnds
  <2>3. /\ page' \in [Browsers -> Pages]
        /\ page'[b].at = "drop" /\ page'[b].of = page[b].of
        /\ \A c \in Browsers \ {b} : page'[c] = page[c]
    BY <1>1, <2>1, Shown DEF Held
  <2> QED  BY <1>1, <1>2, <2>2, <2>3 DEF PreviewInv, FrontOK, Held
<1>5. CASE Drop(b)
  <2>1. page[b].at = "drop" /\ handles' = handles \ {page[b].of} /\ UNCHANGED previewMu
    BY <1>5 DEF Drop
  <2>2. /\ page' \in [Browsers -> Pages]
        /\ page'[b].at = "unlock"
        /\ \A c \in Browsers \ {b} : page'[c] = page[c]
    <3>1. Show(b, "unlock", page[b].of, page[b].got) /\ page[b].got \in BOOLEAN
      BY <1>1, <1>5 DEF Drop
    <3> QED  BY <1>1, <3>1, Shown DEF Held
  <2>3. handles' = {} /\ \A c \in Browsers \ {b} : page[c].at \notin Held
    BY <2>1 DEF PreviewInv, Held
  <2> QED  BY <1>1, <1>2, <2>1, <2>2, <2>3 DEF PreviewInv, FrontOK, Held
<1>6. CASE Unlock(b)
  <2>1. page[b].at = "unlock" /\ previewMu' = Nobody /\ UNCHANGED handles
    BY <1>6 DEF Unlock
  <2>2. /\ page' \in [Browsers -> Pages]
        /\ page'[b].at \in {"listed", "form"}
        /\ \A c \in Browsers \ {b} : page'[c] = page[c]
    BY <1>1, <1>6, Shown DEF Unlock, Held
  <2>3. handles = {} /\ \A c \in Browsers \ {b} : page[c].at \notin Held
    BY <2>1 DEF PreviewInv, Held
  <2> QED  BY <1>1, <1>2, <2>1, <2>2, <2>3, BrowserAssumption DEF PreviewInv, FrontOK, Held
<1>7. ASSUME NEW t \in Previewed, ListFile(b, t)
      PROVE  PreviewInv'
  <2>1. t \in Torrents /\ Idle(b) /\ UNCHANGED <<handles, previewMu>>
    BY <1>7, BrowserAssumption DEF ListFile
  <2>2. /\ page' \in [Browsers -> Pages]
        /\ page'[b].at = "listed"
        /\ \A c \in Browsers \ {b} : page'[c] = page[c]
    BY <1>1, <1>7, <2>1, Shown DEF ListFile
  <2> QED  BY <1>1, <1>2, <2>1, <2>2 DEF PreviewInv, FrontOK, Idle, Held
<1> QED  BY <1>3, <1>4, <1>5, <1>6, <1>7 DEF Front

\* A submission is sent from an idle page and answered on a page that waits for it.
LEMMA FormSteps ==
    ASSUME PreviewInv, \/ \E b \in Browsers, s \in Submissions : Ask(b, s)
                       \/ Added \/ Refused
    PROVE  PreviewInv'
<1>1. FrontOK
  BY DEF PreviewInv
<1>2. ASSUME NEW b \in Browsers, NEW s \in Submissions, Ask(b, s) PROVE PreviewInv'
  <2>1. s.torrent \in Torrents /\ Idle(b) /\ asker' = b /\ UNCHANGED <<handles, previewMu>>
    BY <1>2, SubmissionAssumption DEF Ask
  <2>2. /\ page' \in [Browsers -> Pages]
        /\ page'[b].at = "asked"
        /\ \A c \in Browsers \ {b} : page'[c] = page[c]
    BY <1>1, <1>2, <2>1, Shown DEF Ask
  <2> QED  BY <1>1, <2>1, <2>2 DEF PreviewInv, FrontOK, Idle, Held
<1>3. ASSUME NEW a \in {"added", "refused"}, Answer(asker, a) PROVE PreviewInv'
  <2>1. asker' = Nobody /\ UNCHANGED <<handles, previewMu>>
    BY <1>3 DEF Answer
  <2>2. CASE asker = Nobody
    <3>1. page' = page
      BY <1>1, <1>3, <2>2, BrowserAssumption DEF Answer, Show, FrontOK
    <3> QED  BY <1>1, <2>1, <3>1 DEF PreviewInv, FrontOK
  <2>3. CASE asker \in Browsers
    <3>1. /\ page' \in [Browsers -> Pages]
          /\ page'[asker].at = a
          /\ \A c \in Browsers \ {asker} : page'[c] = page[c]
      BY <1>1, <1>3, <2>3, Shown DEF Answer
    <3>2. page[asker].at \notin Held /\ asker # Nobody
      BY <2>3, BrowserAssumption DEF PreviewInv, Held
    <3> QED  BY <1>1, <2>1, <2>3, <3>1, <3>2 DEF PreviewInv, FrontOK, Held
  <2> QED  BY <1>1, <2>2, <2>3 DEF FrontOK
<1> QED  BY <1>2, <1>3 DEF Added, Refused

\* A preview never loses its torrent to another one's end, and leaves nothing in
\* the client (previewMu and the deferred calls of Preview).
THEOREM PreviewsApart == SpecAll => []PreviewIsolated
<1>1. FrontInit => PreviewInv
  BY BrowserAssumption DEF FrontInit, Form, PreviewInv, FrontOK, Held
<1>2. PreviewInv => PreviewIsolated
  BY DEF PreviewInv, PreviewIsolated, Held
<1>3. PreviewInv /\ [NextAll]_all => PreviewInv'
  <2>1. SUFFICES ASSUME PreviewInv, [NextAll]_all PROVE PreviewInv'
    OBVIOUS
  <2>2. CASE UNCHANGED front
    BY <2>1, <2>2 DEF front, PreviewInv, FrontOK
  <2>3. CASE \E b \in Browsers : Front(b)
    BY <2>1, <2>3, PreviewSteps
  <2>4. CASE (\E b \in Browsers, s \in Submissions : Ask(b, s)) \/ Added \/ Refused
    BY <2>1, <2>4, FormSteps
  <2>5. CASE Cut
    <3>1. \A b \in Browsers : page'[b] = IF Idle(b) THEN page[b] ELSE Form
      BY <2>5 DEF Cut
    <3>2. FrontOK'
      BY <2>1, <2>5 DEF Cut, Form, PreviewInv, FrontOK
    <3>3. \A b \in Browsers : page'[b].at \notin Held
      BY <3>1 DEF Idle, Form, Held
    <3> QED  BY <2>5, <3>2, <3>3, BrowserAssumption DEF Cut, PreviewInv, Held
  <2> QED  BY <2>1, <2>2, <2>3, <2>4, <2>5 DEF NextAll, all, Behind
<1> QED  BY <1>1, <1>2, <1>3, PTL DEF SpecAll, InitAll

-----------------------------------------------------------------------------
(* The chosen files *)

Late   == {"wait", "drop", "download", "stage", "link", "zip", "entry", "flush", "save", "upload"}
Hashed == {"stage", "link", "zip", "entry", "flush", "save", "upload"}

\* Nothing is there of a job before it is submitted.
Fresh ==
    job = NoJob => links = {} /\ zip.body = {} /\ remote = Nothing /\ reserved = 0

\* Past run's checks, and wherever something has been written, the torrent is one
\* that passed them.
Passed ==
    \/ pc \in Late \/ links # {} \/ zip.body # {} \/ remote.there \/ reserved # 0
    \/ row \in {"uploading", "done"}
    => Acceptable

\* Links, ZIP and remote store hold chosen files only, also after an attempt was
\* interrupted; a reservation is what was computed for the job.
OnlyChosen ==
    /\ job # NoJob => /\ links \subseteq Chosen /\ zip.body \subseteq Chosen
                      /\ remote.body \subseteq Chosen
    /\ zip.body # {} => job.zipped
    /\ reserved # 0 => reserved = Reservation

\* How far the chosen files are at each step of an attempt.
Delivered ==
    /\ pc = "link" => links \cup todo = Chosen /\ links \cap todo = {}
    /\ pc \in {"zip", "entry", "flush", "save", "upload"} => links = Chosen
    /\ pc \in {"zip", "entry", "flush"} => job.zipped
    /\ pc = "entry" => zip.body \cup todo = Chosen
    /\ pc = "flush" => zip.body = Chosen
    /\ pc \in {"save", "upload"} /\ job.zipped => zip.body = Chosen /\ zip.whole

\* The client takes for complete what it has hashed in this attempt.
PiecesGood ==
    /\ pc \in {"wait", "drop", "download"} => \A p \in complete : data[p] = "good"
    /\ pc \in Hashed => \A p \in Wanted : data[p] = "good"

\* A job in progress has no verdict, and a verdict has its reason.
Verdicts ==
    /\ row \in Ended => pc \in {"idle", "down"}
    /\ row = "done" => remote.there /\ remote.body = Chosen /\ remote.good
    /\ row = "failed" => faulted \/ ~Acceptable

FilesInv == TypeOK /\ Fresh /\ Passed /\ OnlyChosen /\ Delivered /\ PiecesGood /\ Verdicts

\* What a submission asks for depends on the submission alone.
LEMMA SameJob ==
    ASSUME job' = job
    PROVE  /\ T' = T /\ Chosen' = Chosen /\ Wanted' = Wanted /\ Reservation' = Reservation
           /\ Acceptable' <=> Acceptable
  BY DEF T, Chosen, Wanted, Reservation, Acceptable, Size

\* What the assumptions say of the submission in hand.
LEMMA JobFacts ==
    ASSUME TypeOK, job # NoJob, SelectionFits(job)
    PROVE  /\ job \in Submissions /\ T \in Torrents
           /\ Chosen \subseteq Index(T) /\ Chosen \subseteq Files /\ IsFiniteSet(Chosen)
           /\ Wanted \subseteq Pieces
           /\ \A i \in Chosen : T.touches[i] \subseteq Wanted
<1>1. job \in Submissions /\ T \in Torrents
  BY SubmissionAssumption DEF TypeOK, T
<1>2. Chosen \subseteq Index(T)
  BY DEF Chosen, SelectionFits, T
<1>3. IsFiniteSet(Index(T)) /\ IsFiniteSet(Chosen)
  <2>1. Len(T.length) - 1 \in Int
    BY <1>1, TorrentAssumption
  <2>2. IsFiniteSet(Index(T))
    BY <2>1, FS_Interval DEF Index
  <2> QED  BY <1>2, <2>2, FS_Subset
<1>4. T.touches \in [Index(T) -> SUBSET Blocks(T)]
  BY <1>1, TorrentAssumption
<1>5. Blocks(T) \subseteq Pieces /\ Index(T) \subseteq Files
  BY <1>1 DEF Pieces, Files
<1>6. Wanted \subseteq Pieces /\ \A i \in Chosen : T.touches[i] \subseteq Wanted
  BY <1>2, <1>4, <1>5 DEF Wanted
<1> QED  BY <1>1, <1>2, <1>3, <1>5, <1>6

\* The first of the files that remain.
LEMMA LeastTodo ==
    ASSUME NEW S \in SUBSET Files, IsFiniteSet(S), S # {}
    PROVE  Min(S) \in S
<1>1. Files \subseteq Int
  BY DEF Files, Index
<1>2. \E m \in S : \A k \in S : m <= k
  BY <1>1, LeastElement
<1> QED  BY <1>2 DEF Min

\* An int64 is an integer.
LEMMA WrapInt == ASSUME NEW n \in Int PROVE Wrap(n) \in Int
<1>1. MaxInt \in Nat
  BY SizeAssumption
<1>2. ASSUME NEW m \in Nat \ {0}, NEW k \in Int PROVE k % m \in Int
  OBVIOUS
<1>3. (n + MaxInt + 1) % (2 * (MaxInt + 1)) \in Int
  <2>1. 2 * (MaxInt + 1) \in Nat \ {0} /\ n + MaxInt + 1 \in Int
    BY <1>1
  <2> QED  BY <1>2, <2>1
<1> QED  BY <1>1, <1>3 DEF Wrap

\* Neither the declared length of an acceptable torrent nor what is added to it is
\* negative, though the metadata of a magnet may hold any lengths.
LEMMA ExtraNatural ==
    ASSUME TypeOK, job # NoJob, Acceptable
    PROVE  /\ Declared(T) \in Nat /\ Len(T.length) \in Nat /\ Size(Chosen) \in Nat
           /\ \A i \in Chosen : Length(T, i) \in Nat
           /\ PerFile * Len(T.length) \in Nat
           /\ Extra(job, Size(Chosen)) =
                Flat + PerFile * Len(T.length)
                  + (IF job.zipped THEN Size(Chosen) + Size(Chosen) \div 20 ELSE 0)
           /\ Extra(job, Size(Chosen)) \in Nat
<1>1. T \in Torrents /\ Chosen \subseteq Index(T) /\ IsFiniteSet(Chosen)
  BY JobFacts DEF Acceptable
<1>2. T.length \in Seq(Int) /\ T = job.torrent
  BY <1>1, TorrentAssumption DEF T
<1>3. Len(T.length) \in Nat /\ \A i \in Index(T) : Length(T, i) \in Int
  BY <1>2 DEF Index, Length
<1>4. \A i \in Chosen : Length(T, i) \in Nat
  <2>1. \A i \in Chosen : Length(T, i) >= 0
    BY DEF Acceptable
  <2> QED  BY <1>1, <1>3, <2>1
<1>5. Size(Chosen) \in Nat
  <2> DEFINE g == [i \in Chosen |-> Length(T, i)]
  <2>1. \A i \in Chosen : g[i] \in Nat
    BY <1>4
  <2>2. Size(Chosen) = SumFunctionOnSet(g, Chosen)
    BY DEF Size, SumFunction
  <2> HIDE DEF g
  <2>3. SumFunctionOnSet(g, Chosen) \in Nat
    BY <1>1, <2>1, SumOfPart
  <2> QED  BY <2>2, <2>3
<1>6. Declared(T) \in Nat
  <2> DEFINE g == [i \in Index(T) |-> Length(T, i)]
  <2>1. \A i \in Index(T) : g[i] \in Int
    BY <1>3
  <2>2. Total(T) = SumFunctionOnSet(g, Index(T))
    BY DEF Total, SumFunction
  <2>3. IsFiniteSet(Index(T))
    <3>1. Len(T.length) - 1 \in Int
      BY <1>3
    <3> QED  BY <3>1, FS_Interval DEF Index
  <2> HIDE DEF g
  <2>4. SumFunctionOnSet(g, Index(T)) \in Int
    BY <2>1, <2>3, SumType
  <2>5. Declared(T) \in Int
    BY <2>2, <2>4, WrapInt DEF Declared
  <2>6. Size(Chosen) <= Declared(T)
    BY DEF Acceptable
  <2> QED  BY <1>5, <2>5, <2>6
<1>7. Flat \in Nat /\ PerFile \in Nat
  BY SizeAssumption
<1>8. PerFile * Len(T.length) \in Nat
  BY <1>3, <1>7
<1>9. Size(Chosen) \div 20 \in Nat
  BY <1>5
<1>10. Extra(job, Size(Chosen)) = Flat + PerFile * Len(T.length)
           + (IF job.zipped THEN Size(Chosen) + Size(Chosen) \div 20 ELSE 0)
  BY <1>2 DEF Extra
<1> QED  BY <1>3, <1>4, <1>5, <1>6, <1>7, <1>8, <1>9, <1>10

\* The remainder of a number less than the divisor.
LEMMA SmallRemainder == ASSUME NEW m \in Nat \ {0}, NEW k \in Nat, k < m PROVE k % m = k
  OBVIOUS

\* An int64 holds what it can hold.
LEMMA WrapId ==
    ASSUME NEW n \in Nat, n <= MaxInt
    PROVE  Wrap(n) = n
<1>1. MaxInt \in Nat
  BY SizeAssumption
<1>2. (n + MaxInt + 1) % (2 * (MaxInt + 1)) = n + MaxInt + 1
  <2>1. 2 * (MaxInt + 1) \in Nat \ {0} /\ n + MaxInt + 1 \in Nat
        /\ n + MaxInt + 1 < 2 * (MaxInt + 1)
    BY <1>1
  <2> QED  BY <2>1, SmallRemainder
<1> QED  BY <1>1, <1>2 DEF Wrap

\* Of an acceptable torrent the reservation is the sum it should be.
LEMMA ReservationInRange ==
    ASSUME TypeOK, job # NoJob, Acceptable
    PROVE  /\ Reservation = Declared(T) + Extra(job, Size(Chosen))
           /\ Reservation \in 0..MaxActive
<1>1. ~Overflows(job, Extra(job, Size(Chosen))) /\ Reservation <= MaxActive
  BY DEF Acceptable
<1>2. Declared(T) \in Nat /\ Extra(job, Size(Chosen)) \in Nat /\ MaxInt \in Nat /\ MaxActive \in Nat
  BY ExtraNatural, SizeAssumption
<1>3. Declared(T) <= MaxInt - Extra(job, Size(Chosen))
  BY <1>1, <1>2 DEF Overflows, T
<1>4. Declared(T) + Extra(job, Size(Chosen)) \in Nat /\ Declared(T) + Extra(job, Size(Chosen)) <= MaxInt
  BY <1>2, <1>3
<1>5. Reservation = Declared(T) + Extra(job, Size(Chosen))
  BY <1>4, WrapId DEF Reservation
<1> QED  BY <1>1, <1>2, <1>4, <1>5

\* A submission is new.
LEMMA SubmitKeeps ==
    ASSUME FilesInv, CacheInv', NEW s \in Submissions, Submit(s)
    PROVE  FilesInv'
<1>1. s # NoJob
  BY SubmissionAssumption DEF NoJob
<1>2. row = "none" /\ job = NoJob /\ job' = s /\ pc' \in {"write", "create"}
  BY DEF Submit, FilesInv, TypeOK, Go
<1>3. links = {} /\ zip.body = {} /\ remote = Nothing /\ reserved = 0
  BY <1>2 DEF FilesInv, Fresh
<1>4. UNCHANGED <<links, todo, zip, reserved, row, remote, faulted, crashes, data, complete, meta, stable>>
      /\ caller' = "Add"
  BY DEF Submit, cache, torrent, payload, outside
<1>5. TypeOK'
  BY <1>1, <1>2, <1>4 DEF FilesInv, TypeOK, AddSteps, PersistSteps
<1>6. Fresh' /\ Passed' /\ OnlyChosen' /\ Delivered' /\ PiecesGood' /\ Verdicts'
  BY <1>1, <1>2, <1>3, <1>4 DEF Fresh, Passed, OnlyChosen, Delivered, PiecesGood, Verdicts,
     Late, Hashed, Ended, Nothing
<1> QED  BY <1>5, <1>6 DEF FilesInv

\* Until run has checked the torrent nothing is done to its files.
LEMMA EarlySteps ==
    ASSUME FilesInv, CacheInv',
           Keep \/ Create \/ AddFails \/ Persist \/ GotInfo
    PROVE  FilesInv'
<1>1. /\ UNCHANGED <<job, links, todo, zip, reserved, remote, crashes, data, complete>>
      /\ pc \in AddSteps \cup PersistSteps \cup {"info"}
      /\ pc' \in {"idle", "inspect", "queued"} \cup AddSteps \cup PersistSteps
      /\ caller' = caller
      /\ \/ row' = row /\ (faulted' = faulted \/ faulted' = TRUE)
         \/ row' = "pending" /\ (faulted' = faulted \/ faulted' = TRUE)
         \/ row' = "failed" /\ faulted' = TRUE /\ pc' = "idle"
  BY DEF Keep, Create, AddFails, Persist, WriteTmp, SyncTmp, Rename, SyncDir, PersistFails, GotInfo,
     Go, cache, torrent, payload, outside, AddSteps, PersistSteps
<1>2. job # NoJob
  BY <1>1 DEF FilesInv, TypeOK, AddSteps, PersistSteps
<1>3. TypeOK'
  <2>1. ({meta, stable} \subseteq [Names -> Contents])'
    BY DEF CacheInv
  <2>2. /\ pc' \in {"idle", "down"} \cup AddSteps \cup PersistSteps \cup RunSteps
        /\ row' \in {"none", "pending", "uploading"} \cup Ended /\ faulted' \in BOOLEAN
    BY <1>1 DEF FilesInv, TypeOK, RunSteps, Ended
  <2> QED  BY <1>1, <1>2, <2>1, <2>2 DEF FilesInv, TypeOK
<1>4. Fresh' /\ Passed' /\ OnlyChosen'
  BY <1>1, <1>2, SameJob DEF FilesInv, Fresh, Passed, OnlyChosen, Late, AddSteps, PersistSteps
<1>5. Delivered' /\ PiecesGood' /\ Verdicts'
  BY <1>1, <1>2, SameJob DEF FilesInv, Delivered, PiecesGood, Verdicts, Hashed, Ended, AddSteps,
     PersistSteps
<1> QED  BY <1>3, <1>4, <1>5 DEF FilesInv

\* A job ends: what is left of it is what there was, or nothing.
LEMMA EndKeeps ==
    ASSUME FilesInv, CacheInv', NEW status \in Ended, Finish(status),
           UNCHANGED <<caller, job, crashes>>, faulted' \in BOOLEAN, faulted => faulted',
           pc \notin {"idle", "down"},
           remote' \in [there : BOOLEAN, body : SUBSET Files, good : BOOLEAN],
           remote'.there => Acceptable, remote'.body \subseteq Chosen,
           status = "done" => remote'.there /\ remote'.body = Chosen /\ remote'.good,
           status = "failed" => faulted' \/ ~Acceptable
    PROVE  FilesInv'
<1>1. /\ pc' = "idle" /\ row' = status /\ reserved' = 0 /\ todo' = {}
      /\ links' \in {links, {}} /\ zip' \in {zip, NoZip}
      /\ UNCHANGED torrent \/ (data' = [p \in Pieces |-> "none"] /\ complete' = {})
  BY DEF Finish
<1>2. job # NoJob
  BY DEF FilesInv, TypeOK
<1>3. TypeOK'
  <2>1. ({meta, stable} \subseteq [Names -> Contents])'
    BY DEF CacheInv
  <2>2. (data \in [Pieces -> {"none", "bad", "good"}] /\ complete \subseteq Pieces)'
    BY <1>1 DEF FilesInv, TypeOK, torrent
  <2>3. (links \subseteq Files)'
    BY <1>1 DEF FilesInv, TypeOK
  <2>4. (zip \in [there : BOOLEAN, body : SUBSET Files, whole : BOOLEAN])'
    <3>1. zip \in [there : BOOLEAN, body : SUBSET Files, whole : BOOLEAN]
      BY DEF FilesInv, TypeOK
    <3>2. NoZip \in [there : BOOLEAN, body : SUBSET Files, whole : BOOLEAN]
      BY DEF NoZip
    <3> QED  BY <1>1, <3>1, <3>2
  <2>5. (reserved \in 0..MaxActive)'
    BY <1>1, SizeAssumption
  <2> QED  BY <1>1, <1>2, <2>1, <2>2, <2>3, <2>4, <2>5 DEF FilesInv, TypeOK
<1>4. Fresh' /\ Passed' /\ OnlyChosen'
  BY <1>1, <1>2, SameJob DEF FilesInv, Fresh, Passed, OnlyChosen, Late, NoZip, Ended
<1>5. Delivered' /\ PiecesGood' /\ Verdicts'
  BY <1>1, <1>2, SameJob DEF FilesInv, Delivered, PiecesGood, Verdicts, Hashed, Ended
<1> QED  BY <1>3, <1>4, <1>5 DEF FilesInv

\* run's error or an outside one, with what the remote store has left alone.
LEMMA FailKeeps ==
    ASSUME FilesInv, CacheInv', pc \notin {"idle", "down"}, Fault \/ (Fail /\ ~Acceptable)
    PROVE  FilesInv'
<1>1. /\ UNCHANGED <<caller, job, crashes, remote>> /\ Finish("failed")
      /\ faulted' \in BOOLEAN /\ (faulted => faulted') /\ (faulted' \/ ~Acceptable)
  BY DEF Fault, Fail, FilesInv, TypeOK
<1>2. /\ remote \in [there : BOOLEAN, body : SUBSET Files, good : BOOLEAN]
      /\ remote.there => Acceptable
      /\ remote.body \subseteq Chosen
  BY DEF FilesInv, TypeOK, Passed, OnlyChosen
<1>3. "failed" \in Ended /\ "failed" # "done"
  BY DEF Ended
<1> QED  BY <1>1, <1>2, <1>3, EndKeeps

\* run reads the cache, finds it whole, and checks the torrent.
LEMMA CheckSteps ==
    ASSUME FilesInv, CacheInv, CacheInv', Load \/ Inspect
    PROVE  FilesInv'
<1>1. CASE Load
  <2>1. pc = "queued" /\ \A n \in Source : meta[n] # "torn"
    BY <1>1 DEF Load, CacheInv, Source, Read
  <2>2. /\ pc' \in {"info", "write"} /\ caller' = "run" /\ job # NoJob
        /\ UNCHANGED <<job, meta, stable, data, complete, links, todo, zip, reserved, row, remote,
                       faulted, crashes>>
    BY <1>1, <2>1 DEF Load, cache, torrent, payload, outside, FilesInv, TypeOK
  <2>3. TypeOK'
    BY <2>2 DEF FilesInv, TypeOK, PersistSteps, RunSteps
  <2>4. Fresh' /\ Passed' /\ OnlyChosen' /\ Delivered' /\ PiecesGood' /\ Verdicts'
    BY <2>1, <2>2, SameJob DEF FilesInv, Fresh, Passed, OnlyChosen, Delivered, PiecesGood, Verdicts,
       Late, Hashed, Ended
  <2> QED  BY <2>3, <2>4 DEF FilesInv
<1>2. CASE Inspect /\ ~Acceptable
  BY <1>2, FailKeeps DEF Inspect
<1>3. CASE Inspect /\ Acceptable
  <2>1. /\ pc = "inspect" /\ pc' = "wait" /\ complete' = Verified /\ job # NoJob
        /\ UNCHANGED <<caller, job, meta, stable, data, links, todo, zip, reserved, row, remote,
                       faulted, crashes>>
    BY <1>3 DEF Inspect, cache, payload, outside, FilesInv, TypeOK
  <2>2. TypeOK'
    BY <2>1 DEF FilesInv, TypeOK, RunSteps, Verified
  <2>3. Fresh' /\ Passed' /\ OnlyChosen'
    BY <1>3, <2>1, SameJob DEF FilesInv, Fresh, Passed, OnlyChosen
  <2>4. Delivered' /\ PiecesGood' /\ Verdicts'
    BY <2>1, SameJob DEF FilesInv, Delivered, PiecesGood, Verdicts, Verified, Hashed, Ended
  <2> QED  BY <2>2, <2>3, <2>4 DEF FilesInv
<1> QED  BY <1>1, <1>2, <1>3

\* From the reservation to the last piece.
LEMMA FetchSteps ==
    ASSUME FilesInv, CacheInv',
           Reserve \/ DropMetadata \/ (\E p \in Pieces : Receive(p)) \/ Downloaded
    PROVE  FilesInv'
<1>1. /\ pc \in {"wait", "drop", "download"} /\ pc' \in {"drop", "download", "stage"}
      /\ UNCHANGED <<caller, job, links, todo, zip, row, remote, faulted, crashes>>
      /\ reserved' = reserved \/ (pc = "wait" /\ reserved' = Reservation)
  BY DEF Reserve, DropMetadata, Receive, Downloaded, Go, cache, torrent, payload, outside
<1>2. job # NoJob /\ Acceptable
  BY <1>1 DEF FilesInv, TypeOK, Passed, Late
<1>3. /\ (data \in [Pieces -> {"none", "bad", "good"}] /\ complete \subseteq Pieces)'
      /\ \A p \in complete' : data'[p] = "good"
      /\ pc' = "stage" => Wanted \subseteq complete'
  <2>1. \A p \in complete : data[p] = "good"
    BY <1>1 DEF FilesInv, PiecesGood
  <2>2. CASE UNCHANGED <<data, complete>>
    BY <2>1, <2>2, <1>1 DEF FilesInv, TypeOK, Reserve, DropMetadata, Receive, Downloaded, Go
  <2>3. ASSUME NEW p \in Pieces, Receive(p)
        PROVE  /\ (data \in [Pieces -> {"none", "bad", "good"}] /\ complete \subseteq Pieces)'
               /\ \A q \in complete' : data'[q] = "good"
               /\ pc' = "stage" => Wanted \subseteq complete'
    BY <2>1, <2>3 DEF Receive, FilesInv, TypeOK
  <2> QED  BY <2>2, <2>3 DEF Reserve, DropMetadata, Downloaded, torrent
<1>4. reserved' \in 0..MaxActive
  <2>1. Reservation \in 0..MaxActive
    BY <1>2, ReservationInRange DEF FilesInv
  <2> QED  BY <1>1, <2>1 DEF FilesInv, TypeOK
<1>5. TypeOK'
  <2>1. ({meta, stable} \subseteq [Names -> Contents])'
    BY DEF CacheInv
  <2> QED  BY <1>1, <1>2, <1>3, <1>4, <2>1 DEF FilesInv, TypeOK, RunSteps
<1>6. Fresh' /\ Passed' /\ OnlyChosen'
  BY <1>1, <1>2, SameJob DEF FilesInv, Fresh, Passed, OnlyChosen
<1>7. Delivered' /\ PiecesGood' /\ Verdicts'
  BY <1>1, <1>2, <1>3, SameJob DEF FilesInv, Delivered, PiecesGood, Verdicts, Hashed, Ended
<1> QED  BY <1>5, <1>6, <1>7 DEF FilesInv

\* stagePaths and ZipFolder: every file still to be done is a chosen one that is
\* not there yet, so that Link finds no name taken and the ZIP gets them all.
LEMMA StageSteps ==
    ASSUME FilesInv, CacheInv',
           Stage \/ Link \/ CreateZip \/ ZipEntry \/ FlushZip \/ SaveUploading
    PROVE  FilesInv'
<1>1. /\ pc \in {"stage", "link", "zip", "entry", "flush", "save"} /\ job # NoJob
      /\ Acceptable /\ SelectionFits(job) /\ TypeOK /\ row \notin Ended
  BY DEF Stage, Link, CreateZip, ZipEntry, FlushZip, SaveUploading, Go, FilesInv, TypeOK, Passed, Late,
     Acceptable, Verdicts
<1>2. /\ Chosen \subseteq Files /\ IsFiniteSet(Chosen)
      /\ todo \in SUBSET Files /\ zip.body \subseteq Files
  BY <1>1, JobFacts DEF TypeOK
<1>3. Fresh /\ Passed /\ OnlyChosen /\ Delivered /\ PiecesGood /\ Verdicts
  BY DEF FilesInv
<1>4. ASSUME pc' \in {"link", "zip", "entry", "flush", "save", "upload"},
             UNCHANGED <<caller, job, meta, stable, data, complete, reserved, remote, faulted, crashes>>,
             row' = row \/ row' = "uploading",
             links' \subseteq Chosen, zip'.body \subseteq Chosen, zip'.body # {} => job.zipped,
             zip' \in [there : BOOLEAN, body : SUBSET Files, whole : BOOLEAN], todo' \subseteq Files,
             Delivered'
      PROVE  FilesInv'
  <2>1. TypeOK'
    BY <1>1, <1>2, <1>4 DEF TypeOK, RunSteps
  <2>2. Fresh' /\ Passed' /\ OnlyChosen'
    BY <1>1, <1>3, <1>4, SameJob DEF Fresh, Passed, OnlyChosen
  <2>3. PiecesGood' /\ Verdicts'
    BY <1>1, <1>3, <1>4, SameJob DEF PiecesGood, Verdicts, Hashed, Ended
  <2> QED  BY <1>4, <2>1, <2>2, <2>3 DEF FilesInv
<1>5. zip \in [there : BOOLEAN, body : SUBSET Files, whole : BOOLEAN] /\ zip.body \subseteq Chosen
      /\ (zip.body # {} => job.zipped)
  BY <1>1, <1>3 DEF TypeOK, OnlyChosen
<1>6. CASE Stage
  <2>1. /\ pc' = "link" /\ links' = {} /\ todo' = Chosen
        /\ UNCHANGED <<caller, job, meta, stable, data, complete, zip, reserved, row, remote, faulted, crashes>>
    BY <1>6 DEF Stage, Go, cache, torrent, outside
  <2>2. Delivered'
    BY <2>1, SameJob DEF Delivered
  <2> QED  BY <1>2, <1>4, <1>5, <2>1, <2>2
<1>7. CASE Link
  <2>1. pc = "link" /\ links \cup todo = Chosen /\ links \cap todo = {}
    BY <1>3, <1>7 DEF Link, Delivered
  <2>2. CASE todo = {}
    <3>1. /\ pc' = IF job.zipped THEN "zip" ELSE "save"
          /\ UNCHANGED <<caller, job, meta, stable, data, complete, links, todo, zip, reserved, row,
                         remote, faulted, crashes>>
      BY <1>7, <2>2 DEF Link, cache, torrent, payload, outside
    <3>2. Delivered'
      BY <2>1, <2>2, <3>1, SameJob DEF Delivered
    <3> QED  BY <1>2, <1>4, <1>5, <2>1, <3>1, <3>2
  <2>3. CASE todo # {}
    <3>1. IsFiniteSet(todo)
      BY <1>2, <2>1, FS_Subset
    <3>2. PICK i : i = Min(todo) /\ i \in todo
      BY <1>2, <2>3, <3>1, LeastTodo
    <3>3. /\ pc' = "link" /\ links' = links \cup {i} /\ todo' = todo \ {i}
          /\ UNCHANGED <<caller, job, meta, stable, data, complete, zip, reserved, row, remote, faulted, crashes>>
      BY <1>7, <2>1, <2>3, <3>2 DEF Link, cache, torrent, outside
    <3>4. links' \cup todo' = Chosen /\ links' \cap todo' = {}
      BY <2>1, <3>2, <3>3
    <3>5. Delivered'
      BY <3>3, <3>4, SameJob DEF Delivered
    <3> QED  BY <1>2, <1>4, <1>5, <3>3, <3>4, <3>5
  <2> QED  BY <2>2, <2>3
<1>8. CASE CreateZip
  <2>1. /\ pc = "zip" /\ pc' = "entry" /\ zip' = [there |-> TRUE, body |-> {}, whole |-> FALSE]
        /\ todo' = links
        /\ UNCHANGED <<caller, job, meta, stable, data, complete, links, reserved, row, remote, faulted, crashes>>
    BY <1>8 DEF CreateZip, Go, cache, torrent, outside
  <2>2. links = Chosen /\ job.zipped
    BY <1>3, <2>1 DEF Delivered
  <2>3. Delivered'
    BY <2>1, <2>2, SameJob DEF Delivered
  <2>4. zip' \in [there : BOOLEAN, body : SUBSET Files, whole : BOOLEAN] /\ zip'.body = {}
    BY <2>1
  <2> QED  BY <1>2, <1>4, <2>1, <2>2, <2>3, <2>4
<1>9. CASE ZipEntry
  <2>1. /\ pc = "entry" /\ pc' \in {"entry", "flush"}
        /\ UNCHANGED <<caller, job, meta, stable, data, complete, links, reserved, row, remote, faulted, crashes>>
    BY <1>9 DEF ZipEntry, Go, cache, torrent, outside
  <2>2. links = Chosen /\ job.zipped /\ zip.body \cup todo = Chosen
    BY <1>3, <2>1 DEF Delivered
  <2>3. CASE todo = {}
    <3>1. pc' = "flush" /\ zip' = zip /\ todo' = todo
      BY <1>9, <2>3 DEF ZipEntry
    <3>2. Delivered'
      BY <2>1, <2>2, <2>3, <3>1, SameJob DEF Delivered
    <3> QED  BY <1>2, <1>4, <1>5, <2>1, <2>2, <3>1, <3>2
  <2>4. CASE todo # {}
    <3>1. IsFiniteSet(todo)
      BY <1>2, <2>2, FS_Subset
    <3>2. PICK i : i = Min(todo) /\ i \in todo
      BY <1>2, <2>4, <3>1, LeastTodo
    <3>3. pc' = "entry" /\ zip' = [zip EXCEPT !.body = @ \cup {i}] /\ todo' = todo \ {i}
      BY <1>9, <2>1, <2>4, <3>2 DEF ZipEntry
    <3>4. /\ zip' \in [there : BOOLEAN, body : SUBSET Files, whole : BOOLEAN]
          /\ zip'.body = zip.body \cup {i}
      BY <1>2, <1>5, <3>2, <3>3
    <3>5. zip'.body \cup todo' = Chosen /\ zip'.body \subseteq Chosen
      BY <2>2, <3>2, <3>3, <3>4
    <3>6. Delivered'
      BY <2>1, <2>2, <3>3, <3>5, SameJob DEF Delivered
    <3> QED  BY <1>2, <1>4, <2>1, <2>2, <3>3, <3>4, <3>5, <3>6
  <2> QED  BY <2>3, <2>4
<1>10. CASE FlushZip
  <2>1. /\ pc = "flush" /\ pc' = "save" /\ zip' = [zip EXCEPT !.whole = TRUE]
        /\ UNCHANGED <<caller, job, meta, stable, data, complete, links, todo, reserved, row, remote, faulted, crashes>>
    BY <1>10 DEF FlushZip, Go, cache, torrent, outside
  <2>2. links = Chosen /\ job.zipped /\ zip.body = Chosen
    BY <1>3, <2>1 DEF Delivered
  <2>3. /\ zip' \in [there : BOOLEAN, body : SUBSET Files, whole : BOOLEAN]
        /\ zip'.body = Chosen /\ zip'.whole
    BY <1>5, <2>1, <2>2
  <2>4. Delivered'
    BY <2>1, <2>2, <2>3, SameJob DEF Delivered
  <2> QED  BY <1>2, <1>4, <2>1, <2>2, <2>3, <2>4
<1>11. CASE SaveUploading
  <2>1. /\ pc = "save" /\ pc' = "upload" /\ row' = "uploading"
        /\ UNCHANGED <<caller, job, meta, stable, data, complete, links, todo, zip, reserved, remote, faulted, crashes>>
    BY <1>11 DEF SaveUploading, Go, cache, torrent, payload
  <2>2. Delivered'
    BY <1>3, <2>1, SameJob DEF Delivered
  <2>3. links = Chosen
    BY <1>3, <2>1 DEF Delivered
  <2> QED  BY <1>2, <1>4, <1>5, <2>1, <2>2, <2>3
<1> QED  BY <1>6, <1>7, <1>8, <1>9, <1>10, <1>11

\* What is sent is what was chosen, of pieces that hash, in a ZIP with its directory.
LEMMA SentWhole ==
    ASSUME FilesInv, pc = "upload"
    PROVE  Sent = Chosen /\ SentGood
<1>1. job # NoJob /\ SelectionFits(job) /\ TypeOK
  BY DEF FilesInv, TypeOK, Passed, Late, Acceptable
<1>2. links = Chosen /\ (job.zipped => zip.body = Chosen /\ zip.whole)
      /\ \A p \in Wanted : data[p] = "good"
  BY DEF FilesInv, Delivered, PiecesGood, Hashed
<1>3. Sent = Chosen
  BY <1>2 DEF Sent
<1>4. \A i \in Chosen : T.touches[i] \subseteq Wanted
  BY <1>1, JobFacts
<1> QED  BY <1>2, <1>3, <1>4 DEF SentGood

\* The job's last step in this attempt.
LEMMA LastSteps ==
    ASSUME FilesInv, CacheInv', Upload \/ UploadFails \/ RunFails \/ Stopped
    PROVE  FilesInv'
<1>1. CASE Upload
  <2>1. /\ pc = "upload" /\ remote' = [there |-> TRUE, body |-> Sent, good |-> SentGood]
        /\ Finish("done") /\ UNCHANGED <<caller, job, faulted, crashes>>
    BY <1>1 DEF Upload
  <2>2. Sent = Chosen /\ SentGood
    BY <2>1, SentWhole
  <2>3. Acceptable /\ Chosen \subseteq Files /\ faulted \in BOOLEAN
    <3>1. job # NoJob /\ Acceptable /\ TypeOK /\ SelectionFits(job)
      BY <2>1 DEF FilesInv, TypeOK, Passed, Late, Acceptable
    <3> QED  BY <3>1, JobFacts DEF TypeOK
  <2>4. /\ remote' \in [there : BOOLEAN, body : SUBSET Files, good : BOOLEAN]
        /\ remote'.body = Chosen /\ remote'.there /\ remote'.good
    BY <2>1, <2>2, <2>3
  <2>5. "done" \in Ended /\ pc \notin {"idle", "down"}
    BY <2>1 DEF Ended
  <2> QED  BY <2>1, <2>3, <2>4, <2>5, EndKeeps
<1>2. CASE UploadFails
  <2>1. PICK S \in SUBSET Sent : remote' = [there |-> S # {}, body |-> S, good |-> SentGood]
    BY <1>2 DEF UploadFails
  <2>2. /\ pc = "upload" /\ Finish("failed") /\ faulted' = TRUE /\ UNCHANGED <<caller, job, crashes>>
    BY <1>2 DEF UploadFails
  <2>3. Sent = Chosen /\ SentGood
    BY <2>2, SentWhole
  <2>4. Acceptable /\ Chosen \subseteq Files
    <3>1. job # NoJob /\ Acceptable /\ TypeOK /\ SelectionFits(job)
      BY <2>2 DEF FilesInv, TypeOK, Passed, Late, Acceptable
    <3> QED  BY <3>1, JobFacts
  <2>5. /\ remote' \in [there : BOOLEAN, body : SUBSET Files, good : BOOLEAN]
        /\ remote'.body \subseteq Chosen
    BY <2>1, <2>3, <2>4
  <2>6. "failed" \in Ended /\ pc \notin {"idle", "down"}
    BY <2>2 DEF Ended
  <2> QED  BY <2>2, <2>4, <2>5, <2>6, EndKeeps
<1>3. CASE RunFails
  BY <1>3, FailKeeps DEF RunFails, RunSteps
<1>4. CASE Stopped
  <2>1. /\ pc \notin {"idle", "down"} /\ Finish("stopped")
        /\ UNCHANGED <<caller, job, remote, faulted, crashes>>
    BY <1>4 DEF Stopped, RunSteps, PersistSteps
  <2>2. /\ remote \in [there : BOOLEAN, body : SUBSET Files, good : BOOLEAN] /\ faulted \in BOOLEAN
        /\ remote.there => Acceptable
        /\ remote.body \subseteq Chosen
    BY <2>1 DEF FilesInv, TypeOK, Passed, OnlyChosen
  <2>3. "stopped" \in Ended /\ "stopped" \notin {"done", "failed"}
    BY DEF Ended
  <2> QED  BY <2>1, <2>2, <2>3, EndKeeps
<1> QED  BY <1>1, <1>2, <1>3, <1>4

\* What an interruption leaves of the files is some of what there was.
LEMMA InterruptKeeps ==
    ASSUME FilesInv, CacheInv', Crash \/ PowerLoss \/ Boot
    PROVE  FilesInv'
<1>1. TypeOK /\ Fresh /\ Passed /\ OnlyChosen /\ Verdicts
  BY DEF FilesInv
<1>2. ({meta, stable} \subseteq [Names -> Contents])'
  BY DEF CacheInv
<1>3. CASE Crash \/ PowerLoss
  <2>1. /\ pc' = "down" /\ reserved' = 0 /\ todo' = {} /\ UNCHANGED <<caller, job, row, remote, faulted>>
        /\ crashes < MaxCrashes /\ crashes' = crashes + 1
    BY <1>3 DEF Crash, PowerLoss, Die
  <2>2. /\ links' \subseteq links /\ zip'.body \in {zip.body, {}}
        /\ zip' \in [there : BOOLEAN, body : SUBSET Files, whole : BOOLEAN]
    <3>1. zip \in [there : BOOLEAN, body : SUBSET Files, whole : BOOLEAN]
      BY <1>1 DEF TypeOK
    <3>2. links' \subseteq links /\ zip' \in {zip, [zip EXCEPT !.whole = FALSE], NoZip}
      BY <1>3 DEF Crash, PowerLoss
    <3>3. CASE zip' = zip
      BY <3>1, <3>2, <3>3
    <3>4. CASE zip' = [zip EXCEPT !.whole = FALSE]
      BY <3>1, <3>2, <3>4
    <3>5. CASE zip' = NoZip
      BY <3>2, <3>5 DEF NoZip
    <3> QED  BY <3>2, <3>3, <3>4, <3>5
  <2>3. data' \in [Pieces -> {"none", "bad", "good"}] /\ complete' \subseteq Pieces
    <3>1. CASE UNCHANGED torrent
      BY <1>1, <3>1 DEF torrent, TypeOK
    <3>2. CASE complete' = complete /\ \E S \in SUBSET {p \in Pieces : data[p] = "good"} :
                 data' = [p \in Pieces |-> IF p \in S THEN "bad" ELSE data[p]]
      BY <1>1, <3>2 DEF TypeOK
    <3>3. CASE data' = [p \in Pieces |-> "none"] /\ complete' = {}
      BY <3>3
    <3> QED  BY <1>3, <3>1, <3>2, <3>3 DEF Crash, PowerLoss
  <2>4. TypeOK'
    <3>1. crashes' \in 0..MaxCrashes /\ reserved' \in 0..MaxActive
      BY <1>1, <2>1, SizeAssumption DEF TypeOK
    <3>2. (links \subseteq Files /\ todo \subseteq Files)'
      BY <1>1, <2>1, <2>2 DEF TypeOK
    <3> QED  BY <1>1, <1>2, <2>1, <2>2, <2>3, <3>1, <3>2 DEF TypeOK
  <2>5. Fresh' /\ Passed' /\ OnlyChosen'
    BY <1>1, <2>1, <2>2, SameJob DEF Fresh, Passed, OnlyChosen, Late
  <2>6. Delivered' /\ PiecesGood' /\ Verdicts'
    BY <1>1, <2>1, SameJob DEF Delivered, PiecesGood, Verdicts, Hashed
  <2> QED  BY <2>4, <2>5, <2>6 DEF FilesInv
<1>4. CASE Boot
  <2>1. /\ pc = "down" /\ pc' = IF row = "pending" THEN "queued" ELSE "idle"
        /\ row' = IF row = "uploading" THEN "failed" ELSE row
        /\ faulted' = (faulted \/ row = "uploading")
        /\ UNCHANGED <<caller, job, meta, stable, data, complete, links, todo, zip, reserved, remote, crashes>>
    BY <1>4 DEF Boot, cache, torrent, payload
  <2>2. TypeOK'
    BY <1>1, <1>2, <2>1 DEF TypeOK, RunSteps, Ended
  <2>3. Fresh' /\ Passed' /\ OnlyChosen'
    BY <1>1, <2>1, SameJob DEF Fresh, Passed, OnlyChosen, Late
  <2>4. Delivered' /\ PiecesGood' /\ Verdicts'
    BY <1>1, <2>1, SameJob DEF Delivered, PiecesGood, Verdicts, Hashed, Ended
  <2> QED  BY <2>2, <2>3, <2>4 DEF FilesInv
<1> QED  BY <1>3, <1>4

\* The inductive invariant of the files, with that of the cache, over every step of
\* the job, of the requests and of the machine.
THEOREM FilesInvariance == SpecAll => [](FilesInv /\ CacheInv)
<1>1. InitAll => FilesInv /\ CacheInv
  <2>1. SUFFICES ASSUME InitAll PROVE FilesInv /\ CacheInv
    OBVIOUS
  <2>2. CacheInv
    BY <2>1, EmptyCache DEF InitAll, Init, CacheInv
  <2>3. TypeOK
    <3>1. {meta, stable} \subseteq [Names -> Contents]
      BY <2>2 DEF CacheInv
    <3>2. zip \in [there : BOOLEAN, body : SUBSET Files, whole : BOOLEAN]
      BY <2>1 DEF InitAll, Init, NoZip
    <3>3. remote \in [there : BOOLEAN, body : SUBSET Files, good : BOOLEAN]
      BY <2>1 DEF InitAll, Init, Nothing
    <3>4. reserved \in 0..MaxActive /\ crashes \in 0..MaxCrashes
      BY <2>1, SizeAssumption DEF InitAll, Init
    <3>5. data \in [Pieces -> {"none", "bad", "good"}]
      BY <2>1 DEF InitAll, Init
    <3> QED  BY <2>1, <3>1, <3>2, <3>3, <3>4, <3>5 DEF InitAll, Init, TypeOK
  <2>4. Fresh /\ Passed /\ OnlyChosen /\ Delivered /\ PiecesGood /\ Verdicts
    BY <2>1 DEF InitAll, Init, NoZip, Nothing, Fresh, Passed, OnlyChosen, Delivered, PiecesGood,
       Verdicts, Late, Hashed, Ended
  <2> QED  BY <2>2, <2>3, <2>4 DEF FilesInv
<1>2. FilesInv /\ CacheInv /\ [NextAll]_all => (FilesInv /\ CacheInv)'
  <2>1. SUFFICES ASSUME FilesInv, CacheInv, [NextAll]_all PROVE FilesInv' /\ CacheInv'
    OBVIOUS
  <2>2. CacheInv'
    BY <2>1, CacheStep
  <2>3. CASE UNCHANGED vars
    <3>1. TypeOK' /\ Fresh' /\ PiecesGood'
      BY <2>1, <2>3, SameJob DEF vars, cache, torrent, payload, outside, FilesInv, TypeOK, Fresh, PiecesGood
    <3>2. Passed' /\ OnlyChosen' /\ Delivered' /\ Verdicts'
      BY <2>1, <2>3, SameJob DEF vars, torrent, payload, outside, FilesInv, Passed, OnlyChosen,
         Delivered, Verdicts
    <3> QED  BY <2>2, <3>1, <3>2 DEF FilesInv
  <2>4. ASSUME NEW b \in Browsers, NEW s \in Submissions, Ask(b, s) PROVE FilesInv'
    BY <2>1, <2>2, <2>4, SubmitKeeps DEF Ask
  <2>5. CASE Added \/ Refused \/ Keep \/ Persist \/ GotInfo
    BY <2>1, <2>2, <2>5, EarlySteps DEF Added, Refused
  <2>6. CASE Load \/ Inspect
    BY <2>1, <2>2, <2>6, CheckSteps
  <2>7. CASE Reserve \/ DropMetadata \/ (\E p \in Pieces : Receive(p)) \/ Downloaded
    BY <2>1, <2>2, <2>7, FetchSteps
  <2>8. CASE Deliver
    BY <2>1, <2>2, <2>8, StageSteps, LastSteps DEF Deliver
  <2>9. CASE Crash \/ PowerLoss \/ Boot
    BY <2>1, <2>2, <2>9, InterruptKeeps
  <2> QED  BY <2>1, <2>2, <2>3, <2>4, <2>5, <2>6, <2>7, <2>8, <2>9 DEF NextAll, all, Front, Behind, Fetch
<1> QED  BY <1>1, <1>2, PTL DEF SpecAll

\* The remote store gets the chosen files and no other, and a completed job sent all
\* of them, hashed (stagePaths, ZipFolder, uploadPath).
THEOREM ChosenAreUploaded == SpecAll => []ChosenIsUploaded
<1>1. FilesInv => ChosenIsUploaded
  BY DEF FilesInv, Fresh, OnlyChosen, Verdicts, Nothing, ChosenIsUploaded
<1> QED  BY <1>1, FilesInvariance, PTL

\* No attempt fails by what an interrupted one left behind.
THEOREM FailuresHaveCauses == SpecAll => []FailsForCause
<1>1. FilesInv => FailsForCause
  BY DEF FilesInv, Verdicts, FailsForCause
<1> QED  BY <1>1, FilesInvariance, PTL

-----------------------------------------------------------------------------
(* What a job takes of the disk *)

\* Where the job that holds a reservation is, and that it has no cached .torrent any
\* more once it asks for blocks; an uploaded .torrent has passed ParseTorrentFile.
MetaInv ==
    /\ job.upload => T.parses
    /\ reserved # 0 => pc \in Late \ {"wait"}
    /\ reserved # 0 /\ pc # "drop" => meta = Cached("absent")

\* Every step of the job, of the requests and of the machine.
LEMMA MetaStep == ASSUME MetaInv, [NextAll]_all PROVE MetaInv'
<1> USE DEF MetaInv, Late, Go, cache, outside
<1>1. CASE UNCHANGED vars
  BY <1>1 DEF vars, T
<1>2. ASSUME NEW b \in Browsers, NEW s \in Submissions, Ask(b, s) PROVE MetaInv'
  BY <1>2 DEF Ask, Submit, T
<1>3. CASE Keep \/ Create \/ AddFails \/ Persist \/ GotInfo
  BY <1>3 DEF Keep, Create, AddFails, Persist, WriteTmp, SyncTmp, Rename, SyncDir, PersistFails, GotInfo,
     AddSteps, PersistSteps, T
<1>4. ASSUME NEW status, Finish(status), UNCHANGED job PROVE MetaInv'
  BY <1>4 DEF Finish, T
<1>5. CASE Load \/ Inspect \/ Link
  BY <1>4, <1>5 DEF Load, Inspect, Link, Fail, payload, T
<1>6. CASE Reserve \/ DropMetadata \/ (\E p \in Pieces : Receive(p)) \/ Downloaded
  BY <1>6 DEF Reserve, DropMetadata, Receive, Downloaded, payload, T
<1>7. CASE Stage \/ CreateZip \/ ZipEntry \/ FlushZip \/ SaveUploading
  BY <1>7 DEF Stage, CreateZip, ZipEntry, FlushZip, SaveUploading, payload, T
<1>8. CASE Upload \/ UploadFails \/ RunFails \/ Stopped
  BY <1>4, <1>8 DEF Upload, UploadFails, RunFails, Stopped, Fault
<1>9. CASE Crash \/ PowerLoss \/ Boot
  BY <1>9 DEF Crash, PowerLoss, Die, Boot, T
<1> QED  BY <1>1, <1>2, <1>3, <1>5, <1>6, <1>7, <1>8, <1>9 DEF NextAll, all, Front, Behind, Added, Refused,
            Fetch, Deliver

\* Multiplying keeps the order.
LEMMA MultipleMonotone == ASSUME NEW m \in Nat, NEW k \in Nat, k <= 3 PROVE m * k <= 3 * m
<1>1. k = 0 \/ k = 1 \/ k = 2 \/ k = 3
  OBVIOUS
<1> QED  BY <1>1

\* The .torrent is there under three names at most.
LEMMA ThreeNames ==
    ASSUME NEW S \in SUBSET Names
    PROVE  Cardinality(S) \in Nat /\ Cardinality(S) <= 3
<1>1. IsFiniteSet({}) /\ Cardinality({}) = 0
  BY FS_EmptySet
<1>2. IsFiniteSet({} \cup {"uploaded"}) /\ Cardinality({} \cup {"uploaded"}) = 1
  BY <1>1, FS_AddElement
<1>3. /\ IsFiniteSet(({} \cup {"uploaded"}) \cup {"metadata"})
      /\ Cardinality(({} \cup {"uploaded"}) \cup {"metadata"}) = 2
  BY <1>2, FS_AddElement
<1>4. /\ IsFiniteSet((({} \cup {"uploaded"}) \cup {"metadata"}) \cup {"tmp"})
      /\ Cardinality((({} \cup {"uploaded"}) \cup {"metadata"}) \cup {"tmp"}) = 3
  BY <1>3, FS_AddElement
<1>5. Names = (({} \cup {"uploaded"}) \cup {"metadata"}) \cup {"tmp"}
  BY DEF Names
<1>6. IsFiniteSet(Names) /\ Cardinality(Names) = 3
  BY <1>4, <1>5
<1> QED  BY <1>6, FS_Subset, FS_CardinalityType

\* It is there under none once it is dropped, and an uploaded one fits the fixed
\* allowance under all three.
LEMMA CacheFits ==
    ASSUME TypeOK, MetaInv, job # NoJob, reserved # 0
    PROVE  MetaUnits <= Flat \/ (pc = "drop" /\ ~job.upload)
<1> DEFINE Present == {n \in Names : meta[n] # "absent"}
<1>1. Cardinality(Present) <= 3 /\ Cardinality(Present) \in Nat
  <2>1. Present \in SUBSET Names
    OBVIOUS
  <2> HIDE DEF Present
  <2> QED  BY <2>1, ThreeNames
<1>2. MetaUnits = T.meta * Cardinality(Present)
  BY DEF MetaUnits
<1>3. T \in Torrents
  BY SubmissionAssumption DEF TypeOK, T
<1>4. T.meta \in Nat /\ Flat \in Nat
  BY <1>3, TorrentAssumption, SizeAssumption
<1>5. CASE pc # "drop"
  <2>1. Present = {}
    BY <1>5 DEF MetaInv, Cached
  <2>2. Cardinality(Present) = 0
    BY <2>1, FS_EmptySet
  <2> HIDE DEF Present
  <2>3. MetaUnits = 0
    BY <1>2, <1>4, <2>2
  <2> QED  BY <1>4, <2>3
<1>6. CASE job.upload
  <2>1. 3 * T.meta <= Flat
    BY <1>3, <1>6, TorrentAssumption DEF MetaInv
  <2> HIDE DEF Present
  <2>2. T.meta * Cardinality(Present) <= 3 * T.meta
    BY <1>1, <1>4, MultipleMonotone
  <2>3. T.meta * Cardinality(Present) \in Nat
    BY <1>1, <1>4
  <2> QED  BY <1>2, <1>4, <2>1, <2>2, <2>3
<1> QED  BY <1>5, <1>6

\* The pieces that are there take no more than all of them.
LEMMA SomePieces ==
    ASSUME T \in Torrents, Declared(T) >= 0
    PROVE  DataUnits \in Nat /\ DataUnits <= Declared(T)
<1>1. T.piece \in Seq(Nat) /\ Declared(T) = SumFunction(T.piece)
  BY TorrentAssumption
<1>2. DOMAIN T.piece = Blocks(T) /\ \A p \in Blocks(T) : T.piece[p] \in Nat
  BY <1>1 DEF Blocks
<1>3. Len(T.piece) \in Int
  BY <1>1
<1>4. IsFiniteSet(Blocks(T))
  BY <1>3, FS_Interval DEF Blocks
<1> DEFINE D == {q \in Blocks(T) : data[q] # "none"}
           g == [p \in D |-> T.piece[p]]
<1>5. D \in SUBSET Blocks(T) /\ DataUnits = SumFunctionOnSet(g, D)
  BY DEF DataUnits, SumFunction
<1>6. \A p \in D : T.piece[p] \in Int /\ T.piece[p] = g[p]
  BY <1>2
<1> HIDE DEF D, g
<1>7. IsFiniteSet(D)
  BY <1>4, <1>5, FS_Subset
<1>8. SumFunctionOnSet(T.piece, D) = SumFunctionOnSet(g, D)
  BY <1>6, <1>7, SumSame
<1>9. /\ SumFunctionOnSet(T.piece, D) \in Nat
      /\ SumFunctionOnSet(T.piece, D) <= SumFunctionOnSet(T.piece, Blocks(T))
  BY <1>2, <1>4, <1>5, SumOfPart
<1>10. Declared(T) = SumFunctionOnSet(T.piece, Blocks(T))
  BY <1>1, <1>2 DEF SumFunction
<1> QED  BY <1>5, <1>8, <1>9, <1>10

\* Dividing keeps the order.
LEMMA TwentiethMonotone ==
    ASSUME NEW a \in Nat, NEW b \in Nat, a <= b
    PROVE  a \div 20 <= b \div 20
  OBVIOUS

\* The allowance of a ZIP as a whole covers those of its files: rounding down the
\* total loses no more than rounding down each.
LEMMA RoundingDown ==
    ASSUME NEW S, IsFiniteSet(S), NEW l, \A x \in S : l[x] \in Nat, NEW P \in Nat,
           NEW c, \A x \in S : c[x] = l[x] + l[x] \div 20 + P
    PROVE  /\ SumFunctionOnSet(c, S) \in Nat /\ SumFunctionOnSet(l, S) \in Nat
           /\ SumFunctionOnSet(c, S)
                <= SumFunctionOnSet(l, S) + SumFunctionOnSet(l, S) \div 20 + P * Cardinality(S)
<1> DEFINE Within(U) == SumFunctionOnSet(c, U)
                          <= SumFunctionOnSet(l, U) + SumFunctionOnSet(l, U) \div 20 + P * Cardinality(U)
           F == {U \in SUBSET S : Within(U)}
<1>1. \A x \in S : c[x] \in Nat
  OBVIOUS
<1>2. ASSUME NEW U \in SUBSET S
      PROVE  /\ IsFiniteSet(U) /\ Cardinality(U) \in Nat
             /\ SumFunctionOnSet(c, U) \in Nat /\ SumFunctionOnSet(l, U) \in Nat
  <2>1. IsFiniteSet(U)
    BY FS_Subset
  <2>2. SumFunctionOnSet(c, U) \in Nat
    BY <1>1, SumOfPart
  <2>3. SumFunctionOnSet(l, U) \in Nat
    BY SumOfPart
  <2> QED  BY <2>1, <2>2, <2>3, FS_CardinalityType
<1>3. {} \in F
  <2>1. SumFunctionOnSet(c, {}) = 0 /\ SumFunctionOnSet(l, {}) = 0 /\ Cardinality({}) = 0
    BY SumEmpty, FS_EmptySet
  <2> QED  BY <2>1
<1>4. ASSUME NEW U \in SUBSET S, NEW x \in S \ U, U \in F
      PROVE  U \cup {x} \in F
  <2>1. /\ IsFiniteSet(U) /\ Cardinality(U) \in Nat
        /\ SumFunctionOnSet(c, U) \in Nat /\ SumFunctionOnSet(l, U) \in Nat
    BY <1>2
  <2>2. Cardinality(U \cup {x}) = Cardinality(U) + 1
    BY <2>1, FS_AddElement
  <2>3. \A y \in U \cup {x} : l[y] \in Int /\ c[y] \in Int
    BY <1>1
  <2>4. SumFunctionOnSet(c, U \cup {x}) = SumFunctionOnSet(c, U) + c[x]
    BY <2>1, <2>3, SumAdd
  <2>5. SumFunctionOnSet(l, U \cup {x}) = SumFunctionOnSet(l, U) + l[x]
    BY <2>1, <2>3, SumAdd
  <2>6. P * (Cardinality(U) + 1) = P * Cardinality(U) + P /\ P * Cardinality(U) \in Nat
    BY <2>1
  <2>7. Within(U) /\ l[x] \in Nat /\ c[x] = l[x] + l[x] \div 20 + P
    BY <1>4
  <2>8. ASSUME NEW a \in Nat, NEW b \in Nat
        PROVE  a \div 20 + b \div 20 <= (a + b) \div 20
    OBVIOUS
  <2>9. SumFunctionOnSet(l, U) \div 20 + l[x] \div 20 <= (SumFunctionOnSet(l, U) + l[x]) \div 20
    BY <2>1, <2>7, <2>8
  <2>10. Within(U \cup {x})
    BY <2>1, <2>2, <2>4, <2>5, <2>6, <2>7, <2>9
  <2> QED  BY <1>4, <2>10
<1>5. SUBSET S \subseteq F
  <2> HIDE DEF F
  <2> QED  BY <1>3, <1>4, SubsetInduction
<1>6. Within(S)
  BY <1>5
<1> QED  BY <1>2, <1>6

\* What the ZIP takes of chosen files is within what was reserved for it.
LEMMA ZipWithinAllowance ==
    ASSUME TypeOK, job # NoJob, Acceptable, zip.body \subseteq Chosen
    PROVE  /\ ZipUnits \in Nat
           /\ ZipUnits <= Size(Chosen) + Size(Chosen) \div 20 + PerFile * Len(T.length)
<1>1. Chosen \subseteq Index(T) /\ IsFiniteSet(Chosen)
  BY JobFacts DEF Acceptable
<1>2. Size(Chosen) \in Nat /\ Len(T.length) \in Nat /\ PerFile \in Nat
  BY ExtraNatural, SizeAssumption
<1>3. \A i \in Chosen : Length(T, i) \in Nat
  BY ExtraNatural
<1> DEFINE B == zip.body
           l == [i \in Chosen |-> Length(T, i)]
           c == [i \in B |-> Length(T, i) + Length(T, i) \div 20 + PerFile]
<1>4. B \in SUBSET Chosen /\ \A i \in Chosen : l[i] \in Nat
  BY <1>1, <1>3
<1>5. \A i \in B : c[i] = l[i] + l[i] \div 20 + PerFile
  OBVIOUS
<1>6. ZipUnits = SumFunctionOnSet(c, B) /\ Size(Chosen) = SumFunctionOnSet(l, Chosen)
  BY DEF ZipUnits, Size, SumFunction
<1> HIDE DEF B, l, c
<1>7. IsFiniteSet(B) /\ Cardinality(B) <= Cardinality(Chosen) /\ Cardinality(B) \in Nat
  BY <1>1, <1>4, FS_Subset, FS_CardinalityType
<1>8. Cardinality(B) <= Len(T.length)
  <2>1. /\ 0 \in Int /\ Len(T.length) - 1 \in Int
    BY <1>2
  <2>2. IsFiniteSet(Index(T)) /\ Cardinality(Index(T)) = Len(T.length)
    <3>1. ASSUME NEW n \in Nat PROVE IsFiniteSet(0..n - 1) /\ Cardinality(0..n - 1) = n
      <4>1. n - 1 \in Int
        OBVIOUS
      <4>2. /\ IsFiniteSet(0..n - 1)
            /\ Cardinality(0..n - 1) = IF 0 > n - 1 THEN 0 ELSE n - 1 - 0 + 1
        BY <4>1, FS_Interval
      <4> QED  BY <4>2
    <3> QED  BY <1>2, <3>1 DEF Index
  <2>3. Cardinality(Chosen) <= Cardinality(Index(T)) /\ Cardinality(Chosen) \in Nat
    BY <1>1, <2>2, FS_Subset, FS_CardinalityType
  <2> QED  BY <1>2, <1>7, <2>2, <2>3
<1>9. /\ SumFunctionOnSet(c, B) \in Nat /\ SumFunctionOnSet(l, B) \in Nat
      /\ SumFunctionOnSet(c, B)
           <= SumFunctionOnSet(l, B) + SumFunctionOnSet(l, B) \div 20 + PerFile * Cardinality(B)
  <2>1. \A i \in B : l[i] \in Nat
    BY <1>4
  <2> QED  BY <1>2, <1>5, <1>7, <2>1, RoundingDown
<1>10. SumFunctionOnSet(l, B) <= SumFunctionOnSet(l, Chosen)
  BY <1>1, <1>4, SumOfPart
<1>11. PerFile * Cardinality(B) <= PerFile * Len(T.length)
       /\ PerFile * Cardinality(B) \in Nat /\ PerFile * Len(T.length) \in Nat
  BY <1>2, <1>7, <1>8
<1>12. SumFunctionOnSet(l, B) \div 20 <= Size(Chosen) \div 20
  <2>1. SumFunctionOnSet(l, B) <= Size(Chosen)
    BY <1>6, <1>10
  <2>2. SumFunctionOnSet(l, B) \in Nat
    BY <1>9
  <2>3. Size(Chosen) \in Nat
    BY <1>2
  <2> QED  BY <2>1, <2>2, <2>3, TwentiethMonotone
<1> DEFINE sent  == SumFunctionOnSet(l, B)
           extra == PerFile * Cardinality(B)
           most  == PerFile * Len(T.length)
<1>13. /\ ZipUnits \in Nat /\ ZipUnits <= sent + sent \div 20 + extra
       /\ sent \in Nat /\ sent \div 20 \in Nat
  BY <1>6, <1>9
<1>14. Size(Chosen) \in Nat /\ Size(Chosen) \div 20 \in Nat /\ sent <= Size(Chosen)
       /\ sent \div 20 <= Size(Chosen) \div 20
  BY <1>2, <1>6, <1>10, <1>12
<1>15. extra \in Nat /\ most \in Nat /\ extra <= most
  BY <1>11
<1> HIDE DEF sent, extra, most
<1>16. ZipUnits \in Nat /\ ZipUnits <= Size(Chosen) + Size(Chosen) \div 20 + most
  BY <1>13, <1>14, <1>15
<1> QED  BY <1>16 DEF most

\* A job never takes more of the disk than it reserved, whatever lengths its torrent
\* declares and whatever earlier attempts left behind (reservation, Extra, reserve):
\* the budget that JobQueue shares out is a budget of real bytes.
THEOREM JobsFit == SpecAll => []FitsReservation
<1>1. InitAll => MetaInv
  BY DEF InitAll, Init, NoJob, MetaInv
<1>2. MetaInv /\ [NextAll]_all => MetaInv'
  BY MetaStep
<1>3. ASSUME FilesInv, MetaInv PROVE FitsReservation
  <2>1. TypeOK /\ Fresh /\ Passed /\ OnlyChosen
    BY <1>3 DEF FilesInv
  <2>2. SUFFICES ASSUME reserved # 0
                 PROVE  /\ Flat + DataUnits + ZipUnits <= reserved
                        /\ MetaUnits <= Flat \/ (pc = "drop" /\ ~job.upload)
    BY <2>1 DEF FitsReservation
  <2>3. job # NoJob /\ Acceptable /\ reserved = Reservation
    BY <2>1, <2>2 DEF Fresh, Passed, OnlyChosen
  <2>4. zip.body \subseteq Chosen /\ (zip.body # {} => job.zipped)
    BY <2>1, <2>3 DEF OnlyChosen
  <2>5. reserved = Declared(T) + Extra(job, Size(Chosen))
    BY <2>1, <2>3, ReservationInRange
  <2>6. /\ Declared(T) \in Nat /\ Size(Chosen) \in Nat /\ PerFile * Len(T.length) \in Nat
        /\ Extra(job, Size(Chosen)) =
             Flat + PerFile * Len(T.length)
               + (IF job.zipped THEN Size(Chosen) + Size(Chosen) \div 20 ELSE 0)
    BY <2>1, <2>3, ExtraNatural
  <2>7. MetaUnits <= Flat \/ (pc = "drop" /\ ~job.upload)
    BY <1>3, <2>1, <2>2, <2>3, CacheFits
  <2>8. DataUnits \in Nat /\ DataUnits <= Declared(T) /\ Flat \in Nat
    <3>1. T \in Torrents
      BY <2>1, <2>3, JobFacts DEF Acceptable
    <3> QED  BY <2>6, <3>1, SomePieces, SizeAssumption
  <2>9. ZipUnits \in Nat /\ (job.zipped => ZipUnits <= Size(Chosen) + Size(Chosen) \div 20
                                                         + PerFile * Len(T.length))
    BY <2>1, <2>3, <2>4, ZipWithinAllowance
  <2>10. CASE job.zipped
    BY <2>5, <2>6, <2>7, <2>8, <2>9, <2>10
  <2>11. CASE ~job.zipped
    <3>1. ZipUnits = 0
      <4>1. zip.body = {}
        BY <2>4, <2>11
      <4> DEFINE c == [i \in zip.body |-> Length(T, i) + Length(T, i) \div 20 + PerFile]
      <4>2. ZipUnits = SumFunctionOnSet(c, {})
        BY <4>1 DEF ZipUnits, SumFunction
      <4> HIDE DEF c
      <4> QED  BY <4>2, SumEmpty
    <3> QED  BY <2>5, <2>6, <2>7, <2>8, <2>11, <3>1
  <2> QED  BY <2>10, <2>11
<1> QED  BY <1>1, <1>2, <1>3, FilesInvariance, PTL DEF SpecAll

-----------------------------------------------------------------------------
(* Admission: what a job that keeps to its reservation may count on *)

\* The check under way: what was walked and not yet granted or given up, with what
\* free space was, is covered by what free space is and what was written meanwhile.
Gathered ==
    /\ unwalked \subseteq Obliged(mu)
    /\ SumFunctionOnSet(StillNeeded, Obliged(mu) \ unwalked) + free <= need + Available + since

\* Admitted jobs lack no more than drift, and whoever is being checked would not either.
GateInv ==
    /\ WithinBudget
    /\ Available >= 0
    /\ ShortByDriftOnly
    /\ \A j \in Jobs : stage[j] = "checking" <=> mu = j
    /\ mu # Unlocked => Gathered

\* Sums over jobs are natural numbers.
LEMMA GateSums ==
    ASSUME GateTypeOK
    PROVE  /\ \A S \in SUBSET Jobs : IsFiniteSet(S)
           /\ \A j \in Jobs : /\ written[j] \in Nat /\ Need[j] \in Nat /\ written[j] <= Need[j]
                              /\ StillNeeded[j] = Need[j] - written[j] /\ StillNeeded[j] \in Nat
           /\ Used = SumFunctionOnSet(written, Jobs) /\ Used \in Nat /\ Available \in Int
           /\ \A S \in SUBSET Jobs : /\ SumFunctionOnSet(StillNeeded, S) \in Nat
                                     /\ SumFunctionOnSet(Need, S) \in Nat
           /\ Reserved \in SUBSET Jobs /\ Obligations \in Nat
           /\ {Budget, Disk, Elsewhere} \subseteq Nat
<1>1. \A S \in SUBSET Jobs : IsFiniteSet(S)
  BY SpaceAssumption, FS_Subset
<1>2. \A j \in Jobs : /\ written[j] \in Nat /\ Need[j] \in Nat /\ written[j] <= Need[j]
                      /\ StillNeeded[j] = Need[j] - written[j] /\ StillNeeded[j] \in Nat
  BY SpaceAssumption DEF GateTypeOK, StillNeeded, remainingAllocation
<1>3. Used = SumFunctionOnSet(written, Jobs)
  BY DEF Used, SumFunction, GateTypeOK
<1>4. SumFunctionOnSet(written, Jobs) \in Nat
  BY <1>1, <1>2, SumOfPart
<1>5. {Budget, Disk, Elsewhere} \subseteq Nat
  BY SpaceAssumption
<1>6. \A S \in SUBSET Jobs : SumFunctionOnSet(StillNeeded, S) \in Nat /\ SumFunctionOnSet(Need, S) \in Nat
  <2> TAKE S \in SUBSET Jobs
  <2>1. \A x \in S : StillNeeded[x] \in Nat /\ Need[x] \in Nat
    BY <1>2
  <2> QED  BY <1>1, <2>1, SumOfPart
<1>7. Reserved \in SUBSET Jobs
  BY DEF Reserved
<1> QED  BY <1>1, <1>2, <1>3, <1>4, <1>5, <1>6, <1>7 DEF Available, Obligations

\* A job's directory changes: free space and what the job still needs change alike.
LEMMA DirectoryChanges ==
    ASSUME GateTypeOK, NEW j \in Jobs, NEW n \in 0..Need[j], written' = [written EXCEPT ![j] = n]
    PROVE  /\ Available' = Available + (written[j] - n)
           /\ \A S \in SUBSET Jobs :
                 SumFunctionOnSet(StillNeeded, S)' =
                    SumFunctionOnSet(StillNeeded, S) + (IF j \in S THEN written[j] - n ELSE 0)
           /\ \A k \in Jobs : written'[k] \in Nat /\ written'[k] <= Need[k]
           /\ n <= Disk => written' \in [Jobs -> 0..Disk]
<1>1. \A k \in Jobs : /\ written'[k] = IF k = j THEN n ELSE written[k]
                      /\ written'[k] \in Nat /\ written'[k] <= Need[k]
  BY GateSums, SpaceAssumption DEF GateTypeOK
<1>2. \A k \in Jobs : StillNeeded'[k] = Need[k] - written'[k] /\ StillNeeded'[k] \in Nat
  BY <1>1, SpaceAssumption DEF StillNeeded, remainingAllocation
<1>3. DOMAIN written' = Jobs
  BY DEF GateTypeOK
<1>4. SumFunctionOnSet(written', Jobs) = SumFunctionOnSet(written, Jobs) + (n - written[j])
  <2>1. written \in [Jobs -> Int] /\ n \in Int
    BY SpaceAssumption DEF GateTypeOK
  <2>2. IsFiniteSet(Jobs)
    BY SpaceAssumption
  <2>3. SumFunctionOnSet([written EXCEPT ![j] = n], Jobs) = SumFunctionOnSet(written, Jobs) + (n - written[j])
    BY <2>1, <2>2, SumExcept
  <2> QED  BY <2>3
<1>5. Available' = Available + (written[j] - n)
  <2>1. Used' = SumFunctionOnSet(written', Jobs)
    BY <1>3 DEF Used, SumFunction
  <2>2. SumFunctionOnSet(written, Jobs) \in Nat /\ written[j] \in Nat /\ Used = SumFunctionOnSet(written, Jobs)
        /\ {Disk, Elsewhere} \subseteq Nat
    BY GateSums
  <2>3. n \in Nat
    BY SpaceAssumption
  <2> QED  BY <1>4, <2>1, <2>2, <2>3 DEF Available
<1>6. ASSUME NEW S \in SUBSET Jobs
      PROVE  SumFunctionOnSet(StillNeeded, S)' =
                SumFunctionOnSet(StillNeeded, S) + (IF j \in S THEN written[j] - n ELSE 0)
  <2>1. \A k \in S : StillNeeded[k] \in Int /\ StillNeeded'[k] \in Int
    BY <1>2, GateSums
  <2>2. \A k \in S \ {j} : StillNeeded[k] = StillNeeded'[k]
    BY <1>1, <1>2, GateSums
  <2>3. IsFiniteSet(S) /\ SumFunctionOnSet(StillNeeded, S) \in Nat
    BY GateSums
  <2>4. CASE j \in S
    <3>1. SumFunctionOnSet(StillNeeded', S) = SumFunctionOnSet(StillNeeded, S) + (StillNeeded'[j] - StillNeeded[j])
      BY <2>1, <2>2, <2>3, <2>4, SumChange
    <3>2. StillNeeded'[j] - StillNeeded[j] = written[j] - n
      BY <1>1, <1>2, GateSums
    <3> QED  BY <2>4, <3>1, <3>2
  <2>5. CASE j \notin S
    <3>1. SumFunctionOnSet(StillNeeded, S) = SumFunctionOnSet(StillNeeded', S)
      BY <2>1, <2>2, <2>3, <2>5, SumSame
    <3> QED  BY <2>3, <2>5, <3>1
  <2> QED  BY <2>4, <2>5
<1>7. n <= Disk => written' \in [Jobs -> 0..Disk]
  BY SpaceAssumption DEF GateTypeOK
<1> QED  BY <1>1, <1>5, <1>6, <1>7

\* A directory that does not change leaves these sums alone.
LEMMA DirectoriesStay ==
    ASSUME GateTypeOK, UNCHANGED written
    PROVE  /\ UNCHANGED <<Used, Available, StillNeeded>>
           /\ \A S \in SUBSET Jobs : UNCHANGED SumFunctionOnSet(StillNeeded, S)
<1>1. UNCHANGED <<Used, Available, StillNeeded>>
  BY DEF Used, Available, StillNeeded, remainingAllocation
<1> QED  BY <1>1

\* A job moves on: it enters the admitted ones or leaves them.
LEMMA JobMoves ==
    ASSUME GateTypeOK, NEW j \in Jobs, NEW to \in Stages, Goes(j, to)
    PROVE  /\ stage' \in [Jobs -> Stages]
           /\ Reserved' = IF to \in Admitted THEN Reserved \cup {j} ELSE Reserved \ {j}
           /\ \A k \in Jobs : stage'[k] = IF k = j THEN to ELSE stage[k]
  BY DEF GateTypeOK, Goes, Reserved

\* A job is accounted for in a sum, or no longer.
LEMMA ReservationMoves ==
    ASSUME GateTypeOK, NEW j \in Jobs
    PROVE  \A f \in {Need, StillNeeded} :
              /\ j \notin Reserved => SumFunctionOnSet(f, Reserved \cup {j}) = SumFunctionOnSet(f, Reserved) + f[j]
              /\ j \in Reserved => SumFunctionOnSet(f, Reserved) = SumFunctionOnSet(f, Reserved \ {j}) + f[j]
<1> TAKE f \in {Need, StillNeeded}
<1>1. \A k \in Jobs : f[k] \in Int
  BY GateSums
<1>2. IsFiniteSet(Reserved) /\ Reserved \in SUBSET Jobs
  BY GateSums
<1>3. j \notin Reserved => SumFunctionOnSet(f, Reserved \cup {j}) = SumFunctionOnSet(f, Reserved) + f[j]
  BY <1>1, <1>2, SumAdd
<1>4. j \in Reserved => SumFunctionOnSet(f, Reserved) = SumFunctionOnSet(f, Reserved \ {j}) + f[j]
  BY <1>1, <1>2, SumRemove
<1> QED  BY <1>3, <1>4

\* What the steps of the check read of the invariant.
LEMMA GateFacts ==
    ASSUME GateInv
    PROVE  /\ GateTypeOK /\ Available \in Nat /\ Available <= Disk
           /\ activeBytes = SumFunctionOnSet(Need, Reserved) /\ activeBytes <= Budget
           /\ Obligations <= Available + drift
           /\ need \in Nat /\ free \in Nat /\ {since, drift} \subseteq Nat /\ activeBytes \in Nat
           /\ \A j \in Jobs : stage[j] = "checking" <=> mu = j
           /\ mu \in Jobs \cup {Unlocked}
           /\ mu # Unlocked => Gathered /\ mu \notin Reserved
<1>1. GateTypeOK /\ Available >= 0
  BY DEF GateInv, WithinBudget
<1>2. Available \in Nat /\ Available <= Disk
  BY <1>1, GateSums, SpaceAssumption DEF Available
<1>3. mu # Unlocked => mu \notin Reserved
  BY DEF GateInv, Reserved, Admitted
<1> QED  BY <1>1, <1>2, <1>3 DEF GateInv, WithinBudget, ShortByDriftOnly, GateTypeOK

\* A check begins: nothing has been walked.
LEMMA StatfsStep ==
    ASSUME GateInv, NEW j \in Jobs, Statfs(j)
    PROVE  GateInv'
<1> USE GateFacts
<1>1. Reserved' = Reserved /\ stage' \in [Jobs -> Stages]
      /\ \A k \in Jobs : stage'[k] = IF k = j THEN "checking" ELSE stage[k]
  <2>1. "checking" \in Stages /\ "checking" \notin Admitted /\ j \notin Reserved
    BY DEF Stages, Statfs, Reserved, Admitted, Waiting
  <2>2. Goes(j, "checking") /\ GateTypeOK
    BY DEF Statfs
  <2>3. Reserved \ {j} = Reserved
    BY <2>1
  <2> QED  BY <2>1, <2>2, <2>3, JobMoves
<1>2. UNCHANGED <<Available, StillNeeded>> /\ UNCHANGED Obligations
  BY <1>1, DirectoriesStay DEF Statfs, Obligations
<1>3. GateTypeOK'
  BY <1>1 DEF GateTypeOK, Statfs, Obliged, Reserved
<1>4. Gathered'
  <2>1. Obliged(mu)' = unwalked' /\ Obliged(mu)' \ unwalked' = {}
    BY <1>1 DEF Statfs, Obliged
  <2>2. SumFunctionOnSet(StillNeeded', {}) = 0
    BY SumEmpty
  <2>3. SumFunctionOnSet(StillNeeded, Obliged(mu) \ unwalked)' = 0
    BY <2>1, <2>2
  <2>4. free' = Available' /\ need' = 0 /\ since' = 0
    BY <1>2 DEF Statfs
  <2> QED  BY <1>2, <2>1, <2>3, <2>4 DEF Gathered
<1>5. \A k \in Jobs : stage'[k] = "checking" <=> mu' = k
  BY <1>1, SpaceAssumption DEF Statfs
<1> QED  BY <1>1, <1>2, <1>3, <1>4, <1>5 DEF GateInv, WithinBudget, ShortByDriftOnly, Statfs

\* A walk adds what the job still needs to what was gathered.
LEMMA WalkStep ==
    ASSUME GateInv, NEW j \in Jobs, NEW k \in Jobs, Walk(j, k)
    PROVE  GateInv'
<1> USE GateFacts
<1>1. Reserved' = Reserved /\ UNCHANGED <<Available, StillNeeded>> /\ UNCHANGED Obligations
  BY DirectoriesStay DEF Walk, Reserved, Obligations
<1>2. mu = j /\ mu' = j /\ Gathered /\ k \in unwalked /\ j # Unlocked
  BY SpaceAssumption DEF Walk
<1>3. StillNeeded[k] = remainingAllocation(k) /\ StillNeeded[k] \in Nat
  BY GateSums DEF StillNeeded
<1>4. GateTypeOK'
  BY <1>3 DEF GateTypeOK, Walk
<1>5. Gathered'
  <2> DEFINE W == Obliged(mu) \ unwalked
  <2>1. W \in SUBSET Jobs /\ k \notin W /\ k \in Obliged(mu)
    BY <1>2, GateSums DEF Gathered, Obliged
  <2>2. Obliged(mu)' \ unwalked' = W \cup {k} /\ unwalked' \subseteq Obliged(mu)'
    BY <1>1, <1>2, <2>1 DEF Walk, Obliged, Gathered
  <2>3. SumFunctionOnSet(StillNeeded, W) + free <= need + Available + since
    BY <1>2 DEF Gathered
  <2> HIDE DEF W
  <2>4. SumFunctionOnSet(StillNeeded, W) \in Nat
    BY <2>1, GateSums
  <2>5. SumFunctionOnSet(StillNeeded, W \cup {k}) = SumFunctionOnSet(StillNeeded, W) + StillNeeded[k]
    <3>1. IsFiniteSet(W) /\ \A x \in W \cup {k} : StillNeeded[x] \in Int
      BY <2>1, GateSums
    <3> QED  BY <2>1, <3>1, SumAdd
  <2>6. SumFunctionOnSet(StillNeeded, Obliged(mu) \ unwalked)' = SumFunctionOnSet(StillNeeded, W) + StillNeeded[k]
    BY <1>1, <2>2, <2>5
  <2>7. need' = need + StillNeeded[k] /\ free' = free /\ since' = since /\ Available' = Available
    BY <1>1, <1>3 DEF Walk
  <2> QED  BY <1>3, <2>2, <2>3, <2>4, <2>6, <2>7 DEF Gathered
<1> QED  BY <1>1, <1>4, <1>5 DEF GateInv, WithinBudget, ShortByDriftOnly, Walk

\* A check ends, one way or the other: nobody is being checked.
LEMMA CheckEnds ==
    ASSUME GateInv, NEW j \in Jobs, mu = j, NEW to \in Stages \ {"checking"}, Goes(j, to), Settled
    PROVE  /\ \A k \in Jobs : stage'[k] = "checking" <=> mu' = k
           /\ mu' = Unlocked
           /\ free' \in 0..Disk /\ need' \in Nat /\ unwalked' \subseteq Jobs /\ since' \in Nat
           /\ mu' \in Jobs \cup {Unlocked} /\ stage' \in [Jobs -> Stages]
           /\ Reserved' = IF to \in Admitted THEN Reserved \cup {j} ELSE Reserved
<1> USE GateFacts
<1>1. /\ stage' \in [Jobs -> Stages]
      /\ Reserved' = IF to \in Admitted THEN Reserved \cup {j} ELSE Reserved \ {j}
      /\ \A k \in Jobs : stage'[k] = IF k = j THEN to ELSE stage[k]
  BY JobMoves
<1>2. j \notin Reserved
  BY SpaceAssumption
<1>3. \A k \in Jobs : stage'[k] # "checking"
  BY <1>1
<1> QED  BY <1>1, <1>2, <1>3, SpaceAssumption DEF Settled

\* A grant: the sum that was compared with free space bounds what is now obliged.
LEMMA GrantStep ==
    ASSUME GateInv, NEW j \in Jobs, Grant(j)
    PROVE  GateInv'
<1> USE GateFacts
<1>1. /\ Reserved' = Reserved \cup {j} /\ mu' = Unlocked /\ j \notin Reserved
      /\ \A k \in Jobs : stage'[k] = "checking" <=> mu' = k
      /\ free' \in 0..Disk /\ need' \in Nat /\ unwalked' \subseteq Jobs /\ since' \in Nat
      /\ mu' \in Jobs \cup {Unlocked} /\ stage' \in [Jobs -> Stages]
  <2>1. "granted" \in Stages \ {"checking"} /\ "granted" \in Admitted
    BY DEF Stages, Admitted
  <2>2. mu = j /\ Goes(j, "granted") /\ Settled /\ j \notin Reserved
    BY SpaceAssumption DEF Grant
  <2> QED  BY <2>1, <2>2, CheckEnds
<1>2. UNCHANGED <<Available, StillNeeded>>
  BY DirectoriesStay DEF Grant
<1>3. activeBytes' = activeBytes + Need[j] /\ Need[j] \in Nat /\ activeBytes' <= Budget
  BY GateSums, SpaceAssumption DEF Grant, Fits
<1>4. activeBytes' = SumFunctionOnSet(Need, Reserved')
  BY <1>1, <1>3, ReservationMoves
<1>5. Obligations' <= Available' + drift'
  <2>1. Gathered /\ Obliged(mu) \ unwalked = Reserved \cup {j}
    BY SpaceAssumption DEF Grant, Obliged
  <2>2. SumFunctionOnSet(StillNeeded, Reserved \cup {j}) + free <= need + Available + since
    BY <2>1 DEF Gathered
  <2>3. need <= free /\ drift' = since
    BY DEF Grant, Fits
  <2>4. Obligations' = SumFunctionOnSet(StillNeeded, Reserved \cup {j})
    BY <1>1, <1>2 DEF Obligations
  <2>5. SumFunctionOnSet(StillNeeded, Reserved \cup {j}) \in Nat
    BY <1>1, GateSums
  <2> QED  BY <1>2, <2>2, <2>3, <2>4, <2>5
<1>6. GateTypeOK'
  BY <1>1, <1>3 DEF GateTypeOK, Grant
<1> QED  BY <1>1, <1>2, <1>3, <1>4, <1>5, <1>6 DEF GateInv, WithinBudget, ShortByDriftOnly

\* A check without a grant.
LEMMA NoGrantStep ==
    ASSUME GateInv, NEW j \in Jobs, Wait(j) \/ WalkFails(j)
    PROVE  GateInv'
<1> USE GateFacts
<1>1. PICK to \in {"waiting", "leaving"} : Goes(j, to) /\ mu = j /\ Settled
  BY DEF Wait, WalkFails
<1>2. UNCHANGED <<written, activeBytes, drift>>
  BY DEF Wait, WalkFails
<1>3. /\ Reserved' = Reserved /\ mu' = Unlocked
      /\ \A k \in Jobs : stage'[k] = "checking" <=> mu' = k
      /\ free' \in 0..Disk /\ need' \in Nat /\ unwalked' \subseteq Jobs /\ since' \in Nat
      /\ mu' \in Jobs \cup {Unlocked} /\ stage' \in [Jobs -> Stages]
  <2>1. to \in Stages \ {"checking"} /\ to \notin Admitted
    BY DEF Stages, Admitted, Waiting
  <2> QED  BY <1>1, <2>1, CheckEnds
<1>4. UNCHANGED <<Available, StillNeeded>> /\ UNCHANGED Obligations
  BY <1>2, <1>3, DirectoriesStay DEF Obligations
<1>5. GateTypeOK'
  BY <1>2, <1>3 DEF GateTypeOK
<1> QED  BY <1>2, <1>3, <1>4, <1>5 DEF GateInv, WithinBudget, ShortByDriftOnly

\* A directory changes, walked already or not: what is written is counted on the one
\* side or on the other, and what is deleted is free.
LEMMA DirectoryStep ==
    ASSUME GateInv, NEW j \in Jobs, NEW n \in 0..Need[j],
           written' = [written EXCEPT ![j] = n],
           UNCHANGED <<Reserved, mu, free, need, unwalked>>,
           {since', drift'} \subseteq Nat, mu # Unlocked => since' >= since, drift' >= drift,
           n > written[j] => /\ mu # Unlocked => since' >= since + (n - written[j])
                             /\ j \notin Reserved => drift' >= drift + (n - written[j])
    PROVE  ShortByDriftOnly' /\ (mu' # Unlocked => Gathered')
<1> USE GateFacts
<1>1. /\ Available' = Available + (written[j] - n)
      /\ \A S \in SUBSET Jobs :
            SumFunctionOnSet(StillNeeded, S)' =
               SumFunctionOnSet(StillNeeded, S) + (IF j \in S THEN written[j] - n ELSE 0)
  BY DirectoryChanges
<1>2. n \in Nat /\ written[j] \in Nat
  BY GateSums, SpaceAssumption
<1>3. ShortByDriftOnly'
  <2>1. Reserved \in SUBSET Jobs /\ Obligations \in Nat
    BY GateSums
  <2>2. Obligations' = SumFunctionOnSet(StillNeeded, Reserved)'
    BY DEF Obligations
  <2>3. Obligations' = Obligations + (IF j \in Reserved THEN written[j] - n ELSE 0)
    BY <1>1, <2>1 DEF Obligations
  <2> QED  BY <1>1, <1>2, <2>1, <2>3 DEF ShortByDriftOnly
<1>4. ASSUME mu' # Unlocked PROVE Gathered'
  <2>1. Gathered /\ mu # Unlocked /\ mu \in Jobs
    BY <1>4
  <2> DEFINE W == Obliged(mu) \ unwalked
  <2>2. W \in SUBSET Jobs /\ (j \in W => j \in Reserved \/ j = mu)
    BY <2>1, GateSums DEF Obliged
  <2>3. SumFunctionOnSet(StillNeeded, W) \in Nat
    BY <2>2, GateSums
  <2>4. SumFunctionOnSet(StillNeeded, W) + free <= need + Available + since
    BY <2>1 DEF Gathered
  <2>5. Obliged(mu)' = Obliged(mu) /\ unwalked' = unwalked
    BY DEF Obliged
  <2>6. SumFunctionOnSet(StillNeeded, Obliged(mu) \ unwalked)' =
           SumFunctionOnSet(StillNeeded, W) + (IF j \in W THEN written[j] - n ELSE 0)
    <3>1. SumFunctionOnSet(StillNeeded', W) =
             SumFunctionOnSet(StillNeeded, W) + (IF j \in W THEN written[j] - n ELSE 0)
      <4> HIDE DEF W
      <4>1. PICK V \in SUBSET Jobs : V = W
        BY <2>2
      <4>2. SumFunctionOnSet(StillNeeded', V) =
               SumFunctionOnSet(StillNeeded, V) + (IF j \in V THEN written[j] - n ELSE 0)
        BY <1>1
      <4> QED  BY <4>1, <4>2
    <3> QED  BY <2>5, <3>1
  <2> HIDE DEF W
  <2>7. SumFunctionOnSet(StillNeeded, Obliged(mu) \ unwalked)' + free' <= need' + Available' + since'
    BY <1>1, <1>2, <2>1, <2>2, <2>3, <2>4, <2>6
  <2>8. unwalked' \subseteq Obliged(mu)'
    BY <2>1, <2>5 DEF Gathered
  <2> QED  BY <2>7, <2>8 DEF Gathered
<1> QED  BY <1>3, <1>4

\* A job writes a block.
LEMMA WritesStep ==
    ASSUME GateInv, NEW j \in Jobs, WriteEarly(j) \/ Write(j)
    PROVE  GateInv'
<1> USE GateFacts
<1> DEFINE n == written[j] + 1
<1>1. /\ Writes(j) /\ drift' \in Nat /\ drift' >= drift
      /\ j \notin Reserved => drift' = drift + 1
  BY DEF WriteEarly, Write, Reserved, Admitted
<1>2. /\ written[j] \in Nat /\ n \in 0..Need[j] /\ written' = [written EXCEPT ![j] = n]
      /\ Available >= 1
      /\ UNCHANGED <<stage, activeBytes, mu, free, need, unwalked>>
      /\ since' \in Nat /\ (mu # Unlocked => since' = since + 1)
  BY <1>1, GateSums DEF Writes
<1>3. n <= Disk
  <2>1. SumFunctionOnSet(written, {j}) <= SumFunctionOnSet(written, Jobs)
        /\ SumFunctionOnSet(written, {j}) \in Nat
    BY GateSums, SumOfPart
  <2>2. SumFunctionOnSet(written, {j}) = written[j]
    <3>1. written[j] \in Int
      BY <1>2
    <3> QED  BY <3>1, SumOfOne
  <2>3. Used = SumFunctionOnSet(written, Jobs) /\ Used \in Nat /\ {Disk, Elsewhere} \subseteq Nat
    BY GateSums
  <2> QED  BY <1>2, <2>1, <2>2, <2>3 DEF Available
<1> HIDE DEF n
<1>4. /\ Available' = Available + (written[j] - n)
      /\ \A k \in Jobs : written'[k] \in Nat /\ written'[k] <= Need[k]
      /\ written' \in [Jobs -> 0..Disk]
  BY <1>2, <1>3, DirectoryChanges
<1>5. Reserved' = Reserved
  BY <1>2 DEF Reserved
<1>6. Available' >= 0 /\ n = written[j] + 1
  BY <1>2, <1>4 DEF n
<1>7. ShortByDriftOnly' /\ (mu' # Unlocked => Gathered')
  <2>1. {since', drift'} \subseteq Nat
    BY <1>1, <1>2
  <2>2. mu # Unlocked => since' >= since /\ since' >= since + (n - written[j])
    BY <1>2, <1>6
  <2>3. drift' >= drift /\ (j \notin Reserved => drift' >= drift + (n - written[j]))
    BY <1>1, <1>2, <1>6
  <2> QED  BY <1>2, <1>5, <2>1, <2>2, <2>3, DirectoryStep
<1>8. GateTypeOK'
  BY <1>1, <1>2, <1>4 DEF GateTypeOK
<1> QED  BY <1>2, <1>5, <1>6, <1>7, <1>8 DEF GateInv, WithinBudget

\* A job deletes: an admitted one some of what it has, one that is over all.
LEMMA DeleteStep ==
    ASSUME GateInv, NEW j \in Jobs, Shed(j) \/ Remove(j)
    PROVE  GateInv'
<1> USE GateFacts
<1>1. PICK n \in 0..written[j] : written' = [written EXCEPT ![j] = n]
  <2>1. CASE Shed(j)
    BY <2>1 DEF Shed
  <2>2. CASE Remove(j)
    <3>1. 0 \in 0..written[j]
      BY GateSums
    <3> QED  BY <2>2, <3>1 DEF Remove
  <2> QED  BY <2>1, <2>2
<1>2. PICK to \in {"downloading", "zipping", "gone"} :
         /\ Goes(j, to)
         /\ to \in Admitted <=> j \in Reserved
         /\ stage[j] # "checking"
  BY DEF Shed, Remove, Reserved, Admitted
<1>3. UNCHANGED <<activeBytes, mu, free, need, unwalked, since, drift>>
  BY DEF Shed, Remove, check
<1>4. Reserved' = Reserved /\ stage' \in [Jobs -> Stages]
      /\ \A k \in Jobs : stage'[k] = IF k = j THEN to ELSE stage[k]
  <2>1. to \in Stages
    BY DEF Stages, Admitted
  <2> QED  BY <1>2, <2>1, JobMoves
<1>5. \A k \in Jobs : stage'[k] = "checking" <=> mu' = k
  BY <1>2, <1>3, <1>4
<1>6. n \in Nat /\ written[j] \in Nat /\ n \in 0..Need[j] /\ n <= written[j] /\ n <= Disk
  <2>1. written[j] \in 0..Disk /\ written[j] <= Need[j] /\ written[j] \in Nat /\ Need[j] \in Nat
    BY GateSums DEF GateTypeOK
  <2> QED  BY <2>1, SpaceAssumption
<1>7. /\ Available' = Available + (written[j] - n)
      /\ \A k \in Jobs : written'[k] \in Nat /\ written'[k] <= Need[k]
      /\ written' \in [Jobs -> 0..Disk]
  BY <1>1, <1>6, DirectoryChanges
<1>8. Available' >= 0
  BY <1>6, <1>7
<1>9. ShortByDriftOnly' /\ (mu' # Unlocked => Gathered')
  <2>1. {since', drift'} \subseteq Nat /\ since' >= since /\ drift' >= drift /\ ~ (n > written[j])
    BY <1>3, <1>6
  <2> QED  BY <1>1, <1>3, <1>4, <1>6, <2>1, DirectoryStep
<1>10. GateTypeOK'
  BY <1>3, <1>4, <1>7 DEF GateTypeOK
<1> QED  BY <1>3, <1>4, <1>5, <1>8, <1>9, <1>10 DEF GateInv, WithinBudget

\* A job ends and gives its reservation back.
LEMMA LeaveStep ==
    ASSUME GateInv, NEW j \in Jobs, Leave(j)
    PROVE  GateInv'
<1> USE GateFacts
<1>1. /\ Reserved' = Reserved \ {j} /\ stage' \in [Jobs -> Stages]
      /\ \A k \in Jobs : stage'[k] = IF k = j THEN "over" ELSE stage[k]
  <2>1. "over" \in Stages /\ "over" \notin Admitted
    BY DEF Stages, Admitted
  <2> QED  BY <2>1, JobMoves DEF Leave
<1>2. mu = Unlocked /\ UNCHANGED <<mu, free, need, unwalked, since, drift, written>>
  BY DEF Leave, check
<1>3. UNCHANGED <<Available, StillNeeded>>
  BY <1>2, DirectoriesStay
<1>4. Need[j] \in Nat /\ StillNeeded[j] \in Nat /\ Reserved' \in SUBSET Jobs
      /\ SumFunctionOnSet(Need, Reserved') \in Nat /\ SumFunctionOnSet(StillNeeded, Reserved') \in Nat
  BY <1>1, GateSums
<1>5. /\ activeBytes' = SumFunctionOnSet(Need, Reserved') /\ activeBytes' <= activeBytes
      /\ SumFunctionOnSet(StillNeeded, Reserved') <= Obligations
  <2>1. CASE j \in Reserved
    <3>1. /\ SumFunctionOnSet(Need, Reserved) = SumFunctionOnSet(Need, Reserved') + Need[j]
          /\ Obligations = SumFunctionOnSet(StillNeeded, Reserved') + StillNeeded[j]
      BY <1>1, <2>1, ReservationMoves DEF Obligations
    <3>2. activeBytes' = activeBytes - Need[j]
      BY <2>1 DEF Leave
    <3> QED  BY <1>4, <3>1, <3>2
  <2>2. CASE j \notin Reserved
    <3>1. Reserved' = Reserved /\ activeBytes' = activeBytes
      BY <1>1, <2>2 DEF Leave
    <3> QED  BY <1>4, <3>1 DEF Obligations
  <2> QED  BY <2>1, <2>2
<1>6. Obligations' = SumFunctionOnSet(StillNeeded, Reserved')
  BY <1>3 DEF Obligations
<1>7. ShortByDriftOnly'
  <2>1. Obligations \in Nat
    BY GateSums
  <2> QED  BY <1>2, <1>3, <1>4, <1>5, <1>6, <2>1 DEF ShortByDriftOnly
<1>8. activeBytes' \in Nat /\ activeBytes' <= Budget
  <2>1. Budget \in Nat
    BY SpaceAssumption
  <2> QED  BY <1>4, <1>5, <2>1
<1>9. GateTypeOK'
  BY <1>1, <1>2, <1>8 DEF GateTypeOK
<1>10. \A k \in Jobs : stage'[k] = "checking" <=> mu' = k
  BY <1>1, <1>2, SpaceAssumption
<1> QED  BY <1>2, <1>3, <1>5, <1>7, <1>8, <1>9, <1>10 DEF GateInv, WithinBudget

\* After a restart nothing is reserved.
LEMMA RestartStep ==
    ASSUME GateInv, Restart
    PROVE  GateInv'
<1> USE GateFacts
<1>1. /\ Reserved' = {} /\ stage' \in [Jobs -> Stages]
      /\ \A k \in Jobs : stage'[k] # "checking"
  BY DEF Restart, Reserved, Admitted, GateTypeOK, Stages, Waiting
<1>2. /\ UNCHANGED written /\ mu' = Unlocked /\ activeBytes' = 0 /\ drift' = 0
      /\ free' = 0 /\ need' = 0 /\ unwalked' = {} /\ since' = 0
  BY DEF Restart, Settled
<1>3. UNCHANGED <<Available, StillNeeded>>
  BY <1>2, DirectoriesStay
<1>4. Obligations' = 0 /\ SumFunctionOnSet(Need, Reserved') = 0
  BY <1>1, SumEmpty DEF Obligations
<1>5. GateTypeOK'
  BY <1>1, <1>2, SpaceAssumption DEF GateTypeOK
<1> QED  BY <1>1, <1>2, <1>3, <1>4, <1>5, SpaceAssumption DEF GateInv, WithinBudget, ShortByDriftOnly

\* The inductive invariant of admission.
THEOREM GateInvariance == GateSpec => []GateInv
<1>1. ASSUME GateInit PROVE GateInv
  <2>1. GateTypeOK
    <3>1. \A j \in Jobs : Need[j] \in Nat /\ Need[j] >= 1
      BY SpaceAssumption
    <3>2. ASSUME NEW j \in Jobs PROVE written[j] \in 0..Disk /\ written[j] <= Need[j]
      <4>1. \A k \in Jobs : written[k] \in Nat /\ written[k] <= 1
        BY <1>1 DEF GateInit
      <4>2. DOMAIN written = Jobs /\ IsFiniteSet(Jobs)
        BY <1>1, SpaceAssumption DEF GateInit
      <4>3. Used = SumFunctionOnSet(written, Jobs)
        BY <4>2 DEF Used, SumFunction
      <4>4. SumFunctionOnSet(written, {j}) <= SumFunctionOnSet(written, Jobs)
            /\ SumFunctionOnSet(written, Jobs) \in Nat
        BY <4>1, <4>2, SumOfPart
      <4>5. SumFunctionOnSet(written, {j}) = written[j]
        <5>1. written[j] \in Int
          BY <4>1
        <5> QED  BY <5>1, SumOfOne
      <4>6. Used <= Disk - Elsewhere /\ Disk \in Nat /\ Elsewhere \in Nat
        BY <1>1, <4>3, <4>4, SpaceAssumption DEF GateInit, Available
      <4>7. written[j] <= Disk
        BY <4>1, <4>3, <4>4, <4>5, <4>6
      <4> QED  BY <3>1, <4>1, <4>6, <4>7
    <3>3. written \in [Jobs -> 0..Disk]
      BY <1>1, <3>2 DEF GateInit
    <3> QED  BY <1>1, <3>2, <3>3, SpaceAssumption DEF GateInit, GateTypeOK, Stages, Waiting
  <2>2. Reserved = {} /\ \A j \in Jobs : stage[j] # "checking"
    BY <1>1 DEF GateInit, Reserved, Admitted
  <2>3. Obligations = 0 /\ SumFunctionOnSet(Need, Reserved) = 0
    BY <2>2, SumEmpty DEF Obligations
  <2>4. Available >= 0 /\ Available \in Int /\ activeBytes = 0 /\ drift = 0 /\ mu = Unlocked
    BY <1>1, <2>1, GateSums DEF GateInit
  <2>5. ShortByDriftOnly
    BY <2>3, <2>4 DEF ShortByDriftOnly
  <2>6. WithinBudget
    BY <2>1, <2>3, <2>4, SpaceAssumption DEF WithinBudget
  <2> QED  BY <2>2, <2>4, <2>5, <2>6, SpaceAssumption DEF GateInv
<1>2. ASSUME GateInv, [GateNext]_gateVars PROVE GateInv'
  <2>1. CASE \E j \in Jobs : Statfs(j)
    BY <1>2, <2>1, StatfsStep
  <2>2. CASE \E j, k \in Jobs : Walk(j, k)
    BY <1>2, <2>2, WalkStep
  <2>3. CASE \E j \in Jobs : Grant(j)
    BY <1>2, <2>3, GrantStep
  <2>4. CASE \E j \in Jobs : Wait(j) \/ WalkFails(j)
    BY <1>2, <2>4, NoGrantStep
  <2>5. CASE \E j \in Jobs : WriteEarly(j) \/ Write(j)
    BY <1>2, <2>5, WritesStep
  <2>6. CASE \E j \in Jobs : Shed(j) \/ Remove(j)
    BY <1>2, <2>6, DeleteStep
  <2>7. CASE \E j \in Jobs : Leave(j)
    BY <1>2, <2>7, LeaveStep
  <2>8. CASE Restart
    BY <1>2, <2>8, RestartStep
  <2>9. CASE UNCHANGED gateVars
    BY <1>2, <2>9 DEF gateVars, check, GateInv, WithinBudget, GateTypeOK, ShortByDriftOnly, Gathered,
                      Available, Used, Obligations, StillNeeded, remainingAllocation, Reserved, Obliged
  <2> QED  BY <1>2, <2>1, <2>2, <2>3, <2>4, <2>5, <2>6, <2>7, <2>8, <2>9 DEF GateNext
<1> QED  BY <1>1, <1>2, PTL DEF GateSpec

\* The reservations of admitted jobs fit the budget and are accounted for exactly,
\* and no job writes more than it reserved (queue.go's activeBytes).
THEOREM BudgetKept == GateSpec => []WithinBudget
<1>1. GateInv => WithinBudget
  BY DEF GateInv
<1> QED  BY <1>1, GateInvariance, PTL

\* Admitted jobs lack no more space than was written between Statfs and the last
\* grant, and since then by jobs without a reservation (run's capacity loop).
THEOREM ShortfallBounded == GateSpec => []ShortByDriftOnly
<1>1. GateInv => ShortByDriftOnly
  BY DEF GateInv
<1> QED  BY <1>1, GateInvariance, PTL

\* No directory grows while somebody is being checked.
Quiet == [][mu # Unlocked => \A j \in Jobs : written'[j] <= written[j]]_gateVars

\* The order of Statfs and the walks is the only cause of a shortfall: if nothing
\* were written during a check, and every .torrent cached before, the file system
\* could hold all that admitted jobs may still write, whatever else happens.
THEOREM SolventIfQuiet ==
    ASSUME Uncached = {}
    PROVE  GateSpec /\ Quiet => []Solvent
<1> DEFINE Still == since = 0 /\ drift = 0
<1>1. GateInit => Still
  BY DEF GateInit
<1>2. ASSUME GateInv, Still, [GateNext]_gateVars,
             [mu # Unlocked => \A j \in Jobs : written'[j] <= written[j]]_gateVars
      PROVE  Still'
  <2>1. ASSUME NEW j \in Jobs, Write(j) PROVE Still'
    <3>1. written'[j] = written[j] + 1 /\ written[j] \in Nat
      BY <1>2, <2>1, GateFacts, GateSums DEF Write, Writes, GateTypeOK
    <3>2. mu = Unlocked
      BY <1>2, <3>1 DEF gateVars
    <3> QED  BY <1>2, <2>1, <3>2 DEF Write, Writes
  <2>2. ASSUME NEW j \in Jobs, \/ Statfs(j) \/ (\E k \in Jobs : Walk(j, k)) \/ Grant(j)
                               \/ Wait(j) \/ WalkFails(j) \/ WriteEarly(j)
        PROVE  Still'
    BY <1>2, <2>2 DEF Statfs, Walk, Grant, Wait, WalkFails, WriteEarly, Settled
  <2>3. ASSUME NEW j \in Jobs, Shed(j) \/ Leave(j) \/ Remove(j) PROVE Still'
    BY <1>2, <2>3 DEF Shed, Leave, Remove, check
  <2>4. CASE Restart
    BY <2>4 DEF Restart, Settled
  <2>5. CASE UNCHANGED gateVars
    BY <1>2, <2>5 DEF gateVars, check
  <2> QED  BY <1>2, <2>1, <2>2, <2>3, <2>4, <2>5 DEF GateNext
<1>3. ASSUME GateInv, Still PROVE Solvent
  <2>1. Obligations <= Available + drift /\ Available \in Nat /\ drift = 0
    BY <1>3, GateFacts
  <2> QED  BY <2>1 DEF Solvent
<1> HIDE DEF Still
<1> QED  BY <1>1, <1>2, <1>3, GateInvariance, PTL DEF GateSpec, Quiet
=============================================================================
