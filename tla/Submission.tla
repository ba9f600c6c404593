---------------------------- MODULE Submission ----------------------------
(***************************************************************************)
(* The requests that bring a job: handlers/torrent.go.  A browser may have *)
(* the files of a magnet listed first, through a torrent client of its own *)
(* that all previews share; a .torrent file is listed at once.  Its form   *)
(* then reaches DownloadQueue.Add (JobFiles).                              *)
(***************************************************************************)
EXTENDS JobFiles

CONSTANTS
    Browsers,
    Nobody,
    Previewed       \* bound: the torrents that are previewed
ASSUME BrowserAssumption == Nobody \notin Browsers /\ Previewed \subseteq Torrents

VARIABLES
    page,       \* what each browser shows, or waits for
    handles,    \* torrents in the preview client
    previewMu,  \* who holds it
    asker       \* whose request Add runs for

front == <<page, handles, previewMu, asker>>
all   == <<vars, front>>

None == [length |-> <<>>]
Form == [at |-> "form", of |-> None, got |-> FALSE]
Held == {"waiting", "drop", "unlock"}   \* while the handler of a preview runs
Places  == {"form", "listed", "asked", "added", "refused"} \cup Held
Pages   == [at : Places, of : Torrents \cup {None}, got : BOOLEAN]

FrontOK ==
    /\ page \in [Browsers -> Pages]
    /\ handles \subseteq Torrents
    /\ {previewMu, asker} \subseteq Browsers \cup {Nobody}

FrontInit ==
    /\ page = [b \in Browsers |-> Form]
    /\ handles = {} /\ previewMu = Nobody /\ asker = Nobody

Show(b, where, t, got) == page' = [page EXCEPT ![b] = [at |-> where, of |-> t, got |-> got]]
Idle(b) == page[b].at \notin Held \cup {"asked"}

-----------------------------------------------------------------------------
(* Preview *)

\* Mutant: previews are not limited to one at a time.
AskAnyway(b, t) ==
    /\ Idle(b)
    /\ previewMu' = b /\ handles' = handles \cup {t}
    /\ Show(b, "waiting", t, FALSE)
    /\ UNCHANGED asker

\* TryLock, AddTorrentSpec.
AskPreview(b, t) ==
    /\ Idle(b)
    /\ previewMu = Nobody
    /\ previewMu' = b /\ handles' = handles \cup {t}
    /\ Show(b, "waiting", t, FALSE)
    /\ UNCHANGED asker

\* GotInfo of a torrent that has not been dropped.
ListMagnet(b) ==
    /\ page[b].at = "waiting" /\ page[b].of \in handles
    /\ Show(b, "drop", page[b].of, TRUE)
    /\ UNCHANGED <<handles, previewMu, asker>>

\* Thirty seconds pass, or the browser goes away.
PreviewEnds(b) ==
    /\ page[b].at = "waiting"
    /\ Show(b, "drop", page[b].of, FALSE)
    /\ UNCHANGED <<handles, previewMu, asker>>

\* The deferred calls, the last one first.
Drop(b) ==
    /\ page[b].at = "drop"
    /\ handles' = handles \ {page[b].of}
    /\ Show(b, "unlock", page[b].of, page[b].got)
    /\ UNCHANGED <<previewMu, asker>>

Unlock(b) ==
    /\ page[b].at = "unlock"
    /\ previewMu' = Nobody
    /\ IF page[b].got THEN Show(b, "listed", page[b].of, TRUE) ELSE Show(b, "form", None, FALSE)
    /\ UNCHANGED <<handles, asker>>

\* UploadTorrent with action=preview: nothing is kept.
ListFile(b, t) ==
    /\ Idle(b)
    /\ t.parses
    /\ Show(b, "listed", t, TRUE)
    /\ UNCHANGED <<handles, previewMu, asker>>

-----------------------------------------------------------------------------
(* CreateNewDownload, UploadTorrent *)

\* The files ticked in the list, or all of them without one.  parseSelection
\* removes duplicates; only a .torrent file can be checked against.
Ask(b, s) ==
    /\ Idle(b)
    /\ s.selection # All => page[b].at = "listed" /\ page[b].of = s.torrent
    /\ s.upload => SelectionFits(s)
    /\ Submit(s)
    /\ asker' = b
    /\ Show(b, "asked", s.torrent, FALSE)
    /\ UNCHANGED <<handles, previewMu>>

Answer(b, a) == Show(b, a, None, FALSE) /\ asker' = Nobody /\ UNCHANGED <<handles, previewMu>>

Added   == Create /\ Answer(asker, "added")
Refused == AddFails /\ Answer(asker, "refused")

\* Whoever waited for an answer gets none.
Cut ==
    /\ page' = [b \in Browsers |-> IF Idle(b) THEN page[b] ELSE Form]
    /\ handles' = {} /\ previewMu' = Nobody /\ asker' = Nobody

Front(b) ==
    /\ \/ \E t \in Previewed : AskPreview(b, t) \/ ListFile(b, t)
       \/ ListMagnet(b) \/ PreviewEnds(b) \/ Drop(b) \/ Unlock(b)
    /\ UNCHANGED vars

\* The steps of JobFiles that no request waits for.
Behind == (Keep \/ Persist \/ Fetch \/ Deliver) /\ UNCHANGED front

NextAll ==
    \/ \E b \in Browsers : Front(b) \/ \E s \in Submissions : Ask(b, s)
    \/ Added \/ Refused \/ Behind
    \/ (Crash \/ PowerLoss) /\ Cut
    \/ Boot /\ UNCHANGED front

InitAll == Init /\ FrontInit
SpecAll == InitAll /\ [][NextAll]_all

-----------------------------------------------------------------------------
(* Properties *)

\* The type invariant, and: a preview that waits has its torrent to itself, so
\* that no other one's Drop takes it away, and none is left in the client when
\* all have ended.
PreviewIsolated ==
    /\ FrontOK
    /\ \A b \in Browsers : page[b].at = "waiting" => page[b].of \in handles
    /\ handles # {} => \E b \in Browsers : page[b].at \in Held
=============================================================================
