------------------------------ MODULE Library ------------------------------
(***************************************************************************)
(* The shared library: tables Folders and Files, and the remote store they *)
(* refer to.  Uploads (core/upload) create remote content and insert rows  *)
(* while requests (handlers/folders.go) delete remote content and rows.    *)
(* Neither knows of the other; the foreign keys are all they share.        *)
(*                                                                         *)
(* A node is a folder or a file that some job uploads, under the id the    *)
(* remote store gives it.  A folder may be answered without an id, which   *)
(* createFolder takes for one: at most one row has the empty id.  A row    *)
(* keeps its node's owner.  A database call may fail, applied or not; so   *)
(* may a remote one.  A crash or a client that leaves is a failure of      *)
(* whatever was running.                                                   *)
(***************************************************************************)
EXTENDS Naturals, Sequences

CONSTANTS
    Jobs,
    Walk,       \* [Jobs -> sequences of nodes], in the order of WalkDir
    Uploader,   \* [Jobs -> users and Nobody]
    Users,      \* logged-in users
    Admin,      \* the user IsAdmin is true of
    Nobody,     \* User_ID IS NULL: uploads of guests
    Folder,     \* the nodes that are folders
    Parent,     \* [nodes -> nodes and Root]
    Above,      \* [nodes -> sets of nodes], a node and what it lies in
    Root,       \* RootFolderPlaceholder, the remote root folder
    Requests    \* deletion requests

InWalk == [j \in Jobs |-> {Walk[j][i] : i \in 1..Len(Walk[j])}]
Nodes  == UNION {InWalk[j] : j \in Jobs}

Absent == "absent"
Owners == Users \cup {Nobody}

ASSUME UserAssumption == Admin \in Users /\ Nobody \notin Users /\ Absent \notin Owners
ASSUME WalkAssumption ==
    /\ \A j \in Jobs : Walk[j] \in Seq(Nodes) /\ Walk[j] # <<>> /\ Uploader[j] \in Owners
    /\ \A j, k \in Jobs : j # k => InWalk[j] \cap InWalk[k] = {}
    /\ \A j \in Jobs : \A i, k \in 1..Len(Walk[j]) :
         /\ Walk[j][i] = Walk[j][k] => i = k
         /\ Parent[Walk[j][i]] = Root <=> i = 1
         /\ Parent[Walk[j][i]] = Walk[j][k] => k < i
    \* WalkDir goes on with what is in a folder, and none is empty (stagePaths).
    /\ \A j \in Jobs : \A i \in 1..Len(Walk[j]) :
         Walk[j][i] \in Folder => i < Len(Walk[j]) /\ Parent[Walk[j][i + 1]] = Walk[j][i]
ASSUME TreeAssumption ==
    /\ Root \notin Nodes /\ Absent \notin Nodes
    /\ \A n \in Nodes : /\ Parent[n] \in (Nodes \cap Folder) \cup {Root}
                        /\ Above[n] = {n} \cup (IF Parent[n] = Root THEN {} ELSE Above[Parent[n]])
    /\ \A j \in Jobs : \A n \in InWalk[j] : Parent[n] \in InWalk[j] \cup {Root}

VARIABLES
    row,        \* the row of each node under its id: its User_ID, or Absent
    nameless,   \* folders that were answered without an id
    blank,      \* the one of them that has the row with the empty id, or Absent
    old,        \* rows added more than seven days ago
    remote,     \* nodes whose content is in the remote store
    at,         \* upload: the position in its walk
    phase,      \* upload: what it does next for that node
    request     \* deletion requests

uploads == <<at, phase>>
empty   == <<nameless, blank>>
vars    == <<row, empty, old, remote, uploads, request>>

Phases   == {"check", "create", "insert", "done", "failed"}
Steps    == {"idle", "readFolders", "checkOwner", "remoteFiles", "remoteFolders",
             "snapshot", "commit", "ok", "error"}
NoRequest == [step |-> "idle", user |-> Nobody, files |-> {}, folders |-> {},
              todo |-> {}, subtree |-> {}]

TypeOK ==
    /\ row \in [Nodes -> Owners \cup {Absent}]
    /\ nameless \subseteq Nodes /\ blank \in Nodes \cup {Absent}
    /\ old \subseteq Nodes
    /\ remote \subseteq Nodes
    /\ at \in [Jobs -> Nat] /\ \A j \in Jobs : at[j] \in 1..Len(Walk[j])
    /\ phase \in [Jobs -> Phases]
    /\ request \in [Requests ->
         [step : Steps, user : Owners, files : SUBSET Nodes, folders : SUBSET Nodes,
          todo : SUBSET Nodes, subtree : SUBSET Nodes]]

Init ==
    /\ row = [n \in Nodes |-> Absent]
    /\ nameless = {} /\ blank = Absent
    /\ old = {}
    /\ remote = {}
    /\ at = [j \in Jobs |-> 1]
    /\ phase = [j \in Jobs |-> "check"]
    /\ request = [r \in Requests |-> NoRequest]

Rows     == {n \in Nodes : row[n] # Absent}
Under(S) == {n \in Nodes : Above[n] \cap S # {}}

-----------------------------------------------------------------------------
(* Uploads: SendTorrentToServer, createFolder, uploadFile *)

node(j) == Walk[j][at[j]]
Goto(j, p) == phase' = [phase EXCEPT ![j] = p]

\* FolderExists is asked for a subfolder only, and not about an empty id.
CheckParent(j) ==
    /\ phase[j] = "check"
    /\ Goto(j, IF node(j) \in Folder /\ at[j] # 1 /\ Parent[node(j)] \notin Rows \cup nameless
               THEN "failed" ELSE "create")
    /\ UNCHANGED <<row, empty, old, remote, at, request>>

\* The remote store makes a folder, or takes a file, where the parent's id says.
Possible(j) == Parent[node(j)] \in (remote \ nameless) \cup {Root}

\* It answers with an id (validateUploadServers sees to that for a file).
Create(j) ==
    /\ phase[j] = "create" /\ Possible(j)
    /\ remote' = remote \cup {node(j)}
    /\ Goto(j, "insert")
    /\ UNCHANGED <<row, empty, old, at, request>>

\* It answers that there is no folder, or nothing that makes sense: neither the
\* status nor the id is looked at.
CreateNameless(j) ==
    /\ phase[j] = "create" /\ node(j) \in Folder
    /\ remote' \in {remote} \cup (IF Possible(j) THEN {remote \cup {node(j)}} ELSE {})
    /\ nameless' = nameless \cup {node(j)}
    /\ Goto(j, "insert")
    /\ UNCHANGED <<row, blank, old, at, request>>

\* Mutant: the migration lacks the foreign keys.
LinkedAnyhow(n) == TRUE

\* FOREIGN KEY Parent_Folder_ID, Folder_ID.  The empty id as the parent of the
\* empty id is the row itself.
Linked(n) == Parent[n] \in Rows \cup {Root} \cup (IF n \in nameless THEN nameless ELSE {})

\* Mutant: only the first folder is given its owner.
OwnerOfTop(j) == IF at[j] = 1 THEN Uploader[j] ELSE Nobody

OwnerOf(j) == Uploader[j]

Last(j) == at[j] = Len(Walk[j])

NextNode(j) ==
    IF Last(j) THEN Goto(j, "done") /\ UNCHANGED at
    ELSE Goto(j, "check") /\ at' = [at EXCEPT ![j] = @ + 1]

\* The INSERT of createFolder or of uploadFile; ID is the PRIMARY KEY.
Stored(j) ==
    /\ Linked(node(j))
    /\ IF node(j) \in nameless THEN blank = Absent /\ blank' = node(j) /\ UNCHANGED row
       ELSE row' = [row EXCEPT ![node(j)] = OwnerOf(j)] /\ UNCHANGED blank

\* Mutant: the error of the insert is not looked at.
InsertUnchecked(j) ==
    /\ phase[j] = "insert"
    /\ Stored(j) \/ UNCHANGED <<row, blank>>
    /\ NextNode(j)
    /\ UNCHANGED <<nameless, old, remote, request>>

Insert(j) ==
    /\ phase[j] = "insert"
    /\ Stored(j)
    /\ NextNode(j)
    /\ UNCHANGED <<nameless, old, remote, request>>

\* A call fails, with or without effect, and so does the upload.  A file for a
\* folder without an id is put elsewhere, and no key links its row.
UploadFails(j) ==
    /\ phase[j] \in {"check", "create", "insert"}
    /\ Goto(j, "failed")
    /\ \/ UNCHANGED <<row, blank, remote>>
       \/ phase[j] = "create" /\ Possible(j) /\ remote' = remote \cup {node(j)} /\ UNCHANGED <<row, blank>>
       \/ phase[j] = "insert" /\ Stored(j) /\ UNCHANGED remote
    /\ UNCHANGED <<nameless, old, at, request>>

\* Rows grow old in the order they were added.
Age(n) ==
    /\ n \in Rows \ old
    /\ Above[n] \subseteq old \cup {n}
    /\ old' = old \cup {n}
    /\ UNCHANGED <<row, empty, remote, uploads, request>>

-----------------------------------------------------------------------------
(* Requests: DeleteContentFromDB and DeleteStaleContentFromDB.  One that is
   refused changes nothing and is left out. *)

Becomes(r, q) == request' = [request EXCEPT ![r] = q]
Answer(r, s) ==
    Becomes(r, [request[r] EXCEPT !.step = s, !.user = Nobody, !.todo = {}, !.subtree = {}])
store == <<row, empty, old, remote, uploads>>

\* Mutant: content without an owner is everybody's.
PermittedOwnerless(u, n) == u = Admin \/ row[n] = u \/ row[n] = Nobody

Permitted(u, n) == u = Admin \/ row[n] = u

\* LibrarySubtreeOwned.  A folder that has gone has an empty subtree.
SubtreeOwned(u, n) == \A m \in Rows \cap Under({n}) : row[m] = u

\* GetLibraryContentOwner.
AskDelete(r, u, n) ==
    /\ request[r].step = "idle"
    /\ n \in Rows
    /\ Permitted(u, n)
    /\ Becomes(r, IF n \notin Folder
                  THEN [request[r] EXCEPT !.user = u, !.files = {n}, !.step = "remoteFiles"]
                  ELSE IF u = Admin
                  THEN [request[r] EXCEPT !.user = u, !.folders = {n}, !.step = "remoteFiles"]
                  ELSE [request[r] EXCEPT !.user = u, !.todo = {n}, !.step = "checkOwner"])
    /\ UNCHANGED store

Stale(u) == {n \in old : Permitted(u, n)}

\* GetOldFiles, GetOldFilesByUser.
AskStale(r, u) ==
    /\ request[r].step = "idle"
    /\ Becomes(r, [request[r] EXCEPT !.user = u, !.files = Stale(u) \ Folder, !.step = "readFolders"])
    /\ UNCHANGED store

\* GetOldFolders, GetOldFoldersByUser.
ReadFolders(r) ==
    LET u == request[r].user
        found == Stale(u) \cap Folder
    IN  /\ request[r].step = "readFolders"
        /\ Becomes(r, IF u = Admin
                      THEN [request[r] EXCEPT !.folders = found, !.step = "remoteFiles"]
                      ELSE [request[r] EXCEPT !.todo = found, !.step = "checkOwner"])
        /\ UNCHANGED store

\* A folder whose subtree is not all the user's is left alone.
CheckOwner(r) ==
    /\ request[r].step = "checkOwner"
    /\ IF request[r].todo = {} THEN Becomes(r, [request[r] EXCEPT !.step = "remoteFiles"])
       ELSE \E n \in request[r].todo :
              LET owned == IF SubtreeOwned(request[r].user, n) THEN {n} ELSE {}
              IN  Becomes(r, [request[r] EXCEPT !.todo = @ \ {n}, !.folders = @ \cup owned])
    /\ UNCHANGED store

\* The remote store deletes what it will; its answer is only logged.
RemoteFiles(r) ==
    /\ request[r].step = "remoteFiles"
    /\ \E S \in SUBSET request[r].files : remote' = remote \ S
    /\ Becomes(r, [request[r] EXCEPT !.step = "remoteFolders"])
    /\ UNCHANGED <<row, empty, old, uploads>>

RemoteFolders(r) ==
    /\ request[r].step = "remoteFolders"
    /\ \E S \in SUBSET request[r].folders : remote' = remote \ Under(S)
    /\ Becomes(r, [request[r] EXCEPT !.step = "snapshot"])
    /\ UNCHANGED <<row, empty, old, uploads>>

\* The transaction's consistent read: GetFoldersToDelete.  The folder without an
\* id is found in its parent, or named by a request for what is stale (which do is
\* left open).  If it is its own parent the query never ends, and fails.
Snapshot(r) ==
    LET found == Rows \cap Folder \cap Under(request[r].folders)
    IN  /\ request[r].step = "snapshot"
        /\ \E S \in SUBSET ({blank} \ {Absent}) :
             /\ \A n \in S : Parent[n] \notin nameless
             /\ blank # Absent /\ Parent[blank] \in found => blank \in S
             /\ Becomes(r, [request[r] EXCEPT !.subtree = found \cup S, !.step = "commit"])
        /\ UNCHANGED store

\* What its DELETEs remove, files before folders and children before parents.
Doomed(r) ==
    LET q == request[r]
    IN  {n \in Rows : n \in q.files \/ n \in q.subtree \/ (n \notin Folder /\ Parent[n] \in q.subtree)}

\* The empty id, whosever it was when it was read.
BlankLeft(r) == IF request[r].subtree \cap nameless = {} THEN blank ELSE Absent

\* No row left behind refers to a folder that goes.
Unreferenced(r) ==
    \A n \in (Rows \ Doomed(r)) \cup ({BlankLeft(r)} \ {Absent}) : Parent[n] \notin request[r].subtree

\* DELETEs and COMMIT; the answer of COMMIT may be lost.
Commit(r) ==
    /\ request[r].step = "commit"
    /\ Unreferenced(r)
    /\ row' = [n \in Nodes |-> IF n \in Doomed(r) THEN Absent ELSE row[n]]
    /\ blank' = BlankLeft(r)
    /\ old' = old \ Doomed(r)
    /\ Answer(r, "ok") \/ Answer(r, "error")
    /\ UNCHANGED <<nameless, remote, uploads>>

\* Mutant: an error of the transaction is answered like its success.
FailsQuietly(r) ==
    /\ request[r].step \notin {"idle", "ok", "error"}
    /\ Answer(r, IF request[r].step = "commit" THEN "ok" ELSE "error")
    /\ UNCHANGED store

\* Any other error: the transaction, if there is one, is rolled back.
RequestFails(r) ==
    /\ request[r].step \notin {"idle", "ok", "error"}
    /\ Answer(r, "error")
    /\ UNCHANGED store

-----------------------------------------------------------------------------
(* Browsing: GetTorrentsFromDB, GetLibraryContents *)

\* Rows of nobody are everybody's; a guest is Nobody.  Owners have no Absent.
Visible(u, n) == row[n] \in {u, Nobody}
Opens(u, f) == f = Root \/ (f \in Folder /\ Visible(u, f))
Lists(u, f, n) == Visible(u, n) /\ Parent[n] = f

\* n is what a user gets to see by opening folders, from the root on.
Reached(u, n) == \A m \in Above[n] : Lists(u, Parent[m], m) /\ Opens(u, Parent[m])

-----------------------------------------------------------------------------

Upload(j) == CheckParent(j) \/ Create(j) \/ CreateNameless(j) \/ Insert(j) \/ UploadFails(j)

Handle(r) ==
    \/ \E u \in Users : AskStale(r, u) \/ \E n \in Nodes : AskDelete(r, u, n)
    \/ ReadFolders(r) \/ CheckOwner(r) \/ RemoteFiles(r) \/ RemoteFolders(r)
    \/ Snapshot(r) \/ Commit(r) \/ RequestFails(r)

Next ==
    \/ \E j \in Jobs : Upload(j)
    \/ \E n \in Nodes : Age(n)
    \/ \E r \in Requests : Handle(r)

Spec == Init /\ [][Next]_vars

-----------------------------------------------------------------------------
(* Properties *)

Scope(r) == request[r].files \cup Under(request[r].folders)

\* The type invariant, and: every row lies in a folder that has a row and the
\* same owner: no upload is torn apart by a deletion, and who may delete a folder
\* owns all that is in it or will be (folders.go reads the owners long before it
\* deletes).  The row with the empty id lies in such a folder, or in itself.
WellRooted ==
    /\ TypeOK
    /\ \A n \in Rows : Parent[n] # Root => Parent[n] \in Rows /\ row[Parent[n]] = row[n]
    /\ blank # Absent => blank \in nameless /\ Linked(blank)

\* No request makes content disappear, here or in the remote store, that was
\* uploaded by somebody else, unless its user is the administrator.
OthersUntouched ==
    [][\A r \in Requests : request'[r] # request[r] =>
         \A j \in Jobs :
            (\E n \in InWalk[j] : n \in remote \ remote' \/ (row[n] # Absent /\ row'[n] = Absent))
            => request[r].user \in {Admin, Uploader[j]}]_vars

\* What a request was told to be deleted is not in the library and never comes
\* back, though the upload that brings it may still be running.  The row with the
\* empty id may, but only where no listing shows it: as its own parent.
DeletedIsGone ==
    \A r \in Requests : request[r].step = "ok" =>
        Scope(r) \cap Rows = {} /\ (blank \in Scope(r) => Parent[blank] \in nameless)

\* No row is without content and nobody told.  If the content was deleted, a request
\* that deletes it still runs or was answered with an error (README.md: "Database
\* failures still return an error"); if it never came to be, as that of a folder
\* without an id, the upload does not report success.
GhostsAreReported ==
    /\ \A n \in Rows \ remote :
         \E r \in Requests : n \in Scope(r) /\ request[r].step \notin {"idle", "ok"}
    /\ \A j \in Jobs : phase[j] = "done" => InWalk[j] \cap nameless = {}

\* An upload that reports success can be opened as a whole, from the root folder
\* down, by its uploader, or by everybody if that is a guest, and by nobody else,
\* except for what a request deleted.
CompletedIsListed ==
    \A j \in Jobs, u \in Owners : \A n \in InWalk[j] :
        IF Uploader[j] \in {u, Nobody}
        THEN phase[j] = "done" /\ ~Reached(u, n) =>
                \E r \in Requests : n \in Scope(r) /\ request[r].step \in {"ok", "error"}
        ELSE ~Reached(u, n)
=============================================================================
