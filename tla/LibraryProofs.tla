---------------------------- MODULE LibraryProofs ----------------------------
(***************************************************************************)
(* Proofs about Library for every set of uploads, folder trees, users and  *)
(* requests.                                                               *)
(***************************************************************************)
EXTENDS Library, Sums, SequenceTheorems, TLAPS

Active == {"check", "create", "insert"}     \* phases of an upload that is running
Over   == {"ok", "error"}                   \* steps of a request that was answered

\* The nodes an upload has yet to insert, and those it takes for inserted.
Due(j)  == IF phase[j] \in Active THEN {Walk[j][i] : i \in at[j]..Len(Walk[j])} ELSE {}
Past(j) == IF phase[j] = "failed" THEN {} ELSE InWalk[j] \ Due(j)

Asked(r) == request[r].files \cup request[r].folders \cup request[r].todo

\* A row has the owner of its upload, who is the owner of the folder it lies in too.
Owned ==
    /\ \A j \in Jobs : \A n \in InWalk[j] : row[n] \in {Absent, Uploader[j]}
    /\ \A n \in Rows : Parent[n] \in Rows \cup {Root}
    /\ old \subseteq Rows

\* What a request holds at each of its steps.
Shaped ==
    \A r \in Requests :
        LET q == request[r] IN
        /\ q.files \cap Folder = {} /\ q.folders \cup q.todo \subseteq Folder
        /\ q.subtree \subseteq (Folder \cap Under(q.folders)) \cup nameless
        /\ q.step \in {"idle", "readFolders"} => q.folders = {} /\ q.todo = {}
        /\ q.step = "idle" => q.files = {}
        /\ q.step = "commit" => q.folders \cap Rows \subseteq q.subtree

\* Until it is answered, a request is about what its user may delete.
Entitled ==
    \A r \in Requests, j \in Jobs :
        request[r].step \notin Over => \A n \in Asked(r) \cap InWalk[j] : request[r].user \in {Admin, Uploader[j]}

\* What is in the library or was when a request asked for it is not inserted again.
NotDue == \A j \in Jobs : /\ Due(j) \cap Rows = {}
                          /\ \A r \in Requests : Due(j) \cap Asked(r) = {}

\* Remote content goes only where a request says so: of what has a row and of what
\* is about to get one, under an id.
Explained ==
    \A n \in Nodes \ remote :
        n \in Rows \/ (n \notin nameless /\ \E j \in Jobs : phase[j] = "insert" /\ n = node(j))
        => \E r \in Requests : n \in Scope(r)

\* And so do rows.
Kept ==
    \A j \in Jobs : \A n \in Past(j) \ (Rows \cup nameless) :
        \E r \in Requests : n \in Scope(r) /\ request[r].step \in Over

\* An upload that met a folder without an id is on its way into it, or has failed.
Astray(j) == \/ phase[j] = "failed"
             \/ phase[j] \in {"check", "create"} /\ Parent[node(j)] \in nameless
             \/ phase[j] = "insert" /\ node(j) \in nameless

\* Folders without an id: none has a row of its own, and one has the row they share.
Strays ==
    /\ nameless \subseteq Nodes \cap Folder /\ nameless \cap Rows = {}
    /\ \A r \in Requests : Asked(r) \cap nameless = {}
    /\ blank # Absent => blank \in nameless /\ Linked(blank)
    /\ \A j \in Jobs : InWalk[j] \cap nameless # {} => Astray(j)

LibraryInv == TypeOK /\ Owned /\ Shaped /\ Entitled /\ NotDue /\ Explained /\ Kept /\ DeletedIsGone /\ Strays

-----------------------------------------------------------------------------
(* The folder trees *)

\* A walk comes to a folder before it comes to what lies in it (WalkDir).
LEMMA NodeInduction ==
    ASSUME NEW A, \A n \in Nodes : Parent[n] \in A \cup {Root} => n \in A
    PROVE  Nodes \subseteq A
<1>1. SUFFICES ASSUME NEW j \in Jobs, NEW i \in 1..Len(Walk[j]) PROVE Walk[j][i] \in A
  BY DEF Nodes, InWalk
<1>2. Walk[j] \in Seq(Nodes)
  BY WalkAssumption
<1> DEFINE B == {k \in Nat : \A m \in 1..Len(Walk[j]) : m <= k => Walk[j][m] \in A}
<1>3. 0 \in B
  OBVIOUS
<1>4. ASSUME NEW k \in Nat, k \in B PROVE k + 1 \in B
  <2>1. SUFFICES ASSUME NEW m \in 1..Len(Walk[j]), m = k + 1 PROVE Walk[j][m] \in A
    BY <1>4
  <2>2. Walk[j][m] \in Nodes /\ Walk[j][m] \in InWalk[j]
    BY DEF Nodes, InWalk
  <2>3. Parent[Walk[j][m]] \in InWalk[j] \cup {Root}
    BY <2>2, TreeAssumption
  <2>4. ASSUME Parent[Walk[j][m]] \in InWalk[j] PROVE Parent[Walk[j][m]] \in A
    <3>1. PICK p \in 1..Len(Walk[j]) : Parent[Walk[j][m]] = Walk[j][p]
      BY <2>4 DEF InWalk
    <3>2. p < m
      BY <3>1, WalkAssumption
    <3> QED  BY <1>4, <2>1, <3>1, <3>2
  <2> QED  BY <2>2, <2>3, <2>4
<1>5. Nat \subseteq B
  <2> HIDE DEF B
  <2> QED  BY <1>3, <1>4, NatSetInduction
<1>6. i \in Nat /\ i \in B
  BY <1>5
<1> QED  BY <1>6

\* What lies under some nodes is one of them or lies in what does.
LEMMA UnderSteps ==
    ASSUME NEW S, NEW n \in Nodes
    PROVE  /\ n \in S => n \in Under(S)
           /\ n \in Under(S) /\ n \notin S => Parent[n] # Root /\ Parent[n] \in Under(S)
           /\ Parent[n] # Root /\ Parent[n] \in Under(S) => n \in Under(S)
<1>1. /\ Parent[n] \in Nodes \cup {Root}
      /\ Above[n] = {n} \cup (IF Parent[n] = Root THEN {} ELSE Above[Parent[n]])
  BY TreeAssumption
<1> QED  BY <1>1 DEF Under

\* A tree is brought by one upload.
LEMMA OneUpload ==
    ASSUME NEW j \in Jobs, NEW n \in InWalk[j]
    PROVE  n \in Nodes /\ Above[n] \subseteq InWalk[j]
<1> DEFINE A == {m \in Nodes : \A k \in Jobs : m \in InWalk[k] => Above[m] \subseteq InWalk[k]}
<1>1. ASSUME NEW m \in Nodes, Parent[m] \in A \cup {Root} PROVE m \in A
  <2>1. SUFFICES ASSUME NEW k \in Jobs, m \in InWalk[k] PROVE Above[m] \subseteq InWalk[k]
    OBVIOUS
  <2>2. /\ Parent[m] \in InWalk[k] \cup {Root}
        /\ Above[m] = {m} \cup (IF Parent[m] = Root THEN {} ELSE Above[Parent[m]])
    BY <2>1, TreeAssumption
  <2> QED  BY <1>1, <2>1, <2>2, TreeAssumption
<1>2. Nodes \subseteq A
  <2> HIDE DEF A
  <2> QED  BY <1>1, NodeInduction
<1>3. n \in Nodes
  BY DEF Nodes
<1> QED  BY <1>2, <1>3

\* What lies under some nodes was brought by the upload of one of them.
LEMMA UnderSameUpload ==
    ASSUME NEW S, NEW j \in Jobs, NEW n \in InWalk[j], n \in Under(S)
    PROVE  S \cap InWalk[j] # {}
  BY OneUpload DEF Under

\* A row and that of its folder have one owner.
LEMMA ParentOwner ==
    ASSUME Owned, NEW n \in Rows, Parent[n] # Root
    PROVE  Parent[n] \in Rows /\ row[Parent[n]] = row[n]
<1>1. n \in Nodes /\ row[n] # Absent /\ Parent[n] \in Rows /\ row[Parent[n]] # Absent
  BY DEF Owned, Rows
<1>2. PICK j \in Jobs : n \in InWalk[j]
  BY <1>1 DEF Nodes
<1>3. Parent[n] \in InWalk[j]
  BY <1>2, TreeAssumption
<1> QED  BY <1>1, <1>2, <1>3 DEF Owned

\* A row's folders have rows with its owner, up to the root.
LEMMA RowsAbove ==
    ASSUME TypeOK, Owned, NEW n \in Rows
    PROVE  \A m \in Above[n] : /\ m \in Rows /\ row[m] = row[n]
                               /\ Parent[m] = Root \/ (Parent[m] \in Rows \cap Folder /\ row[Parent[m]] = row[n])
<1> DEFINE Fine(k) == \A m \in Above[k] : /\ m \in Rows /\ row[m] = row[k]
                                          /\ \/ Parent[m] = Root
                                             \/ Parent[m] \in Rows \cap Folder /\ row[Parent[m]] = row[k]
           A == {k \in Nodes : k \in Rows => Fine(k)}
<1>1. ASSUME NEW k \in Nodes, Parent[k] \in A \cup {Root} PROVE k \in A
  <2>1. SUFFICES ASSUME k \in Rows PROVE Fine(k)
    OBVIOUS
  <2>2. Above[k] = {k} \cup (IF Parent[k] = Root THEN {} ELSE Above[Parent[k]])
    BY TreeAssumption
  <2>3. CASE Parent[k] = Root
    BY <2>1, <2>2, <2>3
  <2>4. CASE Parent[k] # Root
    <3>1. Parent[k] \in Rows \cap Folder
      BY <2>1, <2>4, TreeAssumption DEF Owned
    <3>2. row[Parent[k]] = row[k]
      BY <2>1, <2>4, ParentOwner
    <3>3. Fine(Parent[k])
      BY <1>1, <2>4, <3>1
    <3> QED  BY <2>1, <2>2, <2>4, <3>1, <3>2, <3>3
  <2> QED  BY <2>3, <2>4
<1>2. Nodes \subseteq A
  <2> HIDE DEF A
  <2> QED  BY <1>1, NodeInduction
<1> QED  BY <1>2 DEF Rows

-----------------------------------------------------------------------------
(* Uploads *)

\* The node an upload is at is one it has yet to insert.
LEMMA NodeDue ==
    ASSUME TypeOK, NEW j \in Jobs
    PROVE  /\ at[j] \in 1..Len(Walk[j]) /\ at[j] \in Nat /\ Len(Walk[j]) \in Nat
           /\ node(j) \in InWalk[j] /\ node(j) \in Nodes
           /\ phase[j] \in Active => node(j) \in Due(j)
<1>1. Walk[j] \in Seq(Nodes) /\ at[j] \in 1..Len(Walk[j]) /\ at[j] \in Nat
  BY WalkAssumption DEF TypeOK
<1>2. Len(Walk[j]) \in Nat
  BY <1>1
<1>3. at[j] \in at[j]..Len(Walk[j])
  BY <1>1, <1>2
<1> QED  BY <1>1, <1>2, <1>3 DEF node, InWalk, Nodes, Due

\* An upload goes on with the same node, fails, or leaves the node behind.
LEMMA Moves ==
    ASSUME TypeOK, NEW j \in Jobs, phase[j] \in Active,
           \/ at' = at /\ (Goto(j, "create") \/ Goto(j, "insert") \/ Goto(j, "failed"))
           \/ NextNode(j)
    PROVE  /\ phase' \in [Jobs -> Phases]
           /\ at' \in [Jobs -> Nat] /\ \A k \in Jobs : at'[k] \in 1..Len(Walk[k])
           /\ \A k \in Jobs : Due(k)' \subseteq Due(k)
           /\ \A k \in Jobs : Past(k)' \subseteq Past(k) \cup {node(j)}
           /\ ~NextNode(j) => \A k \in Jobs : Past(k)' \subseteq Past(k)
           /\ NextNode(j) \/ Goto(j, "failed") => \A k \in Jobs : node(j) \notin Due(k)'
           /\ \A k \in Jobs \ {j} : phase'[k] = phase[k] /\ at'[k] = at[k]
<1>1. /\ phase \in [Jobs -> Phases] /\ at \in [Jobs -> Nat]
      /\ \A k \in Jobs : at[k] \in 1..Len(Walk[k]) /\ at[k] \in Nat /\ Len(Walk[k]) \in Nat
      /\ node(j) \in InWalk[j] /\ node(j) \in Due(j)
  BY NodeDue DEF TypeOK
<1>2. phase' \in [Jobs -> Phases] /\ \A k \in Jobs \ {j} : phase'[k] = phase[k] /\ at'[k] = at[k]
  BY <1>1 DEF NextNode, Goto, Phases
<1>3. at' \in [Jobs -> Nat] /\ \A k \in Jobs : at'[k] \in 1..Len(Walk[k])
  <2>1. CASE at' = at
    BY <1>1, <2>1
  <2>2. CASE at' = [at EXCEPT ![j] = @ + 1] /\ ~Last(j)
    BY <1>1, <2>2 DEF Last
  <2> QED  BY <2>1, <2>2 DEF NextNode
<1>4. \A k \in Jobs \ {j} : Due(k)' = Due(k) /\ Past(k)' = Past(k)
  BY <1>2 DEF Due, Past
<1>5. \A k \in Jobs \ {j} : node(j) \notin Due(k)'
  <2>1. \A k \in Jobs \ {j} : node(j) \notin InWalk[k]
    BY <1>1, WalkAssumption
  <2> QED  BY <1>3, <2>1 DEF Due, InWalk
<1>6. CASE at' = at /\ (Goto(j, "create") \/ Goto(j, "insert"))
  <2>1. phase'[j] \in {"create", "insert"}
    BY <1>1, <1>6 DEF Goto
  <2>2. Due(j)' = Due(j) /\ Past(j)' = Past(j) /\ ~Goto(j, "failed") /\ ~NextNode(j)
    BY <1>1, <1>6, <2>1 DEF Due, Past, Active, Goto, NextNode
  <2> QED  BY <1>2, <1>3, <1>4, <2>2
<1>7. CASE at' = at /\ Goto(j, "failed")
  <2>1. phase'[j] = "failed"
    BY <1>1, <1>7 DEF Goto
  <2>2. Due(j)' = {} /\ Past(j)' = {}
    BY <2>1 DEF Due, Past, Active
  <2> QED  BY <1>2, <1>3, <1>4, <1>5, <2>2
<1>8. CASE NextNode(j)
  <2>1. CASE Last(j)
    <3>1. phase'[j] = "done"
      BY <1>1, <1>8, <2>1 DEF NextNode, Goto
    <3>2. Due(j)' = {} /\ Past(j)' = InWalk[j]
      BY <3>1 DEF Due, Past, Active
    <3>3. Due(j) = {node(j)}
      <4>1. at[j]..Len(Walk[j]) = {at[j]}
        BY <1>1, <2>1 DEF Last
      <4> QED  BY <4>1 DEF Due, node
    <3>4. Past(j) = InWalk[j] \ {node(j)}
      BY <3>3 DEF Past, Active
    <3> QED  BY <1>2, <1>3, <1>4, <1>5, <1>8, <3>2, <3>4
  <2>2. CASE ~Last(j)
    <3>1. phase'[j] = "check" /\ at'[j] = at[j] + 1
      BY <1>1, <1>8, <2>2 DEF NextNode, Goto
    <3>2. Due(j)' = {Walk[j][i] : i \in at[j] + 1..Len(Walk[j])} /\ Due(j) = {Walk[j][i] : i \in at[j]..Len(Walk[j])}
      BY <3>1 DEF Due, Active
    <3>3. at[j]..Len(Walk[j]) = {at[j]} \cup (at[j] + 1..Len(Walk[j])) /\ at[j] \notin at[j] + 1..Len(Walk[j])
      BY <1>1
    <3>4. Due(j) = {node(j)} \cup Due(j)'
      BY <3>2, <3>3 DEF node
    <3>5. node(j) \notin Due(j)'
      <4>1. \A i \in at[j] + 1..Len(Walk[j]) : i \in 1..Len(Walk[j]) /\ i # at[j]
        BY <1>1
      <4> QED  BY <1>1, <3>2, <4>1, WalkAssumption DEF node
    <3>6. Past(j)' = Past(j) \cup {node(j)}
      <4>1. Past(j) = InWalk[j] \ Due(j) /\ Past(j)' = InWalk[j] \ Due(j)'
        BY <3>1 DEF Past, Active
      <4> QED  BY <1>1, <3>4, <3>5, <4>1
    <3> QED  BY <1>2, <1>3, <1>4, <1>5, <1>8, <3>4, <3>5, <3>6
  <2> QED  BY <2>1, <2>2
<1> QED  BY <1>6, <1>7, <1>8

\* A node that gets its row: what holds of the rows goes on to hold, above all that
\* nothing that was deleted comes back.
LEMMA RowAdded ==
    ASSUME LibraryInv, NEW j \in Jobs, phase[j] = "insert", Linked(node(j)), node(j) \notin nameless,
           row' = [row EXCEPT ![node(j)] = OwnerOf(j)], UNCHANGED <<old, request, empty>>
    PROVE  /\ (row \in [Nodes -> Owners \cup {Absent}])' /\ Rows' = Rows \cup {node(j)}
           /\ Owned' /\ Shaped' /\ DeletedIsGone'
<1>1. /\ TypeOK /\ Owned /\ Shaped /\ NotDue /\ DeletedIsGone
      /\ phase[j] \in Active
  BY DEF LibraryInv, Active
<1>2. /\ node(j) \in InWalk[j] /\ node(j) \in Nodes /\ node(j) \in Due(j)
      /\ Uploader[j] \in Owners /\ Uploader[j] # Absent
      /\ Parent[node(j)] \in Rows \cup {Root}
  BY <1>1, NodeDue, WalkAssumption, UserAssumption DEF Linked
<1>3. row \in [Nodes -> Owners \cup {Absent}]
  BY <1>1 DEF TypeOK
<1>4. PICK x : x = node(j) /\ row' = [row EXCEPT ![x] = Uploader[j]]
  BY DEF OwnerOf
<1>5. x \in InWalk[j] /\ x \in Nodes /\ x \in Due(j) /\ Parent[x] \in Rows \cup {Root}
  BY <1>2, <1>4
<1>6. /\ row' \in [Nodes -> Owners \cup {Absent}] /\ row'[x] = Uploader[j]
      /\ \A n \in Nodes \ {x} : row'[n] = row[n]
  BY <1>2, <1>3, <1>4, <1>5
<1>7. Rows' = Rows \cup {x}
  BY <1>2, <1>5, <1>6 DEF Rows
<1>8. Owned'
  <2>1. ASSUME NEW k \in Jobs, NEW n \in InWalk[k] PROVE row'[n] \in {Absent, Uploader[k]}
    <3>1. n \in Nodes
      BY DEF Nodes
    <3>2. CASE n = x
      <4>1. k = j
        BY <1>5, <3>2, WalkAssumption
      <4> QED  BY <1>6, <3>2, <4>1
    <3>3. CASE n # x
      BY <1>1, <1>6, <3>1, <3>3 DEF Owned
    <3> QED  BY <3>2, <3>3
  <2>2. \A n \in Rows' : Parent[n] \in Rows' \cup {Root}
    BY <1>1, <1>5, <1>7 DEF Owned
  <2>3. old' \subseteq Rows'
    BY <1>1, <1>7 DEF Owned
  <2> QED  BY <2>1, <2>2, <2>3 DEF Owned
<1>9. \A r \in Requests : x \notin Asked(r)
  BY <1>1, <1>5 DEF NotDue
<1>10. Shaped'
  BY <1>1, <1>7, <1>9 DEF Shaped, Asked, empty
<1>11. DeletedIsGone'
  <2>1. SUFFICES ASSUME NEW r \in Requests, request[r].step = "ok" PROVE Scope(r) \cap (Rows \cup {x}) = {}
    BY <1>1, <1>7 DEF DeletedIsGone, Scope, empty
  <2>2. Scope(r) \cap Rows = {}
    BY <1>1, <2>1 DEF DeletedIsGone
  <2>3. ASSUME x \in Under(request[r].folders) PROVE FALSE
    <3>1. x \notin request[r].folders
      BY <1>9 DEF Asked
    <3>2. Parent[x] # Root /\ Parent[x] \in Under(request[r].folders)
      BY <1>5, <2>3, <3>1, UnderSteps
    <3> QED  BY <1>5, <2>2, <3>2 DEF Scope
  <2> QED  BY <1>9, <2>2, <2>3 DEF Scope, Asked
<1> QED  BY <1>4, <1>6, <1>7, <1>8, <1>10, <1>11

\* The row of a folder without an id, if that is what is inserted, lies in a folder
\* that has a row or in itself, where no listing comes to it once its folder is gone.
LEMMA StoredStrays ==
    ASSUME LibraryInv, NEW j \in Jobs, phase[j] = "insert", Stored(j), UNCHANGED <<nameless, request>>
    PROVE  /\ nameless \cap Rows' = {}
           /\ blank' # Absent => blank' \in nameless' /\ Linked(blank)'
           /\ \A r \in Requests : request[r].step = "ok" /\ blank' \in Scope(r) => Parent[blank'] \in nameless
<1>1. TypeOK /\ NotDue /\ Strays /\ DeletedIsGone /\ phase[j] \in Active
  BY DEF LibraryInv, Active
<1>2. PICK x : x = node(j)
  OBVIOUS
<1>3. x \in Nodes /\ x \in Due(j) /\ Linked(x)
  BY <1>1, <1>2, NodeDue DEF Stored
<1>4. CASE x \notin nameless
  <2>1. row' = [row EXCEPT ![x] = OwnerOf(j)] /\ blank' = blank
    BY <1>2, <1>4 DEF Stored
  <2>2. row \in [Nodes -> Owners \cup {Absent}]
    BY <1>1 DEF TypeOK
  <2>3. Rows \subseteq Rows' \cup {x} /\ Rows' \subseteq Rows \cup {x}
    BY <2>1, <2>2 DEF Rows
  <2>4. x \notin Rows
    BY <1>1, <1>3 DEF NotDue
  <2>5. nameless \cap Rows' = {}
    BY <1>1, <1>4, <2>3 DEF Strays
  <2>6. Rows \subseteq Rows'
    BY <2>3, <2>4
  <2>7. ASSUME blank' # Absent PROVE blank' \in nameless' /\ Linked(blank)'
    <3>1. blank \in nameless /\ Parent[blank] \in Rows \cup {Root} \cup nameless
      BY <1>1, <2>1, <2>7 DEF Strays, Linked
    <3> QED  BY <2>1, <2>6, <3>1 DEF Linked
  <2> QED  BY <1>1, <2>1, <2>5, <2>7 DEF DeletedIsGone
<1>5. CASE x \in nameless
  <2>1. row' = row /\ blank' = x
    BY <1>2, <1>5 DEF Stored
  <2>2. Rows' = Rows
    BY <2>1 DEF Rows
  <2>3. Parent[x] \in Rows \cup {Root} \cup nameless
    BY <1>3 DEF Linked
  <2>4. ASSUME NEW r \in Requests, request[r].step = "ok", x \in Scope(r) PROVE Parent[x] \in nameless
    <3>1. x \notin request[r].files /\ x \notin request[r].folders
      BY <1>1, <1>3 DEF NotDue, Asked
    <3>2. Parent[x] # Root /\ Parent[x] \in Under(request[r].folders)
      BY <1>3, <2>4, <3>1, UnderSteps DEF Scope
    <3>3. Parent[x] \notin Rows
      BY <1>1, <2>4, <3>2 DEF DeletedIsGone, Scope
    <3> QED  BY <2>3, <3>2, <3>3
  <2>5. Linked(blank)'
    BY <1>5, <2>1, <2>2, <2>3 DEF Linked
  <2> QED  BY <1>1, <1>5, <2>1, <2>2, <2>4, <2>5 DEF Strays
<1> QED  BY <1>4, <1>5

\* An upload in which a folder got no id goes on into it, or fails.
LEMMA StraysStay ==
    ASSUME LibraryInv, NEW j \in Jobs, Upload(j)
    PROVE  /\ Strays'
           /\ \A r \in Requests : request[r].step = "ok" /\ blank' \in Scope(r) => Parent[blank'] \in nameless'
<1>1. /\ TypeOK /\ NotDue /\ Strays /\ DeletedIsGone
      /\ phase[j] \in Active /\ phase \in [Jobs -> Phases] /\ at \in [Jobs -> Nat]
  BY DEF LibraryInv, TypeOK, Upload, CheckParent, Create, CreateNameless, Insert, UploadFails, Active
<1>2. /\ node(j) \in InWalk[j] /\ node(j) \in Nodes /\ node(j) \in Due(j)
      /\ at[j] \in 1..Len(Walk[j]) /\ Len(Walk[j]) \in Nat
  BY <1>1, NodeDue
<1>3. request' = request /\ \A r \in Requests : Asked(r)' = Asked(r)
  BY DEF Upload, CheckParent, Create, CreateNameless, Insert, UploadFails, Asked
<1>4. \A k \in Jobs \ {j} : phase'[k] = phase[k] /\ at'[k] = at[k] /\ node(k)' = node(k)
  <2>1. at' = at \/ at' = [at EXCEPT ![j] = @ + 1]
    BY DEF Upload, CheckParent, Create, CreateNameless, Insert, UploadFails, NextNode
  <2>2. \A k \in Jobs \ {j} : phase'[k] = phase[k]
    BY <1>1 DEF Upload, CheckParent, Create, CreateNameless, Insert, UploadFails, NextNode, Goto
  <2> QED  BY <1>1, <2>1, <2>2 DEF node
<1>5. ASSUME nameless' = nameless \/ nameless' = nameless \cup {node(j)}, Astray(j)' \/ InWalk[j] \cap nameless' = {}
      PROVE  \A k \in Jobs : InWalk[k] \cap nameless' # {} => Astray(k)'
  <2>1. SUFFICES ASSUME NEW k \in Jobs \ {j}, InWalk[k] \cap nameless' # {} PROVE Astray(k)'
    BY <1>5
  <2>2. node(j) \notin InWalk[k]
    BY <1>2, WalkAssumption
  <2>3. Astray(k)
    BY <1>1, <1>5, <2>1, <2>2 DEF Strays
  <2> QED  BY <1>4, <1>5, <2>3 DEF Astray
<1>6. CASE CheckParent(j)
  <2>1. /\ UNCHANGED <<row, nameless, blank, at>> /\ phase[j] = "check" /\ phase'[j] \in {"create", "failed"}
    BY <1>1, <1>6 DEF CheckParent, Goto, empty
  <2>2. Rows' = Rows /\ node(j)' = node(j)
    BY <2>1 DEF Rows, node
  <2>3. Astray(j)' \/ InWalk[j] \cap nameless' = {}
    BY <1>1, <2>1, <2>2 DEF Strays, Astray
  <2> QED  BY <1>1, <1>3, <1>5, <2>1, <2>2, <2>3 DEF Strays, Linked, DeletedIsGone
<1>7. CASE Create(j)
  <2>1. /\ UNCHANGED <<row, nameless, blank, at>> /\ phase[j] = "create"
        /\ Parent[node(j)] \in (remote \ nameless) \cup {Root}
    BY <1>7 DEF Create, Possible, empty
  <2>2. Rows' = Rows
    BY <2>1 DEF Rows
  <2>3. ~Astray(j)
    BY <1>1, <2>1, TreeAssumption DEF Strays, Astray
  <2>4. InWalk[j] \cap nameless' = {}
    BY <1>1, <2>1, <2>3 DEF Strays
  <2> QED  BY <1>1, <1>3, <1>5, <2>1, <2>2, <2>4 DEF Strays, Linked, DeletedIsGone
<1>8. CASE CreateNameless(j)
  <2>1. /\ UNCHANGED <<row, blank, at>> /\ nameless' = nameless \cup {node(j)}
        /\ node(j) \in Folder /\ phase'[j] = "insert"
    BY <1>1, <1>8 DEF CreateNameless, Goto
  <2>2. Rows' = Rows /\ node(j)' = node(j)
    BY <2>1 DEF Rows, node
  <2>3. node(j) \notin Rows /\ \A r \in Requests : node(j) \notin Asked(r)
    BY <1>1, <1>2 DEF NotDue
  <2>4. Astray(j)'
    BY <2>1, <2>2 DEF Astray
  <2>5. blank' # Absent => blank' \in nameless' /\ Linked(blank)'
    BY <1>1, <2>1, <2>2 DEF Strays, Linked
  <2>6. \A k \in Jobs : InWalk[k] \cap nameless' # {} => Astray(k)'
    BY <1>5, <2>1, <2>4
  <2>7. nameless' \subseteq Nodes \cap Folder /\ nameless' \cap Rows' = {}
    BY <1>1, <1>2, <2>1, <2>2, <2>3 DEF Strays
  <2>8. \A r \in Requests : Asked(r)' \cap nameless' = {}
    BY <1>1, <1>3, <2>1, <2>3 DEF Strays
  <2>9. Strays'
    BY <2>5, <2>6, <2>7, <2>8 DEF Strays
  <2> QED  BY <1>1, <2>1, <2>9 DEF DeletedIsGone
<1>9. CASE Insert(j)
  <2>1. phase[j] = "insert" /\ Stored(j) /\ nameless' = nameless /\ NextNode(j)
    BY <1>9 DEF Insert
  <2>2. /\ nameless \cap Rows' = {}
        /\ blank' # Absent => blank' \in nameless' /\ Linked(blank)'
        /\ \A r \in Requests : request[r].step = "ok" /\ blank' \in Scope(r) => Parent[blank'] \in nameless
    BY <1>3, <2>1, StoredStrays
  <2>3. CASE node(j) \notin nameless
    <3>1. InWalk[j] \cap nameless' = {}
      BY <1>1, <2>1, <2>3 DEF Strays, Astray
    <3> QED  BY <1>1, <1>3, <1>5, <2>1, <2>2, <3>1 DEF Strays
  <2>4. CASE node(j) \in nameless
    <3>1. node(j) \in Folder /\ node(j) = Walk[j][at[j]]
      BY <1>1, <2>4 DEF Strays, node
    <3>2. at[j] < Len(Walk[j]) /\ Parent[Walk[j][at[j] + 1]] = node(j)
      BY <1>2, <3>1, WalkAssumption
    <3>3. phase'[j] = "check" /\ at'[j] = at[j] + 1
      BY <1>1, <1>2, <2>1, <3>2 DEF NextNode, Last, Goto
    <3>4. Astray(j)'
      BY <2>1, <2>4, <3>2, <3>3 DEF Astray, node
    <3> QED  BY <1>1, <1>3, <1>5, <2>1, <2>2, <3>4 DEF Strays
  <2> QED  BY <2>3, <2>4
<1>10. CASE UploadFails(j)
  <2>1. nameless' = nameless /\ Astray(j)'
    BY <1>1, <1>10 DEF UploadFails, Goto, Astray
  <2>2. CASE UNCHANGED <<row, blank>>
    <3>1. Rows' = Rows
      BY <2>2 DEF Rows
    <3> QED  BY <1>1, <1>3, <1>5, <2>1, <2>2, <3>1 DEF Strays, Linked, DeletedIsGone
  <2>3. CASE phase[j] = "insert" /\ Stored(j)
    <3>1. /\ nameless \cap Rows' = {}
          /\ blank' # Absent => blank' \in nameless' /\ Linked(blank)'
          /\ \A r \in Requests : request[r].step = "ok" /\ blank' \in Scope(r) => Parent[blank'] \in nameless
      BY <1>3, <2>1, <2>3, StoredStrays
    <3> QED  BY <1>1, <1>3, <1>5, <2>1, <3>1 DEF Strays
  <2> QED  BY <1>10, <2>2, <2>3 DEF UploadFails
<1> QED  BY <1>6, <1>7, <1>8, <1>9, <1>10 DEF Upload

\* What an upload must see to when it makes a step.
LEMMA UploadKeeps ==
    ASSUME LibraryInv, NEW j \in Jobs, UNCHANGED <<old, request>>,
           Strays', nameless \subseteq nameless', blank' \in Nodes \cup {Absent},
           \A r \in Requests : request[r].step = "ok" /\ blank' \in Scope(r) => Parent[blank'] \in nameless',
           \/ row' = row
           \/ /\ phase[j] = "insert" /\ Linked(node(j)) /\ row' = [row EXCEPT ![node(j)] = OwnerOf(j)]
              /\ node(j) \notin nameless /\ UNCHANGED empty /\ \A k \in Jobs : node(j) \notin Due(k)',
           remote' \in SUBSET Nodes, remote \subseteq remote',
           (phase \in [Jobs -> Phases])', (at \in [Jobs -> Nat] /\ \A k \in Jobs : at[k] \in 1..Len(Walk[k]))',
           \A k \in Jobs : Due(k)' \subseteq Due(k),
           \A k \in Jobs : \A n \in Past(k)' : n \in Past(k) \/ n \in Rows' \/ n \in nameless',
           \A k \in Jobs : phase'[k] = "insert" => node(k)' \in remote' \/ node(k)' \in nameless' \/ (phase[k] = "insert" /\ node(k)' = node(k))
    PROVE  LibraryInv'
<1>1. TypeOK /\ Owned /\ Shaped /\ Entitled /\ NotDue /\ Explained /\ Kept /\ DeletedIsGone /\ Strays
  BY DEF LibraryInv
<1>2. \A r \in Requests : Asked(r)' = Asked(r) /\ Scope(r)' = Scope(r) /\ request'[r] = request[r]
  BY DEF Asked, Scope
<1>3. /\ (row \in [Nodes -> Owners \cup {Absent}])' /\ Rows \subseteq Rows'
      /\ \A n \in Rows' : n \in Rows \/ (phase[j] = "insert" /\ n = node(j) /\ n \notin nameless /\ \A k \in Jobs : n \notin Due(k)')
      /\ Owned' /\ Shaped' /\ DeletedIsGone'
  <2>1. CASE row' = row
    <3>1. Rows' = Rows
      BY <2>1 DEF Rows
    <3>2. Shaped'
      BY <1>1, <1>2, <3>1 DEF Shaped
    <3>3. DeletedIsGone'
      BY <1>1, <1>2, <3>1 DEF DeletedIsGone
    <3> QED  BY <1>1, <2>1, <3>1, <3>2, <3>3 DEF TypeOK, Owned
  <2>2. CASE row' # row
    <3>1. /\ phase[j] = "insert" /\ Linked(node(j)) /\ row' = [row EXCEPT ![node(j)] = OwnerOf(j)]
          /\ node(j) \notin nameless /\ UNCHANGED empty /\ \A k \in Jobs : node(j) \notin Due(k)'
      BY <2>2
    <3>2. /\ (row \in [Nodes -> Owners \cup {Absent}])' /\ Rows' = Rows \cup {node(j)}
          /\ Owned' /\ Shaped' /\ DeletedIsGone'
      BY <3>1, RowAdded
    <3> QED  BY <3>1, <3>2
  <2> QED  BY <2>1, <2>2
<1>4. TypeOK'
  BY <1>1, <1>3 DEF TypeOK, Strays
<1>5. Entitled'
  BY <1>1, <1>2 DEF Entitled
<1>6. NotDue'
  <2>1. ASSUME NEW k \in Jobs PROVE Due(k)' \cap Rows' = {}
    BY <1>1, <1>3 DEF NotDue
  <2>2. ASSUME NEW k \in Jobs, NEW r \in Requests PROVE Due(k)' \cap Asked(r)' = {}
    BY <1>1, <1>2 DEF NotDue
  <2> QED  BY <2>1, <2>2 DEF NotDue
<1>7. Explained'
  <2>1. SUFFICES ASSUME NEW n \in Nodes, n \notin remote',
                        n \in Rows' \/ (n \notin nameless' /\ \E k \in Jobs : phase'[k] = "insert" /\ n = node(k)')
                 PROVE  \E r \in Requests : n \in Scope(r)
    BY <1>2 DEF Explained
  <2>2. n \in Rows \/ (n \notin nameless /\ \E k \in Jobs : phase[k] = "insert" /\ n = node(k))
    <3>1. CASE n \in Rows'
      BY <1>3, <3>1
    <3>2. CASE n \notin Rows'
      <4>1. PICK k \in Jobs : phase'[k] = "insert" /\ n = node(k)'
        BY <2>1, <3>2
      <4>2. phase[k] = "insert" /\ node(k)' = node(k) /\ n \notin nameless
        BY <2>1, <3>2, <4>1
      <4> QED  BY <4>1, <4>2
    <3> QED  BY <3>1, <3>2
  <2> QED  BY <1>1, <2>1, <2>2 DEF Explained
<1>8. Kept'
  <2>1. SUFFICES ASSUME NEW k \in Jobs, NEW n \in Past(k)', n \notin Rows' \cup nameless'
                 PROVE  \E r \in Requests : n \in Scope(r) /\ request[r].step \in Over
    BY <1>2 DEF Kept
  <2>2. n \in Past(k) \ (Rows \cup nameless)
    BY <1>3, <2>1
  <2> QED  BY <1>1, <2>2 DEF Kept
<1> QED  BY <1>3, <1>4, <1>5, <1>6, <1>7, <1>8 DEF LibraryInv

\* SendTorrentToServer, createFolder, uploadFile, with every call that may fail.
LEMMA UploadSteps ==
    ASSUME LibraryInv, NEW j \in Jobs, Upload(j)
    PROVE  LibraryInv'
<1>1. /\ TypeOK /\ phase[j] \in Active /\ UNCHANGED <<old, request>>
      /\ node(j) \in Nodes /\ phase \in [Jobs -> Phases] /\ at \in [Jobs -> Nat] /\ remote \subseteq Nodes
  <2>1. TypeOK
    BY DEF LibraryInv
  <2>2. phase[j] \in Active /\ UNCHANGED <<old, request>>
    BY DEF Upload, CheckParent, Create, CreateNameless, Insert, UploadFails, Active
  <2> QED  BY <2>1, <2>2, NodeDue DEF TypeOK
<1>2. /\ phase[j] \in {"check", "create"} => row' = row
      /\ row' = row \/ /\ phase[j] = "insert" /\ Linked(node(j)) /\ row' = [row EXCEPT ![node(j)] = OwnerOf(j)]
                       /\ node(j) \notin nameless /\ UNCHANGED empty
      /\ remote' \in SUBSET Nodes /\ remote \subseteq remote' /\ nameless \subseteq nameless'
      /\ phase[j] = "insert" => nameless' = nameless
  BY <1>1 DEF Upload, CheckParent, Create, CreateNameless, Insert, UploadFails, Stored, empty
<1>3. /\ Strays' /\ \A r \in Requests : request[r].step = "ok" /\ blank' \in Scope(r) => Parent[blank'] \in nameless'
      /\ blank' \in Nodes \cup {Absent}
  <2>1. Strays' /\ \A r \in Requests : request[r].step = "ok" /\ blank' \in Scope(r) => Parent[blank'] \in nameless'
    BY StraysStay
  <2> QED  BY <2>1 DEF Strays
<1>4. CASE CheckParent(j) \/ Create(j) \/ CreateNameless(j)
  <2>1. /\ at' = at /\ (Goto(j, "create") \/ Goto(j, "insert") \/ Goto(j, "failed"))
        /\ ~NextNode(j) /\ row' = row
        /\ phase'[j] = "insert" => node(j) \in remote' \/ node(j) \in nameless'
    BY <1>1, <1>4 DEF CheckParent, Create, CreateNameless, NextNode, Goto
  <2>2. /\ (phase \in [Jobs -> Phases])' /\ (at \in [Jobs -> Nat] /\ \A k \in Jobs : at[k] \in 1..Len(Walk[k]))'
        /\ \A k \in Jobs : Due(k)' \subseteq Due(k)
        /\ \A k \in Jobs : Past(k)' \subseteq Past(k)
        /\ \A k \in Jobs \ {j} : phase'[k] = phase[k]
    BY <1>1, <2>1, Moves
  <2>3. \A k \in Jobs : node(k)' = node(k)
    BY <2>1 DEF node
  <2> QED  BY <1>1, <1>2, <1>3, <2>1, <2>2, <2>3, UploadKeeps
<1>5. CASE Insert(j)
  <2>1. NextNode(j) /\ phase[j] = "insert" /\ nameless' = nameless
    BY <1>5 DEF Insert
  <2>2. /\ (phase \in [Jobs -> Phases])' /\ (at \in [Jobs -> Nat] /\ \A k \in Jobs : at[k] \in 1..Len(Walk[k]))'
        /\ \A k \in Jobs : Due(k)' \subseteq Due(k)
        /\ \A k \in Jobs : Past(k)' \subseteq Past(k) \cup {node(j)}
        /\ \A k \in Jobs : node(j) \notin Due(k)'
        /\ \A k \in Jobs \ {j} : phase'[k] = phase[k] /\ at'[k] = at[k]
    BY <1>1, <2>1, Moves
  <2>3. node(j) \in Rows' \/ node(j) \in nameless
    <3>1. CASE node(j) \notin nameless
      <4>1. Linked(node(j)) /\ row' = [row EXCEPT ![node(j)] = OwnerOf(j)] /\ UNCHANGED empty
        BY <1>5, <3>1 DEF Insert, Stored, empty
      <4> QED  BY <1>1, <2>1, <3>1, <4>1, RowAdded
    <3> QED  BY <3>1
  <2>4. \A k \in Jobs : phase'[k] = "insert" => phase[k] = "insert" /\ node(k)' = node(k)
    <3>1. phase'[j] \in {"done", "check"}
      BY <1>1, <2>1 DEF NextNode, Goto
    <3> QED  BY <2>2, <3>1 DEF node
  <2> QED  BY <1>1, <1>2, <1>3, <2>1, <2>2, <2>3, <2>4, UploadKeeps
<1>6. CASE UploadFails(j)
  <2>1. at' = at /\ Goto(j, "failed") /\ phase'[j] = "failed" /\ ~NextNode(j)
    BY <1>1, <1>6 DEF UploadFails, Goto, NextNode
  <2>2. /\ (phase \in [Jobs -> Phases])' /\ (at \in [Jobs -> Nat] /\ \A k \in Jobs : at[k] \in 1..Len(Walk[k]))'
        /\ \A k \in Jobs : Due(k)' \subseteq Due(k)
        /\ \A k \in Jobs : Past(k)' \subseteq Past(k)
        /\ \A k \in Jobs : node(j) \notin Due(k)'
        /\ \A k \in Jobs \ {j} : phase'[k] = phase[k]
    BY <1>1, <2>1, Moves
  <2>3. \A k \in Jobs : phase'[k] = "insert" => phase[k] = "insert" /\ node(k)' = node(k)
    BY <2>1, <2>2 DEF node
  <2> QED  BY <1>1, <1>2, <1>3, <2>2, <2>3, UploadKeeps
<1> QED  BY <1>4, <1>5, <1>6 DEF Upload

-----------------------------------------------------------------------------
(* Requests *)

Request == [step : Steps, user : Owners, files : SUBSET Nodes, folders : SUBSET Nodes,
            todo : SUBSET Nodes, subtree : SUBSET Nodes]

\* What a step of a request must see to, but for the commit.
LEMMA RequestKeeps ==
    ASSUME LibraryInv, NEW r \in Requests, request[r].step \notin Over,
           NEW q \in Request, Becomes(r, q), q.step \notin {"idle", "ok"},
           UNCHANGED <<row, empty, old, uploads>>, remote' \subseteq remote,
           \A n \in remote \ remote' : n \in q.files \cup Under(q.folders),
           request[r].files \subseteq q.files, request[r].folders \subseteq q.folders,
           q.files \cap Folder = {}, q.folders \cup q.todo \subseteq Folder,
           q.subtree \subseteq (Folder \cap Under(q.folders)) \cup nameless,
           nameless \cap (q.files \cup q.folders \cup q.todo) = {},
           q.step = "readFolders" => q.folders = {} /\ q.todo = {},
           q.step = "commit" => q.folders \cap Rows \subseteq q.subtree,
           q.step # "error" => \A j \in Jobs : \A n \in (q.files \cup q.folders \cup q.todo) \cap InWalk[j] :
                                                  q.user \in {Admin, Uploader[j]},
           \A j \in Jobs : Due(j) \cap (q.files \cup q.folders \cup q.todo) = {}
    PROVE  LibraryInv'
<1>1. TypeOK /\ Owned /\ Shaped /\ Entitled /\ NotDue /\ Explained /\ Kept /\ DeletedIsGone /\ Strays
  BY DEF LibraryInv
<1>2. /\ request' \in [Requests -> Request] /\ request'[r] = q
      /\ \A s \in Requests \ {r} : request'[s] = request[s]
  BY <1>1 DEF Becomes, TypeOK, Request
<1>3. Rows' = Rows /\ UNCHANGED <<row, old, at, phase, nameless, blank>>
  BY DEF Rows, uploads, empty
<1>4. /\ \A j \in Jobs : Due(j)' = Due(j) /\ Past(j)' = Past(j) /\ node(j)' = node(j)
      /\ \A s \in Requests \ {r} : Asked(s)' = Asked(s) /\ Scope(s)' = Scope(s)
      /\ Asked(r)' = q.files \cup q.folders \cup q.todo
      /\ Scope(r)' = q.files \cup Under(q.folders)
  BY <1>2, <1>3 DEF Due, Past, Asked, Scope, node
<1>5. Scope(r) \subseteq Scope(r)'
  BY <1>4 DEF Scope, Under
<1>6. TypeOK'
  BY <1>1, <1>2, <1>3 DEF TypeOK, Request
<1>7. Owned'
  BY <1>1, <1>3 DEF Owned
<1>8. Shaped'
  <2>1. SUFFICES ASSUME NEW s \in Requests
        PROVE LET p == request'[s] IN
              /\ p.files \cap Folder = {} /\ p.folders \cup p.todo \subseteq Folder
              /\ p.subtree \subseteq (Folder \cap Under(p.folders)) \cup nameless
              /\ p.step \in {"idle", "readFolders"} => p.folders = {} /\ p.todo = {}
              /\ p.step = "idle" => p.files = {}
              /\ p.step = "commit" => p.folders \cap Rows \subseteq p.subtree
    BY <1>3 DEF Shaped
  <2>2. CASE s = r
    BY <1>2, <2>2
  <2>3. CASE s # r
    BY <1>1, <1>2, <2>3 DEF Shaped
  <2> QED  BY <2>2, <2>3
<1>9. Entitled'
  <2>1. SUFFICES ASSUME NEW s \in Requests, NEW j \in Jobs, request'[s].step \notin Over,
                        NEW n \in Asked(s)' \cap InWalk[j]
                 PROVE  request'[s].user \in {Admin, Uploader[j]}
    BY DEF Entitled
  <2>2. CASE s = r
    BY <1>2, <1>4, <2>1, <2>2 DEF Over
  <2>3. CASE s # r
    BY <1>1, <1>2, <1>4, <2>1, <2>3 DEF Entitled
  <2> QED  BY <2>2, <2>3
<1>10. NotDue'
  BY <1>1, <1>3, <1>4 DEF NotDue
<1>11. Explained'
  <2>1. SUFFICES ASSUME NEW n \in Nodes, n \notin remote',
                        n \in Rows \/ (n \notin nameless /\ \E j \in Jobs : phase[j] = "insert" /\ n = node(j))
                 PROVE  \E s \in Requests : n \in Scope(s)'
    BY <1>3, <1>4 DEF Explained
  <2>2. CASE n \in remote
    BY <1>4, <2>1, <2>2
  <2>3. CASE n \notin remote
    <3>1. PICK s \in Requests : n \in Scope(s)
      BY <1>1, <2>1, <2>3 DEF Explained
    <3> QED  BY <1>4, <1>5, <3>1
  <2> QED  BY <2>2, <2>3
<1>12. Kept'
  <2>1. SUFFICES ASSUME NEW j \in Jobs, NEW n \in Past(j) \ (Rows \cup nameless)
                 PROVE  \E s \in Requests : n \in Scope(s)' /\ request'[s].step \in Over
    BY <1>3, <1>4 DEF Kept
  <2>2. PICK s \in Requests : n \in Scope(s) /\ request[s].step \in Over
    BY <1>1, <2>1 DEF Kept
  <2>3. s # r
    BY <2>2
  <2> QED  BY <1>2, <1>4, <2>2, <2>3
<1>13. DeletedIsGone'
  <2>1. SUFFICES ASSUME NEW s \in Requests, request'[s].step = "ok"
                 PROVE  Scope(s)' \cap Rows = {} /\ (blank \in Scope(s)' => Parent[blank] \in nameless)
    BY <1>3 DEF DeletedIsGone
  <2>2. s # r
    BY <1>2, <2>1
  <2> QED  BY <1>1, <1>2, <1>4, <2>1, <2>2 DEF DeletedIsGone
<1>14. Strays'
  <2>1. \A s \in Requests : Asked(s)' \cap nameless = {}
    BY <1>1, <1>4 DEF Strays
  <2>2. \A j \in Jobs : Astray(j)' = Astray(j)
    BY <1>3, <1>4 DEF Astray
  <2> QED  BY <1>1, <1>3, <2>1, <2>2 DEF Strays, Linked
<1> QED  BY <1>6, <1>7, <1>8, <1>9, <1>10, <1>11, <1>12, <1>13, <1>14 DEF LibraryInv

\* Rows that a user may delete are rows of that user's uploads, and inserted for good.
LEMMA Permission ==
    ASSUME LibraryInv, NEW u \in Users, NEW n \in Rows, Permitted(u, n)
    PROVE  /\ \A j \in Jobs : n \in InWalk[j] => u \in {Admin, Uploader[j]}
           /\ \A j \in Jobs : n \notin Due(j)
<1>1. /\ row[n] # Absent /\ \A j \in Jobs : n \in InWalk[j] => row[n] = Uploader[j]
      /\ \A j \in Jobs : n \notin Due(j)
  BY DEF LibraryInv, Owned, Rows, NotDue
<1> QED  BY <1>1 DEF Permitted

\* A request is asked: its scope is what its user may delete.
LEMMA AskSteps ==
    ASSUME LibraryInv, NEW r \in Requests, NEW u \in Users,
           AskStale(r, u) \/ \E n \in Nodes : AskDelete(r, u, n)
    PROVE  LibraryInv'
<1>1. /\ request[r] \in Request /\ request[r].step = "idle" /\ UNCHANGED <<row, empty, old, remote, uploads>>
      /\ request[r].files = {} /\ request[r].folders = {} /\ request[r].todo = {}
      /\ request[r].subtree \subseteq nameless /\ u \in Owners /\ nameless \cap Rows = {}
  <2>1. request[r].step = "idle" /\ UNCHANGED <<row, empty, old, remote, uploads>>
    BY DEF AskStale, AskDelete, store
  <2>2. /\ request[r] \in Request /\ u \in Owners /\ nameless \cap Rows = {}
        /\ request[r].files = {} /\ request[r].folders = {} /\ request[r].todo = {}
        /\ request[r].subtree \subseteq (Folder \cap Under(request[r].folders)) \cup nameless
    BY <2>1 DEF LibraryInv, TypeOK, Shaped, Strays, Request, Owners
  <2>3. Under(request[r].folders) = {}
    BY <2>2 DEF Under
  <2> QED  BY <2>1, <2>2, <2>3
<1>2. CASE AskStale(r, u)
  <2>1. PICK q : q = [request[r] EXCEPT !.user = u, !.files = Stale(u) \ Folder, !.step = "readFolders"]
                 /\ Becomes(r, q)
    BY <1>2 DEF AskStale
  <2>2. Stale(u) \subseteq Rows /\ Rows \subseteq Nodes /\ \A n \in Stale(u) : Permitted(u, n)
    BY DEF Stale, LibraryInv, Owned, Rows
  <2>3. /\ q \in Request /\ q.step = "readFolders" /\ q.user = u /\ q.files = Stale(u) \ Folder
        /\ q.folders = {} /\ q.todo = {} /\ q.subtree = request[r].subtree
    BY <1>1, <2>1, <2>2 DEF Request, Steps
  <2>4. /\ \A j \in Jobs : \A n \in q.files \cap InWalk[j] : u \in {Admin, Uploader[j]}
        /\ \A j \in Jobs : Due(j) \cap q.files = {}
    BY <2>2, <2>3, Permission
  <2>5. /\ q.files \cup q.folders \cup q.todo = q.files /\ q.files \cap Folder = {}
        /\ q.subtree \subseteq nameless /\ nameless \cap q.files = {}
        /\ request[r].files \subseteq q.files /\ request[r].folders \subseteq q.folders
        /\ request[r].step \notin Over /\ remote \ remote' = {}
    BY <1>1, <2>2, <2>3 DEF Over
  <2> QED  BY <1>1, <2>1, <2>3, <2>4, <2>5, RequestKeeps
<1>3. ASSUME NEW n \in Nodes, AskDelete(r, u, n)
      PROVE  LibraryInv'
  <2>1. PICK q : /\ q = IF n \notin Folder
                        THEN [request[r] EXCEPT !.user = u, !.files = {n}, !.step = "remoteFiles"]
                        ELSE IF u = Admin
                        THEN [request[r] EXCEPT !.user = u, !.folders = {n}, !.step = "remoteFiles"]
                        ELSE [request[r] EXCEPT !.user = u, !.todo = {n}, !.step = "checkOwner"]
                 /\ Becomes(r, q)
    BY <1>3 DEF AskDelete
  <2>2. n \in Rows /\ Permitted(u, n)
    BY <1>3 DEF AskDelete
  <2>3. /\ q \in Request /\ q.step \in {"remoteFiles", "checkOwner"} /\ q.user = u
        /\ q.subtree = request[r].subtree
        /\ q.files \cap Folder = {} /\ q.folders \cup q.todo \subseteq Folder
        /\ q.files \cup q.folders \cup q.todo = {n}
    <3>1. CASE n \notin Folder
      BY <1>1, <1>3, <2>1, <3>1 DEF Request, Steps
    <3>2. CASE n \in Folder /\ u = Admin
      BY <1>1, <1>3, <2>1, <3>2 DEF Request, Steps
    <3>3. CASE n \in Folder /\ u # Admin
      BY <1>1, <1>3, <2>1, <3>3 DEF Request, Steps
    <3> QED  BY <3>1, <3>2, <3>3
  <2>4. /\ \A j \in Jobs : n \in InWalk[j] => u \in {Admin, Uploader[j]}
        /\ \A j \in Jobs : n \notin Due(j)
    BY <2>2, Permission
  <2>5. q.subtree \subseteq nameless /\ nameless \cap (q.files \cup q.folders \cup q.todo) = {}
    BY <1>1, <2>2, <2>3
  <2>6. /\ request[r].files \subseteq q.files /\ request[r].folders \subseteq q.folders
        /\ request[r].step \notin Over /\ remote \ remote' = {}
        /\ \A j \in Jobs : \A m \in (q.files \cup q.folders \cup q.todo) \cap InWalk[j] : q.user \in {Admin, Uploader[j]}
        /\ \A j \in Jobs : Due(j) \cap (q.files \cup q.folders \cup q.todo) = {}
    BY <1>1, <2>3, <2>4 DEF Over
  <2>7. q.step \notin {"idle", "ok"} /\ q.step # "readFolders" /\ q.step # "commit"
    BY <2>3
  <2>8. remote' \subseteq remote /\ \A m \in remote \ remote' : m \in q.files \cup Under(q.folders)
    BY <1>1
  <2>9. Becomes(r, q) /\ q \in Request /\ q.files \cap Folder = {} /\ q.folders \cup q.todo \subseteq Folder
    BY <2>1, <2>3
  <2>10. UNCHANGED <<row, empty, old, uploads>>
    BY <1>1
  <2> QED  BY <2>5, <2>6, <2>7, <2>8, <2>9, <2>10, RequestKeeps
<1> QED  BY <1>2, <1>3

\* Its reads, its calls to the remote store and its errors.
LEMMA WorkSteps ==
    ASSUME LibraryInv, NEW r \in Requests,
           \/ ReadFolders(r) \/ CheckOwner(r) \/ RemoteFiles(r) \/ RemoteFolders(r)
           \/ Snapshot(r) \/ RequestFails(r)
    PROVE  LibraryInv'
<1>1. /\ request[r] \in Request /\ remote \subseteq Nodes
      /\ request[r].files \cap Folder = {} /\ request[r].folders \cup request[r].todo \subseteq Folder
      /\ request[r].subtree \subseteq (Folder \cap Under(request[r].folders)) \cup nameless
      /\ request[r].step = "readFolders" => request[r].folders = {} /\ request[r].todo = {}
  BY DEF LibraryInv, TypeOK, Shaped, Request
<1>2. UNCHANGED <<row, empty, old, uploads>> /\ request[r].step \notin Over
  BY DEF ReadFolders, CheckOwner, RemoteFiles, RemoteFolders, Snapshot, RequestFails, store, Over
<1>3. /\ \A j \in Jobs : \A n \in (request[r].files \cup request[r].folders \cup request[r].todo) \cap InWalk[j] :
             request[r].user \in {Admin, Uploader[j]}
      /\ \A j \in Jobs : Due(j) \cap (request[r].files \cup request[r].folders \cup request[r].todo) = {}
      /\ nameless \cap (request[r].files \cup request[r].folders \cup request[r].todo) = {}
      /\ nameless \cap Rows = {}
  BY <1>2 DEF LibraryInv, Entitled, NotDue, Asked, Strays
<1>4. CASE RequestFails(r)
  <2>1. PICK q : q = [request[r] EXCEPT !.step = "error", !.user = Nobody, !.todo = {}, !.subtree = {}]
                 /\ Becomes(r, q)
    BY <1>4 DEF RequestFails, Answer
  <2>2. UNCHANGED <<row, empty, old, remote, uploads>>
    BY <1>4 DEF RequestFails, store
  <2>3. /\ q \in Request /\ q.step = "error" /\ q.files = request[r].files
        /\ q.folders = request[r].folders /\ q.todo = {} /\ q.subtree = {}
    BY <1>1, <2>1 DEF Request, Steps, Owners
  <2>4. /\ request[r].files \subseteq q.files /\ request[r].folders \subseteq q.folders /\ remote \ remote' = {}
        /\ q.subtree \subseteq (Folder \cap Under(q.folders)) \cup nameless
        /\ \A j \in Jobs : Due(j) \cap (q.files \cup q.folders \cup q.todo) = {}
        /\ nameless \cap (q.files \cup q.folders \cup q.todo) = {}
        /\ q.folders \cup q.todo \subseteq Folder /\ q.files \cap Folder = {}
    BY <1>1, <1>3, <2>2, <2>3
  <2> QED  BY <1>2, <2>1, <2>2, <2>3, <2>4, RequestKeeps
<1>5. CASE ReadFolders(r)
  <2>1. PICK u, found : u = request[r].user /\ found = Stale(u) \cap Folder
    OBVIOUS
  <2>2. PICK q : /\ q = IF u = Admin
                        THEN [request[r] EXCEPT !.folders = found, !.step = "remoteFiles"]
                        ELSE [request[r] EXCEPT !.todo = found, !.step = "checkOwner"]
                 /\ Becomes(r, q)
    BY <1>5, <2>1 DEF ReadFolders
  <2>3. request[r].step = "readFolders" /\ UNCHANGED <<row, empty, old, remote, uploads>>
    BY <1>5 DEF ReadFolders, store
  <2>4. found \subseteq Rows /\ found \subseteq Folder /\ Rows \subseteq Nodes /\ \A n \in found : Permitted(u, n)
    BY <2>1 DEF Stale, LibraryInv, Owned, Rows
  <2>5. /\ \A n \in found : \A j \in Jobs : n \in InWalk[j] => u \in {Admin, Uploader[j]}
        /\ \A n \in found : \A j \in Jobs : n \notin Due(j)
    BY <2>4 DEF LibraryInv, Owned, Rows, NotDue, Permitted
  <2>6. /\ q \in Request /\ q.step \in {"remoteFiles", "checkOwner"} /\ q.user = u
        /\ q.files = request[r].files /\ q.subtree = request[r].subtree
        /\ q.folders \cup q.todo = found
    <3>1. found \in SUBSET Nodes /\ request[r].folders = {} /\ request[r].todo = {} /\ request[r].user = u
      BY <1>1, <2>1, <2>3, <2>4
    <3>2. CASE u = Admin
      <4>1. q = [request[r] EXCEPT !.folders = found, !.step = "remoteFiles"]
        BY <2>2, <3>2
      <4> QED  BY <1>1, <3>1, <4>1 DEF Request, Steps
    <3>3. CASE u # Admin
      <4>1. q = [request[r] EXCEPT !.todo = found, !.step = "checkOwner"]
        BY <2>2, <3>3
      <4> QED  BY <1>1, <3>1, <4>1 DEF Request, Steps
    <3> QED  BY <3>2, <3>3
  <2>7. q.subtree \subseteq (Folder \cap Under(q.folders)) \cup nameless /\ request[r].folders \subseteq q.folders
    BY <1>1, <2>3, <2>6 DEF Under
  <2>8. /\ \A j \in Jobs : \A n \in (q.files \cup q.folders \cup q.todo) \cap InWalk[j] : q.user \in {Admin, Uploader[j]}
        /\ \A j \in Jobs : Due(j) \cap (q.files \cup q.folders \cup q.todo) = {}
    BY <1>3, <2>1, <2>5, <2>6
  <2>9. /\ q.folders \cup q.todo \subseteq Folder /\ q.files \cap Folder = {} /\ remote \ remote' = {}
        /\ request[r].files \subseteq q.files /\ nameless \cap (q.files \cup q.folders \cup q.todo) = {}
    BY <1>1, <1>3, <2>3, <2>4, <2>6
  <2>10. q.step \notin {"idle", "ok"} /\ q.step # "readFolders" /\ q.step # "commit"
    BY <2>6
  <2>11. remote' \subseteq remote /\ \A n \in remote \ remote' : n \in q.files \cup Under(q.folders)
    BY <2>3
  <2>12. Becomes(r, q) /\ q \in Request
    BY <2>2, <2>6
  <2> QED  BY <1>2, <2>7, <2>8, <2>9, <2>10, <2>11, <2>12, RequestKeeps
<1>6. CASE CheckOwner(r)
  <2>1. request[r].step = "checkOwner" /\ UNCHANGED <<row, empty, old, remote, uploads>>
    BY <1>6 DEF CheckOwner, store
  <2>2. CASE request[r].todo = {}
    <3>1. PICK q : q = [request[r] EXCEPT !.step = "remoteFiles"] /\ Becomes(r, q)
      BY <1>6, <2>2 DEF CheckOwner
    <3>2. /\ q \in Request /\ q.step = "remoteFiles" /\ q.user = request[r].user /\ q.files = request[r].files
          /\ q.folders = request[r].folders /\ q.todo = request[r].todo /\ q.subtree = request[r].subtree
      BY <1>1, <3>1 DEF Request, Steps
    <3> QED  BY <1>1, <1>2, <1>3, <2>1, <3>1, <3>2, RequestKeeps
  <2>3. CASE request[r].todo # {}
    <3>1. PICK n \in request[r].todo : \E owned \in {{n}, {}} :
             Becomes(r, [request[r] EXCEPT !.todo = @ \ {n}, !.folders = @ \cup owned])
      BY <1>6, <2>3 DEF CheckOwner
    <3>2. PICK owned \in {{n}, {}} :
             Becomes(r, [request[r] EXCEPT !.todo = @ \ {n}, !.folders = @ \cup owned])
      BY <3>1
    <3> DEFINE q == [request[r] EXCEPT !.todo = @ \ {n}, !.folders = @ \cup owned]
    <3>3. /\ q.step = "checkOwner" /\ q.user = request[r].user /\ q.files = request[r].files
          /\ q.folders = request[r].folders \cup owned /\ q.todo = request[r].todo \ {n}
          /\ q.subtree = request[r].subtree
      BY <1>1, <2>1, <3>2 DEF Request
    <3>4. q \in Request
      BY <1>1, <3>2 DEF Request
    <3>9. Becomes(r, q)
      BY <3>2
    <3> HIDE DEF q
    <3>5. q.subtree \subseteq (Folder \cap Under(q.folders)) \cup nameless
      BY <1>1, <3>3 DEF Under
    <3>6. q.files \cup q.folders \cup q.todo \subseteq request[r].files \cup request[r].folders \cup request[r].todo
      BY <3>2, <3>3
    <3>7. q.folders \cup q.todo \subseteq Folder
      BY <1>1, <3>2, <3>3
    <3>8. /\ \A j \in Jobs : \A m \in (q.files \cup q.folders \cup q.todo) \cap InWalk[j] : q.user \in {Admin, Uploader[j]}
          /\ \A j \in Jobs : Due(j) \cap (q.files \cup q.folders \cup q.todo) = {}
          /\ nameless \cap (q.files \cup q.folders \cup q.todo) = {}
      BY <1>3, <3>3, <3>6
    <3> QED  BY <1>1, <1>2, <2>1, <3>3, <3>4, <3>5, <3>7, <3>8, <3>9, RequestKeeps
  <2> QED  BY <2>2, <2>3
<1>7. CASE RemoteFiles(r) \/ RemoteFolders(r)
  <2>1. PICK q : /\ \/ RemoteFiles(r) /\ q = [request[r] EXCEPT !.step = "remoteFolders"]
                    \/ RemoteFolders(r) /\ q = [request[r] EXCEPT !.step = "snapshot"]
                 /\ Becomes(r, q)
    BY <1>7 DEF RemoteFiles, RemoteFolders
  <2>2. /\ q \in Request /\ q.step \in {"remoteFolders", "snapshot"} /\ q.user = request[r].user
        /\ q.files = request[r].files /\ q.folders = request[r].folders /\ q.todo = request[r].todo
        /\ q.subtree = request[r].subtree
    BY <1>1, <2>1 DEF Request, Steps
  <2>3. UNCHANGED <<row, empty, old, uploads>> /\ remote' \subseteq remote
    BY <1>7 DEF RemoteFiles, RemoteFolders
  <2>4. \A n \in remote \ remote' : n \in request[r].files \cup Under(request[r].folders)
    BY <1>7 DEF RemoteFiles, RemoteFolders, Under
  <2> QED  BY <1>1, <1>2, <1>3, <2>1, <2>2, <2>3, <2>4, RequestKeeps
<1>8. CASE Snapshot(r)
  <2>1. PICK found : found = Rows \cap Folder \cap Under(request[r].folders)
    OBVIOUS
  <2>2. PICK S \in SUBSET ({blank} \ {Absent}) :
           Becomes(r, [request[r] EXCEPT !.subtree = found \cup S, !.step = "commit"])
    BY <1>8, <2>1 DEF Snapshot
  <2>3. PICK q : q = [request[r] EXCEPT !.subtree = found \cup S, !.step = "commit"] /\ Becomes(r, q)
    BY <2>2
  <2>4. UNCHANGED <<row, empty, old, remote, uploads>>
    BY <1>8 DEF Snapshot, store
  <2>5. S \subseteq nameless /\ S \subseteq Nodes /\ found \subseteq Nodes
    BY <2>1, <2>2 DEF LibraryInv, Strays, Rows
  <2>6. /\ q \in Request /\ q.step = "commit" /\ q.user = request[r].user
        /\ q.files = request[r].files /\ q.folders = request[r].folders /\ q.todo = request[r].todo
        /\ q.subtree = found \cup S
    BY <1>1, <2>3, <2>5 DEF Request, Steps
  <2>7. q.folders \cap Rows \subseteq q.subtree
    <3>1. \A n \in q.folders \cap Rows : n \in Nodes /\ n \in Under(q.folders)
      BY UnderSteps DEF Rows
    <3> QED  BY <1>1, <2>1, <2>6, <3>1
  <2>8. q.subtree \subseteq (Folder \cap Under(q.folders)) \cup nameless
    BY <2>1, <2>5, <2>6
  <2>9. /\ \A j \in Jobs : \A n \in (q.files \cup q.folders \cup q.todo) \cap InWalk[j] : q.user \in {Admin, Uploader[j]}
        /\ \A j \in Jobs : Due(j) \cap (q.files \cup q.folders \cup q.todo) = {}
        /\ nameless \cap (q.files \cup q.folders \cup q.todo) = {}
        /\ q.files \cap Folder = {} /\ q.folders \cup q.todo \subseteq Folder
        /\ request[r].files \subseteq q.files /\ request[r].folders \subseteq q.folders
    BY <1>1, <1>3, <2>6
  <2>10. /\ remote' \subseteq remote /\ \A n \in remote \ remote' : n \in q.files \cup Under(q.folders)
         /\ q.step \notin {"idle", "ok"} /\ q.step # "readFolders" /\ q \in Request /\ Becomes(r, q)
    BY <2>3, <2>4, <2>6
  <2> QED  BY <1>2, <2>7, <2>8, <2>9, <2>10, RequestKeeps
<1> QED  BY <1>4, <1>5, <1>6, <1>7, <1>8

\* What a commit removes, it was asked to; of a folder it removes, everything goes,
\* what was put in since the snapshot included: else the foreign keys refuse.
LEMMA CommitRemoves ==
    ASSUME LibraryInv, NEW r \in Requests, request[r].step = "commit", Unreferenced(r)
    PROVE  /\ Doomed(r) \subseteq Scope(r)
           /\ Scope(r) \cap Rows \subseteq Doomed(r)
           /\ Doomed(r) \cap Folder \subseteq request[r].subtree
<1> DEFINE files == request[r].files
           folders == request[r].folders
           subtree == request[r].subtree
           D == Doomed(r)
<1>1. /\ files \cap Folder = {} /\ folders \subseteq Folder /\ folders \cap Rows \subseteq subtree
      /\ subtree \subseteq (Folder \cap Under(folders)) \cup nameless
      /\ \A n \in Rows : n \in Nodes /\ Parent[n] \in Rows \cup {Root}
      /\ nameless \cap Rows = {} /\ Root \notin nameless
  BY TreeAssumption DEF LibraryInv, Shaped, Owned, Strays, Rows
<1>2. D = {n \in Rows : n \in files \/ n \in subtree \/ (n \notin Folder /\ Parent[n] \in subtree)}
  BY DEF Doomed
<1>3. \A n \in Rows \ D : Parent[n] \notin subtree
  BY DEF Unreferenced
<1>4. Scope(r) = files \cup Under(folders) /\ Root \notin Under(folders)
  BY TreeAssumption DEF Scope, Under
<1> HIDE DEF files, folders, subtree, D
<1>5. D \subseteq Scope(r)
  <2>1. SUFFICES ASSUME NEW n \in D PROVE n \in Scope(r)
    OBVIOUS
  <2>2. CASE n \in files \/ n \in subtree
    BY <1>1, <1>2, <1>4, <2>1, <2>2
  <2>3. CASE Parent[n] \in subtree
    <3>1. n \in Nodes /\ Parent[n] # Root /\ Parent[n] \in Under(folders)
      BY <1>1, <1>2, <1>4, <2>1, <2>3
    <3> QED  BY <1>4, <3>1, UnderSteps
  <2> QED  BY <1>2, <2>1, <2>2, <2>3
<1>6. D \cap Folder \subseteq subtree
  BY <1>1, <1>2
<1>7. Scope(r) \cap Rows \subseteq D
  <2> DEFINE A == {n \in Nodes : n \in Rows /\ n \in Under(folders) => n \in D}
  <2>1. ASSUME NEW n \in Nodes, Parent[n] \in A \cup {Root} PROVE n \in A
    <3>1. SUFFICES ASSUME n \in Rows, n \in Under(folders) PROVE n \in D
      OBVIOUS
    <3>2. CASE n \in folders
      BY <1>1, <1>2, <3>1, <3>2
    <3>3. CASE n \notin folders
      <4>1. Parent[n] # Root /\ Parent[n] \in Under(folders)
        BY <3>1, <3>3, UnderSteps
      <4>2. Parent[n] \in Rows /\ Parent[n] \in Folder
        BY <1>1, <3>1, <4>1, TreeAssumption
      <4>3. Parent[n] \in subtree
        BY <1>6, <2>1, <4>1, <4>2
      <4> QED  BY <1>3, <3>1, <4>3
    <3> QED  BY <3>2, <3>3
  <2>2. Nodes \subseteq A
    <3> HIDE DEF A
    <3> QED  BY <2>1, NodeInduction
  <2> QED  BY <1>1, <1>2, <1>4, <2>2
<1> QED  BY <1>5, <1>6, <1>7 DEF D, subtree

\* The DELETEs of a transaction and its COMMIT.
LEMMA CommitSteps ==
    ASSUME LibraryInv, NEW r \in Requests, Commit(r)
    PROVE  LibraryInv'
<1>1. TypeOK /\ Owned /\ Shaped /\ Entitled /\ NotDue /\ Explained /\ Kept /\ DeletedIsGone /\ Strays
  BY DEF LibraryInv
<1>2. /\ request[r].step = "commit" /\ Unreferenced(r)
      /\ row' = [n \in Nodes |-> IF n \in Doomed(r) THEN Absent ELSE row[n]]
      /\ old' = old \ Doomed(r) /\ UNCHANGED <<nameless, remote, at, phase>>
      /\ blank' = BlankLeft(r) /\ blank' \in {blank, Absent}
  BY DEF Commit, BlankLeft, uploads
<1>3. /\ Doomed(r) \subseteq Scope(r)
      /\ Scope(r) \cap Rows \subseteq Doomed(r)
      /\ Doomed(r) \cap Folder \subseteq request[r].subtree
  BY <1>2, CommitRemoves
<1> DEFINE D == Doomed(r)
<1>4. PICK s \in {"ok", "error"} :
        Becomes(r, [request[r] EXCEPT !.step = s, !.user = Nobody, !.todo = {}, !.subtree = {}])
  BY DEF Commit, Answer
<1>5. request \in [Requests -> Request] /\ request[r] \in Request
  BY <1>1 DEF TypeOK, Request
<1>6. PICK q : q = [request[r] EXCEPT !.step = s, !.user = Nobody, !.todo = {}, !.subtree = {}]
  OBVIOUS
<1>7. /\ q \in Request /\ q.step = s /\ q.files = request[r].files /\ q.folders = request[r].folders
      /\ q.todo = {} /\ q.subtree = {}
  BY <1>5, <1>6 DEF Request, Steps, Owners
<1>8. /\ request' \in [Requests -> Request] /\ request'[r] = q
      /\ \A t \in Requests \ {r} : request'[t] = request[t]
  BY <1>4, <1>5, <1>6, <1>7 DEF Becomes
<1>9. /\ \A j \in Jobs : Due(j)' = Due(j) /\ Past(j)' = Past(j) /\ node(j)' = node(j)
      /\ \A t \in Requests : Scope(t)' = Scope(t) /\ Asked(t)' \subseteq Asked(t)
  BY <1>2, <1>7, <1>8 DEF Due, Past, Asked, Scope, node
<1>10. Rows' = Rows \ D /\ \A n \in Nodes : row'[n] = IF n \in D THEN Absent ELSE row[n]
  <2> HIDE DEF D
  <2>1. \A n \in Nodes : row'[n] = IF n \in D THEN Absent ELSE row[n]
    BY <1>2 DEF D
  <2> QED  BY <2>1 DEF Rows
<1>11. TypeOK'
  <2>1. row' \in [Nodes -> Owners \cup {Absent}] /\ old' \subseteq Nodes
    BY <1>1, <1>2 DEF TypeOK
  <2> QED  BY <1>1, <1>2, <1>8, <2>1 DEF TypeOK, Request
<1> HIDE DEF D
<1>12. Owned'
  <2>1. \A j \in Jobs : \A n \in InWalk[j] : row'[n] \in {Absent, Uploader[j]}
    BY <1>1, <1>10, OneUpload DEF Owned
  <2>2. ASSUME NEW n \in Rows' PROVE Parent[n] \in Rows' \cup {Root}
    <3>1. n \in Rows /\ n \in Nodes /\ n \notin D /\ Parent[n] \in Rows \cup {Root}
      BY <1>1, <1>10 DEF Owned, Rows
    <3>2. Parent[n] \notin request[r].subtree
      BY <1>2, <3>1 DEF Unreferenced, D
    <3>3. Parent[n] \in Folder \cup {Root}
      BY <3>1, TreeAssumption
    <3> QED  BY <1>3, <1>10, <3>1, <3>2, <3>3 DEF D
  <2>3. old' \subseteq Rows'
    BY <1>1, <1>2, <1>10 DEF Owned, D
  <2> QED  BY <2>1, <2>2, <2>3 DEF Owned
<1>13. Shaped'
  <2>1. SUFFICES ASSUME NEW t \in Requests
        PROVE LET p == request'[t] IN
              /\ p.files \cap Folder = {} /\ p.folders \cup p.todo \subseteq Folder
              /\ p.subtree \subseteq (Folder \cap Under(p.folders)) \cup nameless
              /\ p.step \in {"idle", "readFolders"} => p.folders = {} /\ p.todo = {}
              /\ p.step = "idle" => p.files = {}
              /\ p.step = "commit" => p.folders \cap Rows' \subseteq p.subtree
    BY <1>2 DEF Shaped
  <2>2. CASE t = r
    BY <1>1, <1>4, <1>7, <1>8, <2>2 DEF Shaped
  <2>3. CASE t # r
    BY <1>1, <1>8, <1>10, <2>3 DEF Shaped
  <2> QED  BY <2>2, <2>3
<1>14. Entitled' /\ NotDue'
  <2>1. Entitled'
    BY <1>1, <1>4, <1>7, <1>8, <1>9 DEF Entitled, Over
  <2>2. NotDue'
    BY <1>1, <1>9, <1>10 DEF NotDue
  <2> QED  BY <2>1, <2>2
<1>15. Explained'
  BY <1>1, <1>2, <1>9, <1>10 DEF Explained
<1>16. Kept'
  <2>1. SUFFICES ASSUME NEW j \in Jobs, NEW n \in Past(j) \ ((Rows \ D) \cup nameless)
                 PROVE  \E t \in Requests : n \in Scope(t) /\ request'[t].step \in Over
    BY <1>2, <1>9, <1>10 DEF Kept
  <2>2. CASE n \in D
    BY <1>3, <1>4, <1>7, <1>8, <2>2 DEF Over, D
  <2>3. CASE n \notin D
    <3>1. PICK t \in Requests : n \in Scope(t) /\ request[t].step \in Over
      BY <1>1, <2>1, <2>3 DEF Kept
    <3>2. t # r
      BY <1>2, <3>1 DEF Over
    <3> QED  BY <1>8, <3>1, <3>2
  <2> QED  BY <2>2, <2>3
<1>17. DeletedIsGone'
  <2>1. SUFFICES ASSUME NEW t \in Requests, request'[t].step = "ok"
                 PROVE  Scope(t) \cap (Rows \ D) = {} /\ (blank' \in Scope(t) => Parent[blank'] \in nameless)
    BY <1>2, <1>9, <1>10 DEF DeletedIsGone
  <2>2. CASE t = r
    <3>1. SUFFICES ASSUME blank' \in Scope(r) PROVE Parent[blank'] \in nameless
      BY <1>3, <2>2 DEF D
    <3>2. blank' = blank /\ blank \in nameless /\ Parent[blank] \in Rows \cup {Root} \cup nameless
      <4>1. Absent \notin Scope(r)
        BY <1>5, TreeAssumption DEF Scope, Under, Request
      <4>2. blank' = blank /\ blank # Absent
        BY <1>2, <3>1, <4>1
      <4> QED  BY <1>1, <4>2 DEF Strays, Linked
    <3>3. blank \in Nodes /\ blank \notin request[r].files /\ blank \notin request[r].folders
      BY <1>1, <3>2 DEF Strays, Asked
    <3>4. Parent[blank] # Root /\ Parent[blank] \in Under(request[r].folders)
      BY <3>1, <3>2, <3>3, UnderSteps DEF Scope
    <3>5. Parent[blank] \notin Rows'
      BY <1>3, <1>10, <3>4 DEF Scope, D
    <3>6. Parent[blank] \notin Rows
      <4>1. SUFFICES ASSUME Parent[blank] \in D PROVE FALSE
        BY <1>10, <3>5
      <4>2. Parent[blank] \in Folder
        BY <3>3, <3>4, TreeAssumption
      <4>3. Parent[blank] \in request[r].subtree
        BY <1>3, <4>1, <4>2 DEF D
      <4>4. blank # Absent
        BY <3>3, TreeAssumption
      <4> QED  BY <1>2, <3>2, <4>3, <4>4 DEF Unreferenced
    <3> QED  BY <3>2, <3>4, <3>6
  <2>3. CASE t # r
    <3>1. Absent \notin Scope(t)
      BY <1>1, <1>5, TreeAssumption DEF Scope, Under, Request
    <3> QED  BY <1>1, <1>2, <1>8, <2>1, <2>3, <3>1 DEF DeletedIsGone
  <2> QED  BY <2>2, <2>3
<1>18. Strays'
  <2>1. ASSUME blank' # Absent PROVE blank' \in nameless' /\ Linked(blank)'
    <3>1. blank' = blank /\ blank \in nameless /\ Parent[blank] \in Rows \cup {Root} \cup nameless
      BY <1>1, <1>2, <2>1 DEF Strays, Linked
    <3>2. blank \in Nodes /\ Parent[blank] \in Folder \cup {Root}
      BY <1>1, <3>1, TreeAssumption DEF Strays
    <3>3. Parent[blank] \notin request[r].subtree
      BY <1>2, <2>1, <3>1 DEF Unreferenced
    <3>4. Parent[blank] \notin D \/ Parent[blank] = Root
      BY <1>3, <3>2, <3>3 DEF D
    <3> QED  BY <1>2, <1>10, <3>1, <3>4 DEF Linked
  <2>2. \A j \in Jobs : Astray(j)' = Astray(j)
    BY <1>2, <1>9 DEF Astray
  <2> QED  BY <1>1, <1>2, <1>9, <1>10, <2>1, <2>2 DEF Strays
<1> QED  BY <1>11, <1>12, <1>13, <1>14, <1>15, <1>16, <1>17, <1>18 DEF LibraryInv

\* A row grows old.
LEMMA AgeStep ==
    ASSUME LibraryInv, NEW n \in Nodes, Age(n)
    PROVE  LibraryInv'
<1>1. /\ n \in Rows /\ old' = old \cup {n} /\ UNCHANGED <<row, nameless, blank, remote, at, phase, request>>
  BY DEF Age, uploads, empty
<1>2. Rows' = Rows /\ \A j \in Jobs : Due(j)' = Due(j) /\ Past(j)' = Past(j) /\ node(j)' = node(j)
  BY <1>1 DEF Rows, Due, Past, node
<1>3. \A r \in Requests : Asked(r)' = Asked(r) /\ Scope(r)' = Scope(r)
  BY <1>1 DEF Asked, Scope
<1>4. TypeOK' /\ Owned' /\ Shaped' /\ Entitled'
  BY <1>1, <1>2, <1>3 DEF LibraryInv, TypeOK, Owned, Shaped, Entitled
<1>5. NotDue' /\ Explained' /\ Kept' /\ DeletedIsGone'
  BY <1>1, <1>2, <1>3 DEF LibraryInv, NotDue, Explained, Kept, DeletedIsGone
<1>6. Strays'
  BY <1>1, <1>2, <1>3 DEF LibraryInv, Strays, Linked, Astray
<1> QED  BY <1>4, <1>5, <1>6 DEF LibraryInv

-----------------------------------------------------------------------------
(* Theorems *)

\* The inductive invariant, over every step of every upload and request.
LEMMA LibraryStep == ASSUME LibraryInv, [Next]_vars PROVE LibraryInv'
<1>1. CASE UNCHANGED vars
  <2>1. UNCHANGED <<row, nameless, blank, old, remote, at, phase, request>>
    BY <1>1 DEF vars, uploads, empty
  <2>2. Rows' = Rows /\ \A j \in Jobs : Due(j)' = Due(j) /\ Past(j)' = Past(j) /\ node(j)' = node(j)
    BY <2>1 DEF Rows, Due, Past, node
  <2>3. \A r \in Requests : Asked(r)' = Asked(r) /\ Scope(r)' = Scope(r)
    BY <2>1 DEF Asked, Scope
  <2>4. TypeOK' /\ Owned' /\ Shaped' /\ Entitled'
    BY <2>1, <2>2, <2>3 DEF LibraryInv, TypeOK, Owned, Shaped, Entitled
  <2>5. NotDue' /\ Explained' /\ Kept' /\ DeletedIsGone'
    BY <2>1, <2>2, <2>3 DEF LibraryInv, NotDue, Explained, Kept, DeletedIsGone
  <2>6. Strays'
    BY <2>1, <2>2, <2>3 DEF LibraryInv, Strays, Linked, Astray
  <2> QED  BY <2>4, <2>5, <2>6 DEF LibraryInv
<1>2. CASE Next
  BY <1>2, UploadSteps, AgeStep, AskSteps, WorkSteps, CommitSteps DEF Next, Handle
<1> QED  BY <1>1, <1>2

\* The inductive invariant holds throughout.
THEOREM LibraryInvariance == Spec => []LibraryInv
<1>1. Init => LibraryInv
  <2>1. SUFFICES ASSUME Init PROVE LibraryInv
    OBVIOUS
  <2>2. /\ Rows = {} /\ old = {} /\ remote = {} /\ nameless = {} /\ blank = Absent
        /\ \A r \in Requests : request[r] = NoRequest
        /\ \A j \in Jobs : phase[j] = "check" /\ at[j] = 1
    BY <2>1 DEF Init, Rows
  <2>3. ASSUME NEW j \in Jobs PROVE Len(Walk[j]) \in Nat /\ 1 \in 1..Len(Walk[j])
    <3>1. Walk[j] \in Seq(Nodes) /\ Walk[j] # <<>>
      BY WalkAssumption
    <3>2. Len(Walk[j]) \in Nat /\ Len(Walk[j]) # 0
      BY <3>1, EmptySeq
    <3> QED  BY <3>2
  <2>4. NoRequest \in Request
    BY DEF NoRequest, Request, Steps, Owners
  <2>5. TypeOK
    BY <2>1, <2>3, <2>4 DEF Init, TypeOK, Owners, Phases, Request
  <2>6. Owned
    <3>1. \A n \in Nodes : row[n] = Absent
      BY <2>1 DEF Init
    <3> QED  BY <2>2, <3>1 DEF Owned, Nodes
  <2>7. Shaped /\ Entitled /\ NotDue /\ DeletedIsGone /\ Strays
    BY <2>2 DEF Shaped, Entitled, NotDue, DeletedIsGone, Strays, NoRequest, Asked, Scope, Under
  <2>8. Explained
    BY <2>2 DEF Explained
  <2>9. Kept
    <3>1. \A j \in Jobs : InWalk[j] = Due(j)
      BY <2>2 DEF Due, InWalk, Active
    <3> QED  BY <2>2, <3>1 DEF Kept, Past
  <2> QED  BY <2>5, <2>6, <2>7, <2>8, <2>9 DEF LibraryInv
<1>2. LibraryInv /\ [Next]_vars => LibraryInv'
  BY LibraryStep
<1> QED  BY <1>1, <1>2, PTL DEF Spec

\* Uploads and deletions never tear a folder apart (createFolder, uploadFile and
\* DeleteContentFromDB, which share nothing but the foreign keys).
THEOREM AlwaysRooted == Spec => []WellRooted
<1>1. LibraryInv => WellRooted
  BY ParentOwner DEF LibraryInv, WellRooted, Strays
<1> QED  BY <1>1, LibraryInvariance, PTL

\* What was deleted stays so, also while the upload that brings it runs on.
THEOREM DeletedForGood == Spec => []DeletedIsGone
<1>1. LibraryInv => DeletedIsGone
  BY DEF LibraryInv
<1> QED  BY <1>1, LibraryInvariance, PTL

\* Rows without content are about to go, or somebody was told; and no upload that met
\* a folder without an id reports success (createFolder looks at neither the status
\* nor the id).
THEOREM NoSilentGhosts == Spec => []GhostsAreReported
<1>1. ASSUME LibraryInv, NEW n \in Rows \ remote
      PROVE  \E r \in Requests : n \in Scope(r) /\ request[r].step \notin {"idle", "ok"}
  <2>1. PICK r \in Requests : n \in Scope(r)
    BY <1>1 DEF LibraryInv, Explained, Rows
  <2>2. request[r].step # "ok"
    BY <1>1, <2>1 DEF LibraryInv, DeletedIsGone
  <2>3. request[r].step # "idle"
    BY <1>1, <2>1 DEF LibraryInv, Shaped, Scope, Under
  <2> QED  BY <2>1, <2>2, <2>3
<1>2. ASSUME LibraryInv, NEW j \in Jobs, phase[j] = "done" PROVE InWalk[j] \cap nameless = {}
  BY <1>2 DEF LibraryInv, Strays, Astray
<1>3. LibraryInv => GhostsAreReported
  BY <1>1, <1>2 DEF GhostsAreReported
<1> QED  BY <1>3, LibraryInvariance, PTL

\* A user reaches every row of an upload of the user's own or of a guest's, and none
\* of anybody else's.
LEMMA RowsReached ==
    ASSUME LibraryInv, NEW u \in Owners, NEW j \in Jobs, NEW n \in InWalk[j]
    PROVE  Reached(u, n) <=> n \in Rows /\ Uploader[j] \in {u, Nobody}
<1>1. TypeOK /\ Owned
  BY DEF LibraryInv
<1>2. n \in Nodes /\ n \in Above[n] /\ row[n] \in {Absent, Uploader[j]}
  BY <1>1, TreeAssumption DEF Owned, Nodes
<1>3. ASSUME Reached(u, n) PROVE n \in Rows /\ Uploader[j] \in {u, Nobody}
  <2>1. row[n] \in {u, Nobody}
    BY <1>2, <1>3 DEF Reached, Lists, Visible
  <2>2. row[n] # Absent
    BY <2>1, UserAssumption DEF Owners
  <2> QED  BY <1>2, <2>1, <2>2 DEF Rows
<1>4. ASSUME n \in Rows, Uploader[j] \in {u, Nobody} PROVE Reached(u, n)
  <2>1. row[n] = Uploader[j]
    BY <1>2, <1>4 DEF Rows
  <2>2. \A m \in Above[n] : /\ m \in Rows /\ row[m] = row[n]
                            /\ Parent[m] = Root \/ (Parent[m] \in Rows \cap Folder /\ row[Parent[m]] = row[n])
    BY <1>1, <1>2, <1>4, RowsAbove
  <2> QED  BY <1>4, <2>1, <2>2 DEF Reached, Opens, Lists, Visible
<1> QED  BY <1>3, <1>4

\* An upload that reports success is in the library as a whole, for those it is for
\* (SendTorrentToServer, GetLibraryContents), but for what was deleted.
THEOREM UploadsAreListed == Spec => []CompletedIsListed
<1>1. ASSUME LibraryInv PROVE CompletedIsListed
  <2>1. SUFFICES ASSUME NEW j \in Jobs, NEW u \in Owners, NEW n \in InWalk[j]
                 PROVE  IF Uploader[j] \in {u, Nobody}
                        THEN phase[j] = "done" /\ ~Reached(u, n) =>
                                \E r \in Requests : n \in Scope(r) /\ request[r].step \in {"ok", "error"}
                        ELSE ~Reached(u, n)
    BY DEF CompletedIsListed
  <2>2. Reached(u, n) <=> n \in Rows /\ Uploader[j] \in {u, Nobody}
    BY <1>1, RowsReached
  <2>3. ASSUME phase[j] = "done", Uploader[j] \in {u, Nobody}, ~Reached(u, n)
        PROVE  \E r \in Requests : n \in Scope(r) /\ request[r].step \in {"ok", "error"}
    <3>1. n \in Past(j) \ Rows
      BY <2>2, <2>3 DEF Past, Due, Active
    <3>2. n \notin nameless
      BY <1>1, <2>3 DEF LibraryInv, Strays, Astray
    <3> QED  BY <1>1, <3>1, <3>2 DEF LibraryInv, Kept, Over
  <2> QED  BY <2>2, <2>3
<1> QED  BY <1>1, LibraryInvariance, PTL

\* No request removes what somebody else uploaded, here or in the remote store,
\* however long it takes and whatever is uploaded meanwhile (GetLibraryContentOwner,
\* LibrarySubtreeOwned).
THEOREM OthersContentSafe == Spec => OthersUntouched
<1>1. ASSUME LibraryInv, [Next]_vars,
             NEW r \in Requests, NEW j \in Jobs, request'[r] # request[r],
             NEW n \in InWalk[j], n \in remote \ remote' \/ (row[n] # Absent /\ row'[n] = Absent)
      PROVE  request[r].user \in {Admin, Uploader[j]}
  <2>1. PICK s \in Requests : Handle(s)
    BY <1>1 DEF Next, vars, Upload, CheckParent, Create, CreateNameless, Insert, Stored, UploadFails, Age
  <2>2. \A q : Becomes(s, q) => \A t \in Requests \ {s} : request'[t] = request[t]
    BY <1>1 DEF LibraryInv, TypeOK, Becomes
  <2>3. \E q : Becomes(s, q)
    BY <2>1 DEF Handle, AskStale, AskDelete, ReadFolders, CheckOwner, RemoteFiles, RemoteFolders,
       Snapshot, Commit, RequestFails, Answer
  <2>4. s = r
    BY <1>1, <2>2, <2>3
  <2>5. RemoteFiles(r) \/ RemoteFolders(r) \/ Commit(r)
    BY <1>1, <2>1, <2>4 DEF Handle, AskStale, AskDelete, ReadFolders, CheckOwner, Snapshot,
       RequestFails, store
  <2>6. request[r].step \notin Over
    BY <2>5 DEF RemoteFiles, RemoteFolders, Commit, Over
  <2>7. n \in Scope(r)
    <3>1. CASE RemoteFiles(r) \/ RemoteFolders(r)
      BY <1>1, <3>1 DEF RemoteFiles, RemoteFolders, Scope, Under
    <3>2. CASE Commit(r)
      <4>1. n \in Doomed(r)
        BY <1>1, <3>2, OneUpload DEF Commit
      <4> QED  BY <1>1, <3>2, <4>1, CommitRemoves DEF Commit
    <3> QED  BY <2>5, <3>1, <3>2
  <2>8. Asked(r) \cap InWalk[j] # {}
    BY <1>1, <2>7, UnderSameUpload DEF Scope, Asked
  <2> QED  BY <1>1, <2>6, <2>8 DEF LibraryInv, Entitled
<1>2. LibraryInv /\ [Next]_vars =>
        [\A r \in Requests : request'[r] # request[r] =>
           \A j \in Jobs :
              (\E n \in InWalk[j] : n \in remote \ remote' \/ (row[n] # Absent /\ row'[n] = Absent))
              => request[r].user \in {Admin, Uploader[j]}]_vars
  BY <1>1
<1> QED  BY <1>2, LibraryInvariance, PTL DEF Spec, OthersUntouched
=============================================================================
