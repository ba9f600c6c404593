----------------------------- MODULE MCJobQueue -----------------------------
(* Instances of JobQueue for TLC. *)
EXTENDS JobQueue, TLC

CONSTANTS j1, j2

Submission(hash, owner, zipped, torrentFile) ==
    [hash |-> hash, owner |-> owner, zipped |-> zipped, torrentFile |-> torrentFile]

\* A member's zipped .torrent upload and a member's plain magnet.
TwoMembers == (j1 :> Submission("h1", "ana", TRUE, TRUE)) @@ (j2 :> Submission("h2", "bo", FALSE, FALSE))

\* The same torrent, from a member as a zipped .torrent upload and from a guest as
\* a magnet.
SameTorrent == (j1 :> Submission("h1", "ana", TRUE, TRUE)) @@ (j2 :> Submission("h1", "guest", FALSE, FALSE))

\* Two guests' plain magnets.
TwoGuests == (j1 :> Submission("h1", "guest", FALSE, FALSE)) @@ (j2 :> Submission("h2", "guest", FALSE, FALSE))
=============================================================================
