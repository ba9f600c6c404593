\* The same torrent twice, as a member's zipped .torrent upload and as a guest's
\* magnet, with room for both or for one, three crashes.
CONSTANTS
    j1 = j1
    j2 = j2
    Jobs = {j1, j2}
    Request <- SameTorrent
    Guest = "guest"
    MaxQueueSize = 2
    Budget = 3
    Reserves = {2, 4}
    MaxCrashes = 3
SPECIFICATION FairSpec
INVARIANTS IInv NoReplay CancelledNeverUploaded AccountedOnce ToldOnceAndTruly NoneLost IsolatedTorrent Restartable
PROPERTIES OriginalKeptWhileQueued CleanupAfterCommit ImplementsContract StopSettles
