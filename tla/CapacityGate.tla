---------------------------- MODULE CapacityGate ----------------------------
(***************************************************************************)
(* The capacity loop of run (queue.go), at the grain of its system calls:  *)
(* what JobQueue's Reserve takes as one step.  With q.mu held a worker     *)
(* asks the file system for its free space once, then sums over the tasks  *)
(* that hold a reservation, one directory walk at a time, what each may    *)
(* still write.  Other jobs write and delete meanwhile: they do not take   *)
(* q.mu.                                                                   *)
(*                                                                         *)
(* Space is counted in blocks.  A job has at most its reservation on disk  *)
(* (FitsReservation of JobFiles, which names the one exception, the cached *)
(* .torrent of some magnets); Elsewhere blocks of the file system belong   *)
(* to other programs.                                                      *)
(***************************************************************************)
EXTENDS Integers, FiniteSets, FiniteSetsExt

CONSTANTS
    Jobs,
    Need,       \* [Jobs -> blocks], job.Reserved
    Budget,     \* maxActiveBytes
    Disk,       \* blocks of the file system
    Elsewhere,  \* blocks other programs use
    Uncached,   \* jobs that have their .torrent still to cache
    Unlocked    \* q.mu is free, or held for a moment only

ASSUME SpaceAssumption ==
    /\ IsFiniteSet(Jobs) /\ Uncached \subseteq Jobs /\ Unlocked \notin Jobs
    /\ Need \in [Jobs -> Nat \ {0}]
    /\ Budget \in Nat /\ Disk \in Nat /\ Elsewhere \in 0..Disk

VARIABLES
    stage,      \* where each job is in run
    written,    \* blocks allocated in the job's directory
    activeBytes,\* q.activeBytes
    mu,         \* q.mu: the worker that holds it over system calls
    free,       \* checking: what Statfs said
    need,       \* checking: disk obligations summed so far
    unwalked,   \* checking: tasks whose directory is still to be walked
    since,      \* history: blocks written since Statfs
    drift       \* history: see ShortByDriftOnly

check    == <<mu, free, need, unwalked, since>>
gateVars == <<stage, written, activeBytes, check, drift>>

Waiting  == {"preparing", "waiting"}
Admitted == {"granted", "downloading", "zipping"}
\* over: in no queue, its directory may be removed; gone: nobody will touch it again.
Stages   == Waiting \cup {"checking"} \cup Admitted \cup {"leaving", "over", "gone"}

GateTypeOK ==
    /\ stage \in [Jobs -> Stages]
    /\ written \in [Jobs -> 0..Disk] /\ \A j \in Jobs : written[j] <= Need[j]
    /\ activeBytes \in Nat
    /\ mu \in Jobs \cup {Unlocked}
    /\ free \in 0..Disk
    /\ need \in Nat
    /\ unwalked \subseteq Jobs
    /\ {since, drift} \subseteq Nat

Reserved  == {j \in Jobs : stage[j] \in Admitted}
Used      == SumFunction(written)
Available == Disk - Elsewhere - Used

\* Partial data of an earlier run may be on disk.
GateInit ==
    /\ stage = [j \in Jobs |-> "preparing"]
    /\ written \in [Jobs -> 0..1]
    /\ Available >= 0
    /\ activeBytes = 0
    /\ mu = Unlocked
    /\ free = 0 /\ need = 0 /\ unwalked = {} /\ since = 0
    /\ drift = 0

Goes(j, to) == stage' = [stage EXCEPT ![j] = to]

-----------------------------------------------------------------------------
(* The check *)

\* Mutant: reservations of other tasks are left out.
ObligedAlone(j) == {j}

Obliged(j) == Reserved \cup {j}

\* A reservation beyond the budget has been refused before.
Statfs(j) ==
    /\ mu = Unlocked
    /\ stage[j] \in Waiting
    /\ Need[j] <= Budget
    /\ mu' = j
    /\ Goes(j, "checking")
    /\ free' = Available
    /\ need' = 0 /\ unwalked' = Obliged(j) /\ since' = 0
    /\ UNCHANGED <<written, activeBytes, drift>>

\* remainingAllocation(other.job.Reserved, allocatedBytes(other))
remainingAllocation(k) == IF written[k] >= Need[k] THEN 0 ELSE Need[k] - written[k]

Walk(j, k) ==
    /\ mu = j
    /\ k \in unwalked
    /\ need' = need + remainingAllocation(k)
    /\ unwalked' = unwalked \ {k}
    /\ UNCHANGED <<stage, written, activeBytes, mu, free, since, drift>>

\* Mutant: the budget is not checked.
FitsDiskOnly(j) == need <= free

Fits(j) == activeBytes <= Budget - Need[j] /\ need <= free

Settled == mu' = Unlocked /\ free' = 0 /\ need' = 0 /\ unwalked' = {} /\ since' = 0

Grant(j) ==
    /\ mu = j /\ unwalked = {}
    /\ Fits(j)
    /\ activeBytes' = activeBytes + Need[j]
    /\ Goes(j, "granted")
    /\ drift' = since
    /\ Settled
    /\ UNCHANGED written

Wait(j) ==
    /\ mu = j /\ unwalked = {}
    /\ ~Fits(j)
    /\ Goes(j, "waiting")
    /\ Settled
    /\ UNCHANGED <<written, activeBytes, drift>>

\* Statfs fails or a directory cannot be walked.
WalkFails(j) ==
    /\ mu = j
    /\ Goes(j, "leaving")
    /\ Settled
    /\ UNCHANGED <<written, activeBytes, drift>>

-----------------------------------------------------------------------------
(* The directories, which q.mu does not protect *)

Writes(j) ==
    /\ written[j] < Need[j]
    /\ Available > 0
    /\ written' = [written EXCEPT ![j] = @ + 1]
    /\ since' = IF mu = Unlocked THEN 0 ELSE since + 1
    /\ UNCHANGED <<stage, activeBytes, mu, free, need, unwalked>>

\* A job without a reservation caches its .torrent: persistMetadata.  One that is
\* cached is replaced, which takes no more space.
WriteEarly(j) ==
    /\ j \in Uncached /\ stage[j] = "preparing"
    /\ Writes(j)
    /\ drift' = drift + 1

\* The torrent client, or the ZIP writer.
Write(j) ==
    /\ stage[j] \in {"downloading", "zipping"}
    /\ Writes(j)
    /\ UNCHANGED drift

\* An admitted job deletes the cached .torrent before it downloads, and what an
\* interrupted attempt left of its ZIP before it writes its own.
Shed(j) ==
    /\ \/ stage[j] = "granted" /\ Goes(j, "downloading")
       \/ stage[j] = "downloading" /\ Goes(j, "zipping")
    /\ \E n \in 0..written[j] : written' = [written EXCEPT ![j] = n]
    /\ UNCHANGED <<activeBytes, check, drift>>

\* finishWithReason takes q.mu.
Leave(j) ==
    /\ mu = Unlocked
    /\ stage[j] \in Waiting \cup Admitted \cup {"leaving"}
    /\ Goes(j, "over")
    /\ activeBytes' = IF j \in Reserved THEN activeBytes - Need[j] ELSE activeBytes
    /\ UNCHANGED <<written, check, drift>>

\* Unless the job failed its directory is removed, without q.mu.
Remove(j) ==
    /\ stage[j] = "over"
    /\ Goes(j, "gone")
    /\ written' = [written EXCEPT ![j] = 0]
    /\ UNCHANGED <<activeBytes, check, drift>>

\* The process dies and starts again: unfinished jobs begin anew; all data stays, that
\* of ended jobs which it had still to remove for ever.
Restart ==
    /\ stage' = [j \in Jobs |-> IF stage[j] \in {"over", "gone"} THEN "gone" ELSE "preparing"]
    /\ activeBytes' = 0
    /\ Settled
    /\ drift' = 0
    /\ UNCHANGED written

GateNext ==
    \/ \E j \in Jobs : \/ Statfs(j) \/ (\E k \in Jobs : Walk(j, k)) \/ Grant(j) \/ Wait(j) \/ WalkFails(j)
                       \/ WriteEarly(j) \/ Write(j) \/ Shed(j) \/ Leave(j) \/ Remove(j)
    \/ Restart

GateSpec == GateInit /\ [][GateNext]_gateVars

-----------------------------------------------------------------------------
(* Properties *)

StillNeeded == [j \in Jobs |-> remainingAllocation(j)]

\* What admitted jobs may still write.
Obligations == SumFunctionOnSet(StillNeeded, Reserved)

\* What README.md says of reservations: they are conservative.  The file system
\* can hold all that admitted jobs may still write.  The code does not ensure
\* it: Statfs is read before the directories.
Solvent == Obligations <= Available

\* What the code does ensure: the shortfall is at most what was written between
\* Statfs and the last grant, and since then by jobs that hold no reservation.  No
\* order of grants, writes, deletions, ends and restarts lets admitted jobs lack more.
ShortByDriftOnly == Obligations <= Available + drift

\* The type invariant, and: admitted jobs' full reservations fit the budget,
\* exactly accounted, and none writes more than it reserved.
WithinBudget ==
    /\ GateTypeOK
    /\ activeBytes = SumFunctionOnSet(Need, Reserved) /\ activeBytes <= Budget
=============================================================================
