---------------------------- MODULE JobContract ----------------------------
(***************************************************************************)
(* What the download queue promises about one accepted submission,        *)
(* without queue, workers, database or crashes.  A job is accepted, may be *)
(* cancelled until its upload starts, is uploaded at most once and gets    *)
(* exactly one verdict.  JobQueue implements this specification.           *)
(***************************************************************************)
CONSTANT Jobs

VARIABLES life,       \* how far each job is, as an outsider may tell
          asked,      \* jobs whose owner asked for cancellation
          cancelled   \* jobs whose cancellation was acknowledged

contractVars == <<life, asked, cancelled>>

Lives == {"none", "open", "uploading", "published",
          "completed", "failed", "stopped"}

ContractTypeOK ==
    /\ life \in [Jobs -> Lives]
    /\ asked \in SUBSET Jobs
    /\ cancelled \in SUBSET asked

ContractInit ==
    /\ life = [j \in Jobs |-> "none"]
    /\ asked = {}
    /\ cancelled = {}

Become(j, from, to) ==
    /\ life[j] = from
    /\ life' = [life EXCEPT ![j] = to]

\* The submission is durable.
Accept(j) == Become(j, "none", "open") /\ UNCHANGED <<asked, cancelled>>

\* A cancellation is asked for; the caller may or may not learn it was granted.
Cancel(j) ==
    /\ life[j] = "open"
    /\ asked' = asked \cup {j}
    /\ cancelled' \in {cancelled, cancelled \cup {j}}
    /\ UNCHANGED life

\* The first remote side effect.  A job has one upload attempt, and none
\* once its cancellation was acknowledged.
StartUpload(j) ==
    /\ j \notin cancelled
    /\ Become(j, "open", "uploading")
    /\ UNCHANGED <<asked, cancelled>>

\* The remote content and its library entry are complete.
Publish(j) == Become(j, "uploading", "published") /\ UNCHANGED <<asked, cancelled>>

\* The verdict.  "stopped" only for a job somebody asked to stop and that was
\* never uploaded, "completed" only for published content.
Settle(j) ==
    /\ \/ Become(j, "open", "failed")
       \/ j \in asked /\ Become(j, "open", "stopped")
       \/ Become(j, "uploading", "failed")
       \/ Become(j, "published", "completed")
       \/ Become(j, "published", "failed")
    /\ UNCHANGED <<asked, cancelled>>

ContractNext ==
    \E j \in Jobs : Accept(j) \/ Cancel(j) \/ StartUpload(j) \/ Publish(j) \/ Settle(j)

ContractSpec == ContractInit /\ [][ContractNext]_contractVars
=============================================================================
