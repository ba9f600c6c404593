---------------------------- MODULE ProgressHub ----------------------------
(***************************************************************************)
(* internal/core/websocket/websocket.go with its callers: the emit of      *)
(* queue.go and upload.go, one at a time per job, and the handler of       *)
(* handlers/websocket.go, one goroutine per connection.  One goroutine     *)
(* (Run) owns the client map; wm.mu guards only activeDownloads.           *)
(*                                                                         *)
(* An update is abstracted to its job and to whether its status is one of  *)
(* the five running ones ("live") or of the three terminal ones ("ended"). *)
(***************************************************************************)
EXTENDS Naturals, Sequences

CONSTANTS
    Jobs,
    Conns,      \* websocket connections; a browser that reconnects is a new one
    Nobody,     \* the owner of public jobs, the user of anonymous connections
    Owner,      \* [Jobs -> users and Nobody], TorrentUpdate.UserID
    User,       \* [Conns -> users and Nobody], Client.UserID
    Capacity    \* of the broadcast channel (256)

ASSUME CapacityAssumption == Capacity \in Nat \ {0}

VARIABLES
    status,     \* task.job.Status of each job, as emit reads it
    pc,         \* worker: between emits, before wm.mu, before the channel, over
    holding,    \* worker: the status of the update in its hands
    final,      \* worker: it is the last one, sent by finishWithReason
    active,     \* jobs in wm.activeDownloads
    broadcast,  \* the channel
    clients,    \* wm.clients
    writes,     \* Run: writes left of the case it is in; none at the select
    conn,       \* handler of each connection
    broken,     \* connections closed by Run after a failed write
    seen,       \* what a connection last showed of a job
    dropped     \* history: jobs whose last update found the channel full

worker == <<status, pc, holding, final>>
hub    == <<active, broadcast, clients, writes>>
peers  == <<conn, broken, seen>>
vars   == <<worker, hub, peers, dropped>>

Shown   == {"live", "ended"}
Updates == [job : Jobs, status : Shown]
Refresh == [job |-> Nobody, status |-> "refresh"]
Messages == Updates \cup {Refresh}

TypeOK ==
    /\ status \in [Jobs -> Shown]
    /\ pc \in [Jobs -> {"work", "publish", "enqueue", "refresh", "over"}]
    /\ holding \in [Jobs -> Shown]
    /\ final \in [Jobs -> BOOLEAN]
    /\ active \subseteq Jobs
    /\ broadcast \in Seq(Messages) /\ Len(broadcast) <= Capacity
    /\ clients \subseteq Conns
    /\ writes \subseteq [to : Conns, msg : Messages]
    /\ conn \in [Conns -> {"dialing", "registering", "open", "closing", "gone"}]
    /\ broken \subseteq Conns
    /\ seen \in [Conns -> [Jobs -> Shown \cup {"nothing"}]]
    /\ dropped \subseteq Jobs

Init ==
    /\ status = [j \in Jobs |-> "live"]
    /\ pc = [j \in Jobs |-> "work"]
    /\ holding = [j \in Jobs |-> "live"]
    /\ final = [j \in Jobs |-> FALSE]
    /\ active = {}
    /\ broadcast = <<>>
    /\ clients = {}
    /\ writes = {}
    /\ conn = [c \in Conns |-> "dialing"]
    /\ broken = {}
    /\ seen = [c \in Conns |-> [j \in Jobs |-> "nothing"]]
    /\ dropped = {}

\* Public, or owned by the connection's user.
Visible(c, j) == Owner[j] = Nobody \/ Owner[j] = User[c]

-----------------------------------------------------------------------------
(* Workers *)

\* Mutant: saveStage does not look at the status.
EndOrSaved(j) ==
    /\ pc[j] # "over"
    /\ status' \in {[status EXCEPT ![j] = s] : s \in Shown}
    /\ UNCHANGED <<pc, holding, final, hub, peers, dropped>>

\* StopOwned, or the end of the job.  Status never comes back.
End(j) ==
    /\ pc[j] # "over"
    /\ status' = [status EXCEPT ![j] = "ended"]
    /\ UNCHANGED <<pc, holding, final, hub, peers, dropped>>

\* Mutant: the last emit is called before the status is set.
EmitStale(j) ==
    /\ pc[j] = "work"
    /\ holding' = [holding EXCEPT ![j] = status[j]]
    /\ final' \in {final, [final EXCEPT ![j] = TRUE]}
    /\ pc' = [pc EXCEPT ![j] = "publish"]
    /\ UNCHANGED <<status, hub, peers, dropped>>

\* emit reads the task under q.mu.  The last emit is finishWithReason's; a
\* stopped job may have emitted its status from the download loop before.
Emit(j) ==
    /\ pc[j] = "work"
    /\ holding' = [holding EXCEPT ![j] = status[j]]
    /\ \/ UNCHANGED final
       \/ status[j] = "ended" /\ final' = [final EXCEPT ![j] = TRUE]
    /\ pc' = [pc EXCEPT ![j] = "publish"]
    /\ UNCHANGED <<status, hub, peers, dropped>>

\* Mutant: a terminal status is missing from the second condition.
PublishKeeps(j) ==
    /\ pc[j] = "publish"
    /\ active' = IF holding[j] = "live" THEN active \cup {j} ELSE active
    /\ pc' = [pc EXCEPT ![j] = "enqueue"]
    /\ UNCHANGED <<status, holding, final, broadcast, clients, writes, peers, dropped>>

\* SendProgress, under wm.mu.
Publish(j) ==
    /\ pc[j] = "publish"
    /\ active' = IF holding[j] = "live" THEN active \cup {j} ELSE active \ {j}
    /\ pc' = [pc EXCEPT ![j] = "enqueue"]
    /\ UNCHANGED <<status, holding, final, broadcast, clients, writes, peers, dropped>>

Full == Len(broadcast) = Capacity

\* SendProgress, after wm.mu: a full channel drops the update.
Offer(msg) == broadcast' = IF Full THEN broadcast ELSE Append(broadcast, msg)

\* A completed job has a refresh to send as well.
Enqueue(j) ==
    /\ pc[j] = "enqueue"
    /\ Offer([job |-> j, status |-> holding[j]])
    /\ dropped' = IF Full /\ final[j] THEN dropped \cup {j} ELSE dropped
    /\ IF final[j] THEN \E next \in {"refresh", "over"} : pc' = [pc EXCEPT ![j] = next]
                   ELSE pc' = [pc EXCEPT ![j] = "work"]
    /\ UNCHANGED <<status, holding, final, active, clients, writes, peers>>

EnqueueRefresh(j) ==
    /\ pc[j] = "refresh"
    /\ Offer(Refresh)
    /\ pc' = [pc EXCEPT ![j] = "over"]
    /\ UNCHANGED <<status, holding, final, active, clients, writes, peers, dropped>>

-----------------------------------------------------------------------------
(* Run.  One case of the select at a time. *)

\* The snapshot is taken and written before the next case.
Register(c) ==
    /\ writes = {}
    /\ conn[c] = "registering"
    /\ conn' = [conn EXCEPT ![c] = "open"]
    /\ clients' = clients \cup {c}
    /\ writes' = {[to |-> c, msg |-> [job |-> j, status |-> "live"]] :
                    j \in {k \in active : Visible(c, k)}}
    /\ UNCHANGED <<worker, active, broadcast, broken, seen, dropped>>

Unregister(c) ==
    /\ writes = {}
    /\ conn[c] = "closing"
    /\ conn' = [conn EXCEPT ![c] = "gone"]
    /\ clients' = clients \ {c}
    /\ UNCHANGED <<worker, active, broadcast, writes, broken, seen, dropped>>

\* Mutant: the broadcast is not filtered.
AllowedToAll(c, msg) == TRUE

Allowed(c, msg) == msg = Refresh \/ Visible(c, msg.job)

Deliver ==
    /\ writes = {}
    /\ broadcast # <<>>
    /\ writes' = {[to |-> c, msg |-> Head(broadcast)] :
                    c \in {d \in clients : Allowed(d, Head(broadcast))}}
    /\ broadcast' = Tail(broadcast)
    /\ UNCHANGED <<worker, active, clients, peers, dropped>>

\* Mutant: a failed write is tried again.
WriteRetried(w) ==
    /\ w \in writes
    /\ \/ /\ w.to \notin broken
          /\ writes' = writes \ {w}
          /\ seen' = IF w.msg = Refresh THEN seen
                     ELSE [seen EXCEPT ![w.to][w.msg.job] = w.msg.status]
          /\ UNCHANGED <<clients, broken>>
       \/ /\ clients' = clients \ {w.to}
          /\ broken' = broken \cup {w.to}
          /\ UNCHANGED <<writes, seen>>
    /\ UNCHANGED <<worker, active, broadcast, conn, dropped>>

\* One WriteJSON.  A failed one closes the connection and forgets the client.
Write(w) ==
    /\ w \in writes
    /\ writes' = writes \ {w}
    /\ \/ /\ w.to \notin broken
          /\ seen' = IF w.msg = Refresh THEN seen
                     ELSE [seen EXCEPT ![w.to][w.msg.job] = w.msg.status]
          /\ UNCHANGED <<clients, broken>>
       \/ /\ clients' = clients \ {w.to}
          /\ broken' = broken \cup {w.to}
          /\ UNCHANGED seen
    /\ UNCHANGED <<worker, active, broadcast, conn, dropped>>

-----------------------------------------------------------------------------
(* Handlers *)

\* UpgradeRequest: upgrade, then block until Run takes the registration.
Connect(c) ==
    /\ conn[c] = "dialing"
    /\ conn' = [conn EXCEPT ![c] = "registering"]
    /\ UNCHANGED <<worker, hub, broken, seen, dropped>>

\* ReadMessage fails: the browser left, or Run closed the connection.
Disconnect(c) ==
    /\ conn[c] = "open"
    /\ conn' = [conn EXCEPT ![c] = "closing"]
    /\ UNCHANGED <<worker, hub, broken, seen, dropped>>

Step(j)  == Publish(j) \/ Enqueue(j) \/ EnqueueRefresh(j)
AnyWrite == \E w \in writes : Write(w)

Next ==
    \/ \E j \in Jobs : End(j) \/ Emit(j) \/ Step(j)
    \/ \E c \in Conns : Register(c) \/ Unregister(c) \/ Connect(c) \/ Disconnect(c)
    \/ Deliver
    \/ AnyWrite

Spec == Init /\ [][Next]_vars

\* A write ends by its deadline, select picks among ready cases at random, and a
\* goroutine that is not blocked runs on.  Nothing is assumed of when jobs end.
FairSpec ==
    /\ Spec
    /\ \A j \in Jobs : WF_vars(Step(j))
    /\ WF_vars(AnyWrite)
    /\ SF_vars(Deliver)
    /\ \A c \in Conns : /\ SF_vars(Register(c))
                        /\ SF_vars(Unregister(c))
                        /\ WF_vars(c \in broken /\ Disconnect(c))

-----------------------------------------------------------------------------
(* Properties *)

\* The type invariant, and: a connection is never shown a job that belongs to
\* somebody else, by the snapshot at registration or by the broadcast (README.md:
\* "Normal users see only accessible library content and job updates").
Private ==
    TypeOK /\ \A c \in Conns, j \in Jobs : seen[c][j] # "nothing" => Visible(c, j)

\* An ended job stays ended on screen: neither a late update in the channel nor
\* a snapshot older than it brings the job back.
NoResurrection ==
    [][\A c \in Conns, j \in Jobs : seen[c][j] = "ended" => seen'[c][j] = "ended"]_vars

\* Whoever registers once a job's last update left wm.mu is not shown the job
\* by the snapshot (TestConcurrentSnapshotUpdates, "terminal state retained").
EndedLeavesSnapshot ==
    \A j \in Jobs : pc[j] \in {"enqueue", "refresh", "over"} /\ final[j] => j \notin active

\* A connection that shows a job as running after its last update is still to
\* get that update, unless the channel was full: no order of registration,
\* snapshot, publication and broadcast leaves one behind.
Coming(c, j) ==
    \/ \E i \in 1..Len(broadcast) : broadcast[i] = [job |-> j, status |-> "ended"]
    \/ [to |-> c, msg |-> [job |-> j, status |-> "ended"]] \in writes

EndReachesViewers ==
    \A c \in clients, j \in Jobs :
        pc[j] \in {"refresh", "over"} /\ seen[c][j] = "live" => j \in dropped \/ Coming(c, j)

\* Connections are not leaked: a handler whose peer left, or whose connection
\* Run closed, ends.
HandlersEnd ==
    \A c \in Conns : conn[c] = "closing" \/ (c \in broken /\ conn[c] = "open") ~> conn[c] = "gone"

\* What README.md says is fixed: that the complete event is not sent sometimes.
EndIsShown ==
    \A c \in Conns, j \in Jobs :
        pc[j] = "over" /\ c \in clients /\ seen[c][j] = "live"
            ~> seen[c][j] = "ended" \/ c \notin clients
=============================================================================
