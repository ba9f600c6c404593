------------------------------ MODULE HubProofs ------------------------------
(***************************************************************************)
(* Proofs about ProgressHub for every set of jobs, owners and connections  *)
(* and every capacity of the channel.  What depends on fairness is not     *)
(* here.                                                                   *)
(***************************************************************************)
EXTENDS ProgressHub, SequenceTheorems, TLAPS

LiveMsg(j) == [job |-> j, status |-> "live"]
EndMsg(j)  == [job |-> j, status |-> "ended"]
InChannel(m) == \E i \in 1..Len(broadcast) : broadcast[i] = m
InWrites(m)  == \E w \in writes : w.msg = m

\* Who is written to, or shows something, may see it.
Addressed ==
    /\ \A w \in writes : w.msg # Refresh => Visible(w.to, w.msg.job)
    /\ \A c \in Conns, j \in Jobs : seen[c][j] # "nothing" => Visible(c, j)

\* How far the last update of a job is.
Finals ==
    \A j \in Jobs :
        /\ holding[j] = "ended" => status[j] = "ended"
        /\ final[j] => holding[j] = "ended" /\ pc[j] # "work"
        /\ pc[j] \in {"refresh", "over"} => final[j] /\ j \notin active
        /\ pc[j] = "enqueue" /\ holding[j] = "ended" => j \notin active

\* An update that says that a job has ended is followed by no other, on its way
\* through the channel, from there to the connections and on their screens.
Retired(j) == holding[j] = "ended" /\ j \notin active
Ordered ==
    \A j \in Jobs :
        /\ InChannel(EndMsg(j)) => Retired(j)
        /\ \A i, k \in 1..Len(broadcast) : i < k /\ broadcast[i] = EndMsg(j) => broadcast[k] # LiveMsg(j)
        /\ InWrites(EndMsg(j)) \/ (\E c \in Conns : seen[c][j] = "ended")
           => Retired(j) /\ ~InChannel(LiveMsg(j)) /\ ~InWrites(LiveMsg(j))

\* Nothing has been shown on a connection, or is about to be, before it registers.
Newcomers ==
    \A c \in Conns : conn[c] \in {"dialing", "registering"} =>
        /\ c \notin clients /\ \A j \in Jobs : seen[c][j] = "nothing"
        /\ \A w \in writes : w.to # c

\* Once the last update of a job has left the channel it is written to whoever shows
\* the job as running, or is about to.
Lags(c, j) == seen[c][j] = "live" \/ \E w \in writes : w.to = c /\ w.msg = LiveMsg(j)
Reaching ==
    \A j \in Jobs :
        pc[j] \in {"refresh", "over"} /\ j \notin dropped /\ ~InChannel(EndMsg(j)) =>
            /\ ~InChannel(LiveMsg(j))
            /\ \A c \in clients : Lags(c, j) => [to |-> c, msg |-> EndMsg(j)] \in writes

HubInv == TypeOK /\ Addressed /\ Finals /\ Ordered /\ Newcomers /\ Reaching

-----------------------------------------------------------------------------
(* The channel *)

\* What there is to be said of a job, and that no two of these are one.
LEMMA Kinds ==
    /\ \A j \in Jobs : {LiveMsg(j), EndMsg(j)} \subseteq Messages
    /\ \A j, k \in Jobs : /\ LiveMsg(j) # EndMsg(k) /\ LiveMsg(j) # Refresh /\ EndMsg(j) # Refresh
                          /\ (LiveMsg(j) = LiveMsg(k) \/ EndMsg(j) = EndMsg(k)) => j = k
    /\ \A m \in Messages : m = Refresh \/ (m.job \in Jobs /\ (m = LiveMsg(m.job) \/ m = EndMsg(m.job)))
    /\ Refresh \in Messages
<1>1. \A j \in Jobs : {LiveMsg(j), EndMsg(j)} \subseteq Messages
  BY DEF LiveMsg, EndMsg, Messages, Updates, Shown
<1>2. ASSUME NEW j \in Jobs, NEW k \in Jobs
      PROVE  /\ LiveMsg(j) # EndMsg(k) /\ LiveMsg(j) # Refresh /\ EndMsg(j) # Refresh
             /\ (LiveMsg(j) = LiveMsg(k) \/ EndMsg(j) = EndMsg(k)) => j = k
  <2>1. /\ LiveMsg(j).status = "live" /\ EndMsg(k).status = "ended" /\ EndMsg(j).status = "ended"
        /\ Refresh.status = "refresh" /\ LiveMsg(j).job = j /\ LiveMsg(k).job = k
        /\ EndMsg(j).job = j /\ EndMsg(k).job = k
    BY DEF LiveMsg, EndMsg, Refresh
  <2> QED  BY <2>1
<1>3. ASSUME NEW m \in Messages, m # Refresh
      PROVE  m.job \in Jobs /\ (m = LiveMsg(m.job) \/ m = EndMsg(m.job))
  <2>1. m \in Updates
    BY <1>3 DEF Messages
  <2>2. m.job \in Jobs /\ m.status \in {"live", "ended"} /\ m = [job |-> m.job, status |-> m.status]
    BY <2>1 DEF Updates, Shown
  <2> QED  BY <2>2 DEF LiveMsg, EndMsg
<1> QED  BY <1>1, <1>2, <1>3 DEF Messages

\* An update at the end of the channel.
LEMMA Appended ==
    ASSUME NEW s \in Seq(Messages), NEW m \in Messages
    PROVE  /\ Append(s, m) \in Seq(Messages) /\ Len(Append(s, m)) = Len(s) + 1 /\ Len(s) \in Nat
           /\ \A i \in 1..Len(s) : Append(s, m)[i] = s[i]
           /\ Append(s, m)[Len(s) + 1] = m
  OBVIOUS

\* The update that leaves the channel, and those that remain.
LEMMA Taken ==
    ASSUME NEW s \in Seq(Messages), s # <<>>
    PROVE  /\ Tail(s) \in Seq(Messages) /\ Len(Tail(s)) = Len(s) - 1 /\ Len(s) \in Nat \ {0}
           /\ Head(s) \in Messages /\ Head(s) = s[1]
           /\ \A i \in 1..Len(Tail(s)) : Tail(s)[i] = s[i + 1] /\ i + 1 \in 1..Len(s)
  BY EmptySeq

-----------------------------------------------------------------------------
(* Steps *)

\* A job ends, emits and publishes: only its worker and the map change.
LEMMA WorkerSteps ==
    ASSUME HubInv, NEW j \in Jobs, End(j) \/ Emit(j) \/ Publish(j)
    PROVE  HubInv'
<1>1. TypeOK /\ Addressed /\ Finals /\ Ordered /\ Newcomers /\ Reaching
  BY DEF HubInv
<1>2. UNCHANGED <<broadcast, clients, writes, conn, broken, seen, dropped>>
  BY DEF End, Emit, Publish, hub, peers
<1>3. TypeOK'
  BY <1>1, <1>2 DEF End, Emit, Publish, TypeOK, Shown, hub, peers
<1>4. \A k \in Jobs : /\ InChannel(LiveMsg(k))' = InChannel(LiveMsg(k)) /\ InChannel(EndMsg(k))' = InChannel(EndMsg(k))
                      /\ InWrites(LiveMsg(k))' = InWrites(LiveMsg(k)) /\ InWrites(EndMsg(k))' = InWrites(EndMsg(k))
                      /\ \A c \in Conns : Lags(c, k)' = Lags(c, k)
  BY <1>2 DEF InChannel, InWrites, Lags, LiveMsg, EndMsg
<1>5. Addressed' /\ Newcomers'
  BY <1>1, <1>2 DEF Addressed, Newcomers, Visible
<1>6. Finals' /\ \A k \in Jobs : Retired(k) => Retired(k)'
  <2>1. CASE End(j)
    BY <1>1, <2>1 DEF End, hub, TypeOK, Finals, Retired
  <2>2. CASE Emit(j)
    BY <1>1, <2>2 DEF Emit, hub, TypeOK, Finals, Retired
  <2>3. CASE Publish(j)
    BY <1>1, <2>3 DEF Publish, TypeOK, Finals, Retired
  <2> QED  BY <2>1, <2>2, <2>3
<1>7. Ordered'
  BY <1>1, <1>2, <1>4, <1>6 DEF Ordered, LiveMsg, EndMsg
<1>8. Reaching'
  <2>1. \A k \in Jobs : pc'[k] \in {"refresh", "over"} => pc[k] \in {"refresh", "over"}
    BY <1>1 DEF End, Emit, Publish, TypeOK
  <2> QED  BY <1>1, <1>2, <1>4, <2>1 DEF Reaching, TypeOK, EndMsg
<1> QED  BY <1>1, <1>3, <1>5, <1>6, <1>7, <1>8 DEF HubInv

\* SendProgress after wm.mu, and BroadcastRefresh: the channel takes the update or drops it.
LEMMA SendSteps ==
    ASSUME HubInv, NEW j \in Jobs, Enqueue(j) \/ EnqueueRefresh(j)
    PROVE  HubInv'
<1>1. TypeOK /\ Addressed /\ Finals /\ Ordered /\ Newcomers /\ Reaching
  BY DEF HubInv
<1>2. UNCHANGED <<status, holding, final, active, clients, writes, conn, broken, seen>>
  BY DEF Enqueue, EnqueueRefresh, peers
<1>3. PICK m \in Messages :
        /\ broadcast' = IF Full THEN broadcast ELSE Append(broadcast, m)
        /\ \/ /\ pc[j] = "enqueue" /\ m = [job |-> j, status |-> holding[j]]
              /\ dropped' = IF Full /\ final[j] THEN dropped \cup {j} ELSE dropped
              /\ IF final[j] THEN \E next \in {"refresh", "over"} : pc' = [pc EXCEPT ![j] = next]
                             ELSE pc' = [pc EXCEPT ![j] = "work"]
           \/ m = Refresh /\ pc[j] = "refresh" /\ pc' = [pc EXCEPT ![j] = "over"] /\ dropped' = dropped
  <2>1. CASE Enqueue(j)
    <3>1. holding[j] \in {"live", "ended"}
      BY <1>1 DEF TypeOK, Shown
    <3>2. [job |-> j, status |-> holding[j]] \in Messages
      BY <3>1, Kinds DEF LiveMsg, EndMsg
    <3> QED  BY <2>1, <3>2 DEF Enqueue, Offer
  <2>2. CASE EnqueueRefresh(j)
    BY <2>2, Kinds DEF EnqueueRefresh, Offer
  <2> QED  BY <2>1, <2>2
<1>3a. /\ holding[j] \in {"live", "ended"}
       /\ m # Refresh => m = IF holding[j] = "live" THEN LiveMsg(j) ELSE EndMsg(j)
  BY <1>1, <1>3 DEF TypeOK, Shown, LiveMsg, EndMsg
<1>4. /\ broadcast \in Seq(Messages) /\ Len(broadcast) <= Capacity /\ Capacity \in Nat /\ Len(broadcast) \in Nat
      /\ pc \in [Jobs -> {"work", "publish", "enqueue", "refresh", "over"}]
  BY <1>1, CapacityAssumption DEF TypeOK
<1>5. \/ Full /\ broadcast' = broadcast
      \/ /\ ~Full /\ broadcast' = Append(broadcast, m) /\ broadcast' \in Seq(Messages)
         /\ Len(broadcast') = Len(broadcast) + 1 /\ broadcast'[Len(broadcast) + 1] = m
         /\ \A i \in 1..Len(broadcast) : broadcast'[i] = broadcast[i]
  BY <1>3, <1>4, Appended
<1>6. TypeOK'
  <2>1. broadcast' \in Seq(Messages) /\ Len(broadcast') <= Capacity
    BY <1>4, <1>5 DEF Full
  <2>2. pc' \in [Jobs -> {"work", "publish", "enqueue", "refresh", "over"}] /\ dropped' \subseteq Jobs
    BY <1>1, <1>3 DEF TypeOK
  <2> QED  BY <1>1, <1>2, <2>1, <2>2 DEF TypeOK
<1>7. Addressed' /\ Newcomers'
  BY <1>1, <1>2 DEF Addressed, Newcomers, Visible
<1>8. Finals'
  BY <1>1, <1>2, <1>3, <1>4 DEF Finals
<1>9. \A x : InChannel(x)' => InChannel(x) \/ (x = m /\ ~Full)
  BY <1>4, <1>5 DEF InChannel
<1>10. \A x : InChannel(x) => InChannel(x)'
  BY <1>4, <1>5 DEF InChannel
<1>11. \A x : InWrites(x)' = InWrites(x)
  BY <1>2 DEF InWrites
<1>12. \A k \in Jobs : /\ m = EndMsg(k) => k = j /\ Retired(k)
                       /\ m = LiveMsg(k) => k = j /\ ~Retired(k)
  <2>1. CASE m = Refresh
    BY <2>1, Kinds
  <2>2. CASE m # Refresh
    BY <1>1, <1>3, <1>3a, <2>2, Kinds DEF Retired, Finals
  <2> QED  BY <2>1, <2>2
<1>13. Ordered'
  <2>1. SUFFICES ASSUME NEW k \in Jobs
        PROVE  /\ InChannel(EndMsg(k))' => Retired(k)
               /\ \A i, n \in 1..Len(broadcast') : i < n /\ broadcast'[i] = EndMsg(k) => broadcast'[n] # LiveMsg(k)
               /\ InWrites(EndMsg(k))' \/ (\E c \in Conns : seen'[c][k] = "ended")
                  => Retired(k) /\ ~InChannel(LiveMsg(k))' /\ ~InWrites(LiveMsg(k))'
    BY <1>2 DEF Ordered, Retired, LiveMsg, EndMsg
  <2>2. InChannel(EndMsg(k))' => Retired(k)
    BY <1>1, <1>9, <1>12 DEF Ordered, EndMsg
  <2>3. ASSUME NEW i \in 1..Len(broadcast'), NEW n \in 1..Len(broadcast'), i < n, broadcast'[i] = EndMsg(k)
        PROVE  broadcast'[n] # LiveMsg(k)
    <3>1. InChannel(EndMsg(k))' /\ Retired(k)
      BY <2>2, <2>3 DEF InChannel, EndMsg
    <3>2. i \in 1..Len(broadcast) /\ broadcast[i] = EndMsg(k)
      BY <1>4, <1>5, <2>3
    <3>3. CASE n \in 1..Len(broadcast)
      BY <1>1, <1>5, <2>3, <3>2, <3>3 DEF Ordered
    <3>4. CASE n = Len(broadcast) + 1
      BY <1>5, <1>12, <3>1, <3>4, <2>3, <1>4
    <3> QED  BY <1>4, <1>5, <3>3, <3>4
  <2>4. ASSUME InWrites(EndMsg(k)) \/ (\E c \in Conns : seen[c][k] = "ended")
        PROVE  Retired(k) /\ ~InChannel(LiveMsg(k))' /\ ~InWrites(LiveMsg(k))
    <3>1. Retired(k) /\ ~InChannel(LiveMsg(k)) /\ ~InWrites(LiveMsg(k))
      BY <1>1, <2>4 DEF Ordered
    <3>2. LiveMsg(k) # m
      BY <1>12, <3>1
    <3> QED  BY <1>9, <3>1, <3>2 DEF LiveMsg
  <2> QED  BY <1>2, <1>11, <2>2, <2>3, <2>4 DEF LiveMsg, EndMsg
<1>14. Reaching'
  <2>1. SUFFICES ASSUME NEW k \in Jobs, pc'[k] \in {"refresh", "over"}, k \notin dropped', ~InChannel(EndMsg(k))'
        PROVE  /\ ~InChannel(LiveMsg(k))'
               /\ \A c \in clients : Lags(c, k) => [to |-> c, msg |-> EndMsg(k)] \in writes
    BY <1>2 DEF Reaching, Lags, LiveMsg, EndMsg
  <2>2. ~InChannel(EndMsg(k))
    BY <1>10, <2>1 DEF EndMsg
  <2>3. ASSUME pc[k] \notin {"refresh", "over"} PROVE FALSE
    <3>1. k = j /\ pc[j] = "enqueue" /\ final[j]
      BY <1>3, <1>4, <2>1, <2>3
    <3>2. ~Full /\ m = EndMsg(j)
      <4>1. m = [job |-> j, status |-> holding[j]] /\ holding[j] = "ended"
        BY <1>1, <1>3, <3>1 DEF Finals
      <4>2. ~Full
        BY <1>3, <2>1, <3>1
      <4> QED  BY <4>1, <4>2 DEF EndMsg
    <3>3. broadcast'[Len(broadcast) + 1] = EndMsg(j) /\ Len(broadcast) + 1 \in 1..Len(broadcast')
      BY <1>4, <1>5, <3>2
    <3> QED  BY <2>1, <3>1, <3>3 DEF InChannel, EndMsg
  <2>4. pc[k] \in {"refresh", "over"} /\ k \notin dropped
    BY <1>3, <2>1, <2>3
  <2>5. /\ ~InChannel(LiveMsg(k))
        /\ \A c \in clients : Lags(c, k) => [to |-> c, msg |-> EndMsg(k)] \in writes
    BY <1>1, <2>2, <2>4 DEF Reaching
  <2>6. LiveMsg(k) # m
    <3>1. CASE m = Refresh
      BY <3>1, Kinds
    <3>2. CASE pc[j] = "enqueue"
      BY <1>12, <2>4, <3>2
    <3> QED  BY <1>3, <3>1, <3>2
  <2> QED  BY <1>9, <2>5, <2>6 DEF LiveMsg
<1> QED  BY <1>6, <1>7, <1>8, <1>13, <1>14 DEF HubInv

\* A browser connects or leaves, Run forgets a client: nothing is on its way to more than before.
LEMMA HandlerSteps ==
    ASSUME HubInv, NEW c \in Conns, Connect(c) \/ Disconnect(c) \/ Unregister(c)
    PROVE  HubInv'
<1>1. TypeOK /\ Addressed /\ Finals /\ Ordered /\ Newcomers /\ Reaching
  BY DEF HubInv
<1>2. /\ UNCHANGED <<status, pc, holding, final, active, broadcast, writes, broken, seen, dropped>>
      /\ clients' \subseteq clients
  BY DEF Connect, Disconnect, Unregister, worker, hub
<1>3. TypeOK'
  BY <1>1, <1>2 DEF Connect, Disconnect, Unregister, TypeOK
<1>4. Addressed' /\ Finals'
  BY <1>1, <1>2 DEF Addressed, Finals, Visible
<1>5. Ordered'
  BY <1>1, <1>2 DEF Ordered, InChannel, InWrites, Retired, LiveMsg, EndMsg
<1>6. Newcomers'
  <2>1. \A d \in Conns : conn'[d] \in {"dialing", "registering"} => conn[d] \in {"dialing", "registering"}
    BY <1>1 DEF Connect, Disconnect, Unregister, TypeOK
  <2> QED  BY <1>1, <1>2, <2>1 DEF Newcomers
<1>7. Reaching'
  BY <1>1, <1>2 DEF Reaching, InChannel, Lags, LiveMsg, EndMsg
<1> QED  BY <1>3, <1>4, <1>5, <1>6, <1>7 DEF HubInv

\* A connection registers: the snapshot holds only jobs that have not ended.
LEMMA RegisterStep ==
    ASSUME HubInv, NEW c \in Conns, Register(c)
    PROVE  HubInv'
<1>1. TypeOK /\ Addressed /\ Finals /\ Ordered /\ Newcomers /\ Reaching
  BY DEF HubInv
<1>2. /\ UNCHANGED <<status, pc, holding, final, active, broadcast, broken, seen, dropped>>
      /\ writes = {} /\ conn[c] = "registering"
      /\ conn' = [conn EXCEPT ![c] = "open"] /\ clients' = clients \cup {c}
      /\ writes' = {[to |-> c, msg |-> LiveMsg(j)] : j \in {k \in active : Visible(c, k)}}
  BY DEF Register, worker, LiveMsg
<1>3. active \subseteq Jobs /\ c \notin clients /\ \A j \in Jobs : seen[c][j] = "nothing"
  BY <1>1, <1>2 DEF TypeOK, Newcomers
<1>4. \A w \in writes' : \E j \in Jobs : /\ j \in active /\ Visible(c, j)
                                         /\ w.to = c /\ w.msg = LiveMsg(j) /\ w.msg.job = j
                                         /\ w \in [to : Conns, msg : Messages]
  BY <1>2, <1>3, Kinds DEF LiveMsg
<1>5. \A k \in Jobs : InWrites(LiveMsg(k))' => k \in active
  <2>1. ASSUME NEW k \in Jobs, NEW w \in writes', w.msg = LiveMsg(k) PROVE k \in active
    BY <1>4, <2>1, Kinds
  <2> QED  BY <2>1 DEF InWrites, LiveMsg
<1>6. \A k \in Jobs : ~InWrites(EndMsg(k))'
  <2>1. ASSUME NEW k \in Jobs, NEW w \in writes' PROVE w.msg # EndMsg(k)
    BY <1>4, Kinds
  <2> QED  BY <2>1 DEF InWrites, EndMsg
<1>7. \A x : InChannel(x)' = InChannel(x)
  BY <1>2 DEF InChannel
<1>8. TypeOK'
  <2>1. conn' \in [Conns -> {"dialing", "registering", "open", "closing", "gone"}]
    BY <1>1, <1>2 DEF TypeOK
  <2>2. writes' \subseteq [to : Conns, msg : Messages]
    BY <1>4
  <2> QED  BY <1>1, <1>2, <2>1, <2>2 DEF TypeOK
<1>9. Addressed'
  BY <1>1, <1>2, <1>4 DEF Addressed, Visible
<1>10. Finals'
  BY <1>1, <1>2 DEF Finals
<1>11. Ordered'
  <2>1. SUFFICES ASSUME NEW k \in Jobs
        PROVE  /\ InChannel(EndMsg(k)) => Retired(k)
               /\ \A i, n \in 1..Len(broadcast) : i < n /\ broadcast[i] = EndMsg(k) => broadcast[n] # LiveMsg(k)
               /\ InWrites(EndMsg(k))' \/ (\E d \in Conns : seen[d][k] = "ended")
                  => Retired(k) /\ ~InChannel(LiveMsg(k)) /\ ~InWrites(LiveMsg(k))'
    BY <1>2 DEF Ordered, Retired, InChannel, LiveMsg, EndMsg
  <2>2. ASSUME \E d \in Conns : seen[d][k] = "ended"
        PROVE  Retired(k) /\ ~InChannel(LiveMsg(k)) /\ ~InWrites(LiveMsg(k))'
    <3>1. Retired(k) /\ ~InChannel(LiveMsg(k))
      BY <1>1, <2>2 DEF Ordered
    <3> QED  BY <1>5, <3>1 DEF Retired
  <2> QED  BY <1>1, <1>6, <2>2 DEF Ordered
<1>12. Newcomers'
  <2>1. \A d \in Conns : conn'[d] \in {"dialing", "registering"} => d # c /\ conn[d] \in {"dialing", "registering"}
    BY <1>1, <1>2 DEF TypeOK
  <2> QED  BY <1>1, <1>2, <1>4, <2>1 DEF Newcomers
<1>13. Reaching'
  <2>1. SUFFICES ASSUME NEW k \in Jobs, pc[k] \in {"refresh", "over"}, k \notin dropped, ~InChannel(EndMsg(k)),
                        NEW d \in clients', Lags(d, k)'
        PROVE  FALSE
    <3>1. \A k \in Jobs : pc[k] \in {"refresh", "over"} /\ k \notin dropped /\ ~InChannel(EndMsg(k))
                          => ~InChannel(LiveMsg(k))
      BY <1>1 DEF Reaching
    <3>2. \A k \in Jobs : (InChannel(EndMsg(k))' <=> InChannel(EndMsg(k))) /\ (InChannel(LiveMsg(k))' <=> InChannel(LiveMsg(k)))
      BY <1>2 DEF InChannel, EndMsg, LiveMsg
    <3> QED  BY <1>2, <3>1, <3>2 DEF Reaching
  <2>2. k \notin active
    BY <1>1, <2>1 DEF Finals
  <2>3. ~\E w \in writes' : w.to = d /\ w.msg = LiveMsg(k)
    BY <1>5, <2>2 DEF InWrites, LiveMsg
  <2>4. seen[d][k] = "live"
    BY <1>2, <2>1, <2>3 DEF Lags, LiveMsg
  <2>5. d \in clients
    BY <1>2, <1>3, <2>1, <2>4
  <2> QED  BY <1>1, <1>2, <2>1, <2>4, <2>5 DEF Reaching, Lags
<1> QED  BY <1>8, <1>9, <1>10, <1>11, <1>12, <1>13 DEF HubInv

\* Run takes an update from the channel, to write it to whoever may see it.
LEMMA DeliverStep ==
    ASSUME HubInv, Deliver
    PROVE  HubInv'
<1>1. TypeOK /\ Addressed /\ Finals /\ Ordered /\ Newcomers /\ Reaching
  BY DEF HubInv
<1>2. /\ UNCHANGED <<status, pc, holding, final, active, clients, conn, broken, seen, dropped>>
      /\ writes = {} /\ broadcast # <<>> /\ broadcast' = Tail(broadcast)
      /\ broadcast \in Seq(Messages) /\ clients \subseteq Conns /\ Len(broadcast) <= Capacity /\ Capacity \in Nat
  BY <1>1, CapacityAssumption DEF Deliver, TypeOK, worker, peers
<1>3. PICK m : m = Head(broadcast)
  OBVIOUS
<1>4. /\ broadcast' \in Seq(Messages) /\ Len(broadcast') = Len(broadcast) - 1 /\ Len(broadcast) \in Nat \ {0}
      /\ m \in Messages /\ m = broadcast[1]
      /\ \A i \in 1..Len(broadcast') : broadcast'[i] = broadcast[i + 1] /\ i + 1 \in 1..Len(broadcast)
  BY <1>2, <1>3, Taken
<1>5. writes' = {[to |-> d, msg |-> m] : d \in {e \in clients : Allowed(e, m)}}
  BY <1>3 DEF Deliver
<1>6. \A w \in writes' : w.msg = m /\ w.to \in clients /\ Allowed(w.to, m) /\ w \in [to : Conns, msg : Messages]
  BY <1>2, <1>4, <1>5
<1>7. \A x : InChannel(x) <=> x = m \/ InChannel(x)'
  <2>1. ASSUME NEW x, InChannel(x), x # m PROVE InChannel(x)'
    <3>1. PICK i \in 1..Len(broadcast) : broadcast[i] = x
      BY <2>1 DEF InChannel
    <3>2. i # 1 /\ i - 1 \in 1..Len(broadcast')
      BY <1>4, <2>1, <3>1
    <3>3. broadcast'[i - 1] = x
      BY <1>4, <3>1, <3>2
    <3> QED  BY <3>2, <3>3 DEF InChannel
  <2>2. ASSUME NEW x, x = m \/ InChannel(x)' PROVE InChannel(x)
    <3>1. CASE x = m
      BY <1>4, <3>1 DEF InChannel
    <3>2. CASE InChannel(x)'
      BY <1>4, <3>2 DEF InChannel
    <3> QED  BY <2>2, <3>1, <3>2
  <2> QED  BY <2>1, <2>2
<1>8. \A x : InWrites(x)' => x = m
  BY <1>6 DEF InWrites
<1>9. ASSUME NEW k \in Jobs, m = EndMsg(k)
      PROVE  Retired(k) /\ ~InChannel(LiveMsg(k))' /\ ~InWrites(LiveMsg(k))'
  <2>1. InChannel(EndMsg(k)) /\ LiveMsg(k) # m
    BY <1>7, <1>9, Kinds
  <2>2. Retired(k)
    BY <1>1, <2>1 DEF Ordered
  <2>3. ASSUME NEW i \in 1..Len(broadcast'), broadcast'[i] = LiveMsg(k) PROVE FALSE
    <3>1. i + 1 \in 1..Len(broadcast) /\ broadcast[i + 1] = LiveMsg(k) /\ 1 \in 1..Len(broadcast) /\ 1 < i + 1
      BY <1>4, <2>3
    <3>2. broadcast[1] = EndMsg(k)
      BY <1>4, <1>9
    <3> QED  BY <1>1, <3>1, <3>2 DEF Ordered
  <2>4. ~InWrites(LiveMsg(k))'
    <3>1. \A w \in writes' : w.msg # LiveMsg(k)
      BY <1>6, <2>1
    <3> QED  BY <3>1 DEF InWrites, LiveMsg
  <2> QED  BY <2>2, <2>3, <2>4 DEF InChannel, LiveMsg
<1>10. TypeOK'
  <2>1. broadcast' \in Seq(Messages) /\ Len(broadcast') <= Capacity
    BY <1>2, <1>4
  <2>2. writes' \subseteq [to : Conns, msg : Messages]
    BY <1>6
  <2> QED  BY <1>1, <1>2, <2>1, <2>2 DEF TypeOK
<1>11. Addressed'
  <2>1. \A w \in writes' : w.msg # Refresh => Visible(w.to, w.msg.job)
    BY <1>6 DEF Allowed
  <2> QED  BY <1>1, <1>2, <2>1 DEF Addressed, Visible
<1>12. Finals'
  BY <1>1, <1>2 DEF Finals
<1>13. Ordered'
  <2>1. SUFFICES ASSUME NEW k \in Jobs
        PROVE  /\ InChannel(EndMsg(k))' => Retired(k)
               /\ \A i, n \in 1..Len(broadcast') : i < n /\ broadcast'[i] = EndMsg(k) => broadcast'[n] # LiveMsg(k)
               /\ InWrites(EndMsg(k))' \/ (\E d \in Conns : seen[d][k] = "ended")
                  => Retired(k) /\ ~InChannel(LiveMsg(k))' /\ ~InWrites(LiveMsg(k))'
    BY <1>2 DEF Ordered, Retired, LiveMsg, EndMsg
  <2>2. InChannel(EndMsg(k))' => Retired(k)
    BY <1>1, <1>7 DEF Ordered, EndMsg
  <2>3. ASSUME NEW i \in 1..Len(broadcast'), NEW n \in 1..Len(broadcast'), i < n, broadcast'[i] = EndMsg(k)
        PROVE  broadcast'[n] # LiveMsg(k)
    <3>1. /\ i + 1 \in 1..Len(broadcast) /\ n + 1 \in 1..Len(broadcast) /\ i + 1 < n + 1
          /\ broadcast[i + 1] = EndMsg(k) /\ broadcast'[n] = broadcast[n + 1]
      BY <1>4, <2>3
    <3> QED  BY <1>1, <3>1 DEF Ordered
  <2>4. InWrites(EndMsg(k))' => m = EndMsg(k)
    BY <1>8 DEF EndMsg
  <2>5. ASSUME \E d \in Conns : seen[d][k] = "ended"
        PROVE  Retired(k) /\ ~InChannel(LiveMsg(k))' /\ ~InWrites(LiveMsg(k))'
    <3>1. Retired(k) /\ ~InChannel(LiveMsg(k))
      BY <1>1, <2>5 DEF Ordered
    <3>2. LiveMsg(k) # m /\ ~InChannel(LiveMsg(k))'
      BY <1>7, <3>1 DEF LiveMsg
    <3>3. \A w \in writes' : w.msg # LiveMsg(k)
      BY <1>6, <3>2
    <3> QED  BY <3>1, <3>2, <3>3 DEF InWrites, LiveMsg
  <2> QED  BY <1>9, <2>2, <2>3, <2>4, <2>5
<1>14. Newcomers'
  BY <1>1, <1>2, <1>6 DEF Newcomers
<1>15. Reaching'
  <2>1. SUFFICES ASSUME NEW k \in Jobs, pc[k] \in {"refresh", "over"}, k \notin dropped, ~InChannel(EndMsg(k))'
        PROVE  /\ ~InChannel(LiveMsg(k))'
               /\ \A d \in clients : Lags(d, k)' => [to |-> d, msg |-> EndMsg(k)] \in writes'
    BY <1>2 DEF Reaching, LiveMsg, EndMsg
  <2>2. CASE m = EndMsg(k)
    <3>1. ~InChannel(LiveMsg(k))' /\ ~InWrites(LiveMsg(k))'
      BY <1>9, <2>2
    <3>2. ASSUME NEW d \in clients, Lags(d, k)' PROVE [to |-> d, msg |-> EndMsg(k)] \in writes'
      <4>1. seen[d][k] = "live"
        BY <1>2, <3>1, <3>2 DEF Lags, InWrites, LiveMsg
      <4>2. Visible(d, k) /\ m.job = k
        BY <1>1, <1>2, <2>2, <4>1 DEF Addressed, EndMsg
      <4> QED  BY <1>5, <2>2, <4>2 DEF Allowed
    <3> QED  BY <3>1, <3>2
  <2>3. CASE m # EndMsg(k)
    <3>1. ~InChannel(EndMsg(k))
      BY <1>7, <2>1, <2>3 DEF EndMsg
    <3>2. ~InChannel(LiveMsg(k)) /\ \A d \in clients : ~Lags(d, k)
      BY <1>1, <1>2, <2>1, <3>1 DEF Reaching
    <3>3. m # LiveMsg(k) /\ ~InChannel(LiveMsg(k))'
      BY <1>7, <3>2 DEF LiveMsg
    <3>4. \A w \in writes' : w.msg # LiveMsg(k)
      BY <1>6, <3>3
    <3>5. \A d \in clients : ~Lags(d, k)'
      BY <1>2, <3>2, <3>4 DEF Lags, LiveMsg
    <3> QED  BY <3>3, <3>5
  <2> QED  BY <2>2, <2>3
<1> QED  BY <1>10, <1>11, <1>12, <1>13, <1>14, <1>15 DEF HubInv

\* One write ends: the connection shows the update, or Run forgets it.
LEMMA WriteStep ==
    ASSUME HubInv, NEW w \in writes, Write(w)
    PROVE  HubInv'
<1>1. TypeOK /\ Addressed /\ Finals /\ Ordered /\ Newcomers /\ Reaching
  BY DEF HubInv
<1>2. /\ UNCHANGED <<status, pc, holding, final, active, broadcast, conn, dropped>>
      /\ writes' = writes \ {w} /\ clients' \subseteq clients
      /\ w.to \in Conns /\ w.msg \in Messages /\ w = [to |-> w.to, msg |-> w.msg]
      /\ seen \in [Conns -> [Jobs -> Shown \cup {"nothing"}]]
  BY <1>1 DEF Write, TypeOK, worker
<1>3. \/ seen' = seen /\ (w.msg = Refresh \/ w.to \notin clients')
      \/ /\ w.msg # Refresh /\ w.msg.job \in Jobs /\ w.msg.status \in Shown
         /\ seen' = [seen EXCEPT ![w.to][w.msg.job] = w.msg.status]
         /\ w.msg = LiveMsg(w.msg.job) \/ w.msg = EndMsg(w.msg.job)
  <2>1. w.msg = Refresh \/ (/\ w.msg.job \in Jobs /\ w.msg.status \in Shown
                            /\ (w.msg = LiveMsg(w.msg.job) \/ w.msg = EndMsg(w.msg.job)))
    BY <1>2, Kinds DEF Messages, Updates
  <2> QED  BY <2>1 DEF Write
<1>4. \A d \in Conns, k \in Jobs :
        \/ seen'[d][k] = seen[d][k]
        \/ d = w.to /\ ((w.msg = LiveMsg(k) /\ seen'[d][k] = "live") \/ (w.msg = EndMsg(k) /\ seen'[d][k] = "ended"))
  BY <1>2, <1>3 DEF LiveMsg, EndMsg
<1>5. \A d \in Conns, k \in Jobs : w.to = d /\ w.msg = EndMsg(k) => seen'[d][k] = "ended" \/ d \notin clients'
  <2>1. ASSUME NEW k \in Jobs, w.msg = EndMsg(k), w.to \in clients'
        PROVE  seen'[w.to][k] = "ended"
    <3>1. w.msg # Refresh /\ w.msg.job = k /\ w.msg.status = "ended"
      BY <2>1, Kinds DEF EndMsg
    <3>2. seen' = [seen EXCEPT ![w.to][k] = "ended"]
      BY <1>3, <2>1, <3>1
    <3> QED  BY <1>2, <3>2
  <2> QED  BY <2>1
<1>6. \A x : InChannel(x)' = InChannel(x)
  BY <1>2 DEF InChannel
<1>7. \A x : InWrites(x)' => InWrites(x)
  BY <1>2 DEF InWrites
<1>8. TypeOK'
  <2>1. seen' \in [Conns -> [Jobs -> Shown \cup {"nothing"}]]
    BY <1>2, <1>3
  <2>2. clients' \subseteq Conns /\ broken' \subseteq Conns /\ writes' \subseteq [to : Conns, msg : Messages]
    BY <1>1, <1>2 DEF Write, TypeOK
  <2> QED  BY <1>1, <1>2, <2>1, <2>2 DEF TypeOK
<1>9. Addressed'
  <2>1. \A v \in writes' : v.msg # Refresh => Visible(v.to, v.msg.job)
    BY <1>1, <1>2 DEF Addressed
  <2>2. ASSUME NEW d \in Conns, NEW k \in Jobs, seen'[d][k] # "nothing" PROVE Visible(d, k)
    <3>1. CASE seen'[d][k] = seen[d][k]
      BY <1>1, <2>2, <3>1 DEF Addressed
    <3>2. CASE d = w.to /\ (w.msg = LiveMsg(k) \/ w.msg = EndMsg(k))
      <4>1. w.msg # Refresh /\ w.msg.job = k
        BY <3>2, Kinds DEF LiveMsg, EndMsg
      <4> QED  BY <1>1, <3>2, <4>1 DEF Addressed
    <3> QED  BY <1>4, <3>1, <3>2
  <2> QED  BY <2>1, <2>2 DEF Addressed, Visible
<1>10. Finals'
  BY <1>1, <1>2 DEF Finals
<1>11. Ordered'
  <2>1. SUFFICES ASSUME NEW k \in Jobs
        PROVE  /\ InChannel(EndMsg(k)) => Retired(k)
               /\ \A i, n \in 1..Len(broadcast) : i < n /\ broadcast[i] = EndMsg(k) => broadcast[n] # LiveMsg(k)
               /\ InWrites(EndMsg(k))' \/ (\E d \in Conns : seen'[d][k] = "ended")
                  => Retired(k) /\ ~InChannel(LiveMsg(k)) /\ ~InWrites(LiveMsg(k))'
    BY <1>2 DEF Ordered, Retired, InChannel, LiveMsg, EndMsg
  <2>2. InWrites(EndMsg(k))' => InWrites(EndMsg(k))
    BY <1>7 DEF EndMsg
  <2>3. InWrites(LiveMsg(k))' => InWrites(LiveMsg(k))
    BY <1>7 DEF LiveMsg
  <2>4. ASSUME NEW d \in Conns, seen'[d][k] = "ended"
        PROVE  InWrites(EndMsg(k)) \/ seen[d][k] = "ended"
    BY <1>4, <2>4 DEF InWrites
  <2> QED  BY <1>1, <2>2, <2>3, <2>4 DEF Ordered
<1>12. Newcomers'
  <2>1. SUFFICES ASSUME NEW d \in Conns, conn[d] \in {"dialing", "registering"}
        PROVE  /\ d \notin clients' /\ \A k \in Jobs : seen'[d][k] = "nothing"
               /\ \A v \in writes' : v.to # d
    BY <1>2 DEF Newcomers
  <2>2. d \notin clients /\ (\A k \in Jobs : seen[d][k] = "nothing") /\ (\A v \in writes : v.to # d)
    BY <1>1, <2>1 DEF Newcomers
  <2> QED  BY <1>2, <1>4, <2>2
<1>13. Reaching'
  <2>1. SUFFICES ASSUME NEW k \in Jobs, pc[k] \in {"refresh", "over"}, k \notin dropped, ~InChannel(EndMsg(k))
        PROVE  /\ ~InChannel(LiveMsg(k))
               /\ \A d \in clients' : Lags(d, k)' => [to |-> d, msg |-> EndMsg(k)] \in writes'
    BY <1>2 DEF Reaching, InChannel, LiveMsg, EndMsg
  <2>2. /\ ~InChannel(LiveMsg(k))
        /\ \A d \in clients : Lags(d, k) => [to |-> d, msg |-> EndMsg(k)] \in writes
    BY <1>1, <2>1 DEF Reaching
  <2>3. ASSUME NEW d \in clients', Lags(d, k)' PROVE [to |-> d, msg |-> EndMsg(k)] \in writes'
    <3>1. d \in clients /\ d \in Conns
      BY <1>1, <1>2, <2>3 DEF TypeOK
    <3>2. Lags(d, k)
      <4>1. CASE seen'[d][k] = "live"
        BY <1>4, <3>1, <4>1 DEF Lags
      <4>2. CASE \E v \in writes' : v.to = d /\ v.msg = LiveMsg(k)
        BY <1>2, <4>2 DEF Lags
      <4> QED  BY <2>3, <4>1, <4>2 DEF Lags, LiveMsg
    <3>3. [to |-> d, msg |-> EndMsg(k)] \in writes
      BY <2>2, <3>1, <3>2
    <3>4. ASSUME w = [to |-> d, msg |-> EndMsg(k)] PROVE FALSE
      <4>1. w.to = d /\ w.msg = EndMsg(k)
        BY <3>4
      <4>2. seen'[d][k] = "ended"
        BY <1>5, <2>3, <3>1, <4>1
      <4>3. PICK v \in writes' : v.to = d /\ v.msg = LiveMsg(k)
        BY <2>3, <4>2 DEF Lags, LiveMsg
      <4> QED  BY <1>1, <1>2, <4>1, <4>3 DEF Ordered, InWrites
    <3> QED  BY <1>2, <3>3, <3>4
  <2> QED  BY <2>2, <2>3
<1> QED  BY <1>8, <1>9, <1>10, <1>11, <1>12, <1>13 DEF HubInv

-----------------------------------------------------------------------------
(* Theorems *)

\* Every step of a worker, of Run or of a handler keeps the invariant.
LEMMA NextKeepsHubInv ==
    ASSUME HubInv, [Next]_vars
    PROVE  HubInv'
<1>1. CASE \E j \in Jobs : End(j) \/ Emit(j) \/ Step(j)
  BY <1>1, WorkerSteps, SendSteps DEF Step
<1>2. CASE \E c \in Conns : Register(c) \/ Unregister(c) \/ Connect(c) \/ Disconnect(c)
  BY <1>2, RegisterStep, HandlerSteps
<1>3. CASE Deliver
  BY <1>3, DeliverStep
<1>4. CASE AnyWrite
  BY <1>4, WriteStep DEF AnyWrite
<1>5. CASE UNCHANGED vars
  <2>1. UNCHANGED <<status, pc, holding, final, active, broadcast, clients, writes, conn, broken, seen, dropped>>
    BY <1>5 DEF vars, worker, hub, peers
  <2>2. TypeOK' /\ Addressed' /\ Finals' /\ Newcomers'
    BY <2>1 DEF HubInv, TypeOK, Addressed, Finals, Newcomers, Visible
  <2>3. Ordered'
    BY <2>1 DEF HubInv, Ordered, Retired, InChannel, InWrites, LiveMsg, EndMsg
  <2>4. Reaching'
    BY <2>1 DEF HubInv, Reaching, Lags, InChannel, LiveMsg, EndMsg
  <2> QED  BY <2>2, <2>3, <2>4 DEF HubInv
<1> QED  BY <1>1, <1>2, <1>3, <1>4, <1>5 DEF Next

\* The hub's invariant holds of every state, for every number of jobs and connections.
THEOREM HubInvariance == Spec => []HubInv
<1>1. Init => HubInv
  <2> SUFFICES ASSUME Init PROVE HubInv
    OBVIOUS
  <2>1. broadcast = <<>> /\ Len(broadcast) = 0 /\ Capacity \in Nat \ {0}
    BY CapacityAssumption DEF Init
  <2>2. TypeOK
    BY <2>1 DEF Init, TypeOK, Shown
  <2>3. Addressed /\ Finals /\ Newcomers
    BY DEF Init, Addressed, Finals, Newcomers
  <2>4. Ordered
    <3>1. \A x : ~InChannel(x) /\ ~InWrites(x)
      BY <2>1 DEF Init, InChannel, InWrites
    <3>2. \A c \in Conns, j \in Jobs : seen[c][j] # "ended"
      BY DEF Init
    <3>3. 1..Len(broadcast) = {}
      BY <2>1
    <3> QED  BY <3>1, <3>2, <3>3 DEF Ordered
  <2>5. Reaching
    BY DEF Init, Reaching
  <2> QED  BY <2>2, <2>3, <2>4, <2>5 DEF HubInv
<1>2. HubInv /\ [Next]_vars => HubInv'
  BY NextKeepsHubInv
<1> QED  BY <1>1, <1>2, PTL DEF Spec

\* No connection is shown a job of somebody else (shouldSendUpdate, and the filter of
\* the snapshot).
THEOREM UpdatesArePrivate == Spec => []Private
<1>1. HubInv => Private
  BY DEF HubInv, Addressed, Private
<1> QED  BY <1>1, HubInvariance, PTL

\* A snapshot taken after the last update of a job left wm.mu does not hold the job.
THEOREM SnapshotsForget == Spec => []EndedLeavesSnapshot
<1>1. HubInv => EndedLeavesSnapshot
  BY DEF HubInv, Finals, EndedLeavesSnapshot
<1> QED  BY <1>1, HubInvariance, PTL

\* Whoever shows a job as running after its last update was sent is still to get that
\* update, unless the channel was full.
THEOREM LastUpdateReaches == Spec => []EndReachesViewers
<1>1. ASSUME HubInv PROVE EndReachesViewers
  <2>1. SUFFICES ASSUME NEW c \in clients, NEW j \in Jobs, pc[j] \in {"refresh", "over"}, seen[c][j] = "live",
                        j \notin dropped
        PROVE  Coming(c, j)
    BY DEF EndReachesViewers
  <2>2. CASE InChannel(EndMsg(j))
    BY <2>2 DEF InChannel, EndMsg, Coming
  <2>3. CASE ~InChannel(EndMsg(j))
    BY <1>1, <2>1, <2>3 DEF HubInv, Reaching, Lags, EndMsg, Coming
  <2> QED  BY <2>2, <2>3
<1> QED  BY <1>1, HubInvariance, PTL

\* What a connection has shown as ended it never shows as running again.
THEOREM EndsStayEnded == Spec => NoResurrection
<1>1. ASSUME HubInv, [Next]_vars, NEW c \in Conns, NEW j \in Jobs, seen[c][j] = "ended"
      PROVE  seen'[c][j] = "ended"
  <2>1. CASE seen' = seen
    BY <1>1, <2>1
  <2>2. CASE AnyWrite
    <3>1. PICK w \in writes : Write(w)
      BY <2>2 DEF AnyWrite
    <3>2. /\ w.msg \in Messages /\ w.to \in Conns
          /\ seen \in [Conns -> [Jobs -> Shown \cup {"nothing"}]]
          /\ ~InWrites(LiveMsg(j))
      BY <1>1 DEF HubInv, TypeOK, Ordered
    <3>3. w.msg # LiveMsg(j)
      BY <3>2 DEF InWrites
    <3>4. \/ seen' = seen
          \/ /\ w.msg # Refresh
             /\ seen' = [seen EXCEPT ![w.to][w.msg.job] = w.msg.status]
      BY <3>1 DEF Write
    <3>5. CASE w.msg # Refresh /\ seen' = [seen EXCEPT ![w.to][w.msg.job] = w.msg.status]
      <4>1. w.msg.job \in Jobs /\ (w.msg = LiveMsg(w.msg.job) \/ w.msg = EndMsg(w.msg.job))
        BY <3>2, <3>5, Kinds
      <4>2. w.msg.job = j => w.msg.status = "ended"
        BY <3>3, <4>1 DEF EndMsg
      <4> QED  BY <1>1, <3>2, <3>5, <4>1, <4>2
    <3> QED  BY <1>1, <3>4, <3>5
  <2>3. CASE Next /\ ~AnyWrite
    BY <2>1, <2>3 DEF Next, End, Emit, Step, Publish, Enqueue, EnqueueRefresh, Register, Unregister,
                      Connect, Disconnect, Deliver, peers
  <2>4. CASE UNCHANGED vars
    BY <2>1, <2>4 DEF vars, peers
  <2> QED  BY <1>1, <2>2, <2>3, <2>4
<1>2. HubInv /\ [Next]_vars =>
        [\A c \in Conns, j \in Jobs : seen[c][j] = "ended" => seen'[c][j] = "ended"]_vars
  BY <1>1
<1> QED  BY <1>2, HubInvariance, PTL DEF Spec, NoResurrection
=============================================================================
