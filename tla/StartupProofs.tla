--------------------------- MODULE StartupProofs ---------------------------
(***************************************************************************)
(* Proofs about Startup for every set of processes and hosts, every list   *)
(* of migrations and every number of faults.  What holds of the schema     *)
(* rests on who has the named lock; the invariant says it for the holder,  *)
(* for an orphaned session and for what either left behind.                *)
(***************************************************************************)
EXTENDS Startup, TLAPS

\* The schema never lags behind its history, nor a migration behind an earlier one.
Recorded ==
    /\ \A m \in history : Whole(m)
    /\ \A m \in Migrations : applied[m] > 0 => (1..m - 1) \subseteq history

\* Who migrates has the lock; an orphan has it as long as its statement runs.
Locked ==
    /\ \A p \in Procs : pc[p] \in Migrating <=> lock = p
    /\ running # 0 <=> lock = Orphan

\* Whoever migrates works on what is not recorded.
Planned == \A p \in Procs :
    /\ step[p] # 0 => pc[p] = "apply"
    /\ pc[p] = "apply" => todo[p] = Pending(p) /\ todo[p] # {}
    /\ pc[p] \in {"unlock"} \cup Migrated => 1..Known[p] \subseteq history

\* The statements a process counts are those of the schema; an orphan's is the next.
InPlace ==
    /\ \A p \in Procs, m \in Migrations :
          pc[p] = "apply" /\ Current(p, m) =>
             step[p] <= Statements[m] /\ (step[p] # 0 => applied[m] = step[p])
    /\ running # 0 =>
          /\ running \notin history /\ applied[running] < Statements[running]
          /\ (1..running - 1) \subseteq history

\* Before the first fault, a migration that is there in part belongs to who applies it.
PartsOwned == faults = 0 =>
    /\ lock # Orphan
    /\ \A m \in Migrations \ history : applied[m] > 0 =>
          \E p \in Procs : pc[p] = "apply" /\ Current(p, m) /\ applied[m] = step[p]

\* Whoever has passed Bind has the torrent port of its host.
Bound == \A p \in Procs :
    pc[p] \in {"account", "configure"} \cup Working => port[HostOf[p]] = p

IInv == TypeOK /\ Recorded /\ StartsApart /\ Locked /\ Planned /\ InPlace /\ PartsOwned /\ Bound

\* Migrations are numbered from 1 and have a statement each.
LEMMA Sizes == /\ Migrations \subseteq Nat \ {0} /\ 0 \notin Migrations
               /\ \A m \in Migrations : Statements[m] \in Nat \ {0} /\ (1..m - 1) \subseteq Migrations
               /\ \A p \in Procs : Known[p] \in Nat /\ 1..Known[p] \subseteq Migrations
  BY ProcAssumption, BoundAssumption DEF Migrations

\* The state in which nothing has started satisfies the invariant.
LEMMA InitIInv == Init => IInv
<1>1. SUFFICES ASSUME Init PROVE IInv
  OBVIOUS
<1>2. TypeOK /\ StartsApart
  BY <1>1, Sizes, ProcAssumption, BoundAssumption DEF Init, TypeOK, StartsApart
<1>3. Recorded /\ Locked /\ Planned
  BY <1>1, Sizes, ProcAssumption DEF Init, Recorded, Locked, Planned, Migrating, Migrated
<1>4. InPlace /\ PartsOwned /\ Bound
  BY <1>1, Sizes, ProcAssumption DEF Init, InPlace, PartsOwned, Bound, Working
<1> QED  BY <1>2, <1>3, <1>4 DEF IInv

\* A process that ends takes its lock with it; before any fault it ends only
\* where no migration of its is half done.
LEMMA ExitStep ==
    ASSUME IInv, NEW p \in Procs, Exit(p), UNCHANGED schema,
           lock' = IF lock = p THEN Nobody ELSE lock,
           faults' \in 0..MaxFaults, faults' >= faults,
           faults' = 0 => pc[p] # "apply",
           refused' \subseteq {"slow", "exists", "missing", "port"}, StartsApart'
    PROVE  IInv'
<1> USE DEF Exit, schema
<1>1. TypeOK /\ Recorded /\ Locked /\ Planned /\ InPlace /\ PartsOwned /\ Bound
  BY DEF IInv
<1>2. TypeOK'
  BY <1>1, ProcAssumption DEF TypeOK
<1>3. /\ pc'[p] = "off" /\ step'[p] = 0
      /\ \A q \in Procs \ {p} : pc'[q] = pc[q] /\ todo'[q] = todo[q] /\ step'[q] = step[q]
  BY <1>1 DEF TypeOK
<1>4. Recorded'
  BY <1>1 DEF Recorded, Whole
<1>5. Locked'
  BY <1>1, <1>3, ProcAssumption DEF Locked, Migrating, TypeOK
<1>6. Planned'
  BY <1>1, <1>3 DEF Planned, Migrated, Pending
<1>7. InPlace'
  BY <1>1, <1>3 DEF InPlace, Current
<1>8. PartsOwned'
  <2>1. SUFFICES ASSUME faults' = 0
                 PROVE  /\ lock' # Orphan
                        /\ \A m \in Migrations \ history : applied[m] > 0 =>
                              \E q \in Procs : pc'[q] = "apply" /\ Current(q, m)' /\ applied[m] = step'[q]
    BY DEF PartsOwned
  <2>2. faults = 0 /\ pc[p] # "apply"
    BY <1>1, <2>1, BoundAssumption DEF TypeOK
  <2>3. lock' # Orphan
    BY <1>1, <2>2, ProcAssumption DEF PartsOwned
  <2>4. ASSUME NEW m \in Migrations \ history, applied[m] > 0
        PROVE  \E q \in Procs : pc'[q] = "apply" /\ Current(q, m)' /\ applied[m] = step'[q]
    <3>1. PICK q \in Procs : pc[q] = "apply" /\ Current(q, m) /\ applied[m] = step[q]
      BY <1>1, <2>2, <2>4 DEF PartsOwned
    <3>2. q # p
      BY <2>2, <3>1
    <3> QED  BY <1>3, <3>1, <3>2 DEF Current
  <2> QED  BY <2>3, <2>4
<1>9. Bound'
  BY <1>1, <1>3, ProcAssumption DEF Bound, Working, TypeOK
<1> QED  BY <1>2, <1>4, <1>5, <1>6, <1>7, <1>8, <1>9 DEF IInv

\* SessionLock: the lock was free, so nobody migrates and no orphan is left.
LEMMA LockStep == ASSUME IInv, NEW p \in Procs, SessionLock(p) PROVE IInv'
<1> USE DEF SessionLock, Go, schema, session
<1>1. TypeOK /\ Recorded /\ StartsApart /\ Locked /\ Planned /\ InPlace /\ PartsOwned /\ Bound
  BY DEF IInv
<1>2. TypeOK' /\ Recorded' /\ StartsApart'
  BY <1>1 DEF TypeOK, Recorded, Whole, StartsApart, Migrating
<1>3. /\ pc'[p] = "read" /\ pc[p] = "lock"
      /\ \A q \in Procs \ {p} : pc'[q] = pc[q]
  BY <1>1 DEF TypeOK
<1>4. Locked'
  BY <1>1, <1>3, ProcAssumption DEF Locked, Migrating
<1>5. Planned' /\ InPlace'
  BY <1>1, <1>3 DEF Planned, InPlace, Current, Migrated, Pending
<1>6. PartsOwned'
  BY <1>1, <1>3, ProcAssumption DEF PartsOwned, Current
<1>7. Bound'
  BY <1>1, <1>3 DEF Bound, Working
<1> QED  BY <1>2, <1>4, <1>5, <1>6, <1>7 DEF IInv

\* A refused start leaves the invariant, whatever it was refused for, where the
\* reason is one that StartsApart allows.
LEMMA RefuseStep ==
    ASSUME IInv, NEW p \in Procs, NEW why \in {"slow", "exists", "missing", "port"}, Refuse(p, why),
           why # "missing", why = "exists" => faults > 0, faults = 0 => pc[p] # "apply"
    PROVE  IInv'
<1>1. StartsApart'
  BY DEF IInv, StartsApart, Refuse
<1>2. faults' = faults /\ faults \in 0..MaxFaults /\ refused' \subseteq {"slow", "exists", "missing", "port"}
  BY DEF IInv, TypeOK, Refuse
<1> QED  BY <1>1, <1>2, ExitStep, BoundAssumption DEF Refuse

\* The history has no gap below what it records, so nothing pending is missing.
LEMMA NoGap == ASSUME IInv, NEW p \in Procs, NEW m \in Pending(p), NEW n \in history PROVE m >= n
<1>1. n \in Migrations /\ applied[n] > 0
  BY Sizes DEF IInv, TypeOK, Recorded, Whole
<1>2. 1..n - 1 \subseteq history
  BY <1>1 DEF IInv, Recorded
<1>3. m \in Nat /\ m >= 1 /\ m \notin history
  BY Sizes DEF Pending
<1> QED  BY <1>1, <1>2, <1>3, Sizes

\* ReadHistory: refused for a gap, which there never is, or goes on with what is pending.
LEMMA ReadStep == ASSUME IInv, NEW p \in Procs, ReadHistory(p) PROVE IInv'
<1>1. TypeOK /\ Recorded /\ StartsApart /\ Locked /\ Planned /\ InPlace /\ PartsOwned /\ Bound
  BY DEF IInv
<1>2. ~ \E m \in Pending(p), n \in history : m < n
  <2>1. \A m \in Pending(p), n \in history : m >= n /\ m \in Nat /\ n \in Nat
    BY <1>1, NoGap, Sizes DEF TypeOK, Pending
  <2> QED  BY <2>1
<1>3. /\ Go(p, "read", IF Pending(p) = {} THEN "unlock" ELSE "apply")
      /\ todo' = [todo EXCEPT ![p] = Pending(p)]
      /\ UNCHANGED <<step, lock, schema, port, refused, faults>>
  BY <1>2 DEF ReadHistory
<1> USE <1>3 DEF Go, schema
<1>4. /\ pc'[p] = IF Pending(p) = {} THEN "unlock" ELSE "apply"
      /\ pc[p] = "read" /\ todo'[p] = Pending(p) /\ step[p] = 0
      /\ \A q \in Procs \ {p} : pc'[q] = pc[q] /\ todo'[q] = todo[q]
  BY <1>1 DEF TypeOK, Planned
<1>5. TypeOK'
  BY <1>1, Sizes DEF TypeOK, Migrating, Pending
<1>6. Recorded' /\ StartsApart'
  BY <1>1 DEF Recorded, Whole, StartsApart
<1>7. Locked'
  BY <1>1, <1>4 DEF Locked, Migrating
<1>8. Planned'
  BY <1>1, <1>4 DEF Planned, Migrated, Pending
<1>9. InPlace'
  <2>1. \A m \in Migrations : step[p] <= Statements[m]
    BY <1>4, Sizes
  <2> QED  BY <1>1, <1>4, <2>1 DEF InPlace, Current
<1>10. PartsOwned'
  BY <1>1, <1>4 DEF PartsOwned, Current
<1>11. Bound'
  BY <1>1, <1>4 DEF Bound, Working
<1> QED  BY <1>5, <1>6, <1>7, <1>8, <1>9, <1>10, <1>11 DEF IInv

\* While a process migrates, nobody else does and no orphan is left.
LEMMA Alone ==
    ASSUME IInv, NEW p \in Procs, pc[p] \in Migrating
    PROVE  lock = p /\ running = 0 /\ \A q \in Procs \ {p} : pc[q] \notin Migrating
<1>1. lock = p
  BY DEF IInv, Locked
<1>2. running = 0
  BY <1>1, ProcAssumption DEF IInv, Locked
<1> QED  BY <1>1, <1>2 DEF IInv, Locked

\* What is applied has all earlier migrations recorded.
LEMMA EarlierRecorded ==
    ASSUME IInv, NEW p \in Procs, NEW m \in Migrations, pc[p] = "apply", Current(p, m)
    PROVE  m \notin history /\ m \in 1..Known[p] /\ (1..m - 1) \subseteq history
<1>1. todo[p] = Pending(p)
  BY DEF IInv, Planned
<1>2. m \notin history /\ m \in 1..Known[p]
  BY <1>1 DEF Current, Pending
<1>3. ASSUME NEW n \in 1..m - 1 PROVE n \in history
  <2>1. n \in 1..Known[p] /\ ~(m <= n)
    BY <1>2, Sizes
  <2> QED  BY <1>1, <2>1 DEF Current, Pending
<1> QED  BY <1>2, <1>3

\* Apply: refused for what an earlier start left, or one more statement.
LEMMA ApplyStep == ASSUME IInv, NEW p \in Procs, NEW m \in Migrations, Apply(p, m) PROVE IInv'
<1>1. TypeOK /\ Recorded /\ StartsApart /\ Locked /\ Planned /\ InPlace /\ PartsOwned /\ Bound
  BY DEF IInv
<1>2. pc[p] = "apply" /\ Current(p, m) /\ step[p] < Statements[m]
  BY DEF Apply
<1>3. lock = p /\ running = 0 /\ \A q \in Procs \ {p} : pc[q] # "apply"
  BY <1>2, Alone DEF Migrating
<1>4. m \notin history /\ (1..m - 1) \subseteq history
  BY <1>2, EarlierRecorded
<1>5. \A n \in Migrations : Current(p, n) => n = m
  BY <1>2, Sizes DEF Current
<1>6. CASE applied[m] # step[p]
  <2>1. Refuse(p, "exists")
    BY <1>6 DEF Apply
  <2>2. faults # 0
    <3>1. SUFFICES ASSUME faults = 0 PROVE FALSE
      OBVIOUS
    <3>2. applied[m] > 0 /\ step[p] = 0
      BY <1>1, <1>2, <1>6 DEF InPlace, TypeOK
    <3>3. PICK q \in Procs : pc[q] = "apply" /\ applied[m] = step[q]
      BY <1>1, <1>4, <3>1, <3>2 DEF PartsOwned
    <3>4. q = p
      BY <1>3, <3>3
    <3> QED  BY <1>6, <3>3, <3>4
  <2>3. faults > 0
    BY <1>1, <2>2, BoundAssumption DEF TypeOK
  <2> QED  BY <2>1, <2>2, <2>3, RefuseStep
<1>7. CASE applied[m] = step[p]
  <2>1. /\ applied' = [applied EXCEPT ![m] = @ + 1] /\ step' = [step EXCEPT ![p] = @ + 1]
        /\ UNCHANGED <<pc, todo, lock, running, history, port, refused, faults>>
    BY <1>7 DEF Apply
  <2>2. /\ applied'[m] = applied[m] + 1 /\ applied'[m] = step'[p] /\ step'[p] = step[p] + 1
        /\ \A n \in Migrations \ {m} : applied'[n] = applied[n]
        /\ \A q \in Procs \ {p} : step'[q] = step[q]
        /\ step[p] \in Nat
    BY <1>1, <1>7, <2>1 DEF TypeOK
  <2>3. TypeOK'
    BY <1>1, <1>2, <1>7, <2>1, <2>2, Sizes DEF TypeOK
  <2>4. Recorded'
    BY <1>1, <1>4, <2>1, <2>2 DEF Recorded, Whole, TypeOK
  <2>5. StartsApart' /\ Locked' /\ Bound'
    BY <1>1, <2>1 DEF StartsApart, Locked, Bound
  <2>6. Planned'
    BY <1>1, <1>2, <2>1, <2>2 DEF Planned, Pending
  <2>7. InPlace'
    <3>1. step'[p] <= Statements[m]
      BY <1>2, <2>2, Sizes
    <3> QED  BY <1>1, <1>3, <1>5, <2>1, <2>2, <3>1 DEF InPlace, Current
  <2>8. PartsOwned'
    <3>1. SUFFICES ASSUME faults = 0
                   PROVE  /\ lock # Orphan
                          /\ \A n \in Migrations \ history : applied'[n] > 0 =>
                                \E q \in Procs : pc[q] = "apply" /\ Current(q, n) /\ applied'[n] = step'[q]
      BY <2>1 DEF PartsOwned, Current
    <3>2. ASSUME NEW n \in Migrations \ history, applied'[n] > 0, n # m PROVE FALSE
      <4>1. PICK q \in Procs : pc[q] = "apply" /\ Current(q, n)
        BY <1>1, <2>2, <3>1, <3>2 DEF PartsOwned
      <4> QED  BY <1>3, <1>5, <3>2, <4>1
    <3> QED  BY <1>1, <1>2, <2>2, <3>1, <3>2 DEF PartsOwned
  <2> QED  BY <2>3, <2>4, <2>5, <2>6, <2>7, <2>8 DEF IInv
<1> QED  BY <1>6, <1>7

\* Record: the migration is whole, and the rest of the plan remains.
LEMMA RecordStep == ASSUME IInv, NEW p \in Procs, NEW m \in Migrations, Record(p, m) PROVE IInv'
<1> USE DEF Record
<1>1. TypeOK /\ Recorded /\ StartsApart /\ Locked /\ Planned /\ InPlace /\ PartsOwned /\ Bound
  BY DEF IInv
<1>2. lock = p /\ running = 0 /\ \A q \in Procs \ {p} : pc[q] \notin Migrating
  BY Alone DEF Migrating
<1>3. m \notin history /\ m \in 1..Known[p] /\ (1..m - 1) \subseteq history
  BY EarlierRecorded
<1>4. Whole(m)
  BY <1>1, Sizes DEF InPlace, Whole
<1>5. /\ pc'[p] = IF todo[p] = {m} THEN "unlock" ELSE "apply"
      /\ todo'[p] = todo[p] \ {m} /\ step'[p] = 0
      /\ \A q \in Procs \ {p} : pc'[q] = pc[q] /\ todo'[q] = todo[q] /\ step'[q] = step[q]
  BY <1>1 DEF TypeOK
<1>6. TypeOK'
  BY <1>1 DEF TypeOK, Migrating
<1>7. Recorded' /\ StartsApart'
  BY <1>1, <1>4 DEF Recorded, Whole, StartsApart
<1>8. Locked'
  BY <1>1, <1>5 DEF Locked, Migrating
<1>9. Planned'
  <2>1. todo[p] = (1..Known[p]) \ history /\ todo[p] # {}
    BY <1>1 DEF Planned, Pending
  <2>2. todo'[p] = (1..Known[p]) \ history'
    BY <1>5, <2>1
  <2>3. pc'[p] = "unlock" => 1..Known[p] \subseteq history'
    BY <1>5, <2>1
  <2>4. pc'[p] = "apply" => todo'[p] # {}
    BY <1>5, <2>1
  <2>5. ASSUME NEW q \in Procs \ {p}
        PROVE  /\ step'[q] # 0 => pc'[q] = "apply"
               /\ pc'[q] # "apply"
               /\ pc'[q] \in {"unlock"} \cup Migrated => 1..Known[q] \subseteq history'
    BY <1>1, <1>2, <1>5 DEF Planned, Migrating
  <2> QED  BY <1>5, <2>2, <2>3, <2>4, <2>5 DEF Planned, Pending, Migrated
<1>10. InPlace'
  <2>1. \A n \in Migrations : step'[p] <= Statements[n]
    BY <1>5, Sizes
  <2> QED  BY <1>2, <1>5, <2>1 DEF InPlace, Current, Migrating
<1>11. PartsOwned'
  <2>1. SUFFICES ASSUME faults = 0, NEW n \in Migrations \ history', applied[n] > 0 PROVE FALSE
    BY <1>2, ProcAssumption DEF PartsOwned
  <2>2. PICK q \in Procs : pc[q] = "apply" /\ Current(q, n)
    BY <1>1, <2>1 DEF PartsOwned
  <2>3. q = p
    BY <1>2, <2>2 DEF Migrating
  <2> QED  BY <2>1, <2>2, <2>3, Sizes DEF Current
<1>12. Bound'
  BY <1>1, <1>5 DEF Bound, Working
<1> QED  BY <1>6, <1>7, <1>8, <1>9, <1>10, <1>11, <1>12 DEF IInv

\* SessionUnlock: everything the build embeds is recorded.
LEMMA UnlockStep == ASSUME IInv, NEW p \in Procs, SessionUnlock(p) PROVE IInv'
<1> USE DEF SessionUnlock, Go, session, schema
<1>1. TypeOK /\ Recorded /\ StartsApart /\ Locked /\ Planned /\ InPlace /\ PartsOwned /\ Bound
  BY DEF IInv
<1>2. /\ pc[p] = "unlock" /\ pc'[p] = "bind"
      /\ \A q \in Procs \ {p} : pc'[q] = pc[q]
  BY <1>1 DEF TypeOK
<1>3. TypeOK' /\ Recorded' /\ StartsApart'
  BY <1>1 DEF TypeOK, Recorded, Whole, StartsApart, Migrated
<1>4. Locked'
  BY <1>1, <1>2, ProcAssumption DEF Locked, Migrating
<1>5. Planned' /\ InPlace'
  BY <1>1, <1>2 DEF Planned, InPlace, Current, Migrated, Pending
<1>6. PartsOwned' /\ Bound'
  BY <1>1, <1>2, ProcAssumption DEF PartsOwned, Current, Bound, Working
<1> QED  BY <1>3, <1>4, <1>5, <1>6 DEF IInv

\* Bind: refused, or the host's port was free.
LEMMA BindStep == ASSUME IInv, NEW p \in Procs, Bind(p) PROVE IInv'
<1>1. TypeOK /\ Recorded /\ StartsApart /\ Locked /\ Planned /\ InPlace /\ PartsOwned /\ Bound
  BY DEF IInv
<1>2. CASE port[HostOf[p]] # Nobody
  BY <1>2, RefuseStep DEF Bind
<1>3. CASE port[HostOf[p]] = Nobody
  <2>1. /\ Go(p, "bind", "account") /\ port' = [port EXCEPT ![HostOf[p]] = p]
        /\ UNCHANGED <<session, lock, schema, refused, faults>>
    BY <1>3 DEF Bind
  <2> USE <2>1 DEF Go, session, schema
  <2>2. /\ pc[p] = "bind" /\ pc'[p] = "account"
        /\ \A q \in Procs \ {p} : pc'[q] = pc[q]
    BY <1>1 DEF TypeOK
  <2>3. TypeOK' /\ Recorded' /\ StartsApart'
    BY <1>1, ProcAssumption DEF TypeOK, Recorded, Whole, StartsApart, Migrated
  <2>4. Locked' /\ Planned' /\ InPlace'
    BY <1>1, <2>2 DEF Locked, Migrating, Planned, InPlace, Current, Migrated, Pending
  <2>5. PartsOwned'
    BY <1>1, <2>2 DEF PartsOwned, Current
  <2>6. Bound'
    BY <1>1, <1>3, <2>2, ProcAssumption DEF Bound, Working, TypeOK
  <2> QED  BY <2>3, <2>4, <2>5, <2>6 DEF IInv
<1> QED  BY <1>2, <1>3

\* The steps of a start that change nothing but where it is.
LEMMA MoveStep ==
    ASSUME IInv, NEW p \in Procs, Start(p) \/ Account(p) \/ Configure(p) \/ Preview(p) \/ Listen(p)
    PROVE  IInv'
<1> USE DEF Start, Account, Configure, Preview, Listen, Go, session, schema
<1>1. TypeOK /\ Recorded /\ StartsApart /\ Locked /\ Planned /\ InPlace /\ PartsOwned /\ Bound
  BY DEF IInv
<1>2. /\ \/ pc[p] = "off" /\ pc'[p] = "lock"
         \/ pc[p] = "account" /\ pc'[p] = "configure"
         \/ pc[p] \in {"configure", "preview", "listen"} /\ pc'[p] \in Working
      /\ \A q \in Procs \ {p} : pc'[q] = pc[q]
  <2>1. DOMAIN pc = Procs
    BY <1>1 DEF TypeOK
  <2>2. CASE Start(p)
    BY <2>1, <2>2
  <2>3. CASE Account(p)
    BY <2>1, <2>3
  <2>4. CASE Configure(p) \/ Preview(p) \/ Listen(p)
    BY <2>1, <2>4 DEF Working
  <2> QED  BY <2>2, <2>3, <2>4
<1>3. TypeOK' /\ Recorded' /\ StartsApart'
  BY <1>1 DEF TypeOK, Recorded, Whole, StartsApart, Migrated
<1>4. Locked' /\ Planned' /\ InPlace'
  BY <1>1, <1>2 DEF Locked, Migrating, Planned, InPlace, Current, Migrated, Working, Pending
<1>5. PartsOwned' /\ Bound'
  BY <1>1, <1>2 DEF PartsOwned, Current, Bound, Working
<1> QED  BY <1>3, <1>4, <1>5 DEF IInv

\* Stop: whoever serves has no lock.
LEMMA StopStep == ASSUME IInv, NEW p \in Procs, Stop(p) PROVE IInv'
<1>1. lock # p
  BY DEF Stop, IInv, Locked, Migrating
<1>2. lock' = IF lock = p THEN Nobody ELSE lock
  BY <1>1 DEF Stop
<1>3. StartsApart'
  BY DEF IInv, StartsApart, Stop
<1>4. faults' = faults /\ faults \in 0..MaxFaults /\ refused' \subseteq {"slow", "exists", "missing", "port"}
  BY DEF IInv, TypeOK, Stop
<1> QED  BY <1>2, <1>3, <1>4, ExitStep, BoundAssumption DEF Stop

\* Break: the process ends, and may leave its session in the middle of a statement.
LEMMA BreakStep == ASSUME IInv, NEW p \in Procs, Break(p) PROVE IInv'
<1> USE DEF Break
<1>1. TypeOK /\ Recorded /\ StartsApart /\ Locked /\ Planned /\ InPlace /\ PartsOwned /\ Bound
  BY DEF IInv
<1>2. /\ faults' \in 0..MaxFaults /\ faults' > 0 /\ faults' >= faults
      /\ refused' \subseteq {"slow", "exists", "missing", "port"} /\ StartsApart'
  BY <1>1, BoundAssumption DEF TypeOK, StartsApart
<1>3. CASE (lock' = IF lock = p THEN Nobody ELSE lock) /\ UNCHANGED running
  BY <1>2, <1>3, ExitStep, BoundAssumption DEF schema
<1>4. ASSUME NEW m \in Migrations, pc[p] = "apply", lock = p, Current(p, m),
             step[p] < Statements[m], applied[m] = step[p], lock' = Orphan, running' = m
      PROVE  IInv'
  <2> USE <1>4 DEF Exit
  <2>1. /\ pc'[p] = "off" /\ step'[p] = 0
        /\ \A q \in Procs \ {p} : pc'[q] = pc[q] /\ todo'[q] = todo[q] /\ step'[q] = step[q]
    BY <1>1 DEF TypeOK
  <2>2. m \notin history /\ (1..m - 1) \subseteq history
    BY EarlierRecorded
  <2>3. \A q \in Procs : pc'[q] \notin Migrating
    BY <2>1, Alone DEF Migrating
  <2>4. TypeOK'
    BY <1>1, <1>2, ProcAssumption DEF TypeOK
  <2>5. Recorded' /\ Locked'
    BY <1>1, <2>3, Sizes, ProcAssumption DEF Recorded, Whole, Locked
  <2>6. Planned'
    BY <1>1, <2>1, <2>3 DEF Planned, Migrated, Migrating
  <2>7. InPlace'
    BY <2>2, <2>3 DEF InPlace, Migrating
  <2>8. PartsOwned'
    BY <1>2 DEF PartsOwned
  <2>9. Bound'
    BY <1>1, <2>1, ProcAssumption DEF Bound, Working, TypeOK
  <2> QED  BY <1>2, <2>4, <2>5, <2>6, <2>7, <2>8, <2>9 DEF IInv
<1> QED  BY <1>3, <1>4

\* OrphanEnds: the last statement takes effect or not, with nobody migrating.
LEMMA OrphanStep == ASSUME IInv, OrphanEnds PROVE IInv'
<1> USE DEF OrphanEnds, session
<1>1. TypeOK /\ Recorded /\ StartsApart /\ Locked /\ Planned /\ InPlace /\ PartsOwned /\ Bound
  BY DEF IInv
<1>2. running # 0 /\ running \in Migrations /\ \A p \in Procs : pc[p] \notin Migrating
  BY <1>1, ProcAssumption DEF Locked, TypeOK
<1>3. /\ \A n \in Migrations \ {running} : applied'[n] = applied[n]
      /\ applied'[running] \in {applied[running], applied[running] + 1}
      /\ applied' \in [Migrations -> Nat]
  BY <1>1, <1>2 DEF TypeOK
<1>4. \A n \in Migrations : applied'[n] <= Statements[n]
  BY <1>1, <1>2, <1>3, Sizes DEF TypeOK, InPlace
<1>5. TypeOK'
  BY <1>1, <1>3, <1>4 DEF TypeOK
<1>6. Recorded'
  BY <1>1, <1>2, <1>3 DEF Recorded, Whole, InPlace, TypeOK
<1>7. StartsApart' /\ Bound'
  BY <1>1 DEF StartsApart, Bound
<1>8. Locked' /\ Planned'
  BY <1>1, <1>2, ProcAssumption DEF Locked, Planned, Pending
<1>9. InPlace' /\ PartsOwned'
  BY <1>1, <1>2 DEF InPlace, PartsOwned, Migrating
<1> QED  BY <1>5, <1>6, <1>7, <1>8, <1>9 DEF IInv

\* Repair: something is there in part, so there has been a fault.
LEMMA RepairStep == ASSUME IInv, NEW m \in Migrations, Repair(m) PROVE IInv'
<1> USE DEF Repair, session
<1>1. TypeOK /\ Recorded /\ StartsApart /\ Locked /\ Planned /\ InPlace /\ PartsOwned /\ Bound
  BY DEF IInv
<1>2. /\ applied[m] > 0 /\ m \notin history /\ (1..m - 1) \subseteq history
      /\ running = 0 /\ \A p \in Procs : pc[p] \notin Migrating
  BY <1>1, ProcAssumption DEF Recorded, Locked
<1>3. /\ \A n \in Migrations \ {m} : applied'[n] = applied[n]
      /\ \/ applied'[m] = 0 /\ history' = history
         \/ applied'[m] = Statements[m] /\ history' = history \cup {m}
      /\ applied' \in [Migrations -> Nat]
  <2>1. applied \in [Migrations -> Nat] /\ Statements[m] \in Nat
    BY <1>1, Sizes DEF TypeOK
  <2>2. CASE applied' = [applied EXCEPT ![m] = 0] /\ UNCHANGED history
    BY <2>1, <2>2
  <2>3. CASE applied' = [applied EXCEPT ![m] = Statements[m]] /\ history' = history \cup {m}
    BY <2>1, <2>3
  <2> QED  BY <2>2, <2>3
<1>4. TypeOK'
  <2>1. \A n \in Migrations : applied'[n] <= Statements[n]
    BY <1>1, <1>3, Sizes DEF TypeOK
  <2>2. history' \subseteq Migrations
    BY <1>1, <1>3 DEF TypeOK
  <2> QED  BY <1>1, <1>3, <2>1, <2>2 DEF TypeOK
<1>5. Recorded'
  BY <1>1, <1>2, <1>3 DEF Recorded, Whole, TypeOK
<1>6. StartsApart' /\ Locked' /\ Bound'
  BY <1>1 DEF StartsApart, Locked, Bound
<1>7. Planned'
  BY <1>1, <1>2, <1>3 DEF Planned, Migrating
<1>8. InPlace'
  BY <1>2 DEF InPlace, Migrating
<1>9. PartsOwned'
  <2>1. faults # 0
    BY <1>1, <1>2 DEF PartsOwned, Migrating
  <2> QED  BY <2>1 DEF PartsOwned
<1> QED  BY <1>4, <1>5, <1>6, <1>7, <1>8, <1>9 DEF IInv

\* The inductive invariant: every start, of whatever build, keeps it.
THEOREM Invariance == Spec => []IInv
<1>1. IInv /\ [Next]_vars => IInv'
  <2>1. SUFFICES ASSUME IInv, [Next]_vars PROVE IInv'
    OBVIOUS
  <2>2. CASE UNCHANGED vars
    BY <2>1, <2>2 DEF vars, session, schema, IInv, TypeOK, Recorded, Whole, StartsApart, Locked,
       Planned, Pending, InPlace, Current, PartsOwned, Bound
  <2>3. ASSUME NEW p \in Procs, Start(p) \/ Up(p) \/ Serve(p) \/ Break(p) PROVE IInv'
    <3>1. CASE Start(p)
      BY <2>1, <3>1, MoveStep
    <3>2. CASE Up(p)
      <4>1. CASE LockTimeout(p)
        BY <2>1, <4>1, RefuseStep DEF LockTimeout
      <4>2. CASE SessionLock(p) \/ ReadHistory(p) \/ SessionUnlock(p)
        BY <2>1, <4>2, LockStep, ReadStep, UnlockStep
      <4>3. CASE \E m \in Migrations : Apply(p, m) \/ Record(p, m)
        BY <2>1, <4>3, ApplyStep, RecordStep
      <4> QED  BY <3>2, <4>1, <4>2, <4>3 DEF Up
    <3>3. CASE Serve(p)
      BY <2>1, <3>3, BindStep, MoveStep, StopStep DEF Serve
    <3>4. CASE Break(p)
      BY <2>1, <3>4, BreakStep
    <3> QED  BY <2>3, <3>1, <3>2, <3>3, <3>4
  <2>4. CASE OrphanEnds \/ \E m \in Migrations : Repair(m)
    BY <2>1, <2>4, OrphanStep, RepairStep
  <2> QED  BY <2>1, <2>2, <2>3, <2>4 DEF Next
<1> QED  BY InitIInv, <1>1, PTL DEF Spec

\* Nothing of a server runs on an incomplete schema, and the history never
\* records more than the schema shows (api.New after migrations.Up).
THEOREM SchemaBeforeServing == Spec => []SchemaFirst
<1>1. IInv => SchemaFirst
  BY Sizes DEF IInv, SchemaFirst, Recorded, Planned
<1> QED  BY Invariance, <1>1, PTL

\* Without a fault no start meets what another one left half done, and no start
\* ever finds a gap in the history (migrations.Up under its session lock).
THEOREM NoSpoiledStart == Spec => []StartsApart
<1>1. IInv => StartsApart
  BY DEF IInv
<1> QED  BY Invariance, <1>1, PTL

\* Of the processes of a host, only the one that has the torrent port gets to
\* take over the jobs (client.New before Configure in api.New).
THEOREM OneQueuePerHost == Spec => []OneQueue
<1>1. IInv => OneQueue
  BY DEF IInv, Bound, OneQueue
<1> QED  BY Invariance, <1>1, PTL
=============================================================================
