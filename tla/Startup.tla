------------------------------ MODULE Startup ------------------------------
(***************************************************************************)
(* A process from main to its HTTP server: api.New, the migrations it      *)
(* applies first (migrations.Up), the torrent client, the recovery of the  *)
(* queue.  Several processes may start on one database, of builds that     *)
(* embed more or fewer migrations, and each may die at any step.  MySQL    *)
(* commits every statement of a migration by itself, and a session whose   *)
(* client is gone keeps its named lock until its statement ends.           *)
(***************************************************************************)
EXTENDS Integers, Sequences

CONSTANTS
    Procs,
    Hosts,
    HostOf,         \* the host of each process
    Known,          \* how many migrations the build of each process embeds
    Statements,     \* of each migration, how many statements it has
    Nobody,
    Orphan,         \* a session whose client is gone
    MaxFaults       \* bound: calls that fail and processes that die

Migrations == 1..Len(Statements)

ASSUME ProcAssumption ==
    /\ HostOf \in [Procs -> Hosts] /\ Known \in [Procs -> 0..Len(Statements)]
    /\ {Nobody, Orphan} \cap Procs = {} /\ Nobody # Orphan
ASSUME BoundAssumption == Statements \in Seq(Nat \ {0}) /\ MaxFaults \in Nat

VARIABLES
    pc,         \* the next step of each process
    todo,       \* migrations each process found pending
    step,       \* statements of the current one that it has run
    lock,       \* the session that has the named lock
    running,    \* the migration whose statement the orphan runs
    applied,    \* statements of each migration the schema shows
    history,    \* goose_db_version
    port,       \* who has the torrent port of each host
    refused,    \* history: what starts failed for, other than faults
    faults      \* history

session == <<todo, step>>
schema  == <<running, applied, history>>
vars    == <<pc, session, lock, schema, port, refused, faults>>

Migrating == {"read", "apply", "unlock"}
Migrated  == {"bind", "account", "configure", "preview", "listen", "serving"}
Working   == {"preview", "listen", "serving"}    \* has read the jobs as its own

TypeOK ==
    /\ pc \in [Procs -> {"off", "lock"} \cup Migrating \cup Migrated]
    /\ todo \in [Procs -> SUBSET Migrations] /\ step \in [Procs -> Nat]
    /\ lock \in Procs \cup {Nobody, Orphan} /\ running \in Migrations \cup {0}
    /\ applied \in [Migrations -> Nat] /\ \A m \in Migrations : applied[m] <= Statements[m]
    /\ history \subseteq Migrations /\ port \in [Hosts -> Procs \cup {Nobody}]
    /\ refused \subseteq {"slow", "exists", "missing", "port"} /\ faults \in 0..MaxFaults

Init ==
    /\ pc = [p \in Procs |-> "off"]
    /\ todo = [p \in Procs |-> {}] /\ step = [p \in Procs |-> 0]
    /\ lock = Nobody /\ running = 0
    /\ applied = [m \in Migrations |-> 0] /\ history = {}
    /\ port = [h \in Hosts |-> Nobody]
    /\ refused = {} /\ faults = 0

Go(p, from, to) == pc[p] = from /\ pc' = [pc EXCEPT ![p] = to]

\* os.Exit, or the process is killed: its sockets and its session go with it.
Exit(p) ==
    /\ pc' = [pc EXCEPT ![p] = "off"]
    /\ port' = [h \in Hosts |-> IF port[h] = p THEN Nobody ELSE port[h]]
    /\ todo' = [todo EXCEPT ![p] = {}] /\ step' = [step EXCEPT ![p] = 0]

Refuse(p, why) ==
    /\ Exit(p)
    /\ refused' = refused \cup {why}
    /\ lock' = IF lock = p THEN Nobody ELSE lock
    /\ UNCHANGED <<schema, faults>>

-----------------------------------------------------------------------------
(* migrations.Up *)

\* The database is reached; Up gets a session of its own.
Start(p) ==
    /\ Go(p, "off", "lock")
    /\ UNCHANGED <<session, lock, schema, port, refused, faults>>

\* Mutant: no session locker.
NoLocker(p) ==
    /\ Go(p, "lock", "read")
    /\ lock' = p
    /\ UNCHANGED <<session, schema, port, refused, faults>>

\* SessionLock.
SessionLock(p) ==
    /\ Go(p, "lock", "read")
    /\ lock = Nobody /\ lock' = p
    /\ UNCHANGED <<session, schema, port, refused, faults>>

\* Sixty seconds pass.
LockTimeout(p) == pc[p] = "lock" /\ lock # Nobody /\ Refuse(p, "slow")

\* Pending are the embedded migrations that are not recorded, and none may be
\* older than one that is.
Pending(p) == (1..Known[p]) \ history

ReadHistory(p) ==
    /\ pc[p] = "read"
    /\ IF \E m \in Pending(p), n \in history : m < n THEN Refuse(p, "missing")
       ELSE /\ Go(p, "read", IF Pending(p) = {} THEN "unlock" ELSE "apply")
            /\ todo' = [todo EXCEPT ![p] = Pending(p)]
            /\ UNCHANGED <<step, lock, schema, port, refused, faults>>

\* In the order of their versions.
Current(p, m) == m \in todo[p] /\ \A n \in todo[p] : m <= n

\* A statement creates what no other one creates: where it was run before, it fails.
Apply(p, m) ==
    /\ pc[p] = "apply" /\ Current(p, m) /\ step[p] < Statements[m]
    /\ IF applied[m] # step[p] THEN Refuse(p, "exists")
       ELSE /\ applied' = [applied EXCEPT ![m] = @ + 1]
            /\ step' = [step EXCEPT ![p] = @ + 1]
            /\ UNCHANGED <<pc, todo, lock, running, history, port, refused, faults>>

\* Mutant: the version is recorded when its migration begins.
RecordFirst(p, m) ==
    /\ pc[p] = "apply" /\ Current(p, m) /\ m \notin history
    /\ history' = history \cup {m}
    /\ UNCHANGED <<pc, session, lock, running, applied, port, refused, faults>>

\* The version row, after the last statement.
Record(p, m) ==
    /\ pc[p] = "apply" /\ Current(p, m) /\ step[p] = Statements[m]
    /\ history' = history \cup {m}
    /\ todo' = [todo EXCEPT ![p] = @ \ {m}] /\ step' = [step EXCEPT ![p] = 0]
    /\ pc' = [pc EXCEPT ![p] = IF todo[p] = {m} THEN "unlock" ELSE "apply"]
    /\ UNCHANGED <<lock, running, applied, port, refused, faults>>

\* SessionUnlock; storageDirectory.
SessionUnlock(p) ==
    /\ Go(p, "unlock", "bind")
    /\ lock' = IF lock = p THEN Nobody ELSE lock
    /\ UNCHANGED <<session, schema, port, refused, faults>>

-----------------------------------------------------------------------------
(* api.New after the migrations, and main *)

\* Mutant: the client takes any port, as the preview client does.
BindAny(p) ==
    /\ Go(p, "bind", "account")
    /\ UNCHANGED <<session, lock, schema, port, refused, faults>>

\* client.New listens on a fixed port.
Bind(p) ==
    /\ pc[p] = "bind"
    /\ IF port[HostOf[p]] # Nobody THEN Refuse(p, "port")
       ELSE /\ Go(p, "bind", "account")
            /\ port' = [port EXCEPT ![HostOf[p]] = p]
            /\ UNCHANGED <<session, lock, schema, refused, faults>>

\* GetAccountID, GetAccountInformation.
Account(p) ==
    /\ Go(p, "account", "configure")
    /\ UNCHANGED <<session, lock, schema, port, refused, faults>>

\* Configure takes over every job of the database.
Configure(p) ==
    /\ Go(p, "configure", "preview")
    /\ UNCHANGED <<session, lock, schema, port, refused, faults>>

\* The preview client, UpdateContent; ProcessTasks runs from here on.
Preview(p) ==
    /\ Go(p, "preview", "listen")
    /\ UNCHANGED <<session, lock, schema, port, refused, faults>>

\* ListenAndServe.
Listen(p) ==
    /\ Go(p, "listen", "serving")
    /\ UNCHANGED <<session, lock, schema, port, refused, faults>>

\* A process that serves is stopped.
Stop(p) ==
    /\ pc[p] = "serving"
    /\ Exit(p)
    /\ UNCHANGED <<lock, schema, refused, faults>>

-----------------------------------------------------------------------------
(* What goes wrong, and the operator *)

\* A call fails, the five minutes pass or the process dies.  If that is in a
\* statement, the session lives on until the statement ends.
Break(p) ==
    /\ pc[p] \notin {"off", "serving"}
    /\ faults < MaxFaults /\ faults' = faults + 1
    /\ Exit(p)
    /\ \/ /\ lock' = IF lock = p THEN Nobody ELSE lock
          /\ UNCHANGED running
       \/ \E m \in Migrations :
             /\ pc[p] = "apply" /\ lock = p /\ Current(p, m)
             /\ step[p] < Statements[m] /\ applied[m] = step[p]
             /\ lock' = Orphan /\ running' = m
    /\ UNCHANGED <<applied, history, refused>>

\* The orphan's statement takes effect, or is killed.
OrphanEnds ==
    /\ lock = Orphan
    /\ lock' = Nobody /\ running' = 0
    /\ applied' \in {applied, [applied EXCEPT ![running] = @ + 1]}
    /\ UNCHANGED <<pc, session, history, port, refused, faults>>

\* The operator, with no migration under way, completes a migration that is
\* there in part, or takes it back.
Repair(m) ==
    /\ applied[m] > 0 /\ m \notin history
    /\ lock = Nobody /\ \A p \in Procs : pc[p] \notin Migrating
    /\ \/ applied' = [applied EXCEPT ![m] = 0] /\ UNCHANGED history
       \/ applied' = [applied EXCEPT ![m] = Statements[m]] /\ history' = history \cup {m}
    /\ UNCHANGED <<pc, session, lock, running, port, refused, faults>>

Up(p) ==
    \/ SessionLock(p) \/ LockTimeout(p) \/ ReadHistory(p) \/ SessionUnlock(p)
    \/ \E m \in Migrations : Apply(p, m) \/ Record(p, m)

Serve(p) == Bind(p) \/ Account(p) \/ Configure(p) \/ Preview(p) \/ Listen(p) \/ Stop(p)

Next ==
    \/ \E p \in Procs : Start(p) \/ Up(p) \/ Serve(p) \/ Break(p)
    \/ OrphanEnds \/ \E m \in Migrations : Repair(m)

Spec == Init /\ [][Next]_vars

-----------------------------------------------------------------------------
(* Properties *)

Whole(m) == applied[m] = Statements[m]

\* The type invariant, and: no torrent client, remote call, worker or route of a
\* process runs on a schema that lacks a statement of a migration it embeds,
\* and goose_db_version never says more than the schema shows, wherever an
\* earlier start broke off (server.go: "Schema must be ready before").
SchemaFirst ==
    /\ TypeOK
    /\ \A m \in history : Whole(m)
    /\ \A m \in Migrations : applied[m] > 0 => (1..m - 1) \subseteq history
    /\ \A p \in Procs : pc[p] \in Migrated => \A m \in 1..Known[p] : Whole(m)

\* Starts do not spoil each other's migrations: one meets a statement that was
\* run before only after a fault, and never a history with a gap.
StartsApart == ("exists" \in refused => faults > 0) /\ "missing" \notin refused

\* On a host, one process at a time has the jobs of the database for its own.
OneQueue == \A p, q \in Procs :
    HostOf[p] = HostOf[q] /\ {pc[p], pc[q]} \subseteq Working => p = q
=============================================================================
