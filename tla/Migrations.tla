----------------------------- MODULE Migrations -----------------------------
(***************************************************************************)
(* The schema migrations of app/migrate.py, run by several jobs at once,   *)
(* and the verification of the schema by API replicas that start           *)
(* meanwhile (init_db of app/postgres_store.py, _init_store and lifespan   *)
(* of app/main.py).                                                        *)
(*                                                                         *)
(* The jobs and the replicas of a roll-out may run images of different     *)
(* ages: Image[x] is the newest file under migrations/ in the image of x,  *)
(* and the files of an image are 1..Image[x].  A step is one transaction   *)
(* or one statement outside a transaction.  The advisory lock belongs to   *)
(* a session: it goes with it, but when a job dies the database notices    *)
(* only later that the session is gone.                                    *)
(***************************************************************************)
EXTENDS Integers

CONSTANTS
    Runner,             \* jobs that run "python -m app.migrate upgrade"
    Server,             \* API replicas
    Image,              \* see above
    Last,               \* the newest migration of any image
    TableFile,          \* the files that create _REQUIRED_TABLES
    RuntimeRole,        \* TRUE: replicas connect as feed_app, created by file 1
    InitAttempts,       \* tries of _init_store
    NoSession,          \* the advisory lock is free
    DeadSession,        \* it is held by the session of a job that died
    MaxFaults           \* bound: crashes, lost sessions, failing files, outages

ASSUME MigrationAssumption ==
    /\ Last \in Nat \ {0}
    /\ Image \in [Runner \cup Server -> 1..Last]
    /\ TableFile \subseteq 1..Last
    /\ RuntimeRole \in BOOLEAN
    /\ InitAttempts \in Nat \ {0} /\ MaxFaults \in Nat
    /\ NoSession \notin Runner /\ DeadSession \notin Runner /\ NoSession # DeadSession

VARIABLES
    faults,     \* faults so far
    reachable,  \* the database accepts connections
    tracked,    \* feed_schema_migrations exists
    ledger,     \* the versions it holds
    effects,    \* effects[v]: how often the statements of file v took effect
    role,       \* feed_app: "absent", "nologin" or "login"
    lock,       \* the session that holds the advisory lock
    job,        \* job[r]: where apply_pending stands, or how it ended
    pending,    \* pending[r]: versions it has still to apply
    boot,       \* boot[s]: where lifespan stands
    attempt,    \* attempt[s]: the attempt of _init_store
    seen        \* seen[s]: max(version) as init_db read it, 0 for NULL

vars == <<faults, reachable, tracked, ledger, effects, role, lock, job, pending,
          boot, attempt, seen>>

jobVars == <<job, pending>>
bootVars == <<boot, attempt, seen>>
schemaVars == <<tracked, ledger, effects, role>>

\* "unlock" and "abort" are the finally clause after success and after an error.
Owning == {"track", "read", "apply", "unlock", "abort"}

Connected == Owning \cup {"lock"}

Verifying == {"tracking", "version", "tables"}

TypeOK ==
    /\ faults \in Nat /\ reachable \in BOOLEAN
    /\ tracked \in BOOLEAN /\ ledger \subseteq 1..Last
    /\ effects \in [1..Last -> Nat]
    /\ role \in {"absent", "nologin", "login"}
    /\ lock \in Runner \cup {NoSession, DeadSession}
    /\ job \in [Runner -> Connected \cup {"connect", "failed", "done"}]
    /\ pending \in [Runner -> SUBSET (1..Last)]
    /\ boot \in [Server -> Verifying \cup {"down", "serving", "degraded"}]
    /\ attempt \in [Server -> 1..InitAttempts]
    /\ seen \in [Server -> 0..Last]

Init ==
    /\ faults = 0 /\ reachable = TRUE
    /\ tracked = FALSE /\ ledger = {}
    /\ effects = [v \in 1..Last |-> 0]
    /\ role = "absent"
    /\ lock = NoSession
    /\ job = [r \in Runner |-> "connect"]
    /\ pending = [r \in Runner |-> {}]
    /\ boot = [s \in Server |-> "down"]
    /\ attempt = [s \in Server |-> 1]
    /\ seen = [s \in Server |-> 0]

Goto(r, stage) == job' = [job EXCEPT ![r] = stage]

Fault == faults < MaxFaults /\ faults' = faults + 1

-----------------------------------------------------------------------------
(* apply_pending.                                                          *)

\* _connect, and the session's statement_timeout.
Connect(r) ==
    /\ job[r] = "connect" /\ reachable
    /\ Goto(r, "lock")
    /\ UNCHANGED <<faults, reachable, schemaVars, lock, pending, bootVars>>

\* _connect waited in vain.
ConnectTimesOut(r) ==
    /\ job[r] = "connect" /\ ~reachable
    /\ Goto(r, "failed")
    /\ UNCHANGED <<faults, reachable, schemaVars, lock, pending, bootVars>>

\* pg_try_advisory_lock; the job fails when another session has the lock.
TryLockIgnored(r) ==
    /\ job[r] = "lock"
    /\ lock' = r /\ Goto(r, "track")
    /\ UNCHANGED <<faults, reachable, schemaVars, pending, bootVars>>

TryLock(r) ==
    /\ job[r] = "lock"
    /\ \/ lock = NoSession /\ lock' = r /\ Goto(r, "track")
       \/ lock # NoSession /\ Goto(r, "failed") /\ UNCHANGED lock
    /\ UNCHANGED <<faults, reachable, schemaVars, pending, bootVars>>

EnsureTrackingTable(r) ==
    /\ job[r] = "track"
    /\ tracked' = TRUE
    /\ Goto(r, "read")
    /\ UNCHANGED <<faults, reachable, ledger, effects, role, lock, pending, bootVars>>

\* pending_versions, and the commit that ends its transaction.
PendingVersions(r) == 1..Image[r] \ ledger

ReadPending(r) ==
    /\ job[r] = "read"
    /\ pending' = [pending EXCEPT ![r] = PendingVersions(r)]
    /\ Goto(r, IF PendingVersions(r) = {} THEN "unlock" ELSE "apply")
    /\ UNCHANGED <<faults, reachable, schemaVars, lock, bootVars>>

\* One file: its statements and the insert into the ledger, one transaction.
\* The primary key would refuse a version that is there already; PendingIsCurrent
\* says that this does not happen.
NextFileUnsorted(r) == pending[r]

NextFile(r) == {v \in pending[r] : \A w \in pending[r] : v <= w}

Commit(v) ==
    /\ ledger' = ledger \cup {v}
    /\ effects' = [effects EXCEPT ![v] = @ + 1]
    /\ role' = IF v = 1 /\ role = "absent" THEN "nologin" ELSE role
    /\ UNCHANGED tracked

ApplyFile(r) == \E v \in NextFile(r) \ ledger :
    /\ job[r] = "apply"
    /\ Commit(v)
    /\ pending' = [pending EXCEPT ![r] = @ \ {v}]
    /\ Goto(r, IF pending[r] = {v} THEN "unlock" ELSE "apply")
    /\ UNCHANGED <<faults, reachable, lock, bootVars>>

\* A statement of the file fails and the transaction is rolled back.
FileFailsHalfway(r) == \E v \in NextFile(r) :
    /\ job[r] = "apply"
    /\ effects' = [effects EXCEPT ![v] = @ + 1]
    /\ Goto(r, "abort")
    /\ Fault
    /\ UNCHANGED <<reachable, tracked, ledger, role, lock, pending, bootVars>>

FileFails(r) ==
    /\ job[r] = "apply"
    /\ Goto(r, "abort")
    /\ Fault
    /\ UNCHANGED <<reachable, schemaVars, lock, pending, bootVars>>

\* The finally clause: pg_advisory_unlock and close.
ReleaseOnSuccess(r) == IF job[r] = "unlock" THEN NoSession ELSE lock

Release(r) == NoSession

Close(r) ==
    /\ job[r] \in {"unlock", "abort"}
    /\ lock' = Release(r)
    /\ Goto(r, IF job[r] = "unlock" THEN "done" ELSE "failed")
    /\ UNCHANGED <<faults, reachable, schemaVars, pending, bootVars>>

\* The job dies, or its connection breaks.  The transaction it was in is
\* rolled back, unless the COMMIT of a file had reached the database.
Die(r) ==
    /\ job[r] \in Connected
    /\ lock' = IF lock = r THEN DeadSession ELSE lock
    /\ Goto(r, "failed")
    /\ \/ UNCHANGED schemaVars
       \/ job[r] = "apply" /\ \E v \in NextFile(r) \ ledger : Commit(v)
    /\ Fault
    /\ UNCHANGED <<reachable, pending, bootVars>>

\* The database notices a dead session and drops its locks.
ReapSession ==
    /\ lock = DeadSession
    /\ lock' = NoSession
    /\ UNCHANGED <<faults, reachable, schemaVars, jobVars, bootVars>>

\* A failed job is run again, by the Job's back-off or by the operator.
Rerun(r) ==
    /\ job[r] = "failed"
    /\ Goto(r, "connect")
    /\ UNCHANGED <<faults, reachable, schemaVars, lock, pending, bootVars>>

\* bootstrap_role, which needs the role to exist.
BootstrapRole ==
    /\ reachable /\ role # "absent"
    /\ role' = "login"
    /\ UNCHANGED <<faults, reachable, tracked, ledger, effects, lock, jobVars, bootVars>>

-----------------------------------------------------------------------------
(* Start-up of an API replica.                                             *)

\* The replica gets a connection from its pool.
Usable == reachable /\ (RuntimeRole => role = "login")

BootTo(s, stage) == boot' = [boot EXCEPT ![s] = stage]

Start(s) ==
    /\ boot[s] = "down"
    /\ BootTo(s, "tracking")
    /\ attempt' = [attempt EXCEPT ![s] = 1]
    /\ UNCHANGED <<faults, reachable, schemaVars, lock, jobVars, seen>>

\* init_db, three reads at READ COMMITTED.  SchemaNotMigrated ends the process,
\* which its supervisor starts again.
ReadTracking(s) ==
    /\ boot[s] = "tracking" /\ Usable
    /\ BootTo(s, IF tracked THEN "version" ELSE "down")
    /\ UNCHANGED <<faults, reachable, schemaVars, lock, jobVars, attempt, seen>>

ReadVersion(s) ==
    /\ boot[s] = "version" /\ Usable
    /\ \/ ledger = {} /\ seen' = [seen EXCEPT ![s] = 0]
       \/ \E v \in ledger :
             (\A w \in ledger : w <= v) /\ seen' = [seen EXCEPT ![s] = v]
    /\ BootTo(s, "tables")
    /\ UNCHANGED <<faults, reachable, schemaVars, lock, jobVars, attempt>>

TablesExist == \A v \in TableFile : effects[v] > 0

VerifiedByTables(s) == TablesExist

Verified(s) == seen[s] = Image[s] /\ TablesExist

ReadTables(s) ==
    /\ boot[s] = "tables" /\ Usable
    /\ BootTo(s, IF Verified(s) THEN "serving" ELSE "down")
    /\ UNCHANGED <<faults, reachable, schemaVars, lock, jobVars, attempt, seen>>

\* StoreUnavailable: _init_store tries again, and after its last attempt
\* lifespan starts the replica in degraded mode, its schema unverified.
Retries(s) == attempt[s] < InitAttempts

ConnectionFails(s) ==
    /\ boot[s] \in Verifying /\ ~Usable
    /\ \/ /\ Retries(s)
          /\ attempt' = [attempt EXCEPT ![s] = @ + 1]
          /\ BootTo(s, "tracking")
       \/ /\ ~Retries(s)
          /\ BootTo(s, "degraded")
          /\ UNCHANGED attempt
    /\ UNCHANGED <<faults, reachable, schemaVars, lock, jobVars, seen>>

Crash(s) ==
    /\ boot[s] # "down"
    /\ BootTo(s, "down")
    /\ Fault
    /\ UNCHANGED <<reachable, schemaVars, lock, jobVars, attempt, seen>>

-----------------------------------------------------------------------------
(* The database stops, which ends every session, and comes back.           *)

DatabaseStops ==
    /\ reachable /\ reachable' = FALSE
    /\ lock' = NoSession
    /\ job' = [r \in Runner |-> IF job[r] \in Connected THEN "failed" ELSE job[r]]
    /\ Fault
    /\ UNCHANGED <<schemaVars, pending, bootVars>>

DatabaseReturns ==
    /\ ~reachable /\ reachable' = TRUE
    /\ UNCHANGED <<faults, schemaVars, lock, jobVars, bootVars>>

-----------------------------------------------------------------------------
JobSteps(r) ==
    \/ Connect(r) \/ ConnectTimesOut(r) \/ TryLock(r) \/ EnsureTrackingTable(r)
    \/ ReadPending(r) \/ ApplyFile(r) \/ Close(r) \/ Rerun(r)

BootSteps(s) ==
    \/ Start(s) \/ ReadTracking(s) \/ ReadVersion(s) \/ ReadTables(s)
    \/ ConnectionFails(s)

Next ==
    \/ \E r \in Runner : JobSteps(r) \/ FileFails(r) \/ Die(r)
    \/ \E s \in Server : BootSteps(s) \/ Crash(s)
    \/ ReapSession \/ BootstrapRole \/ DatabaseStops \/ DatabaseReturns

\* Jobs and replicas run and are run again, the database comes back and drops
\* dead sessions, and the operator sets the password of the runtime role.
Fairness ==
    /\ \A r \in Runner : WF_vars(JobSteps(r))
    /\ \A s \in Server : WF_vars(BootSteps(s))
    /\ WF_vars(ReapSession) /\ WF_vars(BootstrapRole) /\ WF_vars(DatabaseReturns)

Spec == Init /\ [][Next]_vars /\ Fairness

-----------------------------------------------------------------------------
(* Properties.                                                             *)

\* The ledger tells the truth: the statements of a recorded file took effect
\* exactly once and those of any other file not at all, whatever fails or dies
\* in the middle ("a failed file rolls back completely; re-running is safe").
LedgerIsSchema ==
    \A v \in 1..Last : effects[v] = IF v \in ledger THEN 1 ELSE 0

\* The schema has no holes: with a file, every older file is recorded.  That
\* is what makes the replica's comparison of max(version) enough.
LedgerHasNoHoles == \A v \in ledger : 1..(v - 1) \subseteq ledger

\* The list of pending files a job read under the advisory lock is still right
\* when it applies the next of them, with other jobs, older images, dying jobs
\* and dead sessions around, so the primary key never refuses one.
PendingIsCurrent ==
    \A r \in Runner : job[r] = "apply" => pending[r] = PendingVersions(r)

\* Whoever found the schema current has all of it: a job that ended well, and a
\* replica that passed init_db although it reads the schema in three statements.
CurrentIsComplete ==
    /\ \A r \in Runner : job[r] = "done" => 1..Image[r] \subseteq ledger
    /\ \A s \in Server : boot[s] = "serving" =>
          1..Image[s] \subseteq ledger /\ TablesExist

\* The schema moves one whole file at a time, in order and never back, and
\* replicas that verified it serve on all of it (module SchemaHistory).
History == INSTANCE SchemaHistory WITH
    schema <- ledger,
    serving <- {s \in Server : boot[s] = "serving"}

HistorySpec == History!Spec

\* Every job run often enough ends well, so no death or failure leaves a lock
\* behind that blocks the upgrade for good, and every replica of the newest
\* image comes up.
UpgradeCompletes ==
    /\ \A r \in Runner : <>[](job[r] = "done")
    /\ \A s \in Server : Image[s] = Last => <>[](boot[s] \in {"serving", "degraded"})
=============================================================================
