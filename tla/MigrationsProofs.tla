-------------------------- MODULE MigrationsProofs --------------------------
(***************************************************************************)
(* Proofs about Migrations, for every number of jobs and replicas, every   *)
(* image and every fault.                                                  *)
(*                                                                         *)
(* The argument.  A job past pg_try_advisory_lock is the one session that  *)
(* holds the lock, so nobody else commits a file between its reading of    *)
(* the ledger and its last file, and its pending list stays the true one.  *)
(* It applies the least pending file, so the ledger has no holes, and a    *)
(* replica that reads its own version as the maximum has every older one.  *)
(* The ledger only grows, so what was found current stays complete.        *)
(***************************************************************************)
EXTENDS Migrations, TLAPS

\* A job past the lock is the session that holds it.
LockOwned == \A r \in Runner : job[r] \in Owning => lock = r

JobComplete == \A r \in Runner : job[r] \in {"unlock", "done"} => 1..Image[r] \subseteq ledger

\* The maximum a replica read is recorded.
SeenRecorded == \A s \in Server : boot[s] = "tables" => seen[s] = 0 \/ seen[s] \in ledger

ServingComplete == \A s \in Server : boot[s] = "serving" =>
    1..Image[s] \subseteq ledger /\ TablesExist

SchemaInv == LedgerIsSchema /\ LedgerHasNoHoles

JobInv == LockOwned /\ PendingIsCurrent /\ JobComplete

BootInv == SeenRecorded /\ ServingComplete

MInv == TypeOK /\ SchemaInv /\ JobInv /\ BootInv

\* The ledger loses nothing and no table disappears.
Grows == ledger \subseteq ledger' /\ (TablesExist => TablesExist')

LEMMA InitHolds == Init => MInv
<1> SUFFICES ASSUME Init PROVE MInv
  OBVIOUS
<1>1. TypeOK
  <2>1. reachable \in BOOLEAN /\ tracked \in BOOLEAN
    BY DEF Init
  <2>2. /\ ledger \subseteq 1..Last /\ effects \in [1..Last -> Nat] /\ faults \in Nat
        /\ pending \in [Runner -> SUBSET (1..Last)]
    BY DEF Init
  <2>3. attempt \in [Server -> 1..InitAttempts] /\ seen \in [Server -> 0..Last]
    BY MigrationAssumption DEF Init
  <2> QED  BY <2>1, <2>2, <2>3 DEF Init, TypeOK, Connected, Owning, Verifying
<1>2. SchemaInv /\ JobInv /\ BootInv
  BY DEF Init, SchemaInv, LedgerIsSchema, LedgerHasNoHoles, JobInv, LockOwned, Owning,
         PendingIsCurrent, JobComplete, BootInv, SeenRecorded, ServingComplete
<1> QED
  BY <1>1, <1>2 DEF MInv

\* The transaction of the next file of a job, whose pending list is right.
LEMMA CommitKeeps ==
    ASSUME MInv, NEW r \in Runner, job[r] = "apply", NEW v \in NextFile(r) \ ledger, Commit(v)
    PROVE  /\ tracked' \in BOOLEAN /\ ledger' \subseteq 1..Last
           /\ effects' \in [1..Last -> Nat]
           /\ role' \in {"absent", "nologin", "login"}
           /\ v \in 1..Image[r] /\ pending[r] = 1..Image[r] \ ledger
           /\ v \in 1..Last /\ 1..(v - 1) \subseteq ledger /\ ledger' = ledger \cup {v}
           /\ SchemaInv' /\ Grows
<1>1. /\ tracked \in BOOLEAN /\ ledger \subseteq 1..Last /\ effects \in [1..Last -> Nat]
      /\ role \in {"absent", "nologin", "login"}
  BY DEF MInv, TypeOK
<1>2. pending[r] = 1..Image[r] \ ledger /\ Image[r] \in 1..Last
  BY MigrationAssumption DEF MInv, JobInv, PendingIsCurrent, PendingVersions
<1>3. v \in 1..Image[r] /\ v \in 1..Last /\ v \notin ledger
  BY <1>2, MigrationAssumption DEF NextFile
<1>4. 1..(v - 1) \subseteq ledger
  <2> SUFFICES ASSUME NEW w \in 1..(v - 1), w \notin ledger PROVE FALSE
    OBVIOUS
  <2>1. w \in pending[r]
    BY <1>2, <1>3, MigrationAssumption
  <2>2. v <= w
    BY <2>1 DEF NextFile
  <2> QED  BY <1>3, <2>2
<1>5. ledger' = ledger \cup {v} /\ effects' = [effects EXCEPT ![v] = @ + 1]
  BY DEF Commit
<1>6. LedgerIsSchema'
  <2> SUFFICES ASSUME NEW w \in 1..Last PROVE effects'[w] = IF w \in ledger' THEN 1 ELSE 0
    BY DEF LedgerIsSchema
  <2>1. effects[w] = IF w \in ledger THEN 1 ELSE 0
    BY DEF MInv, SchemaInv, LedgerIsSchema
  <2> QED  BY <1>1, <1>3, <1>5, <2>1
<1>7. LedgerHasNoHoles'
  BY <1>1, <1>4, <1>5 DEF MInv, SchemaInv, LedgerHasNoHoles
<1>8. Grows
  BY <1>1, <1>3, <1>5, MigrationAssumption DEF Grows, TablesExist
<1>9. tracked' \in BOOLEAN /\ role' \in {"absent", "nologin", "login"}
  BY <1>1 DEF Commit
<1> QED
  BY <1>1, <1>2, <1>3, <1>4, <1>5, <1>6, <1>7, <1>8, <1>9 DEF SchemaInv

\* What a step needs to keep of the schema when it commits no file.
LEMMA SameSchema ==
    ASSUME MInv, UNCHANGED <<ledger, effects>> PROVE SchemaInv' /\ Grows
  BY DEF MInv, SchemaInv, LedgerIsSchema, LedgerHasNoHoles, Grows, TablesExist

\* Replicas keep what they read and verified while the schema grows.
LEMMA BootKept ==
    ASSUME BootInv, Grows, UNCHANGED <<boot, seen>> PROVE BootInv'
  BY DEF BootInv, SeenRecorded, ServingComplete, Grows

LEMMA JobsKept ==
    ASSUME JobInv, UNCHANGED <<job, pending, lock, ledger>> PROVE JobInv'
  BY DEF JobInv, LockOwned, PendingIsCurrent, PendingVersions, JobComplete

\* The steps of a job that commit no file.
LEMMA QuietJobStep ==
    ASSUME MInv, NEW r \in Runner,
           \/ Connect(r) \/ ConnectTimesOut(r) \/ TryLock(r) \/ EnsureTrackingTable(r)
           \/ ReadPending(r) \/ Close(r) \/ Rerun(r) \/ FileFails(r)
    PROVE  MInv'
<1>1. UNCHANGED <<ledger, effects, role, boot, attempt, seen>>
  BY DEF Connect, ConnectTimesOut, TryLock, EnsureTrackingTable, ReadPending, Close, Rerun,
         FileFails, schemaVars, bootVars
<1>2. SchemaInv' /\ Grows /\ BootInv'
  BY <1>1, SameSchema, BootKept DEF MInv
<1>3. TypeOK'
  <2> USE DEF TypeOK, MInv, Goto, Connected, Owning, schemaVars, bootVars
  <2>1. CASE Connect(r) \/ ConnectTimesOut(r) \/ Rerun(r)
    BY <2>1 DEF Connect, ConnectTimesOut, Rerun
  <2>2. CASE TryLock(r)
    BY <2>2 DEF TryLock
  <2>3. CASE EnsureTrackingTable(r)
    BY <2>3 DEF EnsureTrackingTable
  <2>4. CASE ReadPending(r)
    <3>1. PendingVersions(r) \in SUBSET (1..Last)
      BY MigrationAssumption DEF PendingVersions
    <3> QED  BY <2>4, <3>1 DEF ReadPending
  <2>5. CASE Close(r)
    BY <2>5 DEF Close, Release
  <2>6. CASE FileFails(r)
    BY <2>6 DEF FileFails, Fault
  <2> QED  BY <2>1, <2>2, <2>3, <2>4, <2>5, <2>6
<1>4. JobInv'
  <2> USE DEF MInv, JobInv, LockOwned, PendingIsCurrent, PendingVersions, JobComplete, Goto, Owning
  <2>0. job \in [Runner -> Connected \cup {"connect", "failed", "done"}] /\ pending \in [Runner -> SUBSET (1..Last)]
    BY DEF TypeOK
  <2>1. CASE Connect(r) \/ ConnectTimesOut(r) \/ Rerun(r)
    BY <1>1, <2>0, <2>1 DEF Connect, ConnectTimesOut, Rerun
  <2>2. CASE TryLock(r)
    BY <1>1, <2>0, <2>2, MigrationAssumption DEF TryLock
  <2>3. CASE EnsureTrackingTable(r)
    BY <1>1, <2>0, <2>3 DEF EnsureTrackingTable
  <2>4. CASE ReadPending(r)
    BY <1>1, <2>0, <2>4 DEF ReadPending
  <2>5. CASE Close(r)
    <3>1. ASSUME NEW q \in Runner PROVE job'[q] \notin Owning
      BY <2>0, <2>5, <3>1 DEF Close
    <3> QED  BY <1>1, <2>0, <2>5, <3>1 DEF Close
  <2>6. CASE FileFails(r)
    BY <1>1, <2>0, <2>6 DEF FileFails
  <2> QED  BY <2>1, <2>2, <2>3, <2>4, <2>5, <2>6
<1> QED
  BY <1>2, <1>3, <1>4 DEF MInv

LEMMA ApplyFileKeeps ==
    ASSUME MInv, NEW r \in Runner, ApplyFile(r) PROVE MInv'
<1>1. PICK v \in NextFile(r) \ ledger :
        /\ job[r] = "apply" /\ Commit(v)
        /\ pending' = [pending EXCEPT ![r] = @ \ {v}]
        /\ Goto(r, IF pending[r] = {v} THEN "unlock" ELSE "apply")
        /\ UNCHANGED <<faults, reachable, lock, bootVars>>
  BY DEF ApplyFile
<1>2. /\ tracked' \in BOOLEAN /\ ledger' \subseteq 1..Last /\ effects' \in [1..Last -> Nat]
      /\ role' \in {"absent", "nologin", "login"}
      /\ v \in 1..Image[r] /\ pending[r] = 1..Image[r] \ ledger
      /\ ledger' = ledger \cup {v} /\ SchemaInv' /\ Grows
  BY <1>1, CommitKeeps
<1>3. job \in [Runner -> Connected \cup {"connect", "failed", "done"}] /\ pending \in [Runner -> SUBSET (1..Last)]
  BY DEF MInv, TypeOK
<1>4. TypeOK'
  BY <1>1, <1>2 DEF MInv, TypeOK, Goto, Connected, Owning, bootVars
<1>5. BootInv'
  BY <1>1, <1>2, BootKept DEF MInv, bootVars
<1>6. LockOwned'
  BY <1>1, <1>3 DEF MInv, JobInv, LockOwned, Goto, Owning
<1>7. ASSUME NEW q \in Runner, q # r PROVE job'[q] = job[q] /\ job[q] # "apply"
  BY <1>1, <1>3, <1>7 DEF MInv, JobInv, LockOwned, Goto, Owning
<1>8. PendingIsCurrent'
  <2> SUFFICES ASSUME NEW q \in Runner, job'[q] = "apply" PROVE pending'[q] = 1..Image[q] \ ledger'
    BY DEF PendingIsCurrent, PendingVersions
  <2>1. q = r
    BY <1>7
  <2> QED  BY <1>1, <1>2, <1>3, <2>1
<1>9. JobComplete'
  <2> SUFFICES ASSUME NEW q \in Runner, job'[q] \in {"unlock", "done"} PROVE 1..Image[q] \subseteq ledger'
    BY DEF JobComplete
  <2>1. CASE q = r
    <3>1. pending[r] = {v}
      BY <1>1, <1>3, <2>1 DEF Goto
    <3> QED  BY <1>2, <2>1, <3>1
  <2>2. CASE q # r
    BY <1>2, <1>7, <2>2 DEF MInv, JobInv, JobComplete
  <2> QED  BY <2>1, <2>2
<1> QED
  BY <1>2, <1>4, <1>5, <1>6, <1>8, <1>9 DEF MInv, JobInv

LEMMA DieKeeps ==
    ASSUME MInv, NEW r \in Runner, Die(r) PROVE MInv'
<1>1. job \in [Runner -> Connected \cup {"connect", "failed", "done"}]
  BY DEF MInv, TypeOK
<1>2. /\ tracked' \in BOOLEAN /\ ledger' \subseteq 1..Last /\ effects' \in [1..Last -> Nat]
      /\ role' \in {"absent", "nologin", "login"}
      /\ SchemaInv' /\ Grows
      /\ ledger' = ledger \/ job[r] = "apply"
  <2>1. CASE UNCHANGED schemaVars
    BY <2>1, SameSchema DEF schemaVars, MInv, TypeOK
  <2>2. CASE job[r] = "apply" /\ \E v \in NextFile(r) \ ledger : Commit(v)
    BY <2>2, CommitKeeps
  <2> QED  BY <2>1, <2>2 DEF Die
<1>3. TypeOK'
  BY <1>2 DEF MInv, TypeOK, Die, Goto, Fault, Connected, Owning, bootVars
<1>4. BootInv'
  BY <1>2, BootKept DEF MInv, Die, bootVars
<1>5. LockOwned'
  BY <1>1 DEF MInv, JobInv, LockOwned, Die, Goto, Owning
<1>6. PendingIsCurrent'
  <2> SUFFICES ASSUME NEW q \in Runner, job'[q] = "apply" PROVE pending'[q] = 1..Image[q] \ ledger'
    BY DEF PendingIsCurrent, PendingVersions
  <2>1. q # r /\ job[q] = "apply" /\ pending' = pending
    BY <1>1 DEF Die, Goto
  <2>2. job[r] # "apply"
    BY <2>1 DEF MInv, JobInv, LockOwned, Owning
  <2> QED  BY <1>2, <2>1, <2>2 DEF MInv, JobInv, PendingIsCurrent, PendingVersions
<1>7. JobComplete'
  BY <1>1, <1>2 DEF MInv, JobInv, JobComplete, Die, Goto, Grows
<1> QED
  BY <1>2, <1>3, <1>4, <1>5, <1>6, <1>7 DEF MInv, JobInv

\* Start-up reads the schema and changes none of it.
LEMMA BootKeeps ==
    ASSUME MInv, NEW s \in Server, BootSteps(s) \/ Crash(s) PROVE MInv'
<1>1. UNCHANGED <<reachable, tracked, ledger, effects, role, lock, job, pending>>
  BY DEF BootSteps, Start, ReadTracking, ReadVersion, ReadTables, ConnectionFails, Crash,
         schemaVars, jobVars
<1>2. SchemaInv' /\ Grows /\ JobInv'
  BY <1>1, SameSchema, JobsKept DEF MInv
<1>3. /\ boot \in [Server -> Verifying \cup {"down", "serving", "degraded"}]
      /\ attempt \in [Server -> 1..InitAttempts] /\ seen \in [Server -> 0..Last]
      /\ ledger \subseteq 1..Last /\ faults \in Nat /\ Image[s] \in 1..Last
      /\ Last \in Nat /\ InitAttempts \in Nat \ {0}
  BY MigrationAssumption DEF MInv, TypeOK
<1>4. /\ boot' \in [Server -> Verifying \cup {"down", "serving", "degraded"}]
      /\ attempt' \in [Server -> 1..InitAttempts] /\ seen' \in [Server -> 0..Last]
      /\ faults' \in Nat
  <2> USE DEF BootTo, Verifying
  <2>1. CASE Start(s) \/ ReadTracking(s)
    BY <1>3, <2>1 DEF Start, ReadTracking
  <2>2. CASE ReadVersion(s)
    BY <1>3, <2>2 DEF ReadVersion
  <2>3. CASE ReadTables(s)
    BY <1>3, <2>3 DEF ReadTables
  <2>4. CASE ConnectionFails(s)
    BY <1>3, <2>4 DEF ConnectionFails, Retries
  <2>5. CASE Crash(s)
    BY <1>3, <2>5 DEF Crash, Fault
  <2> QED  BY <2>1, <2>2, <2>3, <2>4, <2>5 DEF BootSteps
<1>5. TypeOK'
  BY <1>1, <1>4 DEF MInv, TypeOK
<1>6. BootInv'
  <2> USE DEF BootTo, MInv, BootInv, SeenRecorded, ServingComplete, TablesExist
  <2>1. CASE Start(s) \/ ReadTracking(s)
    BY <1>1, <1>3, <2>1 DEF Start, ReadTracking
  <2>2. CASE ReadVersion(s)
    BY <1>1, <1>3, <2>2 DEF ReadVersion
  <2>3. CASE ReadTables(s)
    <3>1. ASSUME Verified(s), boot[s] = "tables" PROVE 1..Image[s] \subseteq ledger
      <4>1. Image[s] \in ledger
        BY <1>3, <3>1 DEF Verified
      <4>2. 1..(Image[s] - 1) \subseteq ledger
        BY <4>1 DEF SchemaInv, LedgerHasNoHoles
      <4> QED  BY <1>3, <4>1, <4>2
    <3> QED  BY <1>1, <1>3, <2>3, <3>1 DEF ReadTables, Verified
  <2>4. CASE ConnectionFails(s)
    BY <1>1, <1>3, <2>4 DEF ConnectionFails
  <2>5. CASE Crash(s)
    BY <1>1, <1>3, <2>5 DEF Crash
  <2> QED  BY <2>1, <2>2, <2>3, <2>4, <2>5 DEF BootSteps
<1> QED
  BY <1>2, <1>5, <1>6 DEF MInv

\* The database, its dead sessions and the operator.
LEMMA EnvironmentKeeps ==
    ASSUME MInv, ReapSession \/ BootstrapRole \/ DatabaseStops \/ DatabaseReturns PROVE MInv'
<1>1. UNCHANGED <<tracked, ledger, effects, pending, boot, attempt, seen>>
  BY DEF ReapSession, BootstrapRole, DatabaseStops, DatabaseReturns, schemaVars, jobVars, bootVars
<1>2. SchemaInv' /\ Grows /\ BootInv'
  BY <1>1, SameSchema, BootKept DEF MInv
<1>3. job \in [Runner -> Connected \cup {"connect", "failed", "done"}]
  BY DEF MInv, TypeOK
<1>4. CASE ReapSession
  <2>1. TypeOK'
    BY <1>1, <1>4 DEF MInv, TypeOK, ReapSession, schemaVars, jobVars
  <2>2. JobInv'
    BY <1>1, <1>4, MigrationAssumption DEF MInv, JobInv, LockOwned, PendingIsCurrent,
       PendingVersions, JobComplete, ReapSession, jobVars
  <2> QED  BY <1>2, <2>1, <2>2 DEF MInv
<1>5. CASE BootstrapRole \/ DatabaseReturns
  <2>1. TypeOK'
    BY <1>1, <1>5 DEF MInv, TypeOK, BootstrapRole, DatabaseReturns, schemaVars, jobVars
  <2>2. JobInv'
    BY <1>1, <1>5, JobsKept DEF MInv, BootstrapRole, DatabaseReturns, jobVars
  <2> QED  BY <1>2, <2>1, <2>2 DEF MInv
<1>6. CASE DatabaseStops
  <2>1. /\ \A r \in Runner : job'[r] \notin Connected /\ (job'[r] = job[r] \/ job'[r] = "failed")
        /\ job' \in [Runner -> Connected \cup {"connect", "failed", "done"}]
    BY <1>3, <1>6 DEF DatabaseStops, Connected, Owning
  <2>2. TypeOK'
    <3>1. reachable' \in BOOLEAN /\ tracked' \in BOOLEAN
      BY <1>1, <1>6 DEF MInv, TypeOK, DatabaseStops
    <3>2. faults' \in Nat /\ lock' \in Runner \cup {NoSession, DeadSession} /\ role' = role
      BY <1>6 DEF MInv, TypeOK, DatabaseStops, Fault, schemaVars
    <3> QED  BY <1>1, <2>1, <3>1, <3>2 DEF MInv, TypeOK
  <2>3. JobInv'
    BY <1>1, <2>1 DEF MInv, JobInv, LockOwned, PendingIsCurrent, JobComplete, Connected, Owning
  <2> QED  BY <1>2, <2>2, <2>3 DEF MInv
<1> QED
  BY <1>4, <1>5, <1>6

LEMMA NextKeeps == MInv /\ [Next]_vars => MInv'
<1> SUFFICES ASSUME MInv, [Next]_vars PROVE MInv'
  OBVIOUS
<1>1. ASSUME NEW r \in Runner, JobSteps(r) \/ FileFails(r) \/ Die(r) PROVE MInv'
  BY <1>1, QuietJobStep, ApplyFileKeeps, DieKeeps DEF JobSteps
<1>2. ASSUME NEW s \in Server, BootSteps(s) \/ Crash(s) PROVE MInv'
  BY <1>2, BootKeeps
<1>3. CASE ReapSession \/ BootstrapRole \/ DatabaseStops \/ DatabaseReturns
  BY <1>3, EnvironmentKeeps
<1>4. CASE UNCHANGED vars
  <2>1. TypeOK'
    BY <1>4 DEF MInv, TypeOK, vars
  <2> QED  BY <1>4, <2>1, SameSchema, BootKept, JobsKept DEF MInv, vars
<1> QED
  BY <1>1, <1>2, <1>3, <1>4 DEF Next

\* The inductive invariant, from which the theorems follow.
LEMMA Invariance == Spec => []MInv
  BY InitHolds, NextKeeps, PTL DEF Spec

\* Every variable keeps its type; in particular no replica tries more often
\* than _init_store allows.
THEOREM TypeCorrect == Spec => []TypeOK
<1>1. MInv => TypeOK
  BY DEF MInv
<1> QED
  BY <1>1, Invariance, PTL

\* The ledger records exactly the files that took effect, each once, whatever
\* fails or dies between two statements of apply_pending.
THEOREM LedgerIsSchemaHolds == Spec => []LedgerIsSchema
<1>1. MInv => LedgerIsSchema
  BY DEF MInv, SchemaInv
<1> QED
  BY <1>1, Invariance, PTL

\* Old and new images together leave no hole in the ledger.
THEOREM LedgerHasNoHolesHolds == Spec => []LedgerHasNoHoles
<1>1. MInv => LedgerHasNoHoles
  BY DEF MInv, SchemaInv
<1> QED
  BY <1>1, Invariance, PTL

\* The advisory lock keeps the pending list of apply_pending right until its
\* last file, so no insert into the ledger is refused.
THEOREM PendingIsCurrentHolds == Spec => []PendingIsCurrent
<1>1. MInv => PendingIsCurrent
  BY DEF MInv, JobInv
<1> QED
  BY <1>1, Invariance, PTL

\* A job that ended well and a replica that passed init_db have every file of
\* their image.
THEOREM CurrentIsCompleteHolds == Spec => []CurrentIsComplete
<1>1. MInv => CurrentIsComplete
  BY DEF MInv, JobInv, JobComplete, BootInv, ServingComplete, CurrentIsComplete
<1> QED
  BY <1>1, Invariance, PTL

\* A step that commits a file is an upgrade of the abstract schema.
LEMMA CommitIsUpgrade ==
    ASSUME MInv, NEW r \in Runner, job[r] = "apply", NEW v \in NextFile(r) \ ledger, Commit(v),
           UNCHANGED boot
    PROVE  History!Next
  BY CommitKeeps DEF History!Next, History!Upgrade

\* A step of a replica is a stutter, or the replica joins or leaves.
LEMMA BootIsJoinOrLeave ==
    ASSUME MInv, MInv', NEW s \in Server, UNCHANGED ledger,
           NEW stage, boot' = [boot EXCEPT ![s] = stage]
    PROVE  [History!Next]_(History!vars)
<1> DEFINE serving == {q \in Server : boot[q] = "serving"}
<1>0. boot \in [Server -> Verifying \cup {"down", "serving", "degraded"}]
  BY DEF MInv, TypeOK
<1>1. \A q \in Server : q # s => boot'[q] = boot[q]
  BY <1>0
<1>2. boot'[s] = stage
  BY <1>0
<1>3. CASE stage = "serving"
  <2>1. 1..Image[s] \subseteq ledger
    BY <1>2, <1>3 DEF MInv, BootInv, ServingComplete
  <2>2. serving' = serving \cup {s}
    BY <1>1, <1>2, <1>3
  <2> QED  BY <2>1, <2>2 DEF History!Next, History!Join
<1>4. CASE stage # "serving"
  <2>1. serving' = serving \ {s}
    BY <1>1, <1>2, <1>4
  <2> QED  BY <2>1 DEF History!Next, History!Leave
<1> QED
  BY <1>3, <1>4

LEMMA StepIsHistoryStep ==
    ASSUME MInv, MInv', [Next]_vars PROVE [History!Next]_(History!vars)
<1>0. ASSUME UNCHANGED <<ledger, boot>> PROVE [History!Next]_(History!vars)
  BY <1>0 DEF History!vars
<1>1. ASSUME NEW r \in Runner, JobSteps(r) \/ FileFails(r) \/ Die(r)
      PROVE  [History!Next]_(History!vars)
  <2>1. CASE Connect(r) \/ ConnectTimesOut(r) \/ TryLock(r) \/ EnsureTrackingTable(r)
             \/ ReadPending(r) \/ Close(r) \/ Rerun(r) \/ FileFails(r)
    BY <1>0, <2>1 DEF Connect, ConnectTimesOut, TryLock, EnsureTrackingTable, ReadPending,
       Close, Rerun, FileFails, schemaVars, bootVars
  <2>2. CASE ApplyFile(r)
    BY <2>2, CommitIsUpgrade DEF ApplyFile, bootVars
  <2>3. CASE Die(r)
    <3>1. UNCHANGED boot /\ (UNCHANGED schemaVars \/ (job[r] = "apply" /\ \E v \in NextFile(r) \ ledger : Commit(v)))
      BY <2>3 DEF Die, bootVars
    <3>2. CASE UNCHANGED schemaVars
      BY <1>0, <3>1, <3>2 DEF schemaVars
    <3> QED  BY <3>1, <3>2, CommitIsUpgrade
  <2> QED  BY <1>1, <2>1, <2>2, <2>3 DEF JobSteps
<1>2. ASSUME NEW s \in Server, BootSteps(s) \/ Crash(s)
      PROVE  [History!Next]_(History!vars)
  <2>1. UNCHANGED ledger /\ \E stage : boot' = [boot EXCEPT ![s] = stage]
    BY <1>2 DEF BootSteps, Start, ReadTracking, ReadVersion, ReadTables, ConnectionFails, Crash,
       BootTo, schemaVars
  <2> QED  BY <2>1, BootIsJoinOrLeave
<1>3. CASE ReapSession \/ BootstrapRole \/ DatabaseStops \/ DatabaseReturns
  BY <1>0, <1>3 DEF ReapSession, BootstrapRole, DatabaseStops, DatabaseReturns, schemaVars, bootVars
<1>4. CASE UNCHANGED vars
  BY <1>0, <1>4 DEF vars
<1> QED
  BY <1>1, <1>2, <1>3, <1>4 DEF Next

\* apply_pending, run by any jobs, and init_db implement the history that
\* ADR-0007 promises: whole files, in order, once, and never back.
THEOREM ImplementsHistory == Spec => HistorySpec
<1>1. Init => History!Init
  BY DEF Init, History!Init
<1>2. MInv /\ MInv' /\ [Next]_vars => [History!Next]_(History!vars)
  BY StepIsHistoryStep
<1> QED
  BY <1>1, <1>2, Invariance, PTL DEF Spec, HistorySpec, History!Spec
=============================================================================
