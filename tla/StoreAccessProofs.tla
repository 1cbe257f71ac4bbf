------------------------- MODULE StoreAccessProofs -------------------------
(***************************************************************************)
(* Proofs about StoreAccess, for any number of threads, connections and    *)
(* concurrent calls.                                                       *)
(***************************************************************************)
EXTENDS StoreAccess, FiniteSetTheorems, TLAPS

-----------------------------------------------------------------------------
(* Types.                                                                  *)

Types ==
    /\ backend \in {"sqlite", "postgres"}
    /\ stage \in {"starting", "serving", "draining", "closing", "closed"}
    /\ up \in BOOLEAN
    /\ pool \in {"none", "open", "closed"}
    /\ pools \in Nat
    /\ cache \in [age : 0..StatsCacheTtl, snapshot : Nat]
    /\ job \in [Job -> Call]

\* The slot of an ended call is a call.
LEMMA IdleType == Idle \in Call
BY DEF Idle, Call, Kind, Phase

\* Moving a call to another phase keeps the types.
LEMMA GotoType ==
    ASSUME job \in [Job -> Call], NEW j \in Job, NEW p \in Phase, Goto(j, p)
    PROVE  job' \in [Job -> Call]
BY DEF Goto, Call

\* Ending a call keeps the types.
LEMMA EndsType ==
    ASSUME job \in [Job -> Call], NEW j \in Job, Ends(j)
    PROVE  job' \in [Job -> Call]
BY IdleType DEF Ends

\* A call that is over is a call, or the empty slot.
LEMMA FinishedType == ASSUME NEW c \in Call PROVE Finished(c) \in Call
BY IdleType DEF Finished, Call, Phase

\* It needs neither a thread nor a connection.
LEMMA EndedPhase == ASSUME NEW c \in Call PROVE Finished(c).phase \in {"free", "over"}
BY DEF Finished, Idle, Call

\* The end of a call's work keeps the types.
LEMMA OverType ==
    ASSUME job \in [Job -> Call], NEW j \in Job, Over(j)
    PROVE  job' \in [Job -> Call]
BY FinishedType DEF Over

\* Submitting a call keeps the types.
LEMMA SubmitType ==
    ASSUME job \in [Job -> Call], NEW j \in Job, NEW k \in Kind, Submit(j, k)
    PROVE  job' \in [Job -> Call]
<1>1. [Idle EXCEPT !.kind = k, !.phase = "queued"] \in Call
  BY DEF Idle, Call, Phase
<1>2. QED
  BY <1>1 DEF Submit

\* Every step keeps the types.
LEMMA TypesStep == Types /\ [Next]_vars => Types'
<1> SUFFICES ASSUME Types, [Next]_vars PROVE Types'
  OBVIOUS
<1> USE AccessAssumption
<1>a. NoStats \in [age : 0..StatsCacheTtl, snapshot : Nat]
  BY DEF NoStats
<1>1. CASE Start
  BY <1>1 DEF Start, Types
<1>2. CASE Drain \/ ForgetPool \/ DatabaseStops \/ DatabaseReturns
  BY <1>2 DEF Drain, ForgetPool, DatabaseStops, DatabaseReturns, Types
<1>3. CASE ClosePool
  <2>1. \A j \in Job : Finished(job[j]) \in Call
    BY FinishedType DEF Types
  <2>2. QED
    BY <1>3, <2>1 DEF ClosePool, Types
<1>4. CASE Restart
  BY <1>4, <1>a, IdleType DEF Restart, Types
<1>5. ASSUME NEW j \in Request, Feed(j) \/ Stats(j) \/ Ready(j)
      PROVE  Types'
  <2>1. j \in Job /\ {"read", "stats", "ready"} \subseteq Kind
    BY DEF Job, Kind
  <2>2. job' \in [Job -> Call]
    BY <1>5, <2>1, SubmitType DEF Feed, Stats, Ready, Types
  <2>3. QED
    BY <1>5, <2>2 DEF Feed, Stats, Ready, Submit, Types
<1>6. ASSUME NEW j \in Request, ReadyGivesUp(j)
      PROVE  Types'
  <2>1. j \in Job
    BY DEF Job
  <2>2. job' \in [Job -> Call]
    <3>1. CASE job[j].phase = "queued"
      BY <1>6, <2>1, <3>1, EndsType DEF ReadyGivesUp, Types
    <3>2. CASE job[j].phase # "queued"
      BY <1>6, <2>1, <3>2 DEF ReadyGivesUp, Types, Call, Kind
    <3>3. QED
      BY <3>1, <3>2
  <2>3. QED
    BY <1>6, <2>2 DEF ReadyGivesUp, Types
<1>7. ASSUME NEW j \in Background, Work(j) \/ FetchState(j)
      PROVE  Types'
  <2>1. j \in Job /\ {"work", "state"} \subseteq Kind
    BY DEF Job, Kind
  <2>2. job' \in [Job -> Call]
    BY <1>7, <2>1, SubmitType DEF Work, FetchState, Types
  <2>3. QED
    BY <1>7, <2>2 DEF Work, FetchState, Submit, Types
<1>8. ASSUME NEW j \in Job, Run(j)
      PROVE  Types'
  <2>1. PICK p \in {"ensure", "query"} : Goto(j, p)
    BY <1>8, Zenon DEF Run, Types
  <2>2. job' \in [Job -> Call]
    BY <2>1, GotoType DEF Types, Phase
  <2>3. QED
    BY <1>8, <2>2 DEF Run, Types
<1>9. ASSUME NEW j \in Job, EnsurePool(j)
      PROVE  Types'
  <2>1. Goto(j, "create") \/ Goto(j, "wait") \/ Over(j)
    BY <1>9, Zenon DEF EnsurePool, Types
  <2>2. job' \in [Job -> Call]
    BY <2>1, GotoType, OverType DEF Types, Phase
  <2>3. QED
    BY <1>9, <2>2 DEF EnsurePool, Types
<1>10. ASSUME NEW j \in Job, CreatePool(j)
       PROVE  Types'
  <2>1. job' \in [Job -> Call]
    BY <1>10, GotoType DEF CreatePool, Types, Phase
  <2>2. QED
    BY <1>10, <2>1 DEF CreatePool, Types
<1>11. ASSUME NEW j \in Job, Connect(j)
       PROVE  Types'
  BY <1>11 DEF Connect, Types, Call, Phase
<1>12. ASSUME NEW j \in Job, Fail(j)
       PROVE  Types'
  BY <1>12, OverType DEF Fail, Types
<1>13. ASSUME NEW j \in Job, GiveBack(j)
       PROVE  Types'
  <2>1. Goto(j, "result") \/ Over(j)
    BY <1>13, Zenon DEF GiveBack
  <2>2. job' \in [Job -> Call]
    BY <2>1, GotoType, OverType DEF Types, Phase
  <2>3. QED
    BY <1>13, <2>2 DEF GiveBack, Types
<1>15. ASSUME NEW j \in Job, Return(j)
       PROVE  Types'
  <2>1. job' \in [Job -> Call]
    BY <1>15, EndsType DEF Return, Types
  <2>2. job[j].spent \in Nat
    BY DEF Types, Call
  <2>3. cache' \in [age : 0..StatsCacheTtl, snapshot : Nat]
    BY <1>15, <2>2 DEF Return, Types
  <2>4. QED
    BY <1>15, <2>1, <2>3 DEF Return, Types
<1>16. CASE Tick
  <2>1. ASSUME NEW k \in Job PROVE [job[k] EXCEPT !.spent = @ + 1] \in Call
    BY DEF Types, Call
  <2>2. job' \in [Job -> Call]
    BY <1>16, <2>1 DEF Tick, Types
  <2>3. cache' \in [age : 0..StatsCacheTtl, snapshot : Nat]
    BY <1>16 DEF Tick, CacheHit, Types
  <2>4. QED
    BY <1>16, <2>2, <2>3 DEF Tick, Types
<1>17. CASE UNCHANGED vars
  BY <1>17 DEF vars, Types
<1>18. QED
  BY <1>1, <1>2, <1>3, <1>4, <1>5, <1>6, <1>7, <1>8, <1>9, <1>10, <1>11, <1>12,
     <1>13, <1>15, <1>16, <1>17 DEF Next, JobStep

-----------------------------------------------------------------------------
(* The threads.                                                            *)

\* Fewer running calls occupy no more threads.
LEMMA FewerThreads ==
    ASSUME Cardinality(Running) <= Threads, Running' \subseteq Running
    PROVE  Cardinality(Running') <= Threads
<1>1. IsFiniteSet(Running)
  BY AccessAssumption, FS_Union, FS_Subset DEF Running, Job
<1>2. Cardinality(Running') <= Cardinality(Running) /\ IsFiniteSet(Running')
  BY <1>1, FS_Subset
<1>3. Cardinality(Running) \in Nat /\ Cardinality(Running') \in Nat
  BY <1>1, <1>2, FS_CardinalityType
<1>4. QED
  BY <1>2, <1>3, AccessAssumption

\* Only Run lets a call take a thread, and it needs a free one.
LEMMA ThreadsStep ==
    Types /\ Cardinality(Running) <= Threads /\ [Next]_vars => Cardinality(Running') <= Threads
<1> SUFFICES ASSUME Types, Cardinality(Running) <= Threads, [Next]_vars
             PROVE  Cardinality(Running') <= Threads
  OBVIOUS
<1>1. ASSUME NEW j \in Job, Run(j)
      PROVE  Cardinality(Running') <= Threads
  <2>1. IsFiniteSet(Running)
    BY AccessAssumption, FS_Union, FS_Subset DEF Running, Job
  <2>2. Cardinality(Running) \in Nat
    BY <2>1, FS_CardinalityType
  <2>3. Running' \subseteq Running \cup {j}
    BY <1>1 DEF Run, Goto, Running, Types
  <2>4. IsFiniteSet(Running \cup {j}) /\ Cardinality(Running \cup {j}) <= Cardinality(Running) + 1
    BY <2>1, <2>2, FS_AddElement
  <2>5. Cardinality(Running') <= Cardinality(Running \cup {j})
    BY <2>3, <2>4, FS_Subset
  <2>6. Cardinality(Running') \in Nat /\ Cardinality(Running \cup {j}) \in Nat
    BY <2>3, <2>4, FS_Subset, FS_CardinalityType
  <2>7. CASE Cardinality(Running) < Threads
    BY <2>2, <2>4, <2>5, <2>6, <2>7, AccessAssumption
  <2>8. CASE job[j].kind = "state"
    <3>1. Running' \subseteq Running
      BY <1>1, <2>8 DEF Run, Goto, Running, Types, Call
    <3>2. QED
      BY <3>1, FewerThreads
  <2>9. QED
    BY <1>1, <2>7, <2>8 DEF Run
<1>2. ASSUME \A j \in Job : ~Run(j)
      PROVE  Running' \subseteq Running
  <2>1. CASE Start \/ Drain \/ ForgetPool \/ DatabaseStops \/ DatabaseReturns \/ UNCHANGED vars
    BY <2>1 DEF Start, Drain, ForgetPool, DatabaseStops, DatabaseReturns, vars, Running
  <2>2. CASE ClosePool \/ Restart
    BY <2>2, EndedPhase DEF ClosePool, Restart, Running, Idle, Types
  <2>3. ASSUME NEW j \in Job, NEW k, Submit(j, k)
        PROVE  Running' \subseteq Running
    BY <2>3 DEF Submit, Running, Idle, Types
  <2>4. ASSUME NEW j \in Job, Ends(j)
        PROVE  Running' \subseteq Running
    BY <2>4 DEF Ends, Running, Idle, Types
  <2>6. ASSUME NEW j \in Job, Over(j)
        PROVE  Running' \subseteq Running
    <3>1. \A k \in Job : k # j => job'[k] = job[k]
      BY <2>6 DEF Over, Types
    <3>2. job'[j].phase \notin {"ensure", "create", "wait", "query"}
      BY <2>6 DEF Over, Finished, Idle, Types, Call
    <3>3. QED
      BY <3>1, <3>2 DEF Running
  <2>7. ASSUME NEW j \in Job, EnsurePool(j) \/ CreatePool(j)
        PROVE  Running' \subseteq Running
    <3>1. (Goto(j, "create") \/ Goto(j, "wait") \/ Over(j)) /\ job[j].phase \in {"ensure", "create"}
      BY <2>7, Zenon DEF EnsurePool, CreatePool, Types
    <3>2. CASE Goto(j, "create") \/ Goto(j, "wait")
      BY <3>1, <3>2 DEF Goto, Running, Types, Call
    <3>3. QED
      BY <3>1, <3>2, <2>6
  <2>8. ASSUME NEW j \in Job, Connect(j) \/ Fail(j) \/ GiveBack(j) \/ Return(j)
        PROVE  Running' \subseteq Running
    <3>1. CASE Connect(j)
      BY <3>1 DEF Connect, Running, Types, Call
    <3>2. CASE GiveBack(j)
      <4>1. Goto(j, "result") \/ Over(j)
        BY <3>2, Zenon DEF GiveBack
      <4>2. CASE Goto(j, "result")
        BY <4>2 DEF Goto, Running, Types, Call
      <4>3. QED
        BY <4>1, <4>2, <2>6
    <3>3. QED
      BY <2>8, <2>4, <2>6, <3>1, <3>2 DEF Fail, Return
  <2>9. ASSUME NEW j \in Request, ReadyGivesUp(j)
        PROVE  Running' \subseteq Running
    <3>1. j \in Job
      BY DEF Job
    <3>2. CASE job[j].phase = "queued"
      BY <2>9, <2>4, <3>1, <3>2 DEF ReadyGivesUp
    <3>3. CASE job[j].phase # "queued"
      BY <2>9, <3>1, <3>3 DEF ReadyGivesUp, Running, Types, Call
    <3>4. QED
      BY <3>2, <3>3
  <2>10. CASE Tick
    BY <2>10 DEF Tick, Running, Types
  <2>11. QED
    BY <1>2, <2>1, <2>2, <2>3, <2>7, <2>8, <2>9, <2>10
       DEF Next, JobStep, Feed, Stats, Ready, Work, FetchState, Job
<1>3. QED
  BY <1>1, <1>2, FewerThreads

\* Every store call, the cache and the pool keep their types, and no more
\* calls run at once than the executor has threads.
THEOREM TypeCorrect == Spec => []TypeOK
<1> DEFINE I == Types /\ Cardinality(Running) <= Threads
<1>1. Init => I
  <2> SUFFICES ASSUME Init PROVE I
    OBVIOUS
  <2>1. Types
    BY AccessAssumption, IdleType DEF Init, Types, NoStats
  <2>2. Running = {}
    BY DEF Init, Running, Idle
  <2>3. QED
    BY <2>1, <2>2, FS_EmptySet, AccessAssumption
<1>2. I /\ [Next]_vars => I'
  BY TypesStep, ThreadsStep
<1>3. I => TypeOK
  BY DEF Types, TypeOK
<1>4. QED
  BY <1>1, <1>2, <1>3, PTL DEF Spec

-----------------------------------------------------------------------------
(* The connection pool.                                                    *)

\* Between start-up and shutdown the pool is there, so nobody is about to
\* build one; SQLite never enters the code of the pool.
PoolInv ==
    /\ stage = "starting" => pool = "none" /\ pools = 0 /\ \A j \in Job : job[j].phase = "free"
    /\ backend = "postgres" /\ stage \in {"serving", "draining"} => pool = "open" /\ pools = 1
    /\ backend = "postgres" /\ stage = "closing" => pool = "closed" /\ pools = 0
    /\ backend = "sqlite" => pools = 0 /\ \A j \in Job : job[j].phase \notin {"ensure", "create", "wait"}
    /\ stage # "closed" => \A j \in Job : job[j].phase # "create"

\* Every step keeps the invariant of the pool.
LEMMA PoolStep == Types /\ PoolInv /\ [Next]_vars => PoolInv'
<1> SUFFICES ASSUME Types, PoolInv, [Next]_vars PROVE PoolInv'
  OBVIOUS
<1>1. CASE Start \/ Drain \/ ForgetPool \/ DatabaseStops \/ DatabaseReturns \/ UNCHANGED vars
  BY <1>1 DEF Start, Drain, ForgetPool, DatabaseStops, DatabaseReturns, vars, PoolInv, Types
<1>2. CASE ClosePool \/ Restart
  BY <1>2, EndedPhase DEF ClosePool, Restart, PoolInv, Types, Idle
<1>3. ASSUME UNCHANGED <<backend, stage, pool, pools>>, stage # "starting",
             \A k \in Job : job'[k].phase \in {"ensure", "create", "wait"} =>
                 \/ job[k].phase = job'[k].phase
                 \/ job'[k].phase = "ensure" /\ backend = "postgres"
                 \/ job'[k].phase = "create" /\ backend = "postgres" /\ stage = "closed"
      PROVE  PoolInv'
  BY <1>3 DEF PoolInv
<1>4. ASSUME NEW j \in Job, NEW k, stage # "starting", Submit(j, k)
      PROVE  PoolInv'
  BY <1>4, <1>3 DEF Submit, Types, Idle
<1>5. ASSUME NEW j \in Job, stage # "starting", UNCHANGED <<backend, stage, pool, pools>>, Ends(j)
      PROVE  PoolInv'
  BY <1>5, <1>3 DEF Ends, Types, Idle
<1>o. ASSUME NEW j \in Job, stage # "starting", UNCHANGED <<backend, stage, pool, pools>>, Over(j)
      PROVE  PoolInv'
  <2>1. \A k \in Job : k # j => job'[k] = job[k]
    BY <1>o DEF Over, Types
  <2>2. job'[j].phase \in {"free", "over"}
    BY <1>o DEF Over, Finished, Idle, Types, Call
  <2>3. QED
    BY <1>3, <1>o, <2>1, <2>2
<1>6. ASSUME NEW j \in Job, job[j].phase # "free"
      PROVE  stage # "starting"
  BY <1>6 DEF PoolInv
<1>7. ASSUME NEW j \in Request, ReadyGivesUp(j)
      PROVE  PoolInv'
  <2>1. j \in Job /\ stage # "starting"
    BY <1>6, <1>7 DEF Job, ReadyGivesUp
  <2>2. CASE job[j].phase = "queued"
    BY <1>5, <1>7, <2>1, <2>2 DEF ReadyGivesUp
  <2>3. CASE job[j].phase # "queued"
    <3>1. \A k \in Job : job'[k].phase = job[k].phase
      BY <1>7, <2>1, <2>3 DEF ReadyGivesUp, Types, Call
    <3>2. QED
      BY <1>7, <2>1, <3>1 DEF ReadyGivesUp, PoolInv
  <2>4. QED
    BY <2>2, <2>3
<1>8. ASSUME NEW j \in Job, Run(j)
      PROVE  PoolInv'
  <2>1. (backend = "postgres" /\ Goto(j, "ensure")) \/ Goto(j, "query")
    BY <1>8, Zenon DEF Run, Types
  <2>2. QED
    BY <1>3, <1>6, <1>8, <2>1 DEF Run, Goto, Types
<1>9. ASSUME NEW j \in Job, EnsurePool(j)
      PROVE  PoolInv'
  <2>1. stage # "starting" /\ backend = "postgres"
    BY <1>6, <1>9 DEF EnsurePool, PoolInv, Types
  <2>2. pool = "none" => stage = "closed"
    BY <2>1 DEF PoolInv, Types
  <2>3. (stage = "closed" /\ Goto(j, "create")) \/ Goto(j, "wait") \/ Over(j)
    BY <1>9, <2>2, Zenon DEF EnsurePool, Types
  <2>4. CASE Over(j)
    BY <1>o, <1>9, <2>1, <2>4 DEF EnsurePool
  <2>5. CASE (stage = "closed" /\ Goto(j, "create")) \/ Goto(j, "wait")
    <3>1. \A k \in Job : k # j => job'[k].phase = job[k].phase
      BY <2>5 DEF Goto, Types, Call
    <3>2. job'[j].phase = "wait" \/ (stage = "closed" /\ job'[j].phase = "create")
      BY <2>5 DEF Goto, Types, Call
    <3>3. QED
      BY <1>9, <2>1, <3>1, <3>2 DEF EnsurePool, PoolInv
  <2>6. QED
    BY <2>3, <2>4, <2>5
<1>10. ASSUME NEW j \in Job, CreatePool(j)
       PROVE  PoolInv'
  <2>1. stage = "closed" /\ backend = "postgres"
    BY <1>10 DEF CreatePool, PoolInv, Types
  <2>2. QED
    BY <1>10, <2>1 DEF CreatePool, PoolInv
<1>11. ASSUME NEW j \in Job, Connect(j)
       PROVE  PoolInv'
  <2>1. \A k \in Job : job'[k].phase = job[k].phase \/ job'[k].phase = "query"
    BY <1>11 DEF Connect, Types, Call
  <2>2. QED
    BY <1>6, <1>11, <2>1 DEF Connect, PoolInv
<1>12. ASSUME NEW j \in Job, Fail(j) \/ Return(j)
       PROVE  PoolInv'
  BY <1>5, <1>o, <1>6, <1>12 DEF Fail, Return, TimedOut, Broken
<1>13. ASSUME NEW j \in Job, GiveBack(j)
       PROVE  PoolInv'
  <2>1. (Goto(j, "result") \/ Over(j)) /\ stage # "starting"
    BY <1>6, <1>13, Zenon DEF GiveBack
  <2>2. CASE Goto(j, "result")
    BY <1>3, <1>13, <2>1, <2>2 DEF GiveBack, Goto, Types
  <2>3. QED
    BY <1>o, <1>13, <2>1, <2>2 DEF GiveBack
<1>15. CASE Tick
  <2>1. \A j \in Job : job'[j].phase = job[j].phase
    BY <1>15 DEF Tick, Types
  <2>2. QED
    BY <1>15, <2>1 DEF Tick, PoolInv
<1>16. QED
  BY <1>1, <1>2, <1>4, <1>7, <1>8, <1>9, <1>10, <1>11, <1>12, <1>13, <1>15
     DEF Next, JobStep, Feed, Stats, Ready, Work, FetchState, Job

\* The initial states satisfy both invariants.
LEMMA PoolInit == Init => Types /\ PoolInv
BY AccessAssumption, IdleType DEF Init, Types, PoolInv, NoStats, Idle

\* _ensure_pool, which takes no lock, never builds a second pool while the
\* process serves, and no request meets a pool that is closed or missing.
THEOREM OnePoolHolds == Spec => []OnePool
<1>1. Types /\ PoolInv => OnePool
  BY DEF Types, PoolInv, OnePool
<1>2. QED
  BY <1>1, PoolInit, TypesStep, PoolStep, PTL DEF Spec

-----------------------------------------------------------------------------
(* The statistics.                                                         *)

\* A call starts with nothing spent, and the statistics it is computing, or has
\* computed, are no older than a query may take; so what is cached is at most
\* that much older than its entry.
HoldsStats(c) == c.phase \in {"queued", "result"} \/ (c.phase = "query" /\ c.kind = "stats")

StatsInv ==
    /\ \A j \in Job : HoldsStats(job[j]) => job[j].spent <= QueryTime
    /\ CacheHit => cache.snapshot <= cache.age + QueryTime

\* Every step keeps the invariant of the statistics.
LEMMA StatsStep == Types /\ StatsInv /\ [Next]_vars => StatsInv'
<1> SUFFICES ASSUME Types, StatsInv, [Next]_vars PROVE StatsInv'
  OBVIOUS
<1> USE AccessAssumption
<1> DEFINE Keeps(k) == HoldsStats(job'[k]) =>
               \/ HoldsStats(job[k]) /\ job'[k].spent = job[k].spent
               \/ job'[k].spent = 0
<1>1. ASSUME UNCHANGED cache, \A k \in Job : Keeps(k)
      PROVE  StatsInv'
  BY <1>1 DEF StatsInv, CacheHit
<1>2. ASSUME NEW j \in Job, Ends(j)
      PROVE  \A k \in Job : Keeps(k)
  BY <1>2 DEF Ends, HoldsStats, Types, Idle
<1>3. ASSUME NEW j \in Job, Over(j)
      PROVE  \A k \in Job : Keeps(k)
  BY <1>3 DEF Over, Finished, HoldsStats, Types, Idle, Call
<1>4. ASSUME NEW j \in Job, NEW p, Goto(j, p), p \in {"ensure", "create", "wait"}
      PROVE  \A k \in Job : Keeps(k)
  BY <1>4 DEF Goto, HoldsStats, Types, Call
<1>5. CASE Start \/ Drain \/ ForgetPool \/ DatabaseStops \/ DatabaseReturns \/ UNCHANGED vars
  BY <1>5 DEF Start, Drain, ForgetPool, DatabaseStops, DatabaseReturns, vars,
              StatsInv, CacheHit
<1>6. CASE ClosePool
  <2>1. \A k \in Job : Keeps(k)
    BY <1>6 DEF ClosePool, Finished, HoldsStats, Idle, Types, Call
  <2>2. QED
    BY <1>1, <1>6, <2>1 DEF ClosePool
<1>7. CASE Restart
  BY <1>7 DEF Restart, StatsInv, HoldsStats, CacheHit, Idle, NoStats
<1>8. ASSUME NEW j \in Job, NEW kind, Submit(j, kind)
      PROVE  StatsInv'
  BY <1>1, <1>8 DEF Submit, HoldsStats, Types, Idle
<1>9. ASSUME NEW j \in Request, ReadyGivesUp(j)
      PROVE  StatsInv'
  <2>1. j \in Job
    BY DEF Job
  <2>2. \A k \in Job : Keeps(k)
    <3>1. CASE job[j].phase = "queued"
      BY <1>2, <1>9, <2>1, <3>1 DEF ReadyGivesUp
    <3>2. CASE job[j].phase # "queued"
      BY <1>9, <2>1, <3>2 DEF ReadyGivesUp, HoldsStats, Types, Call
    <3>3. QED
      BY <3>1, <3>2
  <2>3. QED
    BY <1>1, <1>9, <2>2 DEF ReadyGivesUp
<1>10. ASSUME NEW j \in Job, Run(j)
       PROVE  StatsInv'
  <2>1. Goto(j, "ensure") \/ Goto(j, "query")
    BY <1>10, Zenon DEF Run, Types
  <2>2. CASE Goto(j, "query")
    <3>1. \A k \in Job : Keeps(k)
      BY <1>10, <2>2 DEF Run, Goto, HoldsStats, Types, Call
    <3>2. QED
      BY <1>1, <1>10, <3>1 DEF Run
  <2>3. QED
    BY <1>1, <1>4, <1>10, <2>1, <2>2 DEF Run
<1>11. ASSUME NEW j \in Job, EnsurePool(j) \/ CreatePool(j)
       PROVE  StatsInv'
  <2>1. Goto(j, "create") \/ Goto(j, "wait") \/ Over(j)
    BY <1>11, Zenon DEF EnsurePool, CreatePool, Types
  <2>2. UNCHANGED cache
    BY <1>11 DEF EnsurePool, CreatePool
  <2>3. QED
    BY <1>1, <1>3, <1>4, <2>1, <2>2
<1>12. ASSUME NEW j \in Job, Connect(j)
       PROVE  StatsInv'
  <2>1. \A k \in Job : Keeps(k)
    BY <1>12 DEF Connect, HoldsStats, Types, Call
  <2>2. QED
    BY <1>1, <1>12, <2>1 DEF Connect
<1>13. ASSUME NEW j \in Job, Fail(j)
       PROVE  StatsInv'
  BY <1>1, <1>3, <1>13 DEF Fail
<1>14. ASSUME NEW j \in Job, GiveBack(j)
       PROVE  StatsInv'
  <2>1. (job[j].kind = "stats" /\ Goto(j, "result")) \/ Over(j)
    BY <1>14, Zenon DEF GiveBack
  <2>2. CASE job[j].kind = "stats" /\ Goto(j, "result")
    <3>1. \A k \in Job : Keeps(k)
      BY <1>14, <2>2 DEF GiveBack, Goto, HoldsStats, Types, Call
    <3>2. QED
      BY <1>1, <1>14, <3>1 DEF GiveBack
  <2>3. QED
    BY <1>1, <1>3, <1>14, <2>1, <2>2 DEF GiveBack
<1>15. ASSUME NEW j \in Job, Return(j)
       PROVE  StatsInv'
  <2>1. \A k \in Job : Keeps(k)
    BY <1>2, <1>15 DEF Return
  <2>2. CASE job[j].phase = "result"
    <3>1. job[j].spent <= QueryTime /\ job[j].spent \in Nat
      BY <2>2 DEF StatsInv, HoldsStats, Types, Call
    <3>2. cache' = [age |-> 0, snapshot |-> job[j].spent]
      BY <1>15, <2>2 DEF Return
    <3>3. \A k \in Job : HoldsStats(job'[k]) => job'[k].spent <= QueryTime
      BY <2>1 DEF StatsInv
    <3>4. QED
      BY <3>1, <3>2, <3>3 DEF StatsInv
  <2>3. CASE job[j].phase # "result"
    BY <1>1, <1>15, <2>1, <2>3 DEF Return
  <2>4. QED
    BY <2>2, <2>3
<1>16. CASE Tick
  <2>1. ASSUME NEW k \in Job, HoldsStats(job'[k])
        PROVE  job'[k].spent <= QueryTime
    <3>1. job[k] \in Call
      BY DEF Types
    <3>2. CASE InStats(k)
      <4>1. job[k].spent < QueryTime /\ job[k].spent \in Nat
        BY <1>16, <3>1, <3>2 DEF Tick, Call
      <4>2. job'[k] = [job[k] EXCEPT !.spent = @ + 1]
        BY <1>16, <3>2 DEF Tick
      <4>3. QED
        BY <3>1, <4>1, <4>2 DEF Call
    <3>3. CASE ~InStats(k)
      <4>1. job[k].phase # "wait" => job'[k] = job[k]
        BY <1>16, <3>3 DEF Tick
      <4>2. job[k].phase = "wait" => job'[k].phase = "wait"
        BY <1>16, <3>1 DEF Tick, Call
      <4>3. QED
        BY <2>1, <4>1, <4>2 DEF StatsInv, HoldsStats
    <3>4. QED
      BY <3>2, <3>3
  <2>2. CacheHit' => cache'.snapshot <= cache'.age + QueryTime
    BY <1>16 DEF Tick, CacheHit, StatsInv, Types
  <2>3. QED
    BY <2>1, <2>2 DEF StatsInv
<1>17. QED
  BY <1>5, <1>6, <1>7, <1>8, <1>9, <1>10, <1>11, <1>12, <1>13, <1>14, <1>15, <1>16
     DEF Next, JobStep, Feed, Stats, Ready, Work, FetchState, Job

\* What /api/stats serves is never older than its cache may be plus the time
\* of one query, for any number of requests that recompute it at once.
THEOREM StatsFreshHolds == Spec => []StatsFresh
<1>1. Init => StatsInv
  BY AccessAssumption DEF Init, StatsInv, HoldsStats, CacheHit, Idle, NoStats
<1>2. Types /\ StatsInv => StatsFresh
  BY AccessAssumption DEF Types, StatsInv, StatsFresh, CacheHit
<1>3. QED
  BY <1>1, <1>2, PoolInit, TypesStep, StatsStep, PTL DEF Spec
=============================================================================
