---------------------------- MODULE StoreAccess ----------------------------
(***************************************************************************)
(* How one process of the API uses its store.  The endpoints of            *)
(* app/main.py and most steps of the background refresh hand store calls   *)
(* to threads (asyncio.to_thread) and are answered through the event loop; *)
(* the fetch of a source (app/fetcher.py) reads and records its            *)
(* source_state in the event loop itself, which does nothing else until    *)
(* the call is over.  In app/postgres_store.py the calls share a lazily    *)
(* built connection pool, in app/sqlite_store.py each opens a connection.  *)
(*                                                                         *)
(* A job is one store call.  What it reads or writes is left out, but for  *)
(* the age of the snapshot from which the answer of /api/stats is          *)
(* computed.  Times are ages, so that the clock needs no bound.            *)
(***************************************************************************)
EXTENDS Integers, FiniteSets

CONSTANTS
    Request,        \* slots for concurrent store calls of requests
    Background,     \* slots for concurrent store calls of the refresh
    Threads,        \* threads of the event loop's default executor
    PoolSize,       \* db_pool_max_size
    PoolTimeout,    \* db_pool_timeout
    QueryTime,      \* longest time for which a call holds its connection
    StatsCacheTtl   \* STATS_CACHE_TTL

ASSUME AccessAssumption ==
    /\ IsFiniteSet(Request) /\ IsFiniteSet(Background)
    /\ Request \cap Background = {}
    /\ Threads \in Nat \ {0} /\ PoolSize \in Nat \ {0}
    /\ PoolTimeout \in Nat /\ QueryTime \in Nat /\ StatsCacheTtl \in Nat

Job == Request \cup Background

VARIABLES
    backend,    \* the backend app/store.py selected
    stage,      \* of the process
    up,         \* the database can be reached
    pool,       \* postgres_store._POOL
    pools,      \* connection pools that are open
    cache,      \* main._STATS_CACHE
    job         \* job[j]: the store call in slot j

vars == <<backend, stage, up, pool, pools, cache, job>>

\* "state" is a call made in the event loop, "orphan" a ping nobody waits for.
Kind == {"read", "stats", "ready", "orphan", "work", "state"}
Phase == {"free", "queued", "ensure", "create", "wait", "query", "result", "over"}

\* spent: time in the pool's queue, then, for the statistics, in the query.
Call == [kind : Kind, phase : Phase, spent : Nat]

Idle == [kind |-> "work", phase |-> "free", spent |-> 0]

\* The calls that occupy a thread.
Running == {j \in Job : /\ job[j].kind # "state"
                        /\ job[j].phase \in {"ensure", "create", "wait", "query"}}

\* A call in the event loop keeps it from doing anything else.
LoopIsFree == \A j \in Job : job[j].kind = "state" => job[j].phase = "free"

NoStats == [age |-> StatsCacheTtl, snapshot |-> 0]

TypeOK ==
    /\ backend \in {"sqlite", "postgres"}
    /\ stage \in {"starting", "serving", "draining", "closing", "closed"}
    /\ up \in BOOLEAN
    /\ pool \in {"none", "open", "closed"}
    /\ pools \in Nat
    /\ cache \in [age : 0..StatsCacheTtl, snapshot : Nat]
    /\ job \in [Job -> Call]
    /\ Cardinality(Running) <= Threads

Init ==
    /\ backend \in {"sqlite", "postgres"}
    /\ stage = "starting"
    /\ up \in BOOLEAN /\ (backend = "sqlite" => up)
    /\ pool = "none" /\ pools = 0
    /\ cache = NoStats
    /\ job = [j \in Job |-> Idle]

Goto(j, p) == job' = [job EXCEPT ![j].phase = p]

Ends(j) == job' = [job EXCEPT ![j] = Idle]

\* The call is over.  Unless it was made in the event loop, or nobody waits for
\* it, its outcome has to wait for the loop.
Finished(c) ==
    IF c.kind \in {"state", "orphan"} THEN Idle ELSE [c EXCEPT !.phase = "over", !.spent = 0]

Over(j) == job' = [job EXCEPT ![j] = Finished(@)]

-----------------------------------------------------------------------------
(* The process.                                                            *)

\* lifespan: init_db builds the pool even if the database is down and the
\* process starts degraded; otherwise an empty archive is seeded, as part of this.
StartWithoutInit ==
    /\ stage = "starting" /\ stage' = "serving"
    /\ UNCHANGED <<backend, up, pool, pools, cache, job>>

Start ==
    /\ stage = "starting" /\ stage' = "serving"
    /\ IF backend = "postgres"
       THEN pool' = "open" /\ pools' = 1
       ELSE UNCHANGED <<pool, pools>>
    /\ UNCHANGED <<backend, up, cache, job>>

\* The server stops accepting requests.
Drain ==
    /\ stage = "serving" /\ stage' = "draining"
    /\ LoopIsFree
    /\ UNCHANGED <<backend, up, pool, pools, cache, job>>

\* Every request is answered, and store.close closes the pool, in a thread: the
\* calls that wait for a connection fail, those that hold one go on.
ClosePool ==
    /\ stage = "draining" /\ stage' = "closing"
    /\ \A j \in Job : job[j].phase # "free" => job[j].kind \in {"work", "state", "orphan"}
    /\ IF backend = "postgres"
       THEN pool' = "closed" /\ pools' = 0
       ELSE UNCHANGED <<pool, pools>>
    /\ job' = [j \in Job |-> IF job[j].phase = "wait" THEN Finished(job[j]) ELSE job[j]]
    /\ UNCHANGED <<backend, up, cache>>

ForgetPool ==
    /\ stage = "closing" /\ stage' = "closed"
    /\ pool' = "none"
    /\ UNCHANGED <<backend, up, pools, cache, job>>

\* The process exits, or is killed at any time, and is started again.
Restart ==
    /\ stage # "starting" /\ stage' = "starting"
    /\ pool' = "none" /\ pools' = 0
    /\ cache' = NoStats
    /\ job' = [j \in Job |-> Idle]
    /\ UNCHANGED <<backend, up>>

\* The database server stops and returns.
DatabaseStops ==
    /\ up /\ backend = "postgres"
    /\ up' = FALSE
    /\ UNCHANGED <<backend, stage, pool, pools, cache, job>>

DatabaseReturns ==
    /\ ~up
    /\ up' = TRUE
    /\ UNCHANGED <<backend, stage, pool, pools, cache, job>>

-----------------------------------------------------------------------------
(* Store calls are submitted.                                              *)

Submit(j, kind) ==
    /\ job[j].phase = "free"
    /\ LoopIsFree
    /\ job' = [job EXCEPT ![j] = [Idle EXCEPT !.kind = kind, !.phase = "queued"]]
    /\ UNCHANGED <<backend, stage, up, pool, pools, cache>>

\* /api/feed, /api/items and /api/search on the SQL path.
Feed(j) == stage = "serving" /\ Submit(j, "read")

\* /api/stats: what is cached is served until it is StatsCacheTtl old.
CacheHit == cache.age < StatsCacheTtl

Stats(j) == stage = "serving" /\ ~CacheHit /\ Submit(j, "stats")

\* /ready, which answers 503 when the ping takes too long.  A ping that still
\* waits for a thread is cancelled; one that has a thread goes on.
Ready(j) == stage = "serving" /\ Submit(j, "ready")

ReadyGivesUp(j) ==
    /\ job[j].kind = "ready" /\ job[j].phase \notin {"free", "over"}
    /\ LoopIsFree
    /\ IF job[j].phase = "queued" THEN Ends(j) ELSE job' = [job EXCEPT ![j].kind = "orphan"]
    /\ UNCHANGED <<backend, stage, up, pool, pools, cache>>

\* A store call of the background refresh, which shutdown does not wait for.
Work(j) == stage # "starting" /\ Submit(j, "work")

\* _load_state and _save_state call the store in the event loop.
FetchState(j) == stage # "starting" /\ Submit(j, "state")

-----------------------------------------------------------------------------
(* A thread, or the event loop, runs a store call.                         *)

Run(j) ==
    /\ job[j].phase = "queued"
    /\ job[j].kind = "state" \/ Cardinality(Running) < Threads
    /\ Goto(j, IF backend = "postgres" THEN "ensure" ELSE "query")
    /\ UNCHANGED <<backend, stage, up, pool, pools, cache>>

\* _ensure_pool tests _POOL and builds a pool in two steps, with no lock.  A
\* call that meets the closed pool fails.
EnsurePool(j) ==
    /\ job[j].phase = "ensure"
    /\ CASE pool = "none"   -> Goto(j, "create")
         [] pool = "open"   -> Goto(j, "wait")
         [] pool = "closed" -> Over(j)
    /\ UNCHANGED <<backend, stage, up, pool, pools, cache>>

CreatePool(j) ==
    /\ job[j].phase = "create"
    /\ pool' = "open" /\ pools' = pools + 1
    /\ Goto(j, "wait")
    /\ UNCHANGED <<backend, stage, up, cache>>

\* The pool hands out a connection.
Held == {j \in Job : job[j].phase = "query"}

Connect(j) ==
    /\ job[j].phase = "wait"
    /\ up /\ Cardinality(Held) < PoolSize
    /\ job' = [job EXCEPT ![j].phase = "query", ![j].spent = 0]
    /\ UNCHANGED <<backend, stage, up, pool, pools, cache>>

\* StoreUnavailable, a 503: PoolTimeout, or the connection breaks.  That a call
\* notices the end of its connection is left to TCP: the statement_timeout of the
\* session is the server's, and the client sets none.
TimedOut(j) == job[j].phase = "wait" /\ job[j].spent >= PoolTimeout

Broken(j) == ~up /\ job[j].phase = "query"

FailExtendingCache(j) ==
    /\ TimedOut(j) \/ Broken(j)
    /\ cache' = IF job[j].kind = "stats" THEN [cache EXCEPT !.age = 0] ELSE cache
    /\ Over(j)
    /\ UNCHANGED <<backend, stage, up, pool, pools>>

FailOnlyIfBroken(j) ==
    /\ Broken(j)
    /\ Over(j)
    /\ UNCHANGED <<backend, stage, up, pool, pools, cache>>

Fail(j) ==
    /\ TimedOut(j) \/ Broken(j)
    /\ Over(j)
    /\ UNCHANGED <<backend, stage, up, pool, pools, cache>>

\* The statement sees a snapshot of the archive, its rows are read and the
\* connection goes back to the pool.
GiveBack(j) ==
    /\ job[j].phase = "query" /\ up
    /\ IF job[j].kind = "stats" THEN Goto(j, "result") ELSE Over(j)
    /\ UNCHANGED <<backend, stage, up, pool, pools, cache>>

\* The event loop takes the outcome and answers; /api/stats stores a result,
\* even over one computed from a later snapshot.
Return(j) ==
    /\ job[j].phase \in {"result", "over"}
    /\ LoopIsFree
    /\ Ends(j)
    /\ cache' = IF job[j].phase = "result" THEN [age |-> 0, snapshot |-> job[j].spent] ELSE cache
    /\ UNCHANGED <<backend, stage, up, pool, pools>>

\* The snapshot of the statistics is no older than their query.
InStats(j) == job[j].phase = "query" /\ job[j].kind = "stats"

Tick ==
    /\ \A j \in Job : ~TimedOut(j) /\ (InStats(j) => job[j].spent < QueryTime)
    /\ job' = [j \in Job |-> IF job[j].phase = "wait" \/ InStats(j)
                             THEN [job[j] EXCEPT !.spent = @ + 1] ELSE job[j]]
    /\ cache' = IF CacheHit
                THEN [age |-> cache.age + 1, snapshot |-> cache.snapshot + 1] ELSE cache
    /\ UNCHANGED <<backend, stage, up, pool, pools>>

-----------------------------------------------------------------------------
JobStep(j) ==
    Run(j) \/ EnsurePool(j) \/ CreatePool(j) \/ Fail(j) \/ GiveBack(j) \/ Return(j)

Next ==
    \/ Start \/ Drain \/ ClosePool \/ ForgetPool \/ Restart
    \/ DatabaseStops \/ DatabaseReturns
    \/ \E j \in Request : Feed(j) \/ Stats(j) \/ Ready(j) \/ ReadyGivesUp(j)
    \/ \E j \in Background : Work(j) \/ FetchState(j)
    \/ \E j \in Job : Connect(j) \/ JobStep(j)
    \/ Tick

Spec == Init /\ [][Next]_vars

\* Threads make progress and time passes; the executor's queue and the callbacks
\* of the event loop are first in, first out, so a call that finds a free thread,
\* or the loop free, again and again gets its turn.  That the pool ever gives a
\* connection is not assumed; of the database only that while it is up a
\* statement ends, and while it is not a call on it fails.
Fairness == WF_vars(Tick) /\ \A j \in Job : SF_vars(JobStep(j))

FairSpec == Spec /\ Fairness

-----------------------------------------------------------------------------
(* Properties.                                                             *)

\* What /api/stats serves is never computed from an archive older than the
\* lifetime of the cache plus one query, however many requests recompute it at
\* once and in whatever order they store their answers.  (The time for which a call
\* in the event loop keeps a finished answer waiting is not counted.)
StatsFresh == CacheHit => cache.snapshot < StatsCacheTtl + QueryTime

\* The lock-free _ensure_pool never builds a second pool, nor do requests meet
\* a closed one, because start-up builds it and shutdown waits for requests.
OnePool ==
    /\ stage # "closed" => pools <= 1
    /\ backend = "postgres" /\ stage \in {"serving", "draining"} => pool = "open" /\ pools = 1

\* Every store call ends, with an answer or a 503, even if the database stays
\* away, every connection and every thread is taken, and calls in the event loop
\* wait for connections that only threads can give back.
CallsEnd == \A j \in Job : job[j].phase # "free" ~> job[j].phase = "free"
=============================================================================
