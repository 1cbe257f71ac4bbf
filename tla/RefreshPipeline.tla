-------------------------- MODULE RefreshPipeline --------------------------
(***************************************************************************)
(* The background refresh of app/pipeline.py and its start-up in           *)
(* app/main.py, for API replicas (one process with one event loop each)    *)
(* that share one archive.                                                 *)
(*                                                                         *)
(* A step of the model is what a replica does between two points where     *)
(* other code may run: an await on its event loop, or a transaction of the *)
(* shared database.  A refresh is a Task; task identities are reused once  *)
(* the task has finished and its done callback has run, as for any         *)
(* collected object.  Time is a coarse clock whose unit is much longer     *)
(* than a database call, so a stamp is taken and committed in one step.    *)
(***************************************************************************)
EXTENDS Archive, FiniteSets

CONSTANTS
    Replica,            \* the API processes
    Task,               \* identities of asyncio tasks in one process
    NoTask,             \* the value None of _REFRESH_TASK
    FeedCacheTtl,       \* settings.feed_cache_ttl
    PruneInterval,      \* _PRUNE_INTERVAL
    RetentionDays,      \* settings.retention_days; 0 disables pruning
    DegradedStart,      \* TRUE: the database may be unreachable at start-up
    MaxNow,             \* bound: the clock stops here
    MaxFaults           \* bound: failed steps, raised refreshes and crashes

ASSUME PipelineAssumption ==
    /\ NoTask \notin Task
    /\ FeedCacheTtl \in Nat /\ PruneInterval \in Nat /\ RetentionDays \in Nat
    /\ DegradedStart \in BOOLEAN
    /\ MaxNow \in Nat /\ MaxFaults \in Nat

VARIABLES
    now,            \* wall clock
    faults,         \* faults so far
    table,          \* feed_items, shared by the replicas
    boot,           \* boot[r]: progress of lifespan
    handle,         \* handle[r]: _REFRESH_TASK
    phase,          \* phase[r][t]: where task t stands
    lock,           \* lock[r]: the task that holds CACHE_LOCK
    batch,          \* batch[r]: the items of the generation CACHE describes
    cache,          \* cache[r]: CACHE, fetched_at and steps
    lastPruneAt,    \* lastPruneAt[r]: _last_prune_at
    cutoff          \* cutoff[r]: now and cutoff of the delete _prune awaits

vars == <<now, faults, table, boot, handle, phase, lock, batch, cache, lastPruneAt, cutoff>>

Never == -1         \* None in fetched_at and in _last_prune_at

Step == {"persist", "prune", "index", "publish", "alert"}

StepOutcome == {"none", "ok", "error"}

\* "ready" has not run yet; "prune" is before and "pruning" inside the awaited
\* delete; "done" has finished, its done callback still queued on the loop.
Idle == {"free", "done"}

Phase == Idle \cup Step \cup {"ready", "fetch", "pruning"}

NoSteps == [s \in Step |-> "none"]

NoBatch == [live |-> {}, samples |-> {}]

FeedCache == [fetchedAt : Nat \cup {Never}, steps : [Step -> StepOutcome]]

EmptyCache == [fetchedAt |-> Never, steps |-> NoSteps]

TypeOK ==
    /\ now \in Nat /\ faults \in Nat
    /\ IsTable(table)
    /\ boot \in [Replica -> {"down", "counted", "up"}]
    /\ handle \in [Replica -> Task \cup {NoTask}]
    /\ phase \in [Replica -> [Task -> Phase]]
    /\ lock \in [Replica -> Task \cup {NoTask}]
    /\ batch \in [Replica -> [live : SUBSET LiveItem, samples : SUBSET SampleItem]]
    /\ cache \in [Replica -> FeedCache]
    /\ lastPruneAt \in [Replica -> Nat \cup {Never}]
    /\ cutoff \in [Replica -> Nat]

Init ==
    /\ now = 0 /\ faults = 0
    /\ table = NoRows
    /\ boot = [r \in Replica |-> "down"]
    /\ handle = [r \in Replica |-> NoTask]
    /\ phase = [r \in Replica |-> [t \in Task |-> "free"]]
    /\ lock = [r \in Replica |-> NoTask]
    /\ batch = [r \in Replica |-> NoBatch]
    /\ cache = [r \in Replica |-> EmptyCache]
    /\ lastPruneAt = [r \in Replica |-> Never]
    /\ cutoff = [r \in Replica |-> 0]

-----------------------------------------------------------------------------
(* Scheduling: refresh_in_flight, schedule_refresh, _on_refresh_done.      *)

Active(r) == {t \in Task : phase[r][t] \notin Idle}

RefreshInFlight(r) == handle[r] # NoTask /\ phase[r][handle[r]] \notin Idle

ScheduleRefresh(r) ==
    IF RefreshInFlight(r)
    THEN UNCHANGED <<handle, phase>>
    ELSE \E t \in Task :
            /\ phase[r][t] = "free"
            /\ handle' = [handle EXCEPT ![r] = t]
            /\ phase' = [phase EXCEPT ![r][t] = "ready"]

Stale(r) ==
    cache[r].fetchedAt = Never \/ now - cache[r].fetchedAt > FeedCacheTtl

\* A request for /api/feed: get_feed schedules a refresh when the cache is
\* stale and never waits for it.
GetFeed(r) ==
    /\ boot[r] = "up"
    /\ IF Stale(r) THEN ScheduleRefresh(r) ELSE UNCHANGED <<handle, phase>>
    /\ UNCHANGED <<now, faults, table, boot, lock, batch, cache, lastPruneAt, cutoff>>

\* The done callback, which the loop runs some time after the task finished:
\* a request may have scheduled the next refresh in between.
OnRefreshDoneUnguarded(r) == \E t \in Task :
    /\ phase[r][t] = "done"
    /\ phase' = [phase EXCEPT ![r][t] = "free"]
    /\ handle' = [handle EXCEPT ![r] = NoTask]
    /\ UNCHANGED <<now, faults, table, boot, lock, batch, cache, lastPruneAt, cutoff>>

OnRefreshDone(r) == \E t \in Task :
    /\ phase[r][t] = "done"
    /\ phase' = [phase EXCEPT ![r][t] = "free"]
    /\ handle' = [handle EXCEPT ![r] = IF @ = t THEN NoTask ELSE @]
    /\ UNCHANGED <<now, faults, table, boot, lock, batch, cache, lastPruneAt, cutoff>>

-----------------------------------------------------------------------------
(* refresh_feed.                                                           *)

Goto(r, t, p) == phase' = [phase EXCEPT ![r][t] = p]

Fault == faults < MaxFaults /\ faults' = faults + 1

\* A new task's first step is queued behind the callbacks already queued.
Start(r) == \E t \in Task :
    /\ phase[r][t] = "ready"
    /\ \A u \in Task : phase[r][u] # "done"
    /\ lock[r] = NoTask
    /\ lock' = [lock EXCEPT ![r] = t]
    /\ Goto(r, t, "fetch")
    /\ UNCHANGED <<now, faults, table, boot, handle, batch, cache, lastPruneAt, cutoff>>

FewItems == 4

\* The sample fallback of fetch_all: all samples when nothing came back, or
\* when the list (which may hold an item twice) is shorter than FewItems, and
\* in both cases only if no source was skipped.
Fallback(live, skipped) ==
    CASE skipped                      -> {{}}
      [] ~skipped /\ live = {}        -> {SampleItem}
      [] ~skipped /\ live # {} /\ Cardinality(live) < FewItems
                                      -> {SampleItem, {}}
      [] OTHER                        -> {{}}

\* fetch_all and _enrich run to their end, and CACHE is replaced by a new
\* generation with no step recorded yet.  Nothing another component reads is
\* written in between, so this is one step.
FetchAndEnrich(r) == \E t \in Task, live \in SUBSET LiveItem, skipped \in BOOLEAN :
    /\ phase[r][t] = "fetch"
    /\ \E samples \in Fallback(live, skipped) :
          batch' = [batch EXCEPT ![r] = [live |-> live, samples |-> samples]]
    /\ cache' = [cache EXCEPT ![r] = [fetchedAt |-> now, steps |-> NoSteps]]
    /\ Goto(r, t, "persist")
    /\ UNCHANGED <<now, faults, table, boot, handle, lock, lastPruneAt, cutoff>>

\* An exception that escapes refresh_feed before CACHE is replaced.
RefreshRaisesHoldingLock(r) == \E t \in Task :
    /\ phase[r][t] = "fetch"
    /\ Fault
    /\ Goto(r, t, "done")
    /\ UNCHANGED <<now, table, boot, handle, lock, batch, cache, lastPruneAt, cutoff>>

RefreshRaises(r) == \E t \in Task :
    /\ phase[r][t] = "fetch"
    /\ Fault
    /\ Goto(r, t, "done")
    /\ lock' = [lock EXCEPT ![r] = NoTask]
    /\ UNCHANGED <<now, table, boot, handle, batch, cache, lastPruneAt, cutoff>>

\* CACHE.steps[s] = "ok" or "error"; every exception of a step is caught, and
\* the next step runs either way.
RecordStep(r, s, outcome) ==
    /\ cache' = [cache EXCEPT ![r].steps[s] = outcome]
    /\ IF outcome = "error" THEN Fault ELSE UNCHANGED faults

Committed(r) == UpsertItems(table, batch[r].live, batch[r].samples, now)

\* A failed call may still have committed: the connection can break on the reply.
PersistErrorEndsRefresh(r) == \E t \in Task, outcome \in {"ok", "error"} :
    /\ phase[r][t] = "persist"
    /\ RecordStep(r, "persist", outcome)
    /\ table' = Committed(r)
    /\ IF outcome = "ok"
       THEN Goto(r, t, "prune") /\ UNCHANGED lock
       ELSE Goto(r, t, "done") /\ lock' = [lock EXCEPT ![r] = NoTask]
    /\ UNCHANGED <<now, boot, handle, batch, lastPruneAt, cutoff>>

Persist(r) == \E t \in Task, outcome \in {"ok", "error"} :
    /\ phase[r][t] = "persist"
    /\ RecordStep(r, "persist", outcome)
    /\ \/ table' = Committed(r)
       \/ outcome = "error" /\ UNCHANGED table
    /\ Goto(r, t, "prune")
    /\ UNCHANGED <<now, boot, handle, lock, batch, lastPruneAt, cutoff>>

PruneDueAlways(r) == RetentionDays > 0

PruneDue(r) ==
    /\ RetentionDays > 0
    /\ lastPruneAt[r] = Never \/ now - lastPruneAt[r] >= PruneInterval

\* _prune returns early: disabled or throttled.
SkipPrune(r) == \E t \in Task :
    /\ phase[r][t] = "prune"
    /\ ~PruneDue(r)
    /\ RecordStep(r, "prune", "ok")
    /\ Goto(r, t, "index")
    /\ UNCHANGED <<now, table, boot, handle, lock, batch, lastPruneAt, cutoff>>

\* _prune computes the cutoff and awaits the delete.
BeginPrune(r) == \E t \in Task :
    /\ phase[r][t] = "prune"
    /\ PruneDue(r)
    /\ cutoff' = [cutoff EXCEPT ![r] = now]
    /\ Goto(r, t, "pruning")
    /\ UNCHANGED <<now, faults, table, boot, handle, lock, batch, cache, lastPruneAt>>

\* The throttle is set only when the delete succeeded, to the time read before it.
EndPrune(r) == \E t \in Task, outcome \in {"ok", "error"} :
    /\ phase[r][t] = "pruning"
    /\ RecordStep(r, "prune", outcome)
    /\ \/ table' = PruneItems(table, cutoff[r] - RetentionDays)
       \/ outcome = "error" /\ UNCHANGED table
    /\ lastPruneAt' = IF outcome = "ok"
                      THEN [lastPruneAt EXCEPT ![r] = cutoff[r]]
                      ELSE lastPruneAt
    /\ Goto(r, t, "index")
    /\ UNCHANGED <<now, boot, handle, lock, batch, cutoff>>

Index(r) == \E t \in Task, outcome \in {"ok", "error"} :
    /\ phase[r][t] = "index"
    /\ RecordStep(r, "index", outcome)
    /\ Goto(r, t, "publish")
    /\ UNCHANGED <<now, table, boot, handle, lock, batch, lastPruneAt, cutoff>>

\* publish only puts into queues without waiting, so it cannot fail.
Publish(r) == \E t \in Task :
    /\ phase[r][t] = "publish"
    /\ RecordStep(r, "publish", "ok")
    /\ Goto(r, t, "alert")
    /\ UNCHANGED <<now, table, boot, handle, lock, batch, lastPruneAt, cutoff>>

\* The last step: the task finishes and CACHE_LOCK is released.
Alert(r) == \E t \in Task, outcome \in {"ok", "error"} :
    /\ phase[r][t] = "alert"
    /\ RecordStep(r, "alert", outcome)
    /\ Goto(r, t, "done")
    /\ lock' = [lock EXCEPT ![r] = NoTask]
    /\ UNCHANGED <<now, table, boot, handle, batch, lastPruneAt, cutoff>>

-----------------------------------------------------------------------------
(* lifespan: _init_store, seed_if_empty, schedule_refresh; and process     *)
(* death, after which nothing of the replica is left but its rows.         *)

\* seed_if_empty, first transaction: counts the rows.
CountRows(r) ==
    /\ boot[r] = "down"
    /\ DOMAIN table = {}
    /\ boot' = [boot EXCEPT ![r] = "counted"]
    /\ UNCHANGED <<now, faults, table, handle, phase, lock, batch, cache, lastPruneAt, cutoff>>

\* Second transaction: inserts the samples if the count was 0.
Seed(r) ==
    /\ boot[r] = "counted"
    /\ table' = UpsertItems(table, {}, SampleItem, now)
    /\ boot' = [boot EXCEPT ![r] = "up"]
    /\ ScheduleRefresh(r)
    /\ UNCHANGED <<now, faults, lock, batch, cache, lastPruneAt, cutoff>>

\* No seeding: the archive already has rows, or (degraded mode) the database
\* could not be reached.
StartWithoutSeed(r) ==
    /\ boot[r] = "down"
    /\ DOMAIN table # {} \/ DegradedStart
    /\ boot' = [boot EXCEPT ![r] = "up"]
    /\ ScheduleRefresh(r)
    /\ UNCHANGED <<now, faults, table, lock, batch, cache, lastPruneAt, cutoff>>

Crash(r) ==
    /\ boot[r] # "down"
    /\ Fault
    /\ boot' = [boot EXCEPT ![r] = "down"]
    /\ handle' = [handle EXCEPT ![r] = NoTask]
    /\ phase' = [phase EXCEPT ![r] = [t \in Task |-> "free"]]
    /\ lock' = [lock EXCEPT ![r] = NoTask]
    /\ batch' = [batch EXCEPT ![r] = NoBatch]
    /\ cache' = [cache EXCEPT ![r] = EmptyCache]
    /\ lastPruneAt' = [lastPruneAt EXCEPT ![r] = Never]
    /\ cutoff' = [cutoff EXCEPT ![r] = 0]
    /\ UNCHANGED <<now, table>>

Tick ==
    /\ now < MaxNow
    /\ now' = now + 1
    /\ UNCHANGED <<faults, table, boot, handle, phase, lock, batch, cache, lastPruneAt, cutoff>>

RefreshStep(r) ==
    \/ Start(r) \/ FetchAndEnrich(r) \/ Persist(r) \/ SkipPrune(r) \/ BeginPrune(r)
    \/ EndPrune(r) \/ Index(r) \/ Publish(r) \/ Alert(r) \/ OnRefreshDone(r)

StartUp(r) == CountRows(r) \/ Seed(r) \/ StartWithoutSeed(r)

Next ==
    \/ \E r \in Replica : \/ GetFeed(r) \/ RefreshStep(r) \/ RefreshRaises(r)
                          \/ StartUp(r) \/ Crash(r)
    \/ Tick

Spec == Init /\ [][Next]_vars

\* The event loop runs what is ready, the supervisor restarts the process, and
\* the frontend polls /api/feed (setInterval in app.js).  Neither faults nor time is fair.
Fairness ==
    \A r \in Replica : WF_vars(RefreshStep(r)) /\ WF_vars(StartUp(r)) /\ WF_vars(GetFeed(r))

FairSpec == Spec /\ Fairness

-----------------------------------------------------------------------------
(* Properties.                                                             *)

\* At most one refresh of a replica is scheduled or running, whatever the order
\* of requests, task completion and done callbacks ("single-flight").
SingleFlight == \A r \in Replica : \A t, u \in Active(r) : t = u

\* A refresh that is scheduled or running is the one _REFRESH_TASK holds: no
\* callback of an earlier refresh makes the process forget it, so it can be
\* neither doubled nor garbage-collected.
RunningRefreshIsHeld == \A r \in Replica : \A t \in Active(r) : handle[r] = t

Recorded(r) == {s \in Step : cache[r].steps[s] # "none"}

\* The steps that have run when a refresh stands at phase p.
StepsBefore(p) ==
    CASE p = "persist"              -> {}
      [] p \in {"prune", "pruning"} -> {"persist"}
      [] p = "index"                -> {"persist", "prune"}
      [] p = "publish"              -> {"persist", "prune", "index"}
      [] p = "alert"                -> {"persist", "prune", "index", "publish"}
      [] OTHER                      -> Step

\* What /health shows belongs to the generation in CACHE: while a refresh works
\* on it exactly the steps already run are recorded, and afterwards all five
\* are, however many of them failed.  An empty CACHE has none.
StepsMatchProgress == \A r \in Replica :
    IF cache[r].fetchedAt = Never
    THEN Recorded(r) = {}
    ELSE /\ \A t \in Active(r) : Recorded(r) = StepsBefore(phase[r][t])
         /\ Active(r) = {} => Recorded(r) = Step

\* When the persist step of the generation in CACHE succeeded, every item of it
\* stays in the archive until it is older than the retention, whatever the
\* other replicas upsert and prune meanwhile.
PersistedGenerationRetained == \A r \in Replica :
    cache[r].steps["persist"] = "ok" =>
        \A i \in batch[r].live \cup batch[r].samples :
            \/ i \in DOMAIN table /\ table[i].seen >= cache[r].fetchedAt
            \/ RetentionDays > 0 /\ now - cache[r].fetchedAt > RetentionDays

\* From the moment a replica serves requests a reader finds at least one row:
\* seeding, fallback, upserts and pruning together never leave the feed empty.
FeedRenderable == (\E r \in Replica : boot[r] = "up") => Visible(table) # {}

\* One process never starts two successful deletes less than PruneInterval apart.
PruneThrottled == [][\A r \in Replica :
    (lastPruneAt[r] # Never /\ lastPruneAt'[r] \notin {Never, lastPruneAt[r]})
        => lastPruneAt'[r] - lastPruneAt[r] >= PruneInterval]_vars

\* While a replica is up and polled, a stale cache does not stay stale: some
\* refresh replaces it (or the process dies).
StaleIsRefreshed == \A r \in Replica :
    (boot[r] = "up" /\ Stale(r)) ~> (boot[r] # "up" \/ ~Stale(r))
=============================================================================
