----------------------- MODULE RefreshPipelineProofs -----------------------
(***************************************************************************)
(* Theorems about RefreshPipeline, for every number of replicas, tasks and *)
(* items and every value of the settings.                                  *)
(***************************************************************************)
EXTENDS RefreshPipeline, TLAPS

-----------------------------------------------------------------------------
(* The operators of Archive.                                               *)

\* The table upsert_items leaves is a table again, with the rows of the batch
\* stamped with the time of the call and every other row as it was.
LEMMA UpsertIsTable ==
    ASSUME NEW T, IsTable(T), NEW live \in SUBSET LiveItem,
           NEW samples \in SUBSET SampleItem, NEW time \in Nat
    PROVE  /\ IsTable(UpsertItems(T, live, samples, time))
           /\ DOMAIN UpsertItems(T, live, samples, time) = DOMAIN T \cup live \cup samples
  BY DEF IsTable, UpsertItems, Item, Row

\* prune_items leaves a table again, and deletes nothing but expired live rows.
LEMMA PruneIsTable ==
    ASSUME NEW T, IsTable(T), NEW before \in Int
    PROVE  /\ IsTable(PruneItems(T, before))
           /\ DOMAIN PruneItems(T, before) = DOMAIN T \ Expired(T, before)
  BY DEF IsTable, PruneItems, Expired

-----------------------------------------------------------------------------
(* Type correctness.                                                       *)

\* The fallback adds nothing but samples.
LEMMA FallbackIsSamples ==
    ASSUME NEW live \in SUBSET LiveItem, NEW skipped \in BOOLEAN,
           NEW samples \in Fallback(live, skipped)
    PROVE  samples \in SUBSET SampleItem
  BY DEF Fallback

\* A move of a task keeps the type of phase.
LEMMA GotoType ==
    ASSUME phase \in [Replica -> [Task -> Phase]],
           NEW r \in Replica, NEW t \in Task, NEW p \in Phase, Goto(r, t, p)
    PROVE  phase' \in [Replica -> [Task -> Phase]]
  BY DEF Goto

\* Scheduling a refresh keeps the types of handle and phase.
LEMMA ScheduleType ==
    ASSUME TypeOK, NEW r \in Replica, ScheduleRefresh(r)
    PROVE  /\ handle' \in [Replica -> Task \cup {NoTask}]
           /\ phase' \in [Replica -> [Task -> Phase]]
<1>1. CASE RefreshInFlight(r)
  BY <1>1 DEF TypeOK, ScheduleRefresh
<1>2. CASE ~RefreshInFlight(r)
  <2>1. PICK t \in Task : /\ handle' = [handle EXCEPT ![r] = t]
                          /\ phase' = [phase EXCEPT ![r][t] = "ready"]
    BY <1>2 DEF ScheduleRefresh
  <2>2. "ready" \in Phase
    BY DEF Phase
  <2> QED
    BY <2>1, <2>2, GotoType DEF TypeOK, Goto
<1> QED
  BY <1>1, <1>2

\* Recording a step keeps the types of cache and faults.
LEMMA RecordType ==
    ASSUME TypeOK, NEW r \in Replica, NEW s \in Step, NEW outcome \in {"ok", "error"},
           RecordStep(r, s, outcome)
    PROVE  cache' \in [Replica -> FeedCache] /\ faults' \in Nat
<1>1. cache' = [cache EXCEPT ![r].steps[s] = outcome]
  BY DEF RecordStep
<1>2. /\ cache[r] \in FeedCache
      /\ [cache[r].steps EXCEPT ![s] = outcome] \in [Step -> StepOutcome]
  BY DEF TypeOK, FeedCache, StepOutcome
<1>3. [cache[r] EXCEPT !.steps[s] = outcome] \in FeedCache
  BY <1>2 DEF FeedCache
<1>4. cache' \in [Replica -> FeedCache]
  BY <1>1, <1>3 DEF TypeOK
<1>5. faults' \in Nat
  BY DEF RecordStep, Fault, TypeOK
<1> QED
  BY <1>4, <1>5

\* Every step keeps the types.
LEMMA TypeInductive == TypeOK /\ [Next]_vars => TypeOK'
<1> SUFFICES ASSUME TypeOK, [Next]_vars PROVE TypeOK'
  OBVIOUS
<1> USE PipelineAssumption
<1>1. ASSUME NEW r \in Replica, GetFeed(r) PROVE TypeOK'
  BY <1>1, ScheduleType DEF GetFeed, TypeOK
<1>2. ASSUME NEW r \in Replica, OnRefreshDone(r) PROVE TypeOK'
  BY <1>2 DEF OnRefreshDone, TypeOK, Phase, Idle
<1>3. ASSUME NEW r \in Replica, Start(r) PROVE TypeOK'
  BY <1>3 DEF Start, Goto, TypeOK, Phase, Idle
<1>4. ASSUME NEW r \in Replica, FetchAndEnrich(r) PROVE TypeOK'
  BY <1>4, FallbackIsSamples
     DEF FetchAndEnrich, Goto, TypeOK, Phase, Idle, Step, FeedCache, NoSteps, StepOutcome
<1>5. ASSUME NEW r \in Replica, RefreshRaises(r) PROVE TypeOK'
  BY <1>5 DEF RefreshRaises, Fault, Goto, TypeOK, Phase, Idle
<1>6. ASSUME NEW r \in Replica, Persist(r) PROVE TypeOK'
  <2>1. IsTable(table')
    <3>1. table' = UpsertItems(table, batch[r].live, batch[r].samples, now) \/ table' = table
      BY <1>6 DEF Persist, Committed
    <3>2. /\ IsTable(table) /\ now \in Nat
          /\ batch[r].live \in SUBSET LiveItem /\ batch[r].samples \in SUBSET SampleItem
      BY DEF TypeOK
    <3>3. IsTable(UpsertItems(table, batch[r].live, batch[r].samples, now))
      BY <3>2, UpsertIsTable
    <3> QED
      BY <3>1, <3>2, <3>3
  <2> QED
    BY <1>6, <2>1, RecordType, GotoType DEF Persist, TypeOK, Phase, Idle, Step
<1>7. ASSUME NEW r \in Replica, SkipPrune(r) PROVE TypeOK'
  BY <1>7, RecordType, GotoType DEF SkipPrune, TypeOK, Phase, Idle, Step
<1>8. ASSUME NEW r \in Replica, BeginPrune(r) PROVE TypeOK'
  BY <1>8 DEF BeginPrune, Goto, TypeOK, Phase, Idle
<1>9. ASSUME NEW r \in Replica, EndPrune(r) PROVE TypeOK'
  <2>1. IsTable(table')
    <3>1. table' = PruneItems(table, cutoff[r] - RetentionDays) \/ table' = table
      BY <1>9 DEF EndPrune
    <3>2. IsTable(table) /\ cutoff[r] - RetentionDays \in Int
      BY DEF TypeOK
    <3> QED
      BY <3>1, <3>2, PruneIsTable
  <2> QED
    BY <1>9, <2>1, RecordType, GotoType DEF EndPrune, TypeOK, Phase, Idle, Step
<1>10. ASSUME NEW r \in Replica, Index(r) PROVE TypeOK'
  BY <1>10, RecordType, GotoType DEF Index, TypeOK, Phase, Idle, Step
<1>11. ASSUME NEW r \in Replica, Publish(r) PROVE TypeOK'
  BY <1>11, RecordType, GotoType DEF Publish, TypeOK, Phase, Idle, Step
<1>12. ASSUME NEW r \in Replica, Alert(r) PROVE TypeOK'
  BY <1>12, RecordType, GotoType DEF Alert, TypeOK, Phase, Idle, Step
<1>13. ASSUME NEW r \in Replica, CountRows(r) PROVE TypeOK'
  BY <1>13 DEF CountRows, TypeOK
<1>14. ASSUME NEW r \in Replica, Seed(r) PROVE TypeOK'
  BY <1>14, UpsertIsTable, ScheduleType DEF Seed, TypeOK
<1>15. ASSUME NEW r \in Replica, StartWithoutSeed(r) PROVE TypeOK'
  BY <1>15, ScheduleType DEF StartWithoutSeed, TypeOK
<1>16. ASSUME NEW r \in Replica, Crash(r) PROVE TypeOK'
  BY <1>16 DEF Crash, Fault, TypeOK, Phase, Idle, NoBatch, EmptyCache, FeedCache, NoSteps, StepOutcome
<1>17. CASE Tick
  BY <1>17 DEF Tick, TypeOK
<1>18. CASE UNCHANGED vars
  BY <1>18 DEF vars, TypeOK
<1> QED
  BY <1>1, <1>2, <1>3, <1>4, <1>5, <1>6, <1>7, <1>8, <1>9, <1>10, <1>11, <1>12,
     <1>13, <1>14, <1>15, <1>16, <1>17, <1>18
     DEF Next, RefreshStep, StartUp

\* In every reachable state each variable has its type.
THEOREM TypeCorrect == Spec => []TypeOK
<1>1. Init => TypeOK
  BY PipelineAssumption
     DEF Init, TypeOK, NoRows, IsTable, Phase, Idle, NoBatch, EmptyCache, FeedCache,
         NoSteps, StepOutcome
<1> QED
  BY <1>1, TypeInductive, PTL DEF Spec

-----------------------------------------------------------------------------
(* Single flight.  RunningRefreshIsHeld is inductive together with TypeOK: *)
(* a refresh is created only when the held one is not running, so none is, *)
(* and a done callback clears the handle only if it holds the task that    *)
(* finished, which is then the only one that could have been running.      *)

\* schedule_refresh leaves the handle on whatever refresh is active.
LEMMA ScheduleHolds ==
    ASSUME TypeOK, RunningRefreshIsHeld, NEW r \in Replica, ScheduleRefresh(r)
    PROVE  RunningRefreshIsHeld'
<1>1. CASE RefreshInFlight(r)
  BY <1>1 DEF ScheduleRefresh, RunningRefreshIsHeld, Active
<1>2. CASE ~RefreshInFlight(r)
  <2>1. PICK t \in Task : /\ handle' = [handle EXCEPT ![r] = t]
                          /\ phase' = [phase EXCEPT ![r][t] = "ready"]
    BY <1>2 DEF ScheduleRefresh
  <2>2. Active(r) = {}
    BY <1>2, PipelineAssumption DEF RunningRefreshIsHeld, RefreshInFlight, Active
  <2> QED
    BY <2>1, <2>2 DEF RunningRefreshIsHeld, Active, TypeOK
<1> QED
  BY <1>1, <1>2

\* A step of a refresh that is already active activates no other task.
LEMMA GotoHolds ==
    ASSUME TypeOK, RunningRefreshIsHeld, NEW r \in Replica, NEW t \in Active(r),
           NEW p \in Phase, Goto(r, t, p), handle' = handle
    PROVE  RunningRefreshIsHeld'
  BY DEF Goto, RunningRefreshIsHeld, Active, TypeOK

\* Every step keeps the running refresh held.
LEMMA HeldInductive ==
    TypeOK /\ RunningRefreshIsHeld /\ [Next]_vars => RunningRefreshIsHeld'
<1> SUFFICES ASSUME TypeOK, RunningRefreshIsHeld, [Next]_vars
             PROVE  RunningRefreshIsHeld'
  OBVIOUS
<1>1. ASSUME NEW r \in Replica, GetFeed(r) PROVE RunningRefreshIsHeld'
  BY <1>1, ScheduleHolds DEF GetFeed, RunningRefreshIsHeld, Active
<1>2. ASSUME NEW r \in Replica, OnRefreshDone(r) PROVE RunningRefreshIsHeld'
  BY <1>2 DEF OnRefreshDone, RunningRefreshIsHeld, Active, TypeOK, Idle
<1>3. ASSUME NEW r \in Replica,
             \/ Start(r) \/ FetchAndEnrich(r) \/ RefreshRaises(r) \/ Persist(r)
             \/ SkipPrune(r) \/ BeginPrune(r) \/ EndPrune(r) \/ Index(r) \/ Publish(r)
             \/ Alert(r)
      PROVE  RunningRefreshIsHeld'
  <2>1. handle' = handle
    BY <1>3 DEF Start, FetchAndEnrich, RefreshRaises, Persist, SkipPrune, BeginPrune,
                EndPrune, Index, Publish, Alert
  <2>2. \E t \in Active(r), p \in Phase : Goto(r, t, p)
    BY <1>3 DEF Start, FetchAndEnrich, RefreshRaises, Persist, SkipPrune, BeginPrune,
                EndPrune, Index, Publish, Alert, Active, Idle, Phase, Step
  <2> QED
    BY <2>1, <2>2, GotoHolds
<1>4. ASSUME NEW r \in Replica, StartUp(r) PROVE RunningRefreshIsHeld'
  BY <1>4, ScheduleHolds
     DEF StartUp, CountRows, Seed, StartWithoutSeed, RunningRefreshIsHeld, Active
<1>5. ASSUME NEW r \in Replica, Crash(r) PROVE RunningRefreshIsHeld'
  BY <1>5 DEF Crash, RunningRefreshIsHeld, Active, TypeOK, Idle
<1>6. CASE Tick
  BY <1>6 DEF Tick, RunningRefreshIsHeld, Active
<1>7. CASE UNCHANGED vars
  BY <1>7 DEF vars, RunningRefreshIsHeld, Active
<1> QED
  BY <1>1, <1>2, <1>3, <1>4, <1>5, <1>6, <1>7 DEF Next, RefreshStep

\* A running refresh is never forgotten by _REFRESH_TASK.
THEOREM RunningRefreshHeld == Spec => []RunningRefreshIsHeld
<1>1. Init => RunningRefreshIsHeld
  BY DEF Init, RunningRefreshIsHeld, Active, Idle
<1> QED
  BY <1>1, TypeCorrect, HeldInductive, PTL DEF Spec

\* At most one refresh per replica is scheduled or running.
THEOREM SingleFlightHolds == Spec => []SingleFlight
<1>1. RunningRefreshIsHeld => SingleFlight
  BY DEF RunningRefreshIsHeld, SingleFlight
<1> QED
  BY <1>1, RunningRefreshHeld, PTL

-----------------------------------------------------------------------------
(* What /health shows.  The steps are written through the global CACHE, so *)
(* that they describe one generation rests on single flight; and a step is *)
(* recorded only after CACHE has been filled.                              *)

CacheFilled == \A r \in Replica : \A t \in Active(r) :
    phase[r][t] \in Step \cup {"pruning"} => cache[r].fetchedAt # Never

StepsInv == TypeOK /\ RunningRefreshIsHeld /\ CacheFilled /\ StepsMatchProgress

\* What StepsInv says of one replica.
StepsInvAt(r) ==
    /\ \A t \in Active(r) :
          phase[r][t] \in Step \cup {"pruning"} => cache[r].fetchedAt # Never
    /\ IF cache[r].fetchedAt = Never
       THEN Recorded(r) = {}
       ELSE /\ \A t \in Active(r) : Recorded(r) = StepsBefore(phase[r][t])
            /\ Active(r) = {} => Recorded(r) = Step

\* The active tasks after a step of the only active one.
LEMMA OnlyActive ==
    ASSUME TypeOK, RunningRefreshIsHeld, NEW r \in Replica, NEW t \in Active(r),
           NEW p \in Phase, Goto(r, t, p)
    PROVE  /\ Active(r)' = IF p \in Idle THEN {} ELSE {t}
           /\ phase'[r][t] = p
           /\ \A q \in Replica \ {r} : Active(q)' = Active(q) /\ phase'[q] = phase[q]
<1>1. Active(r) = {t}
  BY DEF RunningRefreshIsHeld, Active
<1>2. phase' = [phase EXCEPT ![r][t] = p]
  BY DEF Goto
<1>3. t \in Task /\ phase \in [Replica -> [Task -> Phase]]
  BY DEF Active, TypeOK
<1>4. /\ phase'[r][t] = p
      /\ \A u \in Task \ {t} : phase'[r][u] = phase[r][u]
      /\ \A q \in Replica \ {r} : phase'[q] = phase[q]
  BY <1>2, <1>3
<1> QED
  BY <1>1, <1>3, <1>4 DEF Active

\* Recording a step adds it to the recorded ones and touches nothing else.
LEMMA RecordAdds ==
    ASSUME TypeOK, NEW r \in Replica, NEW s \in Step, NEW outcome \in {"ok", "error"},
           RecordStep(r, s, outcome)
    PROVE  /\ Recorded(r)' = Recorded(r) \cup {s}
           /\ cache'[r].fetchedAt = cache[r].fetchedAt
           /\ \A q \in Replica \ {r} : cache'[q] = cache[q]
<1>1. cache' = [cache EXCEPT ![r].steps[s] = outcome]
  BY DEF RecordStep
<1>2. cache \in [Replica -> FeedCache] /\ cache[r].steps \in [Step -> StepOutcome]
  BY DEF TypeOK, FeedCache
<1>3. /\ cache'[r].steps = [cache[r].steps EXCEPT ![s] = outcome]
      /\ cache'[r].fetchedAt = cache[r].fetchedAt
      /\ \A q \in Replica \ {r} : cache'[q] = cache[q]
  BY <1>1, <1>2 DEF FeedCache
<1>4. Recorded(r)' = Recorded(r) \cup {s}
  BY <1>2, <1>3 DEF Recorded
<1> QED
  BY <1>3, <1>4

\* A replica whose tasks and CACHE do not change keeps its part of the invariant.
LEMMA OtherReplicaKeeps ==
    ASSUME NEW q \in Replica, StepsInvAt(q), phase'[q] = phase[q], cache'[q] = cache[q]
    PROVE  StepsInvAt(q)'
  BY DEF StepsInvAt, Active, Recorded

\* A pipeline step: records s, moves the refresh from p to the next phase.
LEMMA PipelineStepKeeps ==
    ASSUME StepsInv, NEW r \in Replica, NEW t \in Active(r), NEW s \in Step,
           NEW outcome \in {"ok", "error"}, NEW p \in Phase,
           phase[r][t] \in Step \cup {"pruning"},
           RecordStep(r, s, outcome), Goto(r, t, p),
           \/ p = "done" /\ Step = StepsBefore(phase[r][t]) \cup {s}
           \/ p \in Step /\ StepsBefore(p) = StepsBefore(phase[r][t]) \cup {s}
    PROVE  \A q \in Replica : StepsInvAt(q)'
<1>1. StepsInvAt(r) /\ \A q \in Replica : StepsInvAt(q)
  BY DEF StepsInv, CacheFilled, StepsMatchProgress, StepsInvAt
<1>2. /\ Active(r)' = IF p \in Idle THEN {} ELSE {t}
      /\ phase'[r][t] = p
      /\ \A q \in Replica \ {r} : phase'[q] = phase[q]
  BY OnlyActive DEF StepsInv
<1>3. /\ Recorded(r)' = Recorded(r) \cup {s}
      /\ cache'[r].fetchedAt = cache[r].fetchedAt
      /\ \A q \in Replica \ {r} : cache'[q] = cache[q]
  BY RecordAdds DEF StepsInv
<1>4. cache[r].fetchedAt # Never /\ Recorded(r) = StepsBefore(phase[r][t])
  BY <1>1 DEF StepsInvAt
<1>5. StepsInvAt(r)'
  BY <1>2, <1>3, <1>4 DEF StepsInvAt, Idle, Step
<1> QED
  BY <1>1, <1>2, <1>3, <1>5, OtherReplicaKeeps

\* schedule_refresh adds at most a task that is ready.
LEMMA ScheduleKeeps ==
    ASSUME StepsInv, NEW r \in Replica, ScheduleRefresh(r), cache' = cache
    PROVE  \A q \in Replica : StepsInvAt(q)'
<1>1. \A q \in Replica : StepsInvAt(q)
  BY DEF StepsInv, CacheFilled, StepsMatchProgress, StepsInvAt
<1>2. CASE RefreshInFlight(r)
  <2>1. phase' = phase /\ cache' = cache
    BY <1>2 DEF ScheduleRefresh
  <2> QED
    BY <1>1, <2>1, OtherReplicaKeeps
<1>3. CASE ~RefreshInFlight(r)
  <2>1. PICK t \in Task : phase' = [phase EXCEPT ![r][t] = "ready"]
    BY <1>3 DEF ScheduleRefresh
  <2>2. Active(r) = {}
    BY <1>3, PipelineAssumption
       DEF StepsInv, RunningRefreshIsHeld, RefreshInFlight, Active
  <2>3. phase \in [Replica -> [Task -> Phase]]
    BY DEF StepsInv, TypeOK
  <2>4. Active(r)' = {t} /\ phase'[r][t] = "ready"
    BY <2>1, <2>2, <2>3 DEF Active, Idle
  <2>5. StepsInvAt(r)'
    BY <1>1, <2>2, <2>4 DEF StepsInvAt, Recorded, StepsBefore, Step
  <2>6. \A q \in Replica \ {r} : phase'[q] = phase[q]
    BY <2>1, <2>3
  <2> QED
    BY <1>1, <2>5, <2>6, OtherReplicaKeeps
<1> QED
  BY <1>2, <1>3

\* Every step keeps the record of pipeline steps in line with the progress.
LEMMA StepsInductive == StepsInv /\ [Next]_vars => \A q \in Replica : StepsInvAt(q)'
<1> SUFFICES ASSUME StepsInv, [Next]_vars
             PROVE  \A q \in Replica : StepsInvAt(q)'
  OBVIOUS
<1>0. \A q \in Replica : StepsInvAt(q)
  BY DEF StepsInv, CacheFilled, StepsMatchProgress, StepsInvAt
<1>1. ASSUME NEW r \in Replica, GetFeed(r) PROVE \A q \in Replica : StepsInvAt(q)'
  <2>1. CASE Stale(r)
    BY <1>1, <2>1, ScheduleKeeps DEF GetFeed
  <2>2. CASE ~Stale(r)
    <3>1. phase' = phase /\ cache' = cache
      BY <1>1, <2>2 DEF GetFeed
    <3> QED
      BY <1>0, <3>1, OtherReplicaKeeps
  <2> QED
    BY <2>1, <2>2
<1>2. ASSUME NEW r \in Replica, OnRefreshDone(r) PROVE \A q \in Replica : StepsInvAt(q)'
  <2>1. PICK t \in Task : phase[r][t] = "done" /\ phase' = [phase EXCEPT ![r][t] = "free"]
    BY <1>2 DEF OnRefreshDone
  <2>2. cache' = cache /\ phase \in [Replica -> [Task -> Phase]]
    BY <1>2 DEF OnRefreshDone, StepsInv, TypeOK
  <2>3. Active(r)' = Active(r) /\ \A u \in Active(r) : phase'[r][u] = phase[r][u]
    BY <2>1, <2>2 DEF Active, Idle
  <2>4. StepsInvAt(r)'
    BY <1>0, <2>2, <2>3 DEF StepsInvAt, Recorded
  <2>5. \A q \in Replica \ {r} : phase'[q] = phase[q] /\ cache'[q] = cache[q]
    BY <2>1, <2>2
  <2> QED
    BY <1>0, <2>4, <2>5, OtherReplicaKeeps
<1>3. ASSUME NEW r \in Replica, NEW t \in Task, NEW p \in {"fetch", "done"},
             phase[r][t] \in {"ready", "fetch"}, Goto(r, t, p), cache' = cache
      PROVE  \A q \in Replica : StepsInvAt(q)'
  <2>1. t \in Active(r) /\ p \in Phase
    BY <1>3 DEF Active, Idle, Phase
  <2>2. /\ Active(r)' = IF p \in Idle THEN {} ELSE {t}
        /\ phase'[r][t] = p
        /\ \A q \in Replica \ {r} : phase'[q] = phase[q]
    BY <1>3, <2>1, OnlyActive DEF StepsInv
  <2>3. cache[r].fetchedAt # Never => Recorded(r) = Step
    BY <1>0, <1>3, <2>1 DEF StepsInvAt, StepsBefore
  <2>4. StepsInvAt(r)'
    BY <1>0, <1>3, <2>2, <2>3 DEF StepsInvAt, Recorded, StepsBefore, Idle, Step
  <2> QED
    BY <1>0, <1>3, <2>2, <2>4, OtherReplicaKeeps
<1>4. ASSUME NEW r \in Replica, Start(r) PROVE \A q \in Replica : StepsInvAt(q)'
  BY <1>3, <1>4 DEF Start
<1>5. ASSUME NEW r \in Replica, RefreshRaises(r) PROVE \A q \in Replica : StepsInvAt(q)'
  BY <1>3, <1>5 DEF RefreshRaises
<1>6. ASSUME NEW r \in Replica, FetchAndEnrich(r) PROVE \A q \in Replica : StepsInvAt(q)'
  <2>1. PICK t \in Task : phase[r][t] = "fetch" /\ Goto(r, t, "persist")
    BY <1>6 DEF FetchAndEnrich
  <2>2. cache' = [cache EXCEPT ![r] = [fetchedAt |-> now, steps |-> NoSteps]]
    BY <1>6 DEF FetchAndEnrich
  <2>3. t \in Active(r) /\ "persist" \in Phase /\ "persist" \notin Idle
    BY <2>1 DEF Active, Idle, Phase, Step
  <2>4. /\ Active(r)' = {t} /\ phase'[r][t] = "persist"
        /\ \A q \in Replica \ {r} : phase'[q] = phase[q]
    BY <2>1, <2>3, OnlyActive DEF StepsInv
  <2>5. /\ cache'[r].fetchedAt = now /\ cache'[r].steps = NoSteps
        /\ \A q \in Replica \ {r} : cache'[q] = cache[q]
    BY <2>2 DEF StepsInv, TypeOK
  <2>6. now # Never /\ Recorded(r)' = {}
    BY <2>5 DEF StepsInv, TypeOK, Never, Recorded, NoSteps
  <2>7. StepsInvAt(r)'
    BY <2>4, <2>5, <2>6 DEF StepsInvAt, StepsBefore
  <2> QED
    BY <1>0, <2>4, <2>5, <2>7, OtherReplicaKeeps
<1>7. ASSUME NEW r \in Replica, Persist(r) PROVE \A q \in Replica : StepsInvAt(q)'
  <2>1. PICK t \in Task, outcome \in {"ok", "error"} :
          phase[r][t] = "persist" /\ RecordStep(r, "persist", outcome) /\ Goto(r, t, "prune")
    BY <1>7 DEF Persist
  <2>2. t \in Active(r) /\ StepsBefore("prune") = StepsBefore("persist") \cup {"persist"}
    BY <2>1 DEF Active, Idle, StepsBefore
  <2> QED  BY <2>1, <2>2, PipelineStepKeeps DEF Phase, Step, Idle
<1>8. ASSUME NEW r \in Replica, SkipPrune(r) PROVE \A q \in Replica : StepsInvAt(q)'
  <2>1. PICK t \in Task :
          phase[r][t] = "prune" /\ RecordStep(r, "prune", "ok") /\ Goto(r, t, "index")
    BY <1>8 DEF SkipPrune
  <2>2. t \in Active(r) /\ StepsBefore("index") = StepsBefore("prune") \cup {"prune"}
    BY <2>1 DEF Active, Idle, StepsBefore
  <2> QED  BY <2>1, <2>2, PipelineStepKeeps DEF Phase, Step, Idle
<1>9. ASSUME NEW r \in Replica, BeginPrune(r) PROVE \A q \in Replica : StepsInvAt(q)'
  <2>1. PICK t \in Task : phase[r][t] = "prune" /\ Goto(r, t, "pruning")
    BY <1>9 DEF BeginPrune
  <2>2. t \in Active(r) /\ "pruning" \in Phase /\ "pruning" \notin Idle
    BY <2>1 DEF Active, Idle, Phase
  <2>3. /\ Active(r)' = {t} /\ phase'[r][t] = "pruning"
        /\ \A q \in Replica \ {r} : phase'[q] = phase[q]
    BY <2>1, <2>2, OnlyActive DEF StepsInv
  <2>4. cache' = cache
    BY <1>9 DEF BeginPrune
  <2>5. StepsInvAt(r)'
    BY <1>0, <2>1, <2>2, <2>3, <2>4 DEF StepsInvAt, Recorded, StepsBefore, Step
  <2> QED
    BY <1>0, <2>3, <2>4, <2>5, OtherReplicaKeeps
<1>10. ASSUME NEW r \in Replica, EndPrune(r) PROVE \A q \in Replica : StepsInvAt(q)'
  <2>1. PICK t \in Task, outcome \in {"ok", "error"} :
          phase[r][t] = "pruning" /\ RecordStep(r, "prune", outcome) /\ Goto(r, t, "index")
    BY <1>10 DEF EndPrune
  <2>2. t \in Active(r) /\ StepsBefore("index") = StepsBefore("pruning") \cup {"prune"}
    BY <2>1 DEF Active, Idle, StepsBefore
  <2> QED  BY <2>1, <2>2, PipelineStepKeeps DEF Phase, Step, Idle
<1>11. ASSUME NEW r \in Replica, Index(r) PROVE \A q \in Replica : StepsInvAt(q)'
  <2>1. PICK t \in Task, outcome \in {"ok", "error"} :
          phase[r][t] = "index" /\ RecordStep(r, "index", outcome) /\ Goto(r, t, "publish")
    BY <1>11 DEF Index
  <2>2. t \in Active(r) /\ StepsBefore("publish") = StepsBefore("index") \cup {"index"}
    BY <2>1 DEF Active, Idle, StepsBefore
  <2> QED  BY <2>1, <2>2, PipelineStepKeeps DEF Phase, Step, Idle
<1>12. ASSUME NEW r \in Replica, Publish(r) PROVE \A q \in Replica : StepsInvAt(q)'
  <2>1. PICK t \in Task :
          phase[r][t] = "publish" /\ RecordStep(r, "publish", "ok") /\ Goto(r, t, "alert")
    BY <1>12 DEF Publish
  <2>2. t \in Active(r) /\ StepsBefore("alert") = StepsBefore("publish") \cup {"publish"}
    BY <2>1 DEF Active, Idle, StepsBefore
  <2> QED  BY <2>1, <2>2, PipelineStepKeeps DEF Phase, Step, Idle
<1>13. ASSUME NEW r \in Replica, Alert(r) PROVE \A q \in Replica : StepsInvAt(q)'
  <2>1. PICK t \in Task, outcome \in {"ok", "error"} :
          phase[r][t] = "alert" /\ RecordStep(r, "alert", outcome) /\ Goto(r, t, "done")
    BY <1>13 DEF Alert
  <2>2. t \in Active(r) /\ Step = StepsBefore("alert") \cup {"alert"}
    BY <2>1 DEF Active, Idle, StepsBefore, Step
  <2> QED  BY <2>1, <2>2, PipelineStepKeeps DEF Phase, Step, Idle
<1>14. ASSUME NEW r \in Replica, Seed(r) \/ StartWithoutSeed(r)
       PROVE  \A q \in Replica : StepsInvAt(q)'
  BY <1>14, ScheduleKeeps DEF Seed, StartWithoutSeed
<1>15. ASSUME NEW r \in Replica, Crash(r) PROVE \A q \in Replica : StepsInvAt(q)'
  <2>1. /\ phase'[r] = [t \in Task |-> "free"] /\ cache'[r] = EmptyCache
        /\ \A q \in Replica \ {r} : phase'[q] = phase[q] /\ cache'[q] = cache[q]
    BY <1>15 DEF Crash, StepsInv, TypeOK
  <2>2. StepsInvAt(r)'
    BY <2>1 DEF StepsInvAt, Active, Idle, Recorded, EmptyCache, NoSteps
  <2> QED
    BY <1>0, <2>1, <2>2, OtherReplicaKeeps
<1>16. ASSUME phase' = phase, cache' = cache PROVE \A q \in Replica : StepsInvAt(q)'
  BY <1>0, <1>16, OtherReplicaKeeps
<1> QED
  BY <1>1, <1>2, <1>4, <1>5, <1>6, <1>7, <1>8, <1>9, <1>10, <1>11, <1>12, <1>13, <1>14,
     <1>15, <1>16
     DEF Next, RefreshStep, StartUp, CountRows, Tick, vars

\* /health never mixes the steps of two generations, and a finished refresh has
\* recorded all five.
THEOREM StepsMatchProgressHolds == Spec => []StepsMatchProgress
<1>1. Init => CacheFilled /\ StepsMatchProgress
  BY DEF Init, CacheFilled, StepsMatchProgress, Active, Idle, Recorded, EmptyCache, NoSteps
<1>2. TypeOK /\ RunningRefreshIsHeld /\ (CacheFilled /\ StepsMatchProgress) /\ [Next]_vars
        => (CacheFilled /\ StepsMatchProgress)'
  <2> SUFFICES ASSUME StepsInv, [Next]_vars PROVE (CacheFilled /\ StepsMatchProgress)'
    BY DEF StepsInv
  <2>1. \A q \in Replica : StepsInvAt(q)'
    BY StepsInductive
  <2> QED
    BY <2>1 DEF StepsInvAt, CacheFilled, StepsMatchProgress
<1> QED
  BY <1>1, <1>2, TypeCorrect, RunningRefreshHeld, PTL DEF Spec

-----------------------------------------------------------------------------
(* Retention.  A row of a persisted generation was stamped no earlier than *)
(* CACHE was filled, later upserts only move the stamp forward, and every  *)
(* delete in flight uses a cutoff that is at least the retention in the    *)
(* past, however long it is delayed.                                       *)

ClockBounds == \A r \in Replica : cache[r].fetchedAt <= now /\ cutoff[r] <= now

\* A delete is in flight only when retention is enabled.
PruneEnabled == \A r \in Replica : \A t \in Task :
    phase[r][t] = "pruning" => RetentionDays > 0

Kept(i, q) ==
    \/ i \in DOMAIN table /\ table[i].seen >= cache[q].fetchedAt
    \/ RetentionDays > 0 /\ now - cache[q].fetchedAt > RetentionDays

RetainedAt(q) ==
    cache[q].steps["persist"] = "ok" =>
        \A i \in batch[q].live \cup batch[q].samples : Kept(i, q)

RetentionInv == TypeOK /\ ClockBounds /\ PruneEnabled /\ \A q \in Replica : RetainedAt(q)

\* No stamp is ever ahead of the clock.
LEMMA ClockInductive == TypeOK /\ ClockBounds /\ [Next]_vars => ClockBounds'
<1> SUFFICES ASSUME TypeOK, ClockBounds, [Next]_vars PROVE ClockBounds'
  OBVIOUS
<1> USE DEF ClockBounds
<1>1. ASSUME UNCHANGED <<now, cache, cutoff>> PROVE ClockBounds'
  BY <1>1
<1>2. ASSUME NEW r \in Replica, FetchAndEnrich(r) PROVE ClockBounds'
  BY <1>2 DEF FetchAndEnrich, TypeOK
<1>3. ASSUME NEW r \in Replica, NEW s \in Step, NEW outcome \in {"ok", "error"},
             RecordStep(r, s, outcome), UNCHANGED <<now, cutoff>>
      PROVE  ClockBounds'
  BY <1>3, RecordAdds
<1>4. ASSUME NEW r \in Replica, BeginPrune(r) PROVE ClockBounds'
  BY <1>4 DEF BeginPrune, TypeOK
<1>5. ASSUME NEW r \in Replica, Crash(r) PROVE ClockBounds'
  BY <1>5 DEF Crash, TypeOK, EmptyCache, Never
<1>6. CASE Tick
  <2>1. now' = now + 1 /\ cache' = cache /\ cutoff' = cutoff
    BY <1>6 DEF Tick
  <2>2. now \in Nat /\ \A r \in Replica : cache[r].fetchedAt \in Int /\ cutoff[r] \in Nat
    BY DEF TypeOK, FeedCache, Never
  <2> QED
    BY <2>1, <2>2
<1>7. ASSUME NEW r \in Replica,
             Persist(r) \/ SkipPrune(r) \/ EndPrune(r) \/ Index(r) \/ Publish(r) \/ Alert(r)
      PROVE  ClockBounds'
  BY <1>3, <1>7 DEF Persist, SkipPrune, EndPrune, Index, Publish, Alert, Step
<1>8. ASSUME NEW r \in Replica,
             GetFeed(r) \/ OnRefreshDone(r) \/ Start(r) \/ RefreshRaises(r) \/ StartUp(r)
      PROVE  ClockBounds'
  BY <1>1, <1>8
     DEF GetFeed, OnRefreshDone, Start, RefreshRaises, StartUp, CountRows, Seed,
         StartWithoutSeed
<1>9. CASE UNCHANGED vars
  BY <1>1, <1>9 DEF vars
<1> QED
  BY <1>2, <1>4, <1>5, <1>6, <1>7, <1>8, <1>9 DEF Next, RefreshStep

\* A delete is under way only when retention is enabled.
LEMMA PruneEnabledInductive == TypeOK /\ PruneEnabled /\ [Next]_vars => PruneEnabled'
<1> SUFFICES ASSUME TypeOK, PruneEnabled, [Next]_vars PROVE PruneEnabled'
  OBVIOUS
<1> USE DEF PruneEnabled
<1>1. ASSUME NEW r \in Replica, NEW t \in Task, NEW p \in Phase \ {"pruning"}, Goto(r, t, p)
      PROVE  PruneEnabled'
  BY <1>1 DEF Goto, TypeOK
<1>2. ASSUME NEW r \in Replica, BeginPrune(r) PROVE PruneEnabled'
  BY <1>2 DEF BeginPrune, PruneDue, Goto, TypeOK
<1>3. ASSUME NEW r \in Replica,
             \/ Start(r) \/ FetchAndEnrich(r) \/ RefreshRaises(r) \/ Persist(r)
             \/ SkipPrune(r) \/ EndPrune(r) \/ Index(r) \/ Publish(r) \/ Alert(r)
      PROVE  PruneEnabled'
  BY <1>1, <1>3 DEF Start, FetchAndEnrich, RefreshRaises, Persist, SkipPrune, EndPrune,
                    Index, Publish, Alert, Phase, Step, Idle
<1>4. ASSUME NEW r \in Replica, OnRefreshDone(r) PROVE PruneEnabled'
  BY <1>1, <1>4 DEF OnRefreshDone, Goto, Phase, Idle
<1>5. ASSUME NEW r \in Replica, ScheduleRefresh(r) PROVE PruneEnabled'
  BY <1>1, <1>5 DEF ScheduleRefresh, Goto, Phase
<1>6. ASSUME NEW r \in Replica, GetFeed(r) \/ StartUp(r) PROVE PruneEnabled'
  BY <1>5, <1>6 DEF GetFeed, StartUp, CountRows, Seed, StartWithoutSeed
<1>7. ASSUME NEW r \in Replica, Crash(r) PROVE PruneEnabled'
  BY <1>7 DEF Crash, TypeOK
<1>8. CASE Tick \/ UNCHANGED vars
  BY <1>8 DEF Tick, vars
<1> QED
  BY <1>2, <1>3, <1>4, <1>6, <1>7, <1>8 DEF Next, RefreshStep

\* An upsert by any replica, or none, keeps what is retained for q.
LEMMA UpsertKeeps ==
    ASSUME TypeOK, ClockBounds, NEW q \in Replica, NEW i, Kept(i, q),
           NEW live \in SUBSET LiveItem, NEW samples \in SUBSET SampleItem,
           table' = table \/ table' = UpsertItems(table, live, samples, now),
           now' = now, cache'[q].fetchedAt = cache[q].fetchedAt
    PROVE  Kept(i, q)'
<1>1. now \in Nat /\ cache[q].fetchedAt \in Int /\ cache[q].fetchedAt <= now
  BY DEF TypeOK, ClockBounds, FeedCache, Never
<1>2. CASE table' = table
  BY <1>2 DEF Kept
<1>3. CASE table' = UpsertItems(table, live, samples, now)
  <2>1. ASSUME i \in DOMAIN table, table[i].seen >= cache[q].fetchedAt
        PROVE  i \in DOMAIN table' /\ table'[i].seen >= cache[q].fetchedAt
    BY <1>1, <1>3, <2>1 DEF UpsertItems
  <2> QED
    BY <2>1 DEF Kept
<1> QED
  BY <1>2, <1>3

\* A delete with the cutoff of any replica keeps it too.
LEMMA PruneKeeps ==
    ASSUME TypeOK, ClockBounds, NEW q \in Replica, NEW r \in Replica, NEW i, Kept(i, q),
           RetentionDays > 0,
           table' = table \/ table' = PruneItems(table, cutoff[r] - RetentionDays),
           now' = now, cache'[q].fetchedAt = cache[q].fetchedAt
    PROVE  Kept(i, q)'
<1>1. /\ now \in Nat /\ cutoff[r] \in Nat /\ cutoff[r] <= now
      /\ RetentionDays \in Nat
      /\ cache[q].fetchedAt \in Int
  BY PipelineAssumption DEF TypeOK, ClockBounds, FeedCache, Never
<1>2. CASE table' = table
  BY <1>2 DEF Kept
<1>3. CASE table' = PruneItems(table, cutoff[r] - RetentionDays)
  <2>1. CASE now - cache[q].fetchedAt > RetentionDays
    BY <2>1 DEF Kept
  <2>2. CASE i \in DOMAIN table /\ table[i].seen >= cache[q].fetchedAt
    <3>1. table[i].seen \in Nat
      BY <2>2 DEF TypeOK, IsTable, Row
    <3>2. CASE table[i].seen < cutoff[r] - RetentionDays
      BY <1>1, <2>2, <3>1, <3>2 DEF Kept
    <3>3. CASE ~(table[i].seen < cutoff[r] - RetentionDays)
      BY <1>3, <2>2, <3>3 DEF Kept, PruneItems, Expired
    <3> QED
      BY <3>2, <3>3
  <2> QED
    BY <2>1, <2>2 DEF Kept
<1> QED
  BY <1>2, <1>3

\* Every step keeps the persisted generation, or lets it grow old.
LEMMA RetentionInductive ==
    RetentionInv /\ [Next]_vars => \A q \in Replica : RetainedAt(q)'
<1> SUFFICES ASSUME RetentionInv, [Next]_vars, NEW q \in Replica
             PROVE  RetainedAt(q)'
  OBVIOUS
<1>0. TypeOK /\ ClockBounds /\ RetainedAt(q)
  BY DEF RetentionInv
\* Nothing that RetainedAt(q) speaks of changes but possibly the table.
<1>1. ASSUME UNCHANGED <<now, batch>>, cache'[q].fetchedAt = cache[q].fetchedAt,
             cache'[q].steps["persist"] = cache[q].steps["persist"],
             \A i : Kept(i, q) => Kept(i, q)'
      PROVE  RetainedAt(q)'
  BY <1>0, <1>1 DEF RetainedAt
<1>2. ASSUME UNCHANGED <<now, batch, table>>, cache'[q].fetchedAt = cache[q].fetchedAt,
             cache'[q].steps["persist"] = cache[q].steps["persist"]
      PROVE  RetainedAt(q)'
  BY <1>0, <1>2 DEF RetainedAt, Kept
<1>3. ASSUME NEW r \in Replica, NEW s \in Step \ {"persist"}, NEW outcome \in {"ok", "error"},
             RecordStep(r, s, outcome)
      PROVE  /\ cache'[q].fetchedAt = cache[q].fetchedAt
             /\ cache'[q].steps["persist"] = cache[q].steps["persist"]
  BY <1>0, <1>3 DEF RecordStep, TypeOK, FeedCache, Step
<1>4. ASSUME NEW r \in Replica, FetchAndEnrich(r) PROVE RetainedAt(q)'
  <2>1. CASE q = r
    BY <1>0, <1>4, <2>1 DEF FetchAndEnrich, RetainedAt, NoSteps, Step, TypeOK
  <2>2. CASE q # r
    <3>1. cache'[q] = cache[q] /\ batch'[q] = batch[q] /\ UNCHANGED <<now, table>>
      BY <1>0, <1>4, <2>2 DEF FetchAndEnrich, TypeOK
    <3> QED
      BY <1>0, <3>1 DEF RetainedAt, Kept
  <2> QED
    BY <2>1, <2>2
<1>5. ASSUME NEW r \in Replica, Persist(r) PROVE RetainedAt(q)'
  <2>1. PICK outcome \in {"ok", "error"} :
            /\ RecordStep(r, "persist", outcome)
            /\ table' = Committed(r) \/ (outcome = "error" /\ table' = table)
    BY <1>5 DEF Persist
  <2>2. now' = now /\ batch' = batch
    BY <1>5 DEF Persist
  <2>3. batch[r].live \in SUBSET LiveItem /\ batch[r].samples \in SUBSET SampleItem
    BY <1>0 DEF TypeOK
  <2>4. /\ cache'[q].fetchedAt = cache[q].fetchedAt
        /\ q # r => cache'[q].steps["persist"] = cache[q].steps["persist"]
        /\ cache'[r].steps["persist"] = outcome
    BY <1>0, <2>1 DEF RecordStep, TypeOK, FeedCache, Step
  <2>5. CASE q # r
    BY <1>0, <1>1, <2>1, <2>2, <2>3, <2>4, <2>5, UpsertKeeps DEF Committed
  <2>6. CASE q = r /\ outcome = "ok"
    <3>1. now \in Nat /\ cache[q].fetchedAt \in Int /\ cache[q].fetchedAt <= now
      BY <1>0 DEF TypeOK, ClockBounds, FeedCache, Never
    <3>2. \A i \in batch[q].live \cup batch[q].samples :
             i \in DOMAIN table' /\ table'[i].seen = now
      BY <2>1, <2>6 DEF Committed, UpsertItems
    <3> QED
      BY <2>2, <2>4, <3>1, <3>2 DEF RetainedAt, Kept
  <2>7. CASE q = r /\ outcome = "error"
    BY <2>4, <2>7 DEF RetainedAt
  <2> QED
    BY <2>5, <2>6, <2>7
<1>6. ASSUME NEW r \in Replica, EndPrune(r) PROVE RetainedAt(q)'
  <2>1. PICK outcome \in {"ok", "error"} : RecordStep(r, "prune", outcome)
    BY <1>6 DEF EndPrune
  <2>2. table' = table \/ table' = PruneItems(table, cutoff[r] - RetentionDays)
    BY <1>6 DEF EndPrune
  <2>3. now' = now /\ batch' = batch
    BY <1>6 DEF EndPrune
  <2>4. "prune" \in Step \ {"persist"}
    BY DEF Step
  <2>5. /\ cache'[q].fetchedAt = cache[q].fetchedAt
        /\ cache'[q].steps["persist"] = cache[q].steps["persist"]
    BY <1>3, <2>1, <2>4
  <2>6. RetentionDays > 0
    BY <1>6 DEF EndPrune, RetentionInv, PruneEnabled
  <2>7. ASSUME NEW i, Kept(i, q) PROVE Kept(i, q)'
    BY <1>0, <2>2, <2>3, <2>5, <2>6, <2>7, PruneKeeps
  <2> QED
    BY <1>1, <2>3, <2>5, <2>7
<1>7. ASSUME NEW r \in Replica, SkipPrune(r) \/ Index(r) \/ Publish(r) \/ Alert(r)
      PROVE  RetainedAt(q)'
  BY <1>2, <1>3, <1>7 DEF SkipPrune, Index, Publish, Alert, Step
<1>8. ASSUME NEW r \in Replica, Seed(r) PROVE RetainedAt(q)'
  BY <1>0, <1>1, <1>8, UpsertKeeps DEF Seed
<1>9. ASSUME NEW r \in Replica, Crash(r) PROVE RetainedAt(q)'
  <2>1. CASE q = r
    BY <1>0, <1>9, <2>1 DEF Crash, RetainedAt, EmptyCache, NoSteps, Step, TypeOK
  <2>2. CASE q # r
    <3>1. cache'[q] = cache[q] /\ batch'[q] = batch[q] /\ UNCHANGED <<now, table>>
      BY <1>0, <1>9, <2>2 DEF Crash, TypeOK
    <3> QED
      BY <1>0, <3>1 DEF RetainedAt, Kept
  <2> QED
    BY <2>1, <2>2
<1>10. CASE Tick
  <2>1. now \in Nat /\ cache[q].fetchedAt \in Int /\ RetentionDays \in Nat
    BY <1>0, PipelineAssumption DEF TypeOK, FeedCache, Never
  <2> QED
    BY <1>0, <1>10, <2>1 DEF Tick, RetainedAt, Kept
<1>11. ASSUME UNCHANGED <<now, batch, table, cache>> PROVE RetainedAt(q)'
  BY <1>2, <1>11
<1>12. ASSUME NEW r \in Replica,
              \/ GetFeed(r) \/ OnRefreshDone(r) \/ Start(r) \/ RefreshRaises(r)
              \/ BeginPrune(r) \/ CountRows(r) \/ StartWithoutSeed(r)
       PROVE  RetainedAt(q)'
  BY <1>11, <1>12
     DEF GetFeed, OnRefreshDone, Start, RefreshRaises, BeginPrune, CountRows, StartWithoutSeed
<1>13. CASE UNCHANGED vars
  BY <1>11, <1>13 DEF vars
<1> QED
  BY <1>4, <1>5, <1>6, <1>7, <1>8, <1>9, <1>10, <1>12, <1>13 DEF Next, RefreshStep, StartUp

\* A generation reported as persisted stays in the archive for the retention,
\* with any number of replicas upserting and pruning.
THEOREM RetentionHolds == Spec => []PersistedGenerationRetained
<1>1. Init => ClockBounds /\ PruneEnabled /\ \A q \in Replica : RetainedAt(q)
  BY DEF Init, ClockBounds, PruneEnabled, RetainedAt, EmptyCache, NoSteps, Never, Step
<1>2. TypeOK /\ (ClockBounds /\ PruneEnabled /\ \A q \in Replica : RetainedAt(q)) /\ [Next]_vars
        => (ClockBounds /\ PruneEnabled /\ \A q \in Replica : RetainedAt(q))'
  BY ClockInductive, PruneEnabledInductive, RetentionInductive DEF RetentionInv
<1>3. (\A q \in Replica : RetainedAt(q)) => PersistedGenerationRetained
  BY DEF RetainedAt, Kept, PersistedGenerationRetained
<1> QED
  BY <1>1, <1>2, <1>3, TypeCorrect, PTL DEF Spec

-----------------------------------------------------------------------------
(* A feed that always has something to show, when no replica starts        *)
(* degraded: the first rows ever written are the seed, which puts in every *)
(* sample no source publishes; such a row stays a sample row, and prune    *)
(* spares sample rows.                                                     *)

Seeded ==
    /\ DOMAIN table # {} => \A i \in SampleItem \ LiveItem : i \in DOMAIN table /\ table[i].sample
    /\ \A r \in Replica : boot[r] = "up" => DOMAIN table # {}
    /\ \A r \in Replica : boot[r] # "up" => \A t \in Task : phase[r][t] = "free"

\* Every step keeps a sample row that pruning cannot reach.
LEMMA SeededInductive ==
    ~DegradedStart /\ TypeOK /\ Seeded /\ [Next]_vars => Seeded'
<1> SUFFICES ASSUME ~DegradedStart, TypeOK, Seeded, [Next]_vars PROVE Seeded'
  OBVIOUS
\* A step of a task: the replica is up.
<1>1. ASSUME NEW r \in Replica, NEW t \in Task, phase[r][t] # "free",
             \E p \in Phase : Goto(r, t, p), boot' = boot,
             \/ table' = table \/ table' = Committed(r)
             \/ \E before \in Int : table' = PruneItems(table, before)
      PROVE  Seeded'
  <2>1. boot[r] = "up" /\ DOMAIN table # {}
    BY <1>1 DEF Seeded
  <2>2. /\ DOMAIN table' # {}
        /\ \A i \in SampleItem \ LiveItem : i \in DOMAIN table' /\ table'[i].sample
    <3>1. CASE table' = table
      BY <2>1, <3>1 DEF Seeded
    <3>2. CASE table' = Committed(r)
      BY <2>1, <3>2 DEF Seeded, Committed, UpsertItems, TypeOK
    <3>3. ASSUME NEW before \in Int, table' = PruneItems(table, before)
          PROVE  /\ DOMAIN table' # {}
                 /\ \A i \in SampleItem \ LiveItem : i \in DOMAIN table' /\ table'[i].sample
      BY <2>1, <3>3, ItemAssumption DEF Seeded, PruneItems, Expired
    <3> QED
      BY <1>1, <3>1, <3>2, <3>3
  <2>3. \A q \in Replica : boot'[q] # "up" => \A u \in Task : phase'[q][u] = "free"
    BY <1>1, <2>1 DEF Seeded, Goto, TypeOK
  <2> QED
    BY <2>2, <2>3 DEF Seeded
<1>2. ASSUME NEW r \in Replica,
             \/ Start(r) \/ FetchAndEnrich(r) \/ RefreshRaises(r) \/ Persist(r)
             \/ SkipPrune(r) \/ BeginPrune(r) \/ EndPrune(r) \/ Index(r) \/ Publish(r)
             \/ Alert(r) \/ OnRefreshDone(r)
      PROVE  Seeded'
  <2>1. boot' = boot
    BY <1>2 DEF Start, FetchAndEnrich, RefreshRaises, Persist, SkipPrune, BeginPrune,
                EndPrune, Index, Publish, Alert, OnRefreshDone
  <2>2. \/ table' = table \/ table' = Committed(r)
        \/ table' = PruneItems(table, cutoff[r] - RetentionDays)
    BY <1>2 DEF Start, FetchAndEnrich, RefreshRaises, Persist, SkipPrune, BeginPrune,
                EndPrune, Index, Publish, Alert, OnRefreshDone
  <2>3. cutoff[r] - RetentionDays \in Int
    BY PipelineAssumption DEF TypeOK
  <2>4. \E t \in Task : phase[r][t] # "free" /\ \E p \in Phase : Goto(r, t, p)
    BY <1>2 DEF Start, FetchAndEnrich, RefreshRaises, Persist, SkipPrune, BeginPrune,
                EndPrune, Index, Publish, Alert, OnRefreshDone, Goto, Phase, Step, Idle
  <2> QED
    BY <1>1, <2>1, <2>2, <2>3, <2>4
<1>3. ASSUME NEW r \in Replica, ScheduleRefresh(r)
      PROVE  \A q \in Replica \ {r} : phase'[q] = phase[q]
  BY <1>3 DEF ScheduleRefresh, TypeOK
<1>4. ASSUME NEW r \in Replica, GetFeed(r) PROVE Seeded'
  BY <1>3, <1>4 DEF GetFeed, Seeded
<1>5. ASSUME NEW r \in Replica, CountRows(r) PROVE Seeded'
  BY <1>5 DEF CountRows, Seeded, TypeOK
<1>6. ASSUME NEW r \in Replica, Seed(r) PROVE Seeded'
  <2>1. /\ DOMAIN table' # {}
        /\ \A i \in SampleItem \ LiveItem : i \in DOMAIN table' /\ table'[i].sample
    BY <1>6, ItemAssumption DEF Seed, UpsertItems
  <2>2. boot'[r] = "up" /\ \A q \in Replica \ {r} : boot'[q] = boot[q] /\ phase'[q] = phase[q]
    BY <1>3, <1>6 DEF Seed, TypeOK
  <2> QED
    BY <2>1, <2>2 DEF Seeded
<1>7. ASSUME NEW r \in Replica, StartWithoutSeed(r) PROVE Seeded'
  <2>1. table' = table /\ DOMAIN table # {}
    BY <1>7 DEF StartWithoutSeed
  <2>2. boot'[r] = "up" /\ \A q \in Replica \ {r} : boot'[q] = boot[q] /\ phase'[q] = phase[q]
    BY <1>3, <1>7 DEF StartWithoutSeed, TypeOK
  <2> QED
    BY <2>1, <2>2 DEF Seeded
<1>8. ASSUME NEW r \in Replica, Crash(r) PROVE Seeded'
  BY <1>8 DEF Crash, Seeded, TypeOK
<1>9. CASE Tick \/ UNCHANGED vars
  BY <1>9 DEF Tick, vars, Seeded
<1> QED
  BY <1>2, <1>4, <1>5, <1>6, <1>7, <1>8, <1>9 DEF Next, RefreshStep, StartUp

\* If no replica starts while the database is unreachable, a reader of a replica
\* that is up always finds a row.
THEOREM FeedRenderableHolds == ~DegradedStart => (Spec => []FeedRenderable)
<1> SUFFICES ASSUME ~DegradedStart PROVE Spec => []FeedRenderable
  OBVIOUS
<1>1. Init => Seeded
  BY DEF Init, Seeded, NoRows
<1>2. TypeOK /\ Seeded /\ [Next]_vars => Seeded'
  BY SeededInductive
<1>3. TypeOK /\ Seeded => FeedRenderable
  BY ItemAssumption DEF Seeded, FeedRenderable, Visible, LiveRows, TypeOK
<1> QED
  BY <1>1, <1>2, <1>3, TypeCorrect, PTL DEF Spec

-----------------------------------------------------------------------------
(* The throttle of the retention prune.                                    *)
(*                                                                         *)
(* _prune tests the throttle before the delete it awaits and sets it after *)
(* it, to the time read before.  What was tested stays true in between,    *)
(* because no other refresh of the process runs: RunningRefreshIsHeld.     *)

\* The delete under way was due by the throttle as it still stands.
PruneStillDue == \A r \in Replica : \A t \in Task :
    phase[r][t] = "pruning" =>
        lastPruneAt[r] = Never \/ cutoff[r] - lastPruneAt[r] >= PruneInterval

\* Every step keeps it.
LEMMA PruneStillDueInductive ==
    TypeOK /\ RunningRefreshIsHeld /\ PruneStillDue /\ [Next]_vars => PruneStillDue'
<1> SUFFICES ASSUME TypeOK, RunningRefreshIsHeld, PruneStillDue, [Next]_vars
             PROVE  PruneStillDue'
  OBVIOUS
<1>1. ASSUME NEW r \in Replica, NEW t \in Task, NEW p \in Phase \ {"pruning"}, Goto(r, t, p),
             UNCHANGED <<lastPruneAt, cutoff>>
      PROVE  PruneStillDue'
  BY <1>1 DEF Goto, TypeOK, PruneStillDue
<1>2. ASSUME NEW r \in Replica, NEW t \in Task, NEW u \in Task,
             phase[r][t] = "pruning", phase[r][u] \in {"prune", "pruning"}
      PROVE  t = u
  BY <1>2 DEF RunningRefreshIsHeld, Active, Idle
<1>3. ASSUME NEW r \in Replica, BeginPrune(r) PROVE PruneStillDue'
  <2>1. PICK t \in Task : /\ phase[r][t] = "prune" /\ PruneDue(r)
                          /\ cutoff' = [cutoff EXCEPT ![r] = now] /\ lastPruneAt' = lastPruneAt
                          /\ phase' = [phase EXCEPT ![r][t] = "pruning"]
    BY <1>3 DEF BeginPrune, Goto
  <2>2. ASSUME NEW q \in Replica, q # r, NEW u \in Task
        PROVE  phase'[q][u] = phase[q][u] /\ cutoff'[q] = cutoff[q]
    BY <2>1, <2>2 DEF TypeOK
  <2>3. cutoff'[r] = now
    BY <2>1 DEF TypeOK
  <2>4. lastPruneAt[r] = Never \/ now - lastPruneAt[r] >= PruneInterval
    BY <2>1 DEF PruneDue
  <2> QED
    BY <2>1, <2>2, <2>3, <2>4 DEF PruneStillDue
<1>4. ASSUME NEW r \in Replica, EndPrune(r) PROVE PruneStillDue'
  <2>1. PICK t \in Task : /\ phase[r][t] = "pruning" /\ cutoff' = cutoff
                          /\ phase' = [phase EXCEPT ![r][t] = "index"]
                          /\ \/ lastPruneAt' = [lastPruneAt EXCEPT ![r] = cutoff[r]]
                             \/ lastPruneAt' = lastPruneAt
    BY <1>4 DEF EndPrune, Goto
  <2>2. ASSUME NEW q \in Replica, q # r, NEW u \in Task
        PROVE  phase'[q][u] = phase[q][u] /\ lastPruneAt'[q] = lastPruneAt[q]
    BY <2>1, <2>2 DEF TypeOK
  <2>3. \A u \in Task : phase'[r][u] # "pruning"
    BY <1>2, <2>1 DEF TypeOK
  <2> QED
    BY <2>1, <2>2, <2>3 DEF PruneStillDue
<1>5. ASSUME NEW r \in Replica,
             \/ Start(r) \/ FetchAndEnrich(r) \/ RefreshRaises(r) \/ Persist(r)
             \/ SkipPrune(r) \/ Index(r) \/ Publish(r) \/ Alert(r)
      PROVE  PruneStillDue'
  BY <1>1, <1>5 DEF Start, FetchAndEnrich, RefreshRaises, Persist, SkipPrune, Index, Publish,
                    Alert, Phase, Step, Idle
<1>6. ASSUME NEW r \in Replica, OnRefreshDone(r) PROVE PruneStillDue'
  BY <1>1, <1>6 DEF OnRefreshDone, Goto, Phase, Idle
<1>7. ASSUME NEW r \in Replica, ScheduleRefresh(r), UNCHANGED <<lastPruneAt, cutoff>>
      PROVE  PruneStillDue'
  <2>1. CASE RefreshInFlight(r)
    BY <1>7, <2>1 DEF ScheduleRefresh, PruneStillDue
  <2>2. CASE ~RefreshInFlight(r)
    BY <1>1, <1>7, <2>2 DEF ScheduleRefresh, Goto, Phase
  <2> QED
    BY <2>1, <2>2
<1>8. ASSUME NEW r \in Replica, GetFeed(r) \/ StartUp(r) PROVE PruneStillDue'
  BY <1>7, <1>8 DEF GetFeed, StartUp, CountRows, Seed, StartWithoutSeed, PruneStillDue
<1>9. ASSUME NEW r \in Replica, Crash(r) PROVE PruneStillDue'
  BY <1>9 DEF Crash, TypeOK, PruneStillDue
<1>10. CASE Tick \/ UNCHANGED vars
  BY <1>10 DEF Tick, vars, PruneStillDue
<1> QED
  BY <1>3, <1>4, <1>5, <1>6, <1>8, <1>9, <1>10 DEF Next, RefreshStep

\* Whoever moves the throttle does so by PruneInterval.
LEMMA ThrottleStep ==
    TypeOK /\ PruneStillDue /\ [Next]_vars =>
        \A r \in Replica :
            (lastPruneAt[r] # Never /\ lastPruneAt'[r] \notin {Never, lastPruneAt[r]})
                => lastPruneAt'[r] - lastPruneAt[r] >= PruneInterval
<1> SUFFICES ASSUME TypeOK, PruneStillDue, [Next]_vars, NEW q \in Replica,
                    lastPruneAt[q] # Never, lastPruneAt'[q] \notin {Never, lastPruneAt[q]}
             PROVE  lastPruneAt'[q] - lastPruneAt[q] >= PruneInterval
  OBVIOUS
<1>1. ASSUME NEW r \in Replica, EndPrune(r)
      PROVE  lastPruneAt'[q] - lastPruneAt[q] >= PruneInterval
  <2>1. PICK t \in Task : /\ phase[r][t] = "pruning"
                          /\ \/ lastPruneAt' = [lastPruneAt EXCEPT ![r] = cutoff[r]]
                             \/ lastPruneAt' = lastPruneAt
    BY <1>1 DEF EndPrune
  <2>2. q = r /\ lastPruneAt'[q] = cutoff[r]
    BY <2>1 DEF TypeOK
  <2> QED
    BY <2>1, <2>2 DEF PruneStillDue
<1>2. ASSUME NEW r \in Replica, Crash(r) PROVE FALSE
  BY <1>2 DEF Crash, TypeOK
<1>3. ASSUME UNCHANGED lastPruneAt PROVE FALSE
  BY <1>3
<1> QED
  BY <1>1, <1>2, <1>3
     DEF Next, RefreshStep, StartUp, vars, GetFeed, Start, FetchAndEnrich, RefreshRaises,
         Persist, SkipPrune, BeginPrune, Index, Publish, Alert, OnRefreshDone, CountRows,
         Seed, StartWithoutSeed, Tick

\* One process never starts two successful deletes less than _PRUNE_INTERVAL
\* apart, although _last_prune_at is read before the awaited delete and written
\* after it.
THEOREM PruneThrottledHolds == Spec => PruneThrottled
<1>1. Init => PruneStillDue
  BY DEF Init, PruneStillDue
<1> QED
  BY <1>1, TypeCorrect, RunningRefreshHeld, PruneStillDueInductive, ThrottleStep, PTL
     DEF Spec, PruneThrottled
=============================================================================
