# Verification of the Security Intelligence Live Feed

TLA+ models of the backend in `app/` and of the page in `frontend/app.js`, the
TLC configurations that check them on small instances, and TLAPS proofs of the
safety properties that matter most. Paths below are relative to the repository.

## 1. The system

One or more API processes (*replicas*) share a PostgreSQL archive (a single
process may use SQLite). Each replica runs one asyncio event loop with a thread
pool. A request for the feed is always answered from the archive; when the
in-process cache record is stale it also starts a background *refresh*:

    fetch -> enrich -> persist -> prune -> index -> publish -> alert

| Component | State | Operations | Interacts with |
|---|---|---|---|
| refresh pipeline (`pipeline.py`) | `CACHE`, `CACHE_LOCK`, `_REFRESH_TASK`, `_last_prune_at` | `schedule_refresh`, `_on_refresh_done`, `refresh_feed`, `get_feed` | everything below |
| archive (`store.py`, `postgres_store.py`, `sqlite_store.py`) | `feed_items`, `alerted_items`, `source_state` | upsert, prune, seed, queries, marks, source state | shared by all replicas |
| start-up (`main.py: lifespan`) | none of its own | init, seed, first sync, first refresh; degraded start | archive, search, pipeline |
| source fetching (`fetcher.py`) | `source_state` row per source, `_nvd_next_start` | `fetch_all`, `_fetch_source`, conditional requests, retry, `_nvd_stagger_slot`, `_dedupe` | sources over HTTP, archive |
| enrichment (`enrich.py`, `osv.py`) | KEV and OSV caches | `enrich_items`, `fetch_recent_kev` | HTTP |
| urgent alerts (`alerts.py`) | marks in `alerted_items` | `send_urgent_alerts` | Slack, Discord, SMTP, archive |
| live updates (`events.py`, `/api/events`) | set of subscriber queues | subscribe, publish, stream, unsubscribe | pipeline, browsers |
| page (`frontend/app.js`) | items shown, selection, loads under way, EventSource | `loadFeed`, `connectEvents`, poll | API |
| search index (`search.py`) | OpenSearch index, `_last_sync_at` | `ensure_index`, `index_items`, `sync_archive` | archive, pipeline |
| rate limiter (`ratelimit.py`) | hits per client | `check`, `_prune` | request threads |
| migrations (`migrate.py`) | `feed_schema_migrations`, advisory lock, role `feed_app` | `upgrade`, `bootstrap-role`; `init_db` verifies | PostgreSQL, start-up |
| HTTP API (`main.py`), connection pool (`postgres_store.py`) | `_STATS_CACHE`, `_POOL`, the executor's threads | feed, stats, ready, close | archive |
| configuration, roster, HTTP policy | none | static | all |

What makes it hard:

- **interleaving**: done callbacks of asyncio run after the next refresh may have
  been scheduled; replicas upsert, prune, seed, alert and index the same rows;
  threads read the clock before they take a lock; loads of a page overlap;
- **failure**: every step of a refresh is best effort; any database, search,
  channel or source call may fail; the process may die between any two; the
  database may be unreachable at start-up;
- **several versions at once**: during a roll-out jobs and replicas of different
  images meet one schema;
- **retention, caches and throttles**: deletes compare stamps taken earlier; marks,
  validators and payloads must not outlive or overtake what they describe;
- **bounds**: alerts per run, subscribers, queue sizes, requests per window, threads,
  pooled connections, OSV requests per refresh.

For each component, what makes it correct:

- pipeline: one refresh at a time, never forgotten; `/health` tells the truth
  about the generation in `CACHE`; a stale cache is refreshed; nothing persisted
  is lost before its retention; the feed is never empty;
- alerts: nothing counts as alerted that was not delivered; repeats have a
  cause; every urgent item is alerted in the end;
- fetching: a payload reused on a 304 is current; a source is asked no more
  often than its interval; every update is picked up; failures are reported;
- live updates and page: no published update is missed while connected; every
  page ends up current; what is shown belongs to what is selected; the cap counts
  live subscribers;
- search: persisted rows become searchable, samples disappear, nothing else is found;
- rate limiter: no more than the limit per window, no refusal below it;
- migrations: the ledger tells the truth about the schema, whole files in order, once;
  whoever found the schema current has all of it; upgrades get through;
- NVD pacing: requests start apart, nobody waits without bound;
- merging and enrichment: no evidence is lost, urgency has a reason, what is cached as
  unknown does not stay so, caps do not hit what is urgent;
- store calls: statistics are fresh, one pool, every call ends.

## 2. Modules

| Module | Models | Composes |
|---|---|---|
| `Archive` | table values and the operations on them (upsert, prune, visibility), pure operators | — |
| `RefreshPipeline` | `pipeline.py`, `lifespan` | extends `Archive` |
| `AlertDelivery` | `alerts.py`, `unalerted_urgent_items`, `mark_alerted`, pruning of marks | extends `Archive` |
| `SourceFetch` | `_fetch_source`, `_fetch_source_once`, `_fetch_rss`, `_fetch_ghsa`, `source_state`, for one source | — |
| `LiveUpdates` | `events.py`, `/api/events`, `frontend/app.js` | — |
| `SearchIndex` | `search.py` | extends `Archive` |
| `RateLimiter` | `ratelimit.py` | — |
| `SchemaHistory` | what ADR-0007 promises of the schema, without jobs, locks and sessions | — |
| `Migrations` | `migrate.py`, `init_db`, `_init_store` | implements `SchemaHistory` |
| `NvdPacing` | `_nvd_stagger_slot`, `_fetch_nvd` and its retries | — |
| `Enrichment` | `_dedupe`, the collecting part of `fetch_all`, `enrich.py`, `osv.py` | — |
| `StoreAccess` | endpoints and refresh as callers of the store, `_ensure_pool`, `_connection`, `close`, `_STATS_CACHE`, `/ready`, the calls a fetch makes in the event loop | — |
| `MC*` | instances for TLC: small sets, symmetry of replicas, tasks and threads where only safety is checked | one each |
| `FetcherProofs` | theorems about `SourceFetch` and `NvdPacing` | extends both |
| `HttpProofs` | theorems about `LiveUpdates` and `RateLimiter` | extends both |
| other `*Proofs` | theorems about the module of that name | one each |

`NvdPacing` and `RateLimiter` name their parts after themselves (`PacingSpec`,
`LimiterInit`, ...), since a proof module extends them together with another one.

A module's constants are the configuration (`RETENTION_DAYS`, intervals, caps),
the sets of actors and items, and bounds, which are named `Max...` (and `Slot`).
Definitions whose names end like variants of another definition and stand right
before it (`OnRefreshDoneUnguarded`, `ReserveFromNow`, ...) are plausible
bugs: they are used only to show that a property notices them.

### How the models correspond to the code

**`Archive`.** A table is a function from the ids that have a row to the two
columns that decide visibility and retention, `is_sample` and `last_seen`. An id
is a hash of a URL and samples carry URLs of real advisories, so `LiveItem` and
`SampleItem` may overlap.

**`RefreshPipeline`.** A step is what a replica does between two awaits, or one
database transaction. `phase[r][t]` is the position of task `t`; `handle` is
`_REFRESH_TASK`; "done" is a finished task whose callback is still queued, which
is when `schedule_refresh` may already start the next one. `_prune` is three
steps because its cutoff is computed before the delete runs in a thread.
`seed_if_empty` is two steps, since it counts and inserts in two transactions.
`Fallback` covers the sample fallback of `fetch_all`. Inside a step of the refresh
only its outcome and its effect on the table matter here; the other modules look
inside. The stamp that `upsert_items` takes before it waits for the pool
(`postgres_store.py:274`) is modelled as the instant of the commit: the gap is of seconds,
the retention of days.

**`AlertDelivery`.** `Query` reads the newest `MaxAlertsPerRun` unalerted urgent
items; `Send`, `SendFails`, `ItemDone`, `LoopDone` and `MarkAlerted` are the loop;
`sends` is a history of deliveries per channel and `departed` counts how often a row
was pruned. `Prune` is the moment at which the two deletes of `prune_items` have
looked at rows and marks, `PruneCommit` the end of their transaction: with several replicas a
row committed in between loses its mark. `UrgentSample` are the samples that
`_sample_items` makes urgent.
`Rejected` are items a channel always refuses. `Channels` counts the configured
channels; with 0 items are only logged and marked.

**`SourceFetch`.** The source serves versions 1, 2, ...; a version stands for its
ETag and its body. `state` is the shared row: time of the last attempt, validator,
payload. `FetchSourceOnce` reads it for the cadence and `Request` reads it again for the
validator and the payload (another replica may write in between, and each read may
fail); `Answer` is the source, `NotModified`, `RefetchBody`, `Ok`, `MalformedGhsa`, `HttpError` and
`TransportError` are the outcomes, each with its write of the row, which may be
lost. Time is kept as `quiet[r]`, the time since the last attempt replica `r` recorded,
up to the interval, so no bound on the clock is needed.

**`LiveUpdates`.** A queue is named by the request that made it. `Abandon` is the
path on which the client is gone before the response starts: `StreamingResponse`
then cancels the task before the generator is started, and a generator that was
never started runs no `finally`. `wire` is what the connection holds; when it is
full the stream waits and the queue fills. A load carries the selection it was
sent with and, once the server has read the archive, the version it read; where OpenSearch
is configured `/api/search` reads its index instead (`search.py:205`), whose lag behind the
archive is the subject of `SearchIndex`. An
`EventSource` reconnects after a broken connection and gives up after an error
status, as the HTML standard defines. `due` and `asked` are history variables.

**`SearchIndex`.** Times are reduced to what is compared with them (see the module's
head). `SyncLimit` is the limit of `sync_archive` (10000), and `IsNewest` says which of the
visible rows `query_feed` then returns, by a publication time that an item keeps. `Bulk` may write a part of its documents and
succeed: only the status of the whole answer is looked at (`search.py:128`). Replicas
share an archive only in PostgreSQL, where `query_feed` is one statement. `ensure_index` is
left out: which mapping the index has decides nothing here. `Boot` combines the
seeding; its two transactions are in `RefreshPipeline`.

**`RateLimiter`.** `log[k]` is the history of grants to a client and the deque is
that log without its first `gone[k]` entries. `Call` reads the clock, `Check` is the
part under the lock. `MaxLag` bounds the time between the two; without such a bound
no limit per window could hold.

**`Migrations`.** A job is a run of `python -m app.migrate upgrade`; every step is a
transaction or a statement outside one. `Image` gives each job and each replica the
newest file its image contains, so that old and new images meet. `effects[v]` counts
how often the statements of file `v` took effect, separately from the ledger, which is
what makes "the ledger tells the truth" a statement. `Die` covers a job that dies with
its COMMIT under way: it may have taken effect. Its session lives on as `DeadSession`
until the database reaps it. `init_db` is three steps, because each statement sees its
own snapshot. A replica that connects as `feed_app` cannot connect before file 1 made
the role and `bootstrap-role` gave it a password.

**`NvdPacing`.** A task reserves a slot and sleeps in one step (nothing is awaited under
the lock), and sends in another when its sleep is over, up to `MaxLag` later. All times
are relative to the present. `ConnectFails` is the case in which the record of the
failed attempt is lost, the only one in which the retry really fetches again (finding
`fetch_retry`); the others are `Finish`.

**`Enrichment`.** `Fetch` is `fetch_all` from the results of the sources on: those in
`answering` delivered, the others failed or were not due. `RefreshCatalog` is `_fetch_kev`,
called by the catalog's source and by `enrich_items`. `Epss` covers every outcome of the
batches by the set of CVEs that received a score. OSV requests are answered in any
order. The loops of the code are recursive functions over the prefixes of a list: `Delivered`
collects, `Merged` is the loop of `_dedupe` and `TakeUp` its body, `CveList` is the loop of
`enrich_with_osv`, `Extend` is "append what is not there yet" (`dict.fromkeys`); `Sorted` puts
an element where as many others come before it, and the two keys are `NewestFirst` and
`MostUrgentFirst`, with ties in the order of the list because Python's sort is stable. That
what a source publishes is urgent only if it is severe and about an exploit is the
assumption on `Publishes` (every fetcher computes it so, `fetcher.py:396`, `542`, `617`, `717`);
an entry of the catalog is urgent as such (`enrich.py:188`).
`raw` remembers what the sources delivered. Left out: `max_items` of the catalog's
source and the text fields of an OSV record.

**`StoreAccess`.** A job is one store call. Those of the endpoints and of most steps of the
refresh wait for a thread, on PostgreSQL for the pool and a connection, run their
statement, give the connection back and then wait for the event loop to take the outcome
(`Return`). Those of a fetch (`FetchState`: `_load_state` and `_save_state`) run in the
event loop itself, which until then takes no outcome and starts no call (`LoopIsFree`).
`/ready` may give up, which leaves an `orphan` in its thread. The refresh (`Background`)
is not waited for at shutdown. `QueryTime` bounds the time for which a call holds its
connection; the snapshot of the statistics is no older than that when the call ends.

## 3. What is checked

All runs check for deadlock. State counts are of distinct states.

| Run | Instance | Shows |
|---|---|---|
| `pipeline_replica` | 1 replica, 2 tasks, clock 0..4, 2 faults, degraded starts | `SingleFlight`, `RunningRefreshIsHeld`, `StepsMatchProgress`, `PruneThrottled`, `StaleIsRefreshed` |
| `pipeline_replicas` | 2 replicas, a sample that is also live, clock 0..2, 1 fault | `PersistedGenerationRetained`, `FeedRenderable` |
| `alert_replica` | 1 replica, 2 channels, 3 live items of which the two newer are refused for good, runs of 2, clock 0..2, 1 fault (530 k) | `MarkedMeansDelivered`, `RepeatsHaveACause`, `UrgentIsAlerted` |
| `fetch_replica` | 1 replica, ghsa, 3 versions, 2 errors, 2 faults, reads may fail (22 k) | `ReuseIsCurrent`, `ValidatorNotAhead`, `CadenceKept`, `UpdateIsPickedUp` |
| `nvd_slots` | 3 sources as in the roster, stagger 2, lag 1, 2 retries (490 k) | `StartsSpaced`, `WaitBounded`, `SlotIsUsed` |
| `enrich_refresh` | 4 sources, 2 CVEs, an item two sources deliver, OSV cap 1, lifetimes 1 (2.8 M) | `MergeKeepsEvidence`, `UrgentJustified`, `UnknownExpires`, `CapKeepsUrgent` |
| `migrate_runners` | 2 jobs and 2 replicas, each with an old and a new image, 3 files, 2 attempts, 2 faults (740 k) | `LedgerIsSchema`, `PendingIsCurrent`, `CurrentIsComplete`, `HistorySpec` (refinement, from which `LedgerHasNoHoles` follows), `UpgradeCompletes` |
| `store_calls` | both backends, 2 requests and a refresh, 2 threads, 1 connection, all times 1 (130 k) | `StatsFresh`, `OnePool`, `CallsEnd` |
| `live_page` | 1 browser, 2 requests, cap 1, queue and wire of 1, 2 loads at once, 2 selections, 2 updates, 1 fault (270 k) | `StreamsCapped`, `UpdatesAskedFor`, `PageIsCurrent` |
| `search_replicas` | 2 replicas, a live item, a sample and a newer sample that is also live, a reconcile of 1 row, 1 fault (520 k) | `LiveRowsSearchable`, `SamplesPurged` |
| `rate_threads` | 2 clients, 2 threads, limit 2, window 3, prune threshold 1, lag 1 (400 k) | `RateBounded`, `RefusalsJustified` |

`TypeOK` is proved for each component; `enrich_refresh` also checks it, because there it
states the cap on OSV requests. Every property of a passing run is shown to fail for a mutated definition (`mutants` in `PROJECT.json`).

**Why the bounds are enough.** The races need two replicas (or two tasks, two
threads, two loads) and a third actor mostly adds repetition (the exception, three replicas
fetching one source, is in section 4); where two faults are allowed, one can hit the recovery from the other; clocks run past the retention, the throttle
and the window at least once and reach their edges; queues, wires, caps and runs of
size one or two are full and overfull. Where a proof exists the bound does not matter. Alerts of
several replicas are not run but proved: `NoAlertIsLost` holds for any number of them, as
are two replicas fetching one source (`ReuseIsCurrentHolds`). In `alert_replica` two refused
items can fill a run of two, and one leaves room in it; in `search_replicas` a second live row
is beyond the limit of the reconcile. In `enrich_refresh` one
item is unknown to be severe until OSV says so, one is severe but not exploited until KEV
or EPSS say so, and one is delivered by NVD and by the catalog, so that each rule of
urgency decides somewhere. In `store_calls` three calls compete for two threads and one
connection, so that each resource is exhausted.

**Fairness.** The event loop runs what is ready, supervisors restart a dead process
(`StartUp`, `Boot`), and the page polls every five minutes (`setInterval`,
`app.js:214`), so `get_feed` keeps being called and refreshes recur; each refresh
ends in an alert run and an index step. An HTTP request ends, because every client
has a timeout (`http_client.py`), so `Answer`, loads and calls are weakly fair. In
`SourceFetch` the passing of time is strongly fair: a fetch is short compared with an
interval. In `Migrations` a failed job is run again (the Job's `backoffLimit`, or an
operator), replicas are restarted, a stopped database comes back, drops dead sessions
(`ReapSession`: keep-alive of TCP), and the operator runs `bootstrap-role`. In `NvdPacing`
ready tasks run, requests end and refreshes recur. In `StoreAccess` the steps of a call are
strongly fair (`JobStep`), because the executor's queue and the callbacks of the event loop
are first in, first out; the clock is fair. Of the database it is assumed that a
statement ends while it is up (`_configure_connection` sets the server's `statement_timeout`)
and that a call on a lost connection fails, which is left to TCP, since the client sets no
timeout of its own; that the pool ever has a connection is not assumed, so a waiting call
rests on the pool's timeout. No fairness is assumed of failures, new versions, user actions or
retention.

**Notes on single properties.** `ValidatorNotAhead` is not true of two replicas whose
reads of `source_state` fail: a fetch that read the payload but not the validator (or
the reverse) writes back a mixture. Nor is it true of three replicas (section 4). The run
has one replica with failing reads; the theorem covers that case and two replicas with
working reads. `CadenceKept` speaks of recorded attempts (a ghsa answer that is not a
list leaves none) and of first attempts: a retry after a failed connection is meant to ask again.
`UrgentIsAlerted` excepts an item as long as `MAX_ALERTS_PER_RUN` newer ones are refused for
good; without the exception TLC refutes it. `LiveRowsSearchable` speaks of rows that a reconcile
reads; TLC refutes it for the others.
`StartsSpaced` has a slack of `MaxLag`: a request that starts late does not move the slot
of the next. `OnePool` ends with `close`: see below.
`RateBounded` has a slack of twice `MaxLag`; TLC refutes it with a slack of `MaxLag`.

## 4. Findings

`fetch_retry` is a run that expects a violation; `PROJECT.json` quotes the line it
contradicts. The failed attempt is recorded before the retry, so the retry finds the
source not due: it is not asked again and the failure is not reported.

The following came up while modelling. The models contain the behaviour unless an entry
says otherwise, and no run is about it.

Alerts, page and search:

- Items a channel refuses for good stay the newest unalerted ones; once they fill
  `MAX_ALERTS_PER_RUN`, older urgent items are never tried (`alerts.py:108`).
- With several replicas a row may be committed between the look of `prune_items` at the rows
  and its commit (READ COMMITTED, `postgres_store.py:248`): its mark is deleted although the row
  is there, and the item is alerted once more.
- The answer for a former selection that arrives late is shown under the new one
  (`app.js:153`), although the comment at `app.js:89` says the two views can never disagree.
- Documents of pruned rows stay in the index and in search results (`search.py:166`),
  while `README.md:359` says that search matches the SQL behaviour exactly.
- The reconcile reads the newest 10000 rows (`search.py:166`), although the docstring at
  `search.py:13` speaks of the full archive: an older row that its refresh failed to index is
  never searchable. A document that OpenSearch refuses in an answer with status 200 counts as
  indexed (`search.py:128`), and the throttle with it; one that is refused for good stays out.

Start-up, migrations and store:

- A replica that starts while the database is unreachable never seeds the samples
  (`main.py:66`), so an archive that was first filled by such a replica has none and
  pruning may empty it. `FeedRenderable` is therefore checked and proved without
  degraded starts.
- Such a replica never verifies the schema either, not even when the database is back
  (`main.py:66`): state `degraded` of `Migrations`. The docstring at `main.py:37` wants a stale
  schema to fail fast.
- `init_db` compares `max(version)` for equality (`postgres_store.py:174`), so a replica of an
  older image cannot be restarted once a newer file is applied. ADR-0009 (line 75) calls
  either order of deploying and migrating harmless; `UpgradeCompletes` speaks only of
  replicas of the newest image.
- The SQLite read counts the live rows and then selects, on two connections
  (`sqlite_store.py:230`). When the first live rows are written in between, the answer mixes them
  with samples; when the last ones are pruned in between, it is empty. Its docstring, `README.md:660`
  and the comment at `search.py:147` say that samples are only returned while no live rows
  exist. The models take a read as one statement, which it is in PostgreSQL. SQLite's
  statistics are several statements too, without a snapshot of their own.
- `_load_state` and `_save_state` wait for the pool in the event loop (`fetcher.py:139`, `156`):
  while the database is away every one of them stops all requests for up to the pool's timeout.
  `CallsEnd` holds with it.
- The statistics are recomputed by every request that finds them expired, not "at most
  every 30 s" (`main.py:28`); what they serve stays fresh (`StatsFresh`).
- After `close`, a late store call of the refresh builds a new pool, and two such calls
  may build two (`postgres_store.py:67`).

Fetching and enrichment:

- Three NVD sources that each need a second page send six requests within ten seconds,
  while `README.md:89` derives from the stagger that they stay within five in 30 s. The
  spacing itself is kept (`StartsSpaced`).
- Two replicas of which one cannot read `source_state` for a moment break
  `ValidatorNotAhead`: the theorem assumes working reads.
- So do three replicas whose reads work: the first finds the source due; the second writes
  version 2; the first reads that for its request (`fetcher.py:365`, `668`); the third, whose answer
  is older, writes version 1; the first gets a 304 and writes back the validator of version 2
  beside the payload of version 1, which later 304s then serve. The manifests run one
  replica.
- Urgency is decided before OSV supplies a missing severity, so an exploited item whose
  severity comes from OSV is critical and not urgent; `README.md:646` defines urgency
  by severity and exploitation. `UrgentJustified` is one direction of that definition.
- When the KEV catalog has expired and cannot be fetched, items lose their `kev` flag
  (`enrich.py:94`).
- CVEs answered from the cache count for the cap on OSV requests (`osv.py:90`), so the same
  first ones may use it up in every refresh.
- `README.md:650` says EPSS covers the first 100 CVEs, the default is 200; `README.md:660` says
  the feed is sorted by urgency first, the code sorts by publication first.

Elsewhere:

- A client that is gone before its stream starts leaves its queue in the broker
  (`main.py:248`), where it counts for the subscriber cap until the process ends:
  action `Abandon`.
- An `EventSource` answered with an error status (503 at the cap, 429, 502 of a proxy)
  is closed for good although the comment at `app.js:205` expects it to reconnect; the
  page then lives on its poll, with which `PageIsCurrent` still holds.
- When `ensure_index` fails and the bulk request after it works, the service creates
  the index with a guessed mapping that nothing replaces (`search.py:84`; not modelled).
- The docstring of the limiter (`ratelimit.py:9`) describes a fixed window with bursts
  at its edge; the code keeps a sliding log, and `RateBoundedHolds` shows that such a
  burst cannot happen.

## 5. What is proved

TLAPS checks every step. The assumptions are the named `ASSUME`s of the modules
(types of the configuration, `SampleItem \ LiveItem # {}`, what makes a source's own item
urgent), which TLC evaluates on
every run; numbers of replicas, items, threads, browsers, jobs, files, sources, faults and
versions are arbitrary.

| Theorem (module `...Proofs`) | Argument |
|---|---|
| `RunningRefreshHeld`, `SingleFlightHolds` (RefreshPipeline) | A refresh that is scheduled or running is the one in `_REFRESH_TASK`: scheduling needs the old one finished, and a done callback clears the handle only if it is its own. Single flight follows. |
| `StepsMatchProgressHolds` | `StepsInv` adds that a refresh past fetching has filled `CACHE`; each step then records exactly its own entry. |
| `RetentionHolds` | `RetentionInv` adds that no stamp or cutoff is ahead of the clock and that a delete is under way only with retention enabled: a cutoff then is always older than what a concurrent upsert stamps. |
| `FeedRenderableHolds` | Without degraded starts, a sample no live source publishes is in the archive from the first seeding on, and samples are never pruned. |
| `NoAlertIsLost` (AlertDelivery) | `DeliveryInv` follows the loop: items in the list to be marked were delivered everywhere, the current one to the channels behind it. |
| `RepeatsHaveACauseHolds` | For one replica: every send beyond the first is charged to a fault or to a departure of the row (`ChargeAt`), because a run works on unmarked items (`RunIsFresh`) that have a row (`RunSeesRows`) and a mark is only deleted when the row is gone. |
| `PruneThrottledHolds` (RefreshPipeline) | `PruneStillDue`: a prune that was found due stays due until it is over, because only the one refresh of the process prunes. |
| `ReuseIsCurrentHolds`, `ValidatorNotAheadHolds` (Fetcher) | `IInv`: the stored validator, the validator in flight and the payload read with it are ordered at every point of a fetch, through the writes of another replica. Assumes one replica, or two, working reads and a positive interval. |
| `RateBoundedHolds`, `RefusalsJustifiedHolds` (Http) | `RInv`: a deque is sorted up to `MaxLag` and what has left it is a window old up to `MaxLag`; the hit `MaxRequests` places before a grant has left it. |
| `UpdatesAskedForHolds`, `StreamsCappedHolds` (Http) | `LInv`: a request serves one `EventSource` only and is not reused while linked; a queue that drops an event is not empty; every stream in progress is registered. |
| `CadenceKeptHolds` (Fetcher) | `RecordKept`: while nothing was lost, the shared row is no older than the last request of any replica that is not in the middle of one, since other replicas only make it younger; so a source that was found due is still due for that replica when it is asked (`DueKept`). |
| `LedgerIsSchemaHolds`, `LedgerHasNoHolesHolds`, `PendingIsCurrentHolds`, `CurrentIsCompleteHolds` (Migrations) | `MInv`: a job past the lock is the session that holds it (`LockOwned`), so nobody else changes the ledger between its read and its writes; then the next pending file is the next file of the schema. The ledger only grows, so what was found complete stays so, and a maximum a replica read is still recorded when it has read the tables (`SeenRecorded`). |
| `ImplementsHistory` (Migrations) | Every step under `MInv` is a step of `SchemaHistory` or a stutter: a commit is `Upgrade`, passing `init_db` is `Join`, a crash is `Leave`. |
| `StartsSpacedHolds` (Fetcher) | `PInv`: slots of sleepers and of sent requests are a stagger apart and before `_nvd_next_start`, and a request starts at most `MaxLag` after its slot. |
| `WaitBoundedHolds` (Fetcher) | `CInv`: the slots leave no gap (`NoGap`, `NoGapAfter`): `_nvd_next_start` is at most a stagger per sleeping source, and one more, ahead of the clock, and from a sleeper's slot on at most a stagger per sleeper. A source sleeps for one slot at a time, so no wait is longer than the others' staggers. |
| `MergeKeepsEvidenceHolds` (Enrichment) | By induction over the prefix of the delivered list: what is merged so far has one item per id, and each sums up (`SumsUp`) exactly the copies seen so far. Sorting is a permutation (`SortedPermutes`: ranks are injective, hence onto). |
| `UrgentJustifiedHolds` (Enrichment) | `ItemInv`: before the enrichment an item is urgent only as an entry of the catalog or as severe and about an exploit (`Justified`). Merging keeps that because severity only rises and tags only grow, `Enriched` adds urgency only to severe items, and OSV replaces only unknown severities. |
| `UnknownExpiresHolds` (Enrichment) | `AnswersKnown`: while the age of a cached answer is exact, the answer knows all that was published before it. |
| `CapKeepsUrgentHolds` (Enrichment) | The urgent items are a prefix of the sorted list, so their CVEs are a prefix of `CveList`, and so is what the cap leaves: of two prefixes one contains the other. |
| `OnePoolHolds` (StoreAccess) | `PoolInv`: nobody is about to build a pool before `close`, since start-up built it before the first call. |
| `StatsFreshHolds` (StoreAccess) | `StatsInv`: statistics that are computed or wait to be stored are at most `QueryTime` old, so the cache is at most that much older than its entry. |
| `TypeCorrect`, `PacingTypeCorrect`, `LimiterTypeCorrect` | The types of all ten specifications. In `SearchIndex` they are inductive only with the kinds of rows (`RowKinds`), in `Enrichment` only with `ItemInv`; the latter includes the cap on OSV requests. |

**Loops.** What a loop computes for every list is proved by induction over its prefixes.
The principle is used in the form of a set that contains 0 and, with `n - 1`, also `n`
(`Induction` in `EnrichmentProofs`, from the well-foundedness of `<`); that the recursive function exists is
the lemma `Recursion`, which each loop instantiates (`ExtendLoop`, `MergedLoop`, `CveListLoop`,
`DeliveredType`).

Only model-checked: the liveness properties (`StaleIsRefreshed`, `UrgentIsAlerted`,
`UpdateIsPickedUp`, `PageIsCurrent`, `LiveRowsSearchable`, `SamplesPurged`, `SlotIsUsed`,
`UpgradeCompletes`, `CallsEnd`), which are out of the prover's reach. Every safety property of a
passing run is a theorem.

## 6. Not modelled, and the plan

Left out for good:

- parsing of feeds, severity, tag and patch heuristics (`fetcher.py`), row mapping and
  formatting (`models.py`): functions from text to text, no state, better served by unit tests;
- rendering and escaping in the page; `/health`, `/api/sources`, `/api`: they format state of
  other components;
- HTTP client settings, configuration parsing, the roster, manifests and CI: static data,
  which appears as CONSTANTS.

What is left to do:

1. **The reads of SQLite** as two statements each, against the docstrings that promise one.
2. **An abstract feed** ("readers see a feed that is never empty and only moves forward")
   that `RefreshPipeline` implements.
3. **Composition** of `Enrichment` with `AlertDelivery`: an item that loses and regains its
   urgency between two refreshes.
