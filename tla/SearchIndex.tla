---------------------------- MODULE SearchIndex ----------------------------
(***************************************************************************)
(* The OpenSearch index of app/search.py and the archive it follows, for   *)
(* replicas that share both.  A refresh indexes its own live items and     *)
(* then, unless it did so less than SYNC_INTERVAL ago, copies the newest   *)
(* rows a reader sees into the index and purges sample documents.  A call  *)
(* to OpenSearch or to the database is one step, and may fail.  Replicas   *)
(* share an archive only in PostgreSQL, where query_feed is one statement. *)
(*                                                                         *)
(* Times are reduced to what is compared with them: a row was seen at 1    *)
(* when that is within its retention and at 0 when it is not, and          *)
(* recent[r] says whether _last_sync_at lies less than SYNC_INTERVAL back. *)
(* A document is reduced to its is_sample field.                           *)
(***************************************************************************)
EXTENDS Archive, FiniteSets

CONSTANTS
    Replica,        \* the API processes
    Published,      \* Published[i]: when item i was published
    SyncLimit,      \* the limit of sync_archive
    MaxFaults       \* bound: failed calls and crashes

ASSUME SearchAssumption ==
    Published \in [Item -> Nat] /\ SyncLimit \in Nat \ {0} /\ MaxFaults \in Nat

VARIABLES
    table,          \* feed_items
    docs,           \* the documents of the index: id to is_sample
    phase,          \* phase[r]: where replica r is in its start-up or refresh
    work,           \* work[r]: the items in its hands
    booted,         \* booted[r]: r refreshes, its start-up is over
    recent,         \* recent[r]: r has synchronised within SYNC_INTERVAL
    faults

vars == <<table, docs, phase, work, booted, recent, faults>>

NoWork == [live |-> {}, samples |-> {}]

NoDocs == [i \in {} |-> FALSE]

TypeOK ==
    /\ IsTable(table)
    /\ DOMAIN docs \subseteq Item /\ docs \in [DOMAIN docs -> BOOLEAN]
    /\ phase \in [Replica -> {"idle", "prune", "index", "read", "bulk", "purge"}]
    /\ work \in [Replica -> [live : SUBSET LiveItem, samples : SUBSET SampleItem]]
    /\ booted \in [Replica -> BOOLEAN] /\ recent \in [Replica -> BOOLEAN]
    /\ faults \in 0..MaxFaults

Init ==
    /\ table = NoRows
    /\ docs = NoDocs
    /\ phase = [r \in Replica |-> "idle"]
    /\ work = [r \in Replica |-> NoWork]
    /\ booted = [r \in Replica |-> FALSE] /\ recent = [r \in Replica |-> FALSE]
    /\ faults = 0

Fault == faults < MaxFaults /\ faults' = faults + 1

Goto(r, p) == phase' = [phase EXCEPT ![r] = p]

\* The call succeeds, or a fault is counted.
Works(ok) == IF ok THEN UNCHANGED faults ELSE Fault

-----------------------------------------------------------------------------
\* lifespan: the archive is seeded if it is empty, and sync_archive is called.
Boot(r) ==
    /\ ~booted[r] /\ phase[r] = "idle"
    /\ table' = IF DOMAIN table = {} THEN UpsertItems(table, {}, SampleItem, 1) ELSE table
    /\ Goto(r, "read")
    /\ UNCHANGED <<docs, work, booted, recent, faults>>

\* A refresh has fetched live items, with the samples or without, and persists
\* them.
Persist(r) == \E live \in SUBSET LiveItem, samples \in {{}, SampleItem}, ok \in BOOLEAN :
    /\ booted[r] /\ phase[r] = "idle"
    /\ Works(ok)
    /\ table' = IF ok THEN UpsertItems(table, live, samples, 1) ELSE table
    /\ work' = [work EXCEPT ![r] = [live |-> live, samples |-> samples \ live]]
    /\ Goto(r, "prune")
    /\ UNCHANGED <<docs, booted, recent>>

\* _prune, when it is due and works
Prune(r) == \E due \in BOOLEAN :
    /\ phase[r] = "prune"
    /\ table' = IF due THEN PruneItems(table, 1) ELSE table
    /\ Goto(r, "index")
    /\ UNCHANGED <<docs, work, booted, recent, faults>>

\* _bulk: each document is added or replaced.  Only the status of the whole
\* answer is looked at, so documents that OpenSearch refuses go unnoticed.
Bulk(live, samples) == \E refused \in SUBSET (live \cup samples) :
    /\ Works(refused = {})
    /\ LET written == (live \cup samples) \ refused
       IN  docs' = [i \in DOMAIN docs \cup written |->
                       IF i \in written THEN i \notin live ELSE docs[i]]

\* index_items: the live items of the refresh; then maybe_sync_archive
IndexItemsOnly(r) ==
    /\ phase[r] = "index"
    /\ Bulk(work[r].live, {}) \/ (Fault /\ UNCHANGED docs)
    /\ Goto(r, "idle")
    /\ work' = [work EXCEPT ![r] = NoWork]
    /\ UNCHANGED <<table, booted, recent>>

IndexItems(r) ==
    /\ phase[r] = "index"
    /\ Bulk(work[r].live, {}) \/ (Fault /\ UNCHANGED docs)
    /\ Goto(r, IF recent[r] THEN "idle" ELSE "read")
    /\ work' = [work EXCEPT ![r] = NoWork]
    /\ UNCHANGED <<table, booted, recent>>

\* The end of sync_archive: maybe_sync_archive remembers a synchronisation that
\* wrote documents, start-up calls sync_archive directly and does not.
SyncDone(r, count) ==
    /\ Goto(r, "idle")
    /\ work' = [work EXCEPT ![r] = NoWork]
    /\ recent' = [recent EXCEPT ![r] = @ \/ (count > 0 /\ booted[r])]
    /\ booted' = [booted EXCEPT ![r] = TRUE]

\* query_feed: the newest rows a reader sees, up to the limit.  Of rows of the
\* same age any may be left out.
IsNewest(rows) ==
    /\ rows \subseteq Visible(table)
    /\ Cardinality(rows) <= SyncLimit
    /\ \A i \in Visible(table) \ rows :
          /\ Cardinality(rows) = SyncLimit
          /\ \A j \in rows : Published[j] >= Published[i]

\* sync_archive reads the archive.
ReadArchive(r) ==
    /\ phase[r] = "read"
    /\ UNCHANGED <<table, docs>>
    /\ \/ \E rows \in SUBSET DOMAIN table :
             /\ IsNewest(rows)
             /\ work' = [work EXCEPT ![r] = [live    |-> rows \cap LiveRows(table),
                                            samples |-> rows \ LiveRows(table)]]
             /\ Goto(r, "bulk")
             /\ UNCHANGED <<booted, recent, faults>>
       \/ Fault /\ SyncDone(r, 0)

\* _needs_sample_purge: some row that was read is live.
NeedsSamplePurgeIfMixed(read) == read.live # {} /\ read.samples # {}

NeedsSamplePurge(read) == read.live # {}

Count(read) == Cardinality(read.live) + Cardinality(read.samples)

\* sync_archive: the rows are written
BulkArchive(r) ==
    /\ phase[r] = "bulk"
    /\ UNCHANGED table
    /\ \/ /\ Bulk(work[r].live, work[r].samples)
          /\ IF NeedsSamplePurge(work[r])
             THEN Goto(r, "purge") /\ UNCHANGED <<work, booted, recent>>
             ELSE SyncDone(r, Count(work[r]))
       \/ Fault /\ SyncDone(r, 0) /\ UNCHANGED docs

\* _delete_sample_docs; a failure is logged and the synchronisation counts.
Purge(r) == \E ok \in BOOLEAN :
    /\ phase[r] = "purge"
    /\ Works(ok)
    /\ docs' = IF ok THEN [i \in {j \in DOMAIN docs : ~docs[j]} |-> docs[i]] ELSE docs
    /\ SyncDone(r, Count(work[r]))
    /\ UNCHANGED table

\* SYNC_INTERVAL has passed since the last synchronisation of r.
IntervalPasses(r) ==
    /\ recent[r]
    /\ recent' = [recent EXCEPT ![r] = FALSE]
    /\ UNCHANGED <<table, docs, phase, work, booted, faults>>

\* No source has published the item of a row for the retention period, which
\* is much longer than a refresh.
Age == \E i \in DOMAIN table :
    /\ table[i].seen = 1
    /\ \A r \in Replica : phase[r] \in {"prune", "index"} =>
          i \notin work[r].live \cup work[r].samples
    /\ table' = [table EXCEPT ![i].seen = 0]
    /\ UNCHANGED <<docs, phase, work, booted, recent, faults>>

\* The process dies and starts again.
Crash(r) ==
    /\ Fault
    /\ phase' = [phase EXCEPT ![r] = "idle"]
    /\ work' = [work EXCEPT ![r] = NoWork]
    /\ booted' = [booted EXCEPT ![r] = FALSE]
    /\ recent' = [recent EXCEPT ![r] = FALSE]
    /\ UNCHANGED <<table, docs>>

SearchStep(r) ==
    \/ Boot(r) \/ Persist(r) \/ Prune(r) \/ IndexItems(r)
    \/ ReadArchive(r) \/ BulkArchive(r) \/ Purge(r)

Next == (\E r \in Replica : SearchStep(r) \/ IntervalPasses(r) \/ Crash(r)) \/ Age

Spec == Init /\ [][Next]_vars

\* Refreshes recur (the page polls a stale feed) and run to their end, and the
\* interval between two synchronisations passes.
Fairness == \A r \in Replica : WF_vars(SearchStep(r)) /\ WF_vars(IntervalPasses(r))

FairSpec == Spec /\ Fairness

-----------------------------------------------------------------------------
(* Properties.                                                             *)

SampleDocs == {i \in DOMAIN docs : docs[i]}

\* Once there are live rows for good, the sample documents of an offline start,
\* or of a replica that read the archive before, are purged for good.
SamplesPurged == <>[](LiveRows(table) # {}) => <>[](SampleDocs = {})

\* A live row that stays, and stays among the newest rows that the reconcile
\* reads, becomes searchable, although the refresh that wrote it may have failed to
\* index it, or OpenSearch may have refused its document.
AmongNewest(i) ==
    Cardinality({j \in Visible(table) : Published[j] >= Published[i]}) <= SyncLimit

LiveRowsSearchable == \A i \in LiveItem :
    <>[](i \in LiveRows(table) /\ AmongNewest(i)) => <>[](i \in DOMAIN docs /\ ~docs[i])
=============================================================================
