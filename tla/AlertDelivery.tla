--------------------------- MODULE AlertDelivery ---------------------------
(***************************************************************************)
(* Urgent alerts: app/alerts.py with the store operations it lives on      *)
(* (unalerted_urgent_items, mark_alerted) and the ones that change its     *)
(* input under its feet (upsert_items, prune_items), for replicas that     *)
(* share one archive.                                                      *)
(*                                                                         *)
(* An alert run is: read at most MaxAlertsPerRun items, newest first; send *)
(* each one to the configured channels in order, giving up on the item at  *)
(* the first exception; then mark, in one transaction, the items that went *)
(* through all channels.  The run is one step of a refresh, so a replica   *)
(* upserts and prunes only between two of its runs, but other replicas do  *)
(* so at any time, also between the statements of a prune and its commit.  *)
(* A query that fails ends the run with nothing changed and has no action  *)
(* of its own.                                                             *)
(***************************************************************************)
EXTENDS Archive, FiniteSets

CONSTANTS
    Replica,            \* the API processes
    Channels,           \* how many of Discord, Slack and email are configured
    MaxAlertsPerRun,    \* MAX_ALERTS_PER_RUN
    Rank,               \* position in ORDER BY published: a larger rank is newer
    UrgentSample,       \* the samples models.py declares urgent
    Rejected,           \* items whose alert the first channel never accepts
    RetentionDays,      \* settings.retention_days
    MaxNow,             \* bound: the clock stops here
    MaxFaults           \* bound: failed sends, marks and prunes, and crashes

ASSUME AlertAssumption ==
    /\ Channels \in 0..3
    /\ MaxAlertsPerRun \in Nat \ {0}
    /\ Rank \in [Item -> Nat] /\ \A i, j \in Item : Rank[i] = Rank[j] => i = j
    /\ UrgentSample \subseteq SampleItem /\ Rejected \subseteq Item
    /\ RetentionDays \in Nat
    /\ MaxNow \in Nat /\ MaxFaults \in Nat

VARIABLES
    now,            \* wall clock
    faults,         \* faults so far
    table,          \* feed_items: is_sample and last_seen
    urgent,         \* ids of the rows with urgent = TRUE
    marks,          \* alerted_items: id -> created_at
    pc,             \* pc[r]: "idle", "pruning", "sending" or "marking"
    doomed,         \* doomed[r]: what the prune under way has deleted and not committed
    todo,           \* todo[r]: items of the run not dealt with yet
    next,           \* next[r]: the channel the current item goes to next
    alerted,        \* alerted[r]: the list of the same name
    sends,          \* history: how often channel c accepted item i
    departed        \* history: how often the row of item i was pruned

vars == <<now, faults, table, urgent, marks, pc, doomed, todo, next, alerted, sends,
          departed>>

Channel == 1..Channels

Nothing == [rows |-> {}, marks |-> {}]

TypeOK ==
    /\ now \in Nat /\ faults \in Nat
    /\ IsTable(table)
    /\ urgent \in SUBSET Item /\ urgent \subseteq DOMAIN table
    /\ DOMAIN marks \subseteq Item /\ \A i \in DOMAIN marks : marks[i] \in Nat
    /\ pc \in [Replica -> {"idle", "pruning", "sending", "marking"}]
    /\ doomed \in [Replica -> [rows : SUBSET Item, marks : SUBSET Item]]
    /\ todo \in [Replica -> SUBSET Item]
    /\ next \in [Replica -> Nat \ {0}]
    /\ alerted \in [Replica -> SUBSET Item]
    /\ sends \in [Item -> [Channel -> Nat]]
    /\ departed \in [Item -> Nat]

Init ==
    /\ now = 0 /\ faults = 0
    /\ table = NoRows
    /\ urgent = {}
    /\ marks = [i \in {} |-> 0]
    /\ pc = [r \in Replica |-> "idle"]
    /\ doomed = [r \in Replica |-> Nothing]
    /\ todo = [r \in Replica |-> {}]
    /\ next = [r \in Replica |-> 1]
    /\ alerted = [r \in Replica |-> {}]
    /\ sends = [i \in Item |-> [c \in Channel |-> 0]]
    /\ departed = [i \in Item |-> 0]

Fault == faults < MaxFaults /\ faults' = faults + 1

-----------------------------------------------------------------------------
(* The other steps of a refresh, as far as they change what is alerted.    *)

\* A statement on rows that a prune has deleted waits for its commit or rollback.
Unlocked(part, ids) == \A q \in Replica : doomed[q][part] \cap ids = {}

\* upsert_items for one item: the row is (re)written, its urgency included.
Upsert(r) == \E i \in LiveItem, isUrgent \in BOOLEAN :
    /\ pc[r] = "idle"
    /\ Unlocked("rows", {i})
    /\ table' = UpsertItems(table, {i}, {}, now)
    /\ urgent' = IF isUrgent THEN urgent \cup {i} ELSE urgent \ {i}
    /\ UNCHANGED <<now, faults, marks, pc, doomed, todo, next, alerted, sends, departed>>

\* upsert_items for the sample fallback; a sample's urgency is a constant.
UpsertSamples(r) ==
    /\ pc[r] = "idle"
    /\ Unlocked("rows", SampleItem)
    /\ table' = UpsertItems(table, {}, SampleItem, now)
    /\ urgent' = (urgent \ SampleItem) \cup UrgentSample
    /\ UNCHANGED <<now, faults, marks, pc, doomed, todo, next, alerted, sends, departed>>

\* The marks prune_items(before) deletes: old ones whose item has no row left.
ForgettableWithRow(rows, before) ==
    {i \in DOMAIN marks : marks[i] < before}

Forgettable(rows, before) ==
    {i \in DOMAIN marks : marks[i] < before /\ i \notin DOMAIN rows}

\* The two deletes of prune_items, each of which sees what was committed before it:
\* rows that others add between the two are seen by the second, rows that they add
\* after it are not.  A prune that finds nothing to delete changes nothing.
Prune(r) ==
    /\ pc[r] = "idle"
    /\ RetentionDays > 0
    /\ LET rows == Expired(table, now - RetentionDays)
           gone == Forgettable(PruneItems(table, now - RetentionDays), now - RetentionDays)
       IN  /\ rows # {} \/ gone # {}
           /\ Unlocked("rows", rows) /\ Unlocked("marks", gone)
           /\ doomed' = [doomed EXCEPT ![r] = [rows |-> rows, marks |-> gone]]
    /\ pc' = [pc EXCEPT ![r] = "pruning"]
    /\ UNCHANGED <<now, faults, table, urgent, marks, todo, next, alerted, sends, departed>>

\* The transaction of prune_items commits, or it fails and everything is put back.
PruneCommit(r) ==
    /\ pc[r] = "pruning"
    /\ \/ /\ table' = [i \in DOMAIN table \ doomed[r].rows |-> table[i]]
          /\ urgent' = urgent \ doomed[r].rows
          /\ marks' = [i \in DOMAIN marks \ doomed[r].marks |-> marks[i]]
          /\ departed' = [i \in Item |->
                            IF i \in doomed[r].rows THEN departed[i] + 1 ELSE departed[i]]
          /\ UNCHANGED faults
       \/ Fault /\ UNCHANGED <<table, urgent, marks, departed>>
    /\ doomed' = [doomed EXCEPT ![r] = Nothing]
    /\ pc' = [pc EXCEPT ![r] = "idle"]
    /\ UNCHANGED <<now, todo, next, alerted, sends>>

-----------------------------------------------------------------------------
(* send_urgent_alerts.                                                     *)

\* The rows unalerted_urgent_items selects from.
Unalerted == {i \in urgent \cap Visible(table) : i \notin DOMAIN marks}

\* ORDER BY published DESC LIMIT n.
Newest(S, n) ==
    {i \in S : Cardinality({j \in S : Rank[j] > Rank[i]}) < n}

Query(r) ==
    /\ pc[r] = "idle"
    /\ Unalerted # {}
    /\ todo' = [todo EXCEPT ![r] = Newest(Unalerted, MaxAlertsPerRun)]
    /\ pc' = [pc EXCEPT ![r] = "sending"]
    /\ next' = [next EXCEPT ![r] = 1]
    /\ alerted' = [alerted EXCEPT ![r] = {}]
    /\ UNCHANGED <<now, faults, table, urgent, marks, doomed, sends, departed>>

\* The item the loop is at: the newest one left.
IsCurrent(r, i) ==
    /\ pc[r] = "sending"
    /\ i \in todo[r]
    /\ \A j \in todo[r] : Rank[j] <= Rank[i]

\* The next channel takes the current item.
Send(r) == \E i \in Item :
    /\ IsCurrent(r, i)
    /\ next[r] <= Channels
    /\ next[r] = 1 => i \notin Rejected
    /\ sends' = [sends EXCEPT ![i][next[r]] = @ + 1]
    /\ next' = [next EXCEPT ![r] = @ + 1]
    /\ UNCHANGED <<now, faults, table, urgent, marks, pc, doomed, todo, alerted, departed>>

\* All channels took it (or there is none and it is only logged): it joins the
\* list of alerted items.
AfterFirstChannel(r) == \E i \in Item :
    /\ IsCurrent(r, i)
    /\ next[r] > Channels \/ next[r] > 1
    /\ alerted' = [alerted EXCEPT ![r] = @ \cup {i}]
    /\ todo' = [todo EXCEPT ![r] = @ \ {i}]
    /\ next' = [next EXCEPT ![r] = 1]
    /\ UNCHANGED <<now, faults, table, urgent, marks, pc, doomed, sends, departed>>

ItemDone(r) == \E i \in Item :
    /\ IsCurrent(r, i)
    /\ next[r] > Channels
    /\ alerted' = [alerted EXCEPT ![r] = @ \cup {i}]
    /\ todo' = [todo EXCEPT ![r] = @ \ {i}]
    /\ next' = [next EXCEPT ![r] = 1]
    /\ UNCHANGED <<now, faults, table, urgent, marks, pc, doomed, sends, departed>>

\* A channel raises, and the item is given up for this run.  The channel may
\* have taken it all the same (a timeout on the reply).
SendFailsEndsRun(r) == \E i \in Item :
    /\ IsCurrent(r, i)
    /\ next[r] <= Channels
    /\ \/ next[r] = 1 /\ i \in Rejected /\ UNCHANGED <<faults, sends>>
       \/ Fault /\ UNCHANGED sends
    /\ todo' = [todo EXCEPT ![r] = {}]
    /\ next' = [next EXCEPT ![r] = 1]
    /\ UNCHANGED <<now, table, urgent, marks, pc, doomed, alerted, departed>>

SendFails(r) == \E i \in Item :
    /\ IsCurrent(r, i)
    /\ next[r] <= Channels
    /\ \/ /\ next[r] = 1 /\ i \in Rejected
          /\ UNCHANGED <<faults, sends>>
       \/ /\ Fault
          /\ \/ UNCHANGED sends
             \/ sends' = [sends EXCEPT ![i][next[r]] = @ + 1]
    /\ todo' = [todo EXCEPT ![r] = @ \ {i}]
    /\ next' = [next EXCEPT ![r] = 1]
    /\ UNCHANGED <<now, table, urgent, marks, pc, doomed, alerted, departed>>

\* The loop is over: mark_alerted is called only if there is something to mark.
LoopDone(r) ==
    /\ pc[r] = "sending"
    /\ todo[r] = {}
    /\ pc' = [pc EXCEPT ![r] = IF alerted[r] = {} THEN "idle" ELSE "marking"]
    /\ UNCHANGED <<now, faults, table, urgent, marks, doomed, todo, next, alerted, sends, departed>>

\* INSERT ... ON CONFLICT DO NOTHING: an existing mark keeps its time.
Marked(ids) ==
    [i \in DOMAIN marks \cup ids |-> IF i \in DOMAIN marks THEN marks[i] ELSE now]

\* mark_alerted succeeds, or raises (having committed or not) and is only logged.
MarkAlerted(r) ==
    /\ pc[r] = "marking"
    /\ Unlocked("marks", alerted[r])
    /\ \/ marks' = Marked(alerted[r]) /\ UNCHANGED faults
       \/ Fault /\ marks' \in {marks, Marked(alerted[r])}
    /\ pc' = [pc EXCEPT ![r] = "idle"]
    /\ alerted' = [alerted EXCEPT ![r] = {}]
    /\ UNCHANGED <<now, table, urgent, doomed, todo, next, sends, departed>>

\* The process dies in the middle of a run or of a prune; what it sent stays sent,
\* what it did not commit is rolled back.
Crash(r) ==
    /\ pc[r] # "idle"
    /\ Fault
    /\ pc' = [pc EXCEPT ![r] = "idle"]
    /\ todo' = [todo EXCEPT ![r] = {}]
    /\ next' = [next EXCEPT ![r] = 1]
    /\ alerted' = [alerted EXCEPT ![r] = {}]
    /\ doomed' = [doomed EXCEPT ![r] = Nothing]
    /\ UNCHANGED <<now, table, urgent, marks, sends, departed>>

Tick ==
    /\ now < MaxNow
    /\ now' = now + 1
    /\ UNCHANGED <<faults, table, urgent, marks, pc, doomed, todo, next, alerted, sends, departed>>

AlertStep(r) ==
    Query(r) \/ Send(r) \/ ItemDone(r) \/ SendFails(r) \/ LoopDone(r) \/ MarkAlerted(r)

Next ==
    \/ \E r \in Replica :
          \/ AlertStep(r)
          \/ Upsert(r) \/ UpsertSamples(r) \/ Prune(r) \/ PruneCommit(r)
          \/ Crash(r)
    \/ Tick

Spec == Init /\ [][Next]_vars

\* Every refresh ends with an alert run, the run goes through its loop and a prune
\* comes to an end; what the sources publish, faults and time are not fair.
Fairness == \A r \in Replica : WF_vars(AlertStep(r)) /\ WF_vars(PruneCommit(r))

FairSpec == Spec /\ Fairness

-----------------------------------------------------------------------------
(* Properties.                                                             *)

\* No alert is lost: an item marked as alerted (by any replica, after any
\* failures) was taken by every configured channel.
MarkedMeansDelivered ==
    \A i \in DOMAIN marks : \A c \in Channel : sends[i][c] >= 1

\* With one replica a channel sees an item again only for a cause: a failed send,
\* a failed mark or a crash, or its row was pruned and came back after the mark
\* was forgotten too.  While the row stays, an alert is not repeated however old
\* its mark is.
RepeatsHaveACause ==
    \A i \in Item, c \in Channel : sends[i][c] <= 1 + faults + departed[i]

\* Items that are refused for good are read again by every run.  They leave no room
\* for i when MaxAlertsPerRun of them are newer than i.
RunFilledBefore(i) ==
    Cardinality({j \in Unalerted \cap Rejected : Rank[j] > Rank[i]}) >= MaxAlertsPerRun

\* An urgent item that readers can see and that no channel refuses for good does
\* not wait for ever (it is marked, or it leaves the archive or loses its urgency)
\* unless newer items that are refused for good fill the runs.
UrgentIsAlerted == \A i \in Item \ Rejected :
    (i \in Unalerted) ~> (i \notin Unalerted \/ RunFilledBefore(i))
=============================================================================
