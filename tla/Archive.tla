------------------------------ MODULE Archive ------------------------------
(***************************************************************************)
(* The archive as the rest of the program sees it through app/store.py:    *)
(* the table feed_items and the operations that write it.  A table value   *)
(* is a function whose domain is the set of ids that have a row; a row is  *)
(* reduced to the two columns that decide visibility and retention,        *)
(* is_sample and last_seen.                                                *)
(*                                                                         *)
(* An id is a hash of the item's URL, and the built-in samples carry URLs  *)
(* of real advisories, so a live source may publish an item under the id   *)
(* of a sample: LiveItem and SampleItem may overlap.                       *)
(***************************************************************************)
EXTENDS Integers

CONSTANTS
    LiveItem,       \* ids of the items live sources publish
    SampleItem      \* ids of the items models._sample_items builds

\* Some sample is an article no live source publishes.
ASSUME ItemAssumption == SampleItem \ LiveItem # {}

Item == LiveItem \cup SampleItem

Row == [sample : BOOLEAN, seen : Nat]

NoRows == [i \in {} |-> [sample |-> FALSE, seen |-> 0]]

IsTable(table) ==
    /\ DOMAIN table \subseteq Item
    /\ table = [i \in DOMAIN table |-> table[i]]
    /\ \A i \in DOMAIN table : table[i] \in Row

LiveRows(table) == {i \in DOMAIN table : ~table[i].sample}

\* upsert_items in one transaction: every row of the batch is inserted, or on
\* conflict overwritten with the new is_sample and last_seen.
UpsertKeepingLastSeen(table, live, samples, time) ==
    [i \in DOMAIN table \cup live \cup samples |->
        IF i \in live \cup samples
        THEN [sample |-> i \notin live,
              seen   |-> IF i \in DOMAIN table THEN table[i].seen ELSE time]
        ELSE table[i]]

UpsertItems(table, live, samples, time) ==
    [i \in DOMAIN table \cup live \cup samples |->
        IF i \in live \cup samples
        THEN [sample |-> i \notin live, seen |-> time]
        ELSE table[i]]

\* prune_items(before): deletes the non-sample rows last seen before the cutoff.
ExpiredOfAnyKind(table, before) ==
    {i \in DOMAIN table : table[i].seen < before}

Expired(table, before) ==
    {i \in DOMAIN table : ~table[i].sample /\ table[i].seen < before}

PruneItems(table, before) ==
    [i \in DOMAIN table \ Expired(table, before) |-> table[i]]

\* The rows a reader may see (_HIDE_SAMPLE): sample rows only while there is
\* no live row.
Visible(table) ==
    {i \in DOMAIN table : ~table[i].sample \/ LiveRows(table) = {}}
=============================================================================
