--------------------------- MODULE MCSearchIndex ---------------------------
(***************************************************************************)
(* An instance of SearchIndex for TLC: two replicas, a live item, a sample *)
(* and a newer sample that a live source publishes too.  The reconcile     *)
(* reads one row, so that a live row may be beyond its limit.              *)
(***************************************************************************)
EXTENDS SearchIndex

CONSTANTS r1, r2, older, shared, sample

MCReplica == {r1, r2}
MCLiveItem == {older, shared}
MCSampleItem == {sample, shared}
MCPublished == [i \in Item |-> IF i = shared THEN 2 ELSE 1]
=============================================================================
