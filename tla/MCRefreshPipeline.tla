------------------------- MODULE MCRefreshPipeline -------------------------
(***************************************************************************)
(* Small instances of RefreshPipeline for TLC.                             *)
(***************************************************************************)
EXTENDS RefreshPipeline, TLC

CONSTANTS r1, r2, t1, t2, advisory, notice, sample

MCReplica1 == {r1}
MCReplica2 == {r1, r2}
MCTask == {t1, t2}

\* notice is a sample that a live source publishes too.
MCLiveItem1 == {advisory}
MCLiveItem2 == {notice}
MCSampleItem1 == {sample}
MCSampleItem2 == {notice, sample}

Symmetry == Permutations(MCReplica2) \cup Permutations(MCTask)
=============================================================================
