-------------------------- MODULE MCAlertDelivery --------------------------
(***************************************************************************)
(* Small instances of AlertDelivery for TLC.                               *)
(***************************************************************************)
EXTENDS AlertDelivery, TLC

CONSTANTS r1, old, mid, new, sample

MCReplica == {r1}
MCLiveItem == {old, mid, new}
MCSampleItem == {sample}
MCRank == [i \in Item |->
              CASE i = new -> 4 [] i = mid -> 3 [] i = old -> 2 [] i = sample -> 1]
MCRejected == {mid, new}
=============================================================================
