--------------------------- MODULE MCLiveUpdates ---------------------------
(***************************************************************************)
(* Small instances of LiveUpdates for TLC.                                 *)
(***************************************************************************)
EXTENDS LiveUpdates

CONSTANTS b1, k1, k2, f1, f2

MCBrowser == {b1}
MCConn == {k1, k2}
MCFilter == {f1, f2}
MCSlot == {1, 2}
=============================================================================
