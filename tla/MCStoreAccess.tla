--------------------------- MODULE MCStoreAccess ---------------------------
(***************************************************************************)
(* A small instance of StoreAccess for TLC.                                *)
(***************************************************************************)
EXTENDS StoreAccess

CONSTANTS r1, r2, refresh

MCRequest == {r1, r2}

MCBackground == {refresh}
=============================================================================
