--------------------------- MODULE MCRateLimiter ---------------------------
(***************************************************************************)
(* Small instances of RateLimiter for TLC.                                 *)
(***************************************************************************)
EXTENDS RateLimiter, TLC

CONSTANTS k1, k2, t1, t2

MCKey == {k1, k2}
MCThread == {t1, t2}

Symmetry == Permutations(MCThread)
=============================================================================
