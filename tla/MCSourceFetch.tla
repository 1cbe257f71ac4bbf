--------------------------- MODULE MCSourceFetch ---------------------------
(***************************************************************************)
(* Small instances of SourceFetch for TLC.                                 *)
(***************************************************************************)
EXTENDS SourceFetch

CONSTANT r1

MCReplica == {r1}
MCEmptyVersion == {2}
=============================================================================
