---------------------------- MODULE MCNvdPacing ----------------------------
(***************************************************************************)
(* A small instance of NvdPacing for TLC.                                  *)
(***************************************************************************)
EXTENDS NvdPacing

CONSTANTS linux, kubernetes, cloud

MCSource == {linux, kubernetes, cloud}
=============================================================================
