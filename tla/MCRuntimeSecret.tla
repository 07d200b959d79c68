--------------------------- MODULE MCRuntimeSecret ---------------------------
(***************************************************************************)
(* An instance of RuntimeSecret for TLC.                                   *)
(***************************************************************************)
EXTENDS RuntimeSecret

CONSTANTS v1, v2

MCValue    == {v1, v2}
MCAccepted == {v1}
==============================================================================
