------------------------- MODULE MCGrantObservation -------------------------
(***************************************************************************)
(* An instance of GrantObservation.                                        *)
(***************************************************************************)
EXTENDS GrantObservation
=============================================================================
