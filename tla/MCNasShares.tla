----------------------------- MODULE MCNasShares -----------------------------
(***************************************************************************)
(* Instances of NasShares: writable shares and one corpus share.           *)
(***************************************************************************)
EXTENDS NasShares

CONSTANTS oc1, oc2, groupware, none
=============================================================================
