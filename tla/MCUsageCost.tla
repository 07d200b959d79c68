----------------------------- MODULE MCUsageCost -----------------------------
(***************************************************************************)
(* Instances of UsageCost: two days, and documents of one day.             *)
(***************************************************************************)
EXTENDS UsageCost

CONSTANTS a, timer, manual, nobody
==============================================================================
