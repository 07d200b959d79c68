----------------------- MODULE MCActivationTransaction -----------------------
(***************************************************************************)
(* Instances of ActivationTransaction for TLC.                             *)
(***************************************************************************)
EXTENDS ActivationTransaction

CONSTANTS c1, c2

\* The manifest link has one target for all releases; the wrappers may differ.
MCCommon == {"manifest"}
MCCommits == {c1, c2}
==============================================================================
