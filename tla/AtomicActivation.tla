--------------------------- MODULE AtomicActivation ---------------------------
(***************************************************************************)
(* What the installer promises about the active release, although it       *)
(* replaces six paths one by one and may be killed at any moment: the      *)
(* installed release changes in one step, and only to a release that has   *)
(* passed both attestations.  ActivationTransaction implements this.       *)
(***************************************************************************)
EXTENDS Naturals

CONSTANT Release

VARIABLES
  installed,  \* the release the host is on, 0 for none
  passed      \* pairs of a release and an attestation it has passed

activationVars == <<installed, passed>>

Attestations == {"cli", "broker"}

Init == installed \in Release \cup {0} /\ passed = {}

Attest(r, what) ==
  /\ passed' = passed \cup {<<r, what>>}
  /\ UNCHANGED installed

Activate(r) ==
  /\ \A what \in Attestations : <<r, what>> \in passed
  /\ installed' = r
  /\ UNCHANGED passed

Next == \E r \in Release : Activate(r) \/ \E what \in Attestations : Attest(r, what)

Spec == Init /\ [][Next]_activationVars
==============================================================================
