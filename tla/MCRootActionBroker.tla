------------------------- MODULE MCRootActionBroker -------------------------
(* Instances of RootActionBroker for TLC. *)
EXTENDS RootActionBroker, TLC

CONSTANTS j1, j2, j3

ThreeJobs == {j1, j2, j3}
TwoJobs == {j1, j2}

\* One job of each policy; the approved and the disabled one share a lineage.
MixedPolicy == j1 :> "auto" @@ j2 :> "approval" @@ j3 :> "disabled"
MixedLineage == j1 :> "l1" @@ j2 :> "l2" @@ j3 :> "l2"

\* Automatic jobs only, all of one lineage or each of its own.
AllAuto == [j \in Jobs |-> "auto"]
OneLineage == [j \in Jobs |-> "l1"]
OwnLineage == [j \in Jobs |-> j]

OnePeer == [j \in Jobs |-> 1001]
=============================================================================
