-------------------------- MODULE MCRootActionAuth --------------------------
(* Instances of RootActionAuth for TLC. *)
EXTENDS RootActionAuth, TLC

CONSTANTS hello, phone, key, synced, auto, j1, j2, c1, c2, c3, c4, t1, t2, b1, b2, b3

MCPolicy == [j \in Jobs |-> IF j = auto THEN "auto" ELSE "approval"]

MCKind == [d \in Devices |-> IF d = key THEN "roaming"
                             ELSE IF d = synced THEN "synced" ELSE "platform"]

\* Bound: enrollment alone is explored with every device and label and all of
\* the clock; with a job, what follows the enrollment of the first two devices;
\* with a second, automatic one, what one second without faults brings.
Focus ==
  \/ \A j \in Jobs : records[j] = Absent
  \/ /\ clock <= 1 /\ faults <= 1 /\ Active # {} /\ Cardinality(Issued) <= 1
     /\ records[auto] = Absent \/ (clock = 0 /\ faults = 0)
     /\ \A c \in Used : ceremonies[c].label # "remote_phone_passkey" /\ ceremonies[c].device # synced

Symmetry == Permutations(Ceremonies) \cup Permutations(Bootstraps) \cup Permutations(Requests)
=============================================================================
