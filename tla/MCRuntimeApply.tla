--------------------------- MODULE MCRuntimeApply ---------------------------
(***************************************************************************)
(* Instances of RuntimeApply for TLC.                                      *)
(***************************************************************************)
EXTENDS RuntimeApply

CONSTANTS i1, i2

MCImages   == {i1, i2}

\* A backup of the first layout, and what someone may put in its place.
MCLegacy   == << << [layout |-> "v0", files |-> Uniform(i1)],
                    [layout |-> "v2", files |-> Uniform(i2)] >> >>
MCDamages  == {"directory", "artifact", "metadata"}
==============================================================================
