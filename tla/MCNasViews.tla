------------------------------ MODULE MCNasViews ------------------------------
(***************************************************************************)
(* Instances of NasViews: one slot with two corpora, two users whose       *)
(* slices share a room.                                                    *)
(***************************************************************************)
EXTENDS NasViews

CONSTANTS kw, groupware, alice, bob, r1, r2, package, c1, none

MCSlice == [u \in Users |-> IF u = alice THEN {r1} ELSE {r1, r2}]
=============================================================================
