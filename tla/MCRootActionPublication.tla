---------------------- MODULE MCRootActionPublication ----------------------
(* RootActionPublication for TLC. *)
EXTENDS RootActionPublication
=============================================================================
