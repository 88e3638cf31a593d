---------------------------- MODULE MCPublication --------------------------
(* Every kind of adapter, for the check of the publication. *)
EXTENDS Publication

MCAllLanes == AllLanes
=============================================================================
