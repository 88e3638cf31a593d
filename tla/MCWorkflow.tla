----------------------------- MODULE MCWorkflow ----------------------------
(* Two game folders, and sessions of five jobs. *)
EXTENDS Workflow

CONSTANTS g1, g2
MCGames == {g1, g2}
=============================================================================
