---------------------------- MODULE MCModlistBatch -------------------------
(* Two inventory entries, and up to two patches of the game meanwhile. *)
EXTENDS ModlistBatch
=============================================================================
