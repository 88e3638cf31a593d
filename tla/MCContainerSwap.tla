--------------------------- MODULE MCContainerSwap -------------------------
(***************************************************************************)
(* A container has three files.  The transaction ends once, so its whole   *)
(* state space fits.                                                       *)
(***************************************************************************)
EXTENDS ContainerSwap
=============================================================================
