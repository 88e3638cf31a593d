-------------------------- MODULE MCCandidateInstall -----------------------
(***************************************************************************)
(* Three files, two installations, one write by another program.           *)
(***************************************************************************)
EXTENDS CandidateInstall
=============================================================================
