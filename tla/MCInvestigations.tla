-------------------------- MODULE MCInvestigations --------------------------
(* Instances of Investigations for TLC. *)
EXTENDS Investigations, TLC
=============================================================================
