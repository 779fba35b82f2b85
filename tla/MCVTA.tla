------------------------------- MODULE MCVTA --------------------------------
(* VTA on the programs of ProgramSets. *)
EXTENDS VTA, ProgramSets
=============================================================================
