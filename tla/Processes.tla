-------------------------------- MODULE Processes --------------------------------
(***************************************************************************)
(* The OpenPlus processes of one machine.  They share its files: a project *)
(* with its memory, and the system's temporary directory.                  *)
(***************************************************************************)

EXTENDS FiniteSets

CONSTANT Procs

ASSUME ProcessesAssumption == IsFiniteSet(Procs)
===============================================================================
