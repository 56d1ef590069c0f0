------------------------------ MODULE MCLockStore ------------------------------
(***************************************************************************)
(* One process, whose workers all use the same store.                      *)
(***************************************************************************)
EXTENDS LockStore, TLC

CONSTANT TheProc

MCProcs == {TheProc}
MCWorkers == MCProcs \X Agents

\* Agents and symbols are interchangeable.
Symmetry == Permutations(Agents) \cup Permutations(Symbols)
================================================================================
