----------------------------- MODULE MCCoordinator -----------------------------
(***************************************************************************)
(* Two symbols, by choice in one file or in two.                           *)
(***************************************************************************)
EXTENDS Coordinator, TLC

CONSTANTS s1, s2

MCSymbols == {s1, s2}
OneFile == (s1 :> "f") @@ (s2 :> "f")

Symmetry == Permutations(Procs) \cup Permutations(MCSymbols)
================================================================================
