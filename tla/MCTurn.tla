------------------------------- MODULE MCTurn -------------------------------
(***************************************************************************)
(* Instances of Turn for TLC: messages of two sizes, a budget that the     *)
(* system prompt, a checkpoint and a few messages exceed, and a cut after  *)
(* two messages.                                                           *)
(***************************************************************************)
EXTENDS Turn

\* Nothing is found, or one chunk that only fits a prompt with no checkpoint.
SmallRetrievals == {<<>>, <<3, 1>>}
===============================================================================
