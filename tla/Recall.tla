---------------------------------- MODULE Recall ----------------------------------
(***************************************************************************)
(* What sessions remember for one another: the memory store (MemoryStore), *)
(* which every turn searches and writes, and the files of the project      *)
(* (Notebook), which the commands of a session write.  A process does one  *)
(* thing at a time.                                                        *)
(***************************************************************************)
EXTENDS MemoryStore, Notebook

CONSTANT Parts  \* bound: whether turns, commands or both are run in a behaviour

ASSUME RecallAssumption == Parts \subseteq SUBSET {"turns", "commands"}

VARIABLE part   \* of Parts

recallVars == <<memoryVars, bookVars, part>>

RecallTypeOK == MemoryTypeOK /\ BookTypeOK /\ part \in Parts

RecallInit == MemoryInit /\ BookInit /\ part \in Parts

OneAtATime == \A p \in Procs : at[p] = "idle" \/ doing[p] = "idle"

TurnMoves == "turns" \in part /\ MemoryNext /\ UNCHANGED <<bookVars, part>>

CommandMoves == "commands" \in part /\ BookNext /\ UNCHANGED <<memoryVars, part>>

RecallNext ==
    /\ TurnMoves \/ CommandMoves
    /\ OneAtATime'

RecallSpec == RecallInit /\ [][RecallNext]_recallVars
===============================================================================
