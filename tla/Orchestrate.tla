------------------------------- MODULE Orchestrate -------------------------------
(***************************************************************************)
(* The jobs a user of OpenPlus hands to more than one agent: fan-outs and  *)
(* /max of one or several processes (Fanout), and the workflows of one     *)
(* process (Workflow), which runs one job at a time.                       *)
(***************************************************************************)
EXTENDS Fanout, Workflow

CONSTANTS
    Author,     \* the process that is given workflows and /max
    Kinds       \* bound: the kinds of jobs that are run in one behaviour

ASSUME OrchestrateAssumption ==
    Author \in Procs /\ Kinds \subseteq SUBSET {"fan", "max", "flow"}

VARIABLE kinds  \* of Kinds

vars == <<fanVars, flowVars, kinds>>

TypeOK == FanTypeOK /\ FlowTypeOK /\ kinds \in Kinds

Init == FanInit /\ FlowInit /\ kinds \in Kinds

\* The event loop of a process runs one command at a time.
Free(p) == job[p] = "idle" /\ (p = Author => flow = "idle")

Order(p) ==
    /\ Free(p)
    /\ \E n \in 0..(Most + 1) :
         \/ "fan" \in kinds /\ StartFan(p, n)
         \/ "max" \in kinds /\ p = Author /\ StartMax(p, n)
    /\ UNCHANGED <<flowVars, kinds>>

Work(p) == JobStep(p) /\ UNCHANGED <<flowVars, kinds>>

Fault(p) ==
    /\ Cancel(p) \/ Crash(p)
    /\ UNCHANGED <<flowVars, kinds>>

Flow ==
    /\ "flow" \in kinds
    /\ FlowNext
    /\ flow = "idle" /\ flow' # "idle" => Free(Author)
    /\ UNCHANGED <<fanVars, kinds>>

Next ==
    \/ \E p \in Procs : Order(p) \/ Work(p) \/ Fault(p)
    \/ Flow

\* A process goes on; a model's reply and a git command come to an end.
Fairness ==
    /\ \A p \in Procs : WF_vars(Work(p))
    /\ WF_vars(Flow /\ PhaseStep)

Spec == Init /\ [][Next]_vars /\ Fairness

-----------------------------------------------------------------------------

(***************************************************************************)
(* Every job ends with an answer for each of its tasks: no failure of one  *)
(* keeps the slot that another waits for (subagent.go:73-91), and no       *)
(* workflow retries for ever (workflow.go:117-138).                        *)
(***************************************************************************)
EveryJobEnds ==
    /\ \A p \in Procs : job[p] # "idle" ~> job[p] = "idle"
    /\ flow # "idle" ~> flow = "idle"
===============================================================================
