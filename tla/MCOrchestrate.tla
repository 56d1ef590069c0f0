------------------------------ MODULE MCOrchestrate ------------------------------
(***************************************************************************)
(* Instances of Orchestrate for TLC: two processes that share a temporary  *)
(* directory, two tasks, and script files that are right, that take a name *)
(* twice, that export a list of negative length, and that do not compile.  *)
(***************************************************************************)
EXTENDS Orchestrate, TLC

Parallel2 == "p1" :> 2 @@ "p2" :> 1

Files ==
    {[name |-> "deep", phases |-> 2, retries |-> 1, defect |-> FALSE],
     [name |-> "review", phases |-> 1, retries |-> 0, defect |-> FALSE],
     [name |-> "bare", phases |-> -1, retries |-> -1, defect |-> FALSE],
     [name |-> "broken", phases |-> 1, retries |-> 0, defect |-> TRUE]}
===============================================================================
