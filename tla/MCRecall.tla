--------------------------------- MODULE MCRecall ---------------------------------
(***************************************************************************)
(* An instance of Recall for TLC: two processes, a cap of one chunk,      *)
(* endpoints of two dimensions, and runs that repeat nothing, a sequence   *)
(* that only reads, one that writes, and a short one again and again.      *)
(***************************************************************************)
EXTENDS Recall

TwoHosts ==
    [p \in {"p1", "p2"} |->
        IF p = "p1" THEN [primary |-> {1, 2}, fallback |-> {2}]
        ELSE [primary |-> {1}, fallback |-> {}]]

Files == {"skill", "subagent", "command"} \X {"a"}

Recorded ==
    {<< <<"read", "grep">>, <<"grep", "read">> >>,
     << <<"read", "grep">>, <<"glob", "read", "grep">> >>,
     << <<"read", "edit", "bash">>, <<"read", "edit", "bash">> >>,
     [i \in 1..5 |-> <<"read", "bash">>]}
===============================================================================
