------------------------------ MODULE SymbolLock ------------------------------
(***************************************************************************)
(* What the symbol locks promise, without files, mutexes or processes.     *)
(*                                                                         *)
(* A worker (one subagent of one OpenPlus process) holds a set of code     *)
(* symbols.  A claim is granted whole or not at all.  It runs for a        *)
(* bounded time: once it has lapsed another worker may claim its symbols,  *)
(* although the first worker may not know it yet.  The promise is that two *)
(* claims in force are always disjoint.                                    *)
(***************************************************************************)
CONSTANTS
    Workers,    \* the subagents
    Symbols     \* the code symbols they edit

VARIABLES
    claim,      \* claim[w]: the symbols w was granted and has not given up
    lapsed      \* the workers whose claim outlived the expiry

vars == <<claim, lapsed>>

TypeOK ==
    /\ claim \in [Workers -> SUBSET Symbols]
    /\ lapsed \in SUBSET Workers

\* The symbols that worker w has a right to: those of a claim still in force.
InForce(w) == IF w \in lapsed THEN {} ELSE claim[w]

Init ==
    /\ claim = [w \in Workers |-> {}]
    /\ lapsed = {}

\* A claim is granted over symbols nobody has a right to.  It may have lapsed
\* by the time the worker hears of it: granting takes time.
Grant(w, S) ==
    /\ claim[w] = {}
    /\ S # {}
    /\ \A v \in Workers : InForce(v) \cap S = {}
    /\ claim' = [claim EXCEPT ![w] = S]
    /\ lapsed' \in {lapsed, lapsed \cup {w}}

\* Workers give up their claims: one that is done, or all those of a crash.
Drop(W) ==
    /\ claim' = [w \in Workers |-> IF w \in W THEN {} ELSE claim[w]]
    /\ lapsed' = lapsed \ W

\* Time passes, and some claims outlive the expiry.
Lapse(W) ==
    /\ lapsed' = lapsed \cup W
    /\ UNCHANGED claim

Next ==
    \/ \E w \in Workers, S \in SUBSET Symbols : Grant(w, S)
    \/ \E W \in SUBSET Workers : Drop(W) \/ Lapse(W)

Spec == Init /\ [][Next]_vars

(***************************************************************************)
(* Two claims in force never share a symbol: "a symbol SHALL be held by at *)
(* most one agent at a time, even under concurrent claims".                *)
(***************************************************************************)
Disjoint ==
    \A v, w \in Workers : v # w => InForce(v) \cap InForce(w) = {}
===============================================================================
