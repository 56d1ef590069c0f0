------------------------------ MODULE MCTwoStores ------------------------------
(***************************************************************************)
(* Two OpenPlus processes in one repository, each with one worker and a    *)
(* Store of its own over the same directory.  Locks never expire.          *)
(***************************************************************************)
EXTENDS LockStore, TLC

CONSTANTS p1, p2, a1, a2

MCProcs == {p1, p2}
MCAgents == {a1, a2}
MCWorkers == {<<p1, a1>>, <<p2, a2>>}

(***************************************************************************)
(* What store.go:2-4 and 195-197 say of a lock file: "created with         *)
(* O_CREATE|O_EXCL so the filesystem itself decides the winner of a        *)
(* concurrent claim".  Of two claims on one symbol only one is granted.    *)
(***************************************************************************)
OneWinner ==
    \A v, w \in Workers :
        v # w /\ pc[v] = "held" /\ pc[w] = "held" => want[v] \cap want[w] = {}
================================================================================
