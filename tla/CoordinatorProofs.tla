---------------------------- MODULE CoordinatorProofs --------------------------
(***************************************************************************)
(* Proofs about Coordinator, for any number of processes, tasks and        *)
(* symbols and any set of faults: a worktree has one tenant, and a quiet   *)
(* disk is a clean one.                                                    *)
(***************************************************************************)
EXTENDS Coordinator, TLAPS

(***************************************************************************)
(* Agents are numbered from 1.                                             *)
(***************************************************************************)
LEMMA AgentFacts ==
    /\ 0 \notin Agents
    /\ \A i \in Agents \cup {0} : i < MaxTasks => i + 1 \in Agents
  BY TasksAssumption DEF Agents

(***************************************************************************)
(* A merge that stops half way changes files of the agent's symbols only.  *)
(***************************************************************************)
LEMMA HalfMergeType ==
    ASSUME TypeOK, NEW p \in Procs, agent[p] \in Agents, HalfMerge(p)
    PROVE  /\ merging' \in BOOLEAN
           /\ dirty' \in SUBSET {FileOf[s] : s \in Symbols}
  <1>1. edits[agent[p]] \in SUBSET Symbols
    BY DEF TypeOK
  <1>2. CASE merging' = TRUE /\ UNCHANGED dirty
    BY <1>2 DEF TypeOK
  <1>3. CASE /\ dirty' \in {dirty \cup {FileOf[s] : s \in S} : S \in SUBSET edits[agent[p]]}
             /\ UNCHANGED merging
    <2>1. PICK S \in SUBSET edits[agent[p]] : dirty' = dirty \cup {FileOf[s] : s \in S}
      BY <1>3
    <2>2. {FileOf[s] : s \in S} \in SUBSET {FileOf[s] : s \in Symbols}
      BY <1>1
    <2> QED  BY <1>3, <2>1, <2>2 DEF TypeOK
  <1> QED  BY <1>2, <1>3 DEF HalfMerge

(***************************************************************************)
(* Every step keeps the types.                                             *)
(***************************************************************************)
LEMMA TypeStep ==
    ASSUME TypeOK, BusyInv, [Next]_vars
    PROVE  TypeOK'
  <1> USE AgentFacts
      DEF TypeOK, Steps, Outcomes, disk, locks, trees, repo, left, Trees, BusyInv
  <1>1. ASSUME NEW p \in Procs, NEW S \in SUBSET Symbols, NextTask(p, S)
        PROVE  TypeOK'
    BY <1>1 DEF NextTask, Goto, Report
  <1>2. ASSUME NEW p \in Procs, EndFanout(p)
        PROVE  TypeOK'
    BY <1>2 DEF EndFanout, Report
  <1>3. ASSUME NEW p \in Procs, NEW s \in Symbols, Edit(p, s)
        PROVE  TypeOK'
    BY <1>3 DEF Edit
  <1>4. ASSUME NEW p \in Procs, NEW s \in Symbols, StrayEdit(p, s)
        PROVE  TypeOK'
    BY <1>4 DEF StrayEdit
  <1>5. ASSUME NEW p \in Procs, ClaimFails(p)
        PROVE  TypeOK'
    BY <1>5 DEF ClaimFails, Goto, Report
  <1>6. ASSUME NEW p \in Procs, Blocked(p)
        PROVE  TypeOK'
    BY <1>6 DEF Blocked, Goto, Report
  <1>7. ASSUME NEW p \in Procs, Acquirable(p)
        PROVE  TypeOK'
    BY <1>7 DEF Acquirable, Goto
  <1>8. ASSUME NEW p \in Procs, Take(p)
        PROVE  TypeOK'
    BY <1>8 DEF Take, WriteLocks, Goto
  <1>9. ASSUME NEW p \in Procs, TakeFails(p)
        PROVE  TypeOK'
    BY <1>9 DEF TakeFails, Goto, Report
  <1>10. ASSUME NEW p \in Procs, AddWorktree(p)
         PROVE  TypeOK'
    BY <1>10 DEF AddWorktree, Goto
  <1>11. ASSUME NEW p \in Procs, AddFails(p)
         PROVE  TypeOK'
    BY <1>11 DEF AddFails, Goto, Report
  <1>12. ASSUME NEW p \in Procs, RunFails(p)
         PROVE  TypeOK'
    BY <1>12 DEF RunFails, Goto, Report
  <1>13. ASSUME NEW p \in Procs, RunEnds(p)
         PROVE  TypeOK'
    BY <1>13 DEF RunEnds, Goto
  <1>14. ASSUME NEW p \in Procs, Commit(p)
         PROVE  TypeOK'
    BY <1>14 DEF Commit, Goto
  <1>15. ASSUME NEW p \in Procs, CommitFails(p)
         PROVE  TypeOK'
    BY <1>15 DEF CommitFails, Goto, Report
  <1>16. ASSUME NEW p \in Procs, MergeLands(p)
         PROVE  TypeOK'
    BY <1>16 DEF MergeLands, Goto, Report
  <1>17. ASSUME NEW p \in Procs, MergeConflicts(p)
         PROVE  TypeOK'
    BY <1>17 DEF MergeConflicts, Goto, Report
  <1>18. ASSUME NEW p \in Procs, MergeRefused(p)
         PROVE  TypeOK'
    BY <1>18 DEF MergeRefused, Goto, Report
  <1>19. ASSUME NEW p \in Procs, MergeBreaks(p)
         PROVE  TypeOK'
    <2>1. agent[p] \in Agents
      BY <1>19 DEF MergeBreaks
    <2>2. merging' \in BOOLEAN /\ dirty' \in SUBSET {FileOf[s] : s \in Symbols}
      BY <1>19, <2>1, HalfMergeType DEF MergeBreaks
    <2> QED  BY <1>19, <2>2 DEF MergeBreaks, Goto, Report
  <1>20. ASSUME NEW p \in Procs, RevParseFails(p)
         PROVE  TypeOK'
    BY <1>20 DEF RevParseFails, Goto, Report
  <1>21. ASSUME NEW p \in Procs, Abort(p)
         PROVE  TypeOK'
    BY <1>21 DEF Abort, Goto
  <1>22. ASSUME NEW p \in Procs, AbortFails(p)
         PROVE  TypeOK'
    BY <1>22 DEF AbortFails, Goto
  <1>23. ASSUME NEW p \in Procs, RemoveWorktree(p)
         PROVE  TypeOK'
    BY <1>23 DEF RemoveWorktree, AfterRemoval, Goto
  <1>24. ASSUME NEW p \in Procs, RemoveFails(p)
         PROVE  TypeOK'
    BY <1>24 DEF RemoveFails, AfterRemoval, Goto
  <1>25. ASSUME NEW p \in Procs, Free(p)
         PROVE  TypeOK'
    BY <1>25 DEF Free, AfterRelease, Goto
  <1>26. ASSUME NEW p \in Procs, FreeFails(p)
         PROVE  TypeOK'
    BY <1>26 DEF FreeFails, AfterRelease, Goto, Report
  <1>27. ASSUME NEW p \in Procs, Crash(p)
         PROVE  TypeOK'
    <2>1. agent[p] \in Agents
      BY <1>27 DEF Crash
    <2>2. merging' \in BOOLEAN /\ dirty' \in SUBSET {FileOf[s] : s \in Symbols}
      BY <1>27, <2>1, HalfMergeType DEF Crash
    <2>3. wt' \in [Agents -> Trees] /\ leftTrees' \in SUBSET Agents
      BY <1>27, <2>1 DEF Crash, InWorktree
    <2>4. /\ lock' \in [Symbols -> Agents \cup {0}]
          /\ live' \in SUBSET Symbols
          /\ leftLocks' \in SUBSET Agents
      BY <1>27, <2>1 DEF Crash, WriteLocks
    <2>5. /\ pc' \in [Procs -> Steps \cup {"idle"}]
          /\ agent' \in [Procs -> Agents \cup {0}]
          /\ syms' \in [Procs -> SUBSET Symbols]
          /\ result' \in [Procs -> Outcomes]
          /\ leftMerge' \in BOOLEAN
      BY <1>27, <2>2 DEF Crash, Goto, Report
    <2> QED  BY <1>27, <2>2, <2>3, <2>4, <2>5 DEF Crash
  <1>28. ASSUME NEW s \in Symbols, Expire(s)
         PROVE  TypeOK'
    BY <1>28 DEF Expire
  <1>29. CASE UNCHANGED vars
    BY <1>29 DEF vars
  <1> QED
    BY <1>1, <1>2, <1>3, <1>4, <1>5, <1>6, <1>7, <1>8, <1>9, <1>10, <1>11,
       <1>12, <1>13, <1>14, <1>15, <1>16, <1>17, <1>18, <1>19, <1>20, <1>21,
       <1>22, <1>23, <1>24, <1>25, <1>26, <1>27, <1>28, <1>29 DEF Next, Proceed

(***************************************************************************)
(* A process at work is at work for some agent.                            *)
(***************************************************************************)
LEMMA BusyStep ==
    ASSUME TypeOK, BusyInv, [Next]_vars
    PROVE  BusyInv'
  <1> USE AgentFacts
      DEF TypeOK, Steps, Outcomes, disk, locks, trees, repo, left, Trees, BusyInv
  <1>1. ASSUME NEW p \in Procs, NEW S \in SUBSET Symbols, NextTask(p, S)
        PROVE  BusyInv'
    BY <1>1 DEF NextTask, Goto, Report
  <1>2. ASSUME NEW p \in Procs, EndFanout(p)
        PROVE  BusyInv'
    BY <1>2 DEF EndFanout, Report
  <1>3. ASSUME NEW p \in Procs, NEW s \in Symbols, Edit(p, s)
        PROVE  BusyInv'
    BY <1>3 DEF Edit
  <1>4. ASSUME NEW p \in Procs, NEW s \in Symbols, StrayEdit(p, s)
        PROVE  BusyInv'
    BY <1>4 DEF StrayEdit
  <1>5. ASSUME NEW p \in Procs, ClaimFails(p)
        PROVE  BusyInv'
    BY <1>5 DEF ClaimFails, Goto, Report
  <1>6. ASSUME NEW p \in Procs, Blocked(p)
        PROVE  BusyInv'
    BY <1>6 DEF Blocked, Goto, Report
  <1>7. ASSUME NEW p \in Procs, Acquirable(p)
        PROVE  BusyInv'
    BY <1>7 DEF Acquirable, Goto
  <1>8. ASSUME NEW p \in Procs, Take(p)
        PROVE  BusyInv'
    BY <1>8 DEF Take, WriteLocks, Goto
  <1>9. ASSUME NEW p \in Procs, TakeFails(p)
        PROVE  BusyInv'
    BY <1>9 DEF TakeFails, Goto, Report
  <1>10. ASSUME NEW p \in Procs, AddWorktree(p)
         PROVE  BusyInv'
    BY <1>10 DEF AddWorktree, Goto
  <1>11. ASSUME NEW p \in Procs, AddFails(p)
         PROVE  BusyInv'
    BY <1>11 DEF AddFails, Goto, Report
  <1>12. ASSUME NEW p \in Procs, RunFails(p)
         PROVE  BusyInv'
    BY <1>12 DEF RunFails, Goto, Report
  <1>13. ASSUME NEW p \in Procs, RunEnds(p)
         PROVE  BusyInv'
    BY <1>13 DEF RunEnds, Goto
  <1>14. ASSUME NEW p \in Procs, Commit(p)
         PROVE  BusyInv'
    BY <1>14 DEF Commit, Goto
  <1>15. ASSUME NEW p \in Procs, CommitFails(p)
         PROVE  BusyInv'
    BY <1>15 DEF CommitFails, Goto, Report
  <1>16. ASSUME NEW p \in Procs, MergeLands(p)
         PROVE  BusyInv'
    BY <1>16 DEF MergeLands, Goto, Report
  <1>17. ASSUME NEW p \in Procs, MergeConflicts(p)
         PROVE  BusyInv'
    BY <1>17 DEF MergeConflicts, Goto, Report
  <1>18. ASSUME NEW p \in Procs, MergeRefused(p)
         PROVE  BusyInv'
    BY <1>18 DEF MergeRefused, Goto, Report
  <1>19. ASSUME NEW p \in Procs, MergeBreaks(p)
         PROVE  BusyInv'
    BY <1>19 DEF MergeBreaks, HalfMerge, Goto, Report
  <1>20. ASSUME NEW p \in Procs, RevParseFails(p)
         PROVE  BusyInv'
    BY <1>20 DEF RevParseFails, Goto, Report
  <1>21. ASSUME NEW p \in Procs, Abort(p)
         PROVE  BusyInv'
    BY <1>21 DEF Abort, Goto
  <1>22. ASSUME NEW p \in Procs, AbortFails(p)
         PROVE  BusyInv'
    BY <1>22 DEF AbortFails, Goto
  <1>23. ASSUME NEW p \in Procs, RemoveWorktree(p)
         PROVE  BusyInv'
    BY <1>23 DEF RemoveWorktree, AfterRemoval, Goto
  <1>24. ASSUME NEW p \in Procs, RemoveFails(p)
         PROVE  BusyInv'
    BY <1>24 DEF RemoveFails, AfterRemoval, Goto
  <1>25. ASSUME NEW p \in Procs, Free(p)
         PROVE  BusyInv'
    BY <1>25 DEF Free, AfterRelease, Goto
  <1>26. ASSUME NEW p \in Procs, FreeFails(p)
         PROVE  BusyInv'
    BY <1>26 DEF FreeFails, AfterRelease, Goto, Report
  <1>27. ASSUME NEW p \in Procs, Crash(p)
         PROVE  BusyInv'
    BY <1>27 DEF Crash, WriteLocks, HalfMerge, Goto, Report
  <1>28. ASSUME NEW s \in Symbols, Expire(s)
         PROVE  BusyInv'
    BY <1>28 DEF Expire
  <1>29. CASE UNCHANGED vars
    BY <1>29 DEF vars
  <1> QED
    BY <1>1, <1>2, <1>3, <1>4, <1>5, <1>6, <1>7, <1>8, <1>9, <1>10, <1>11,
       <1>12, <1>13, <1>14, <1>15, <1>16, <1>17, <1>18, <1>19, <1>20, <1>21,
       <1>22, <1>23, <1>24, <1>25, <1>26, <1>27, <1>28, <1>29 DEF Next, Proceed

(***************************************************************************)
(* A worktree keeps its one tenant.                                        *)
(***************************************************************************)
LEMMA TenantStep ==
    ASSUME TypeOK, BusyInv, OneTenant, [Next]_vars
    PROVE  OneTenant'
  <1> USE AgentFacts
      DEF TypeOK, Steps, Outcomes, disk, locks, trees, repo, left, Trees, BusyInv, OneTenant,
          InWorktree
  <1>1. ASSUME NEW p \in Procs, NEW S \in SUBSET Symbols, NextTask(p, S)
        PROVE  OneTenant'
    BY <1>1 DEF NextTask, Goto, Report
  <1>2. ASSUME NEW p \in Procs, EndFanout(p)
        PROVE  OneTenant'
    BY <1>2 DEF EndFanout, Report
  <1>3. ASSUME NEW p \in Procs, NEW s \in Symbols, Edit(p, s)
        PROVE  OneTenant'
    BY <1>3 DEF Edit
  <1>4. ASSUME NEW p \in Procs, NEW s \in Symbols, StrayEdit(p, s)
        PROVE  OneTenant'
    BY <1>4 DEF StrayEdit
  <1>5. ASSUME NEW p \in Procs, ClaimFails(p)
        PROVE  OneTenant'
    BY <1>5 DEF ClaimFails, Goto, Report
  <1>6. ASSUME NEW p \in Procs, Blocked(p)
        PROVE  OneTenant'
    BY <1>6 DEF Blocked, Goto, Report
  <1>7. ASSUME NEW p \in Procs, Acquirable(p)
        PROVE  OneTenant'
    BY <1>7 DEF Acquirable, Goto
  <1>8. ASSUME NEW p \in Procs, Take(p)
        PROVE  OneTenant'
    BY <1>8 DEF Take, WriteLocks, Goto
  <1>9. ASSUME NEW p \in Procs, TakeFails(p)
        PROVE  OneTenant'
    BY <1>9 DEF TakeFails, Goto, Report
  <1>10. ASSUME NEW p \in Procs, AddWorktree(p)
         PROVE  OneTenant'
    BY <1>10 DEF AddWorktree, Goto
  <1>11. ASSUME NEW p \in Procs, AddFails(p)
         PROVE  OneTenant'
    BY <1>11 DEF AddFails, Goto, Report
  <1>12. ASSUME NEW p \in Procs, RunFails(p)
         PROVE  OneTenant'
    BY <1>12 DEF RunFails, Goto, Report
  <1>13. ASSUME NEW p \in Procs, RunEnds(p)
         PROVE  OneTenant'
    BY <1>13 DEF RunEnds, Goto
  <1>14. ASSUME NEW p \in Procs, Commit(p)
         PROVE  OneTenant'
    BY <1>14 DEF Commit, Goto
  <1>15. ASSUME NEW p \in Procs, CommitFails(p)
         PROVE  OneTenant'
    BY <1>15 DEF CommitFails, Goto, Report
  <1>16. ASSUME NEW p \in Procs, MergeLands(p)
         PROVE  OneTenant'
    BY <1>16 DEF MergeLands, Goto, Report
  <1>17. ASSUME NEW p \in Procs, MergeConflicts(p)
         PROVE  OneTenant'
    BY <1>17 DEF MergeConflicts, Goto, Report
  <1>18. ASSUME NEW p \in Procs, MergeRefused(p)
         PROVE  OneTenant'
    BY <1>18 DEF MergeRefused, Goto, Report
  <1>19. ASSUME NEW p \in Procs, MergeBreaks(p)
         PROVE  OneTenant'
    BY <1>19 DEF MergeBreaks, HalfMerge, Goto, Report
  <1>20. ASSUME NEW p \in Procs, RevParseFails(p)
         PROVE  OneTenant'
    BY <1>20 DEF RevParseFails, Goto, Report
  <1>21. ASSUME NEW p \in Procs, Abort(p)
         PROVE  OneTenant'
    BY <1>21 DEF Abort, Goto
  <1>22. ASSUME NEW p \in Procs, AbortFails(p)
         PROVE  OneTenant'
    BY <1>22 DEF AbortFails, Goto
  <1>23. ASSUME NEW p \in Procs, RemoveWorktree(p)
         PROVE  OneTenant'
    BY <1>23 DEF RemoveWorktree, AfterRemoval, Goto
  <1>24. ASSUME NEW p \in Procs, RemoveFails(p)
         PROVE  OneTenant'
    BY <1>24 DEF RemoveFails, AfterRemoval, Goto
  <1>25. ASSUME NEW p \in Procs, Free(p)
         PROVE  OneTenant'
    BY <1>25 DEF Free, AfterRelease, Goto
  <1>26. ASSUME NEW p \in Procs, FreeFails(p)
         PROVE  OneTenant'
    BY <1>26 DEF FreeFails, AfterRelease, Goto, Report
  <1>27. ASSUME NEW p \in Procs, Crash(p)
         PROVE  OneTenant'
    BY <1>27 DEF Crash, WriteLocks, HalfMerge, Goto, Report
  <1>28. ASSUME NEW s \in Symbols, Expire(s)
         PROVE  OneTenant'
    BY <1>28 DEF Expire
  <1>29. CASE UNCHANGED vars
    BY <1>29 DEF vars
  <1> QED
    BY <1>1, <1>2, <1>3, <1>4, <1>5, <1>6, <1>7, <1>8, <1>9, <1>10, <1>11,
       <1>12, <1>13, <1>14, <1>15, <1>16, <1>17, <1>18, <1>19, <1>20, <1>21,
       <1>22, <1>23, <1>24, <1>25, <1>26, <1>27, <1>28, <1>29 DEF Next, Proceed

(***************************************************************************)
(* What is on disk keeps somebody who will clean it up.                    *)
(***************************************************************************)
LEMMA CleanupStep ==
    ASSUME TypeOK, BusyInv, OneTenant, CleanupInv, [Next]_vars
    PROVE  CleanupInv'
  <1> USE AgentFacts
      DEF TypeOK, Steps, Outcomes, disk, locks, trees, repo, left, Trees, BusyInv, OneTenant,
          CleanupInv, InWorktree, HasLocks
  <1>1. ASSUME NEW p \in Procs, NEW S \in SUBSET Symbols, NextTask(p, S)
        PROVE  CleanupInv'
    BY <1>1 DEF NextTask, Goto, Report
  <1>2. ASSUME NEW p \in Procs, EndFanout(p)
        PROVE  CleanupInv'
    BY <1>2 DEF EndFanout, Report
  <1>3. ASSUME NEW p \in Procs, NEW s \in Symbols, Edit(p, s)
        PROVE  CleanupInv'
    BY <1>3 DEF Edit
  <1>4. ASSUME NEW p \in Procs, NEW s \in Symbols, StrayEdit(p, s)
        PROVE  CleanupInv'
    BY <1>4 DEF StrayEdit
  <1>5. ASSUME NEW p \in Procs, ClaimFails(p)
        PROVE  CleanupInv'
    BY <1>5 DEF ClaimFails, Goto, Report
  <1>6. ASSUME NEW p \in Procs, Blocked(p)
        PROVE  CleanupInv'
    BY <1>6 DEF Blocked, Goto, Report
  <1>7. ASSUME NEW p \in Procs, Acquirable(p)
        PROVE  CleanupInv'
    BY <1>7 DEF Acquirable, Goto
  <1>8. ASSUME NEW p \in Procs, Take(p)
        PROVE  CleanupInv'
    BY <1>8 DEF Take, WriteLocks, Goto
  <1>9. ASSUME NEW p \in Procs, TakeFails(p)
        PROVE  CleanupInv'
    BY <1>9 DEF TakeFails, Goto, Report
  <1>10. ASSUME NEW p \in Procs, AddWorktree(p)
         PROVE  CleanupInv'
    BY <1>10 DEF AddWorktree, Goto
  <1>11. ASSUME NEW p \in Procs, AddFails(p)
         PROVE  CleanupInv'
    BY <1>11 DEF AddFails, Goto, Report
  <1>12. ASSUME NEW p \in Procs, RunFails(p)
         PROVE  CleanupInv'
    BY <1>12 DEF RunFails, Goto, Report
  <1>13. ASSUME NEW p \in Procs, RunEnds(p)
         PROVE  CleanupInv'
    BY <1>13 DEF RunEnds, Goto
  <1>14. ASSUME NEW p \in Procs, Commit(p)
         PROVE  CleanupInv'
    BY <1>14 DEF Commit, Goto
  <1>15. ASSUME NEW p \in Procs, CommitFails(p)
         PROVE  CleanupInv'
    BY <1>15 DEF CommitFails, Goto, Report
  <1>16. ASSUME NEW p \in Procs, MergeLands(p)
         PROVE  CleanupInv'
    BY <1>16 DEF MergeLands, Goto, Report
  <1>17. ASSUME NEW p \in Procs, MergeConflicts(p)
         PROVE  CleanupInv'
    BY <1>17 DEF MergeConflicts, Goto, Report
  <1>18. ASSUME NEW p \in Procs, MergeRefused(p)
         PROVE  CleanupInv'
    BY <1>18 DEF MergeRefused, Goto, Report
  <1>19. ASSUME NEW p \in Procs, MergeBreaks(p)
         PROVE  CleanupInv'
    BY <1>19 DEF MergeBreaks, HalfMerge, Goto, Report
  <1>20. ASSUME NEW p \in Procs, RevParseFails(p)
         PROVE  CleanupInv'
    BY <1>20 DEF RevParseFails, Goto, Report
  <1>21. ASSUME NEW p \in Procs, Abort(p)
         PROVE  CleanupInv'
    BY <1>21 DEF Abort, Goto
  <1>22. ASSUME NEW p \in Procs, AbortFails(p)
         PROVE  CleanupInv'
    BY <1>22 DEF AbortFails, Goto
  <1>23. ASSUME NEW p \in Procs, RemoveWorktree(p)
         PROVE  CleanupInv'
    BY <1>23 DEF RemoveWorktree, AfterRemoval, Goto
  <1>24. ASSUME NEW p \in Procs, RemoveFails(p)
         PROVE  CleanupInv'
    BY <1>24 DEF RemoveFails, AfterRemoval, Goto
  <1>25. ASSUME NEW p \in Procs, Free(p)
         PROVE  CleanupInv'
    BY <1>25 DEF Free, AfterRelease, Goto
  <1>26. ASSUME NEW p \in Procs, FreeFails(p)
         PROVE  CleanupInv'
    BY <1>26 DEF FreeFails, AfterRelease, Goto, Report
  <1>27. ASSUME NEW p \in Procs, Crash(p)
         PROVE  CleanupInv'
    <2>1. agent[p] \in Agents /\ pc' = [pc EXCEPT ![p] = "idle"]
      BY <1>27 DEF Crash, Goto
    <2>2. \A q \in Procs : q # p => pc'[q] = pc[q] /\ agent'[q] = agent[q]
      BY <1>27 DEF Crash, Goto
    <2>3. \A s \in Symbols : lock'[s] # 0 =>
            lock'[s] \in leftLocks' \/ \E q \in Procs : HasLocks(q)' /\ agent'[q] = lock'[s]
      BY <1>27, <2>1, <2>2 DEF Crash, WriteLocks
    <2>4. \A i \in Agents : wt'[i] # "absent" =>
            i \in leftTrees' \/ \E q \in Procs : InWorktree(q)' /\ agent'[q] = i
      <3>1. /\ \A i \in Agents : i # agent[p] => wt'[i] = wt[i]
            /\ \A i \in Agents : i \in leftTrees /\ wt'[i] # "absent" => i \in leftTrees'
        BY <1>27, <2>1 DEF Crash
      <3>2. \/ agent[p] \in leftTrees'
            \/ wt'[agent[p]] = "absent"
            \/ ~ InWorktree(p) /\ wt'[agent[p]] = wt[agent[p]]
        BY <1>27, <2>1 DEF Crash
      <3> QED  BY <2>1, <2>2, <3>1, <3>2
    <2>5. merging' => leftMerge' \/ \E q \in Procs : pc'[q] = "abort"
      <3>1. CASE pc[p] \in {"merge", "abort"}
        BY <1>27, <3>1 DEF Crash
      <3>2. CASE pc[p] \notin {"merge", "abort"}
        <4>1. merging' = merging /\ (leftMerge => leftMerge')
          BY <1>27, <3>2 DEF Crash
        <4> QED  BY <2>2, <3>2, <4>1
      <3> QED  BY <3>1, <3>2
    <2> QED  BY <2>3, <2>4, <2>5
  <1>28. ASSUME NEW s \in Symbols, Expire(s)
         PROVE  CleanupInv'
    BY <1>28 DEF Expire
  <1>29. CASE UNCHANGED vars
    BY <1>29 DEF vars
  <1> QED
    BY <1>1, <1>2, <1>3, <1>4, <1>5, <1>6, <1>7, <1>8, <1>9, <1>10, <1>11,
       <1>12, <1>13, <1>14, <1>15, <1>16, <1>17, <1>18, <1>19, <1>20, <1>21,
       <1>22, <1>23, <1>24, <1>25, <1>26, <1>27, <1>28, <1>29 DEF Next, Proceed

--------------------------------------------------------------------------------
(***************************************************************************)
(* The disk's bookkeeping is an invariant for any number of processes,     *)
(* tasks and faults: every lock, worktree and half-done merge belongs to a *)
(* task under way, or was left by a process that died or by a failure.     *)
(***************************************************************************)
THEOREM Safety == Spec => []IInv
  <1>1. Init => IInv
    <2> SUFFICES ASSUME Init
                 PROVE  IInv
      OBVIOUS
    <2>1. TypeOK
      BY DEF Init, TypeOK, Steps, Outcomes, Trees
    <2>2. BusyInv /\ OneTenant /\ CleanupInv
      BY DEF Init, BusyInv, OneTenant, CleanupInv, InWorktree
    <2> QED  BY <2>1, <2>2 DEF IInv
  <1>2. IInv /\ [Next]_vars => IInv'
    BY TypeStep, BusyStep, TenantStep, CleanupStep DEF IInv
  <1> QED  BY <1>1, <1>2, PTL DEF Spec

(***************************************************************************)
(* However many processes run fan-outs in a repository, under the same     *)
(* agent names and with any faults and crashes: a subagent has a worktree  *)
(* of its own for as long as it runs, commits and merges.                  *)
(***************************************************************************)
THEOREM Tenancy == Spec => []OneTenant
  <1>1. IInv => OneTenant
    BY DEF IInv
  <1> QED  BY <1>1, Safety, PTL

(***************************************************************************)
(* However many fan-outs are blocked, fail, conflict or outlive their      *)
(* locks: when none is at work, every lock, worktree and half-done merge   *)
(* that is there was left of that very agent by a death, or by a failure   *)
(* of git or of the lock store.                                            *)
(***************************************************************************)
THEOREM Cleanliness == Spec => []QuietIsClean
  <1>1. IInv => QuietIsClean
    BY DEF IInv, CleanupInv, QuietIsClean, HasLocks, InWorktree
  <1> QED  BY <1>1, Safety, PTL
================================================================================
