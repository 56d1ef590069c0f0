------------------------------ MODULE Coordinator ------------------------------
(***************************************************************************)
(* Coordinated fan-out: runtime/coordinated.go driving the native          *)
(* coordinator of internal/coordinate/native.go.                           *)
(*                                                                         *)
(* Each OpenPlus process works through the tasks of its fan-out one after  *)
(* the other, as agents 1, 2, ... ("sub-1", "sub-2", ...: the same names   *)
(* in every process).  For a task it locks the symbols, adds a git         *)
(* worktree, runs the subagent there, commits, merges into the branch that *)
(* is checked out in the repository, removes the worktree and releases the *)
(* locks.  What processes share is on disk: the lock files, the worktrees  *)
(* and the repository.                                                     *)
(*                                                                         *)
(* The steps of one Acquire are in LockStore; here its two passes are one  *)
(* step each, so that two processes can still check before either writes.  *)
(* Of a file's content only who changed what since when is kept.           *)
(***************************************************************************)
EXTENDS Naturals

CONSTANTS
    Procs,      \* OpenPlus processes in the repository
    MaxTasks,   \* Session.MaxSubagents: the longest fan-out
    Symbols,    \* the code symbols
    FileOf,     \* FileOf[s]: the file symbol s is in
    Faults      \* which of "symbol", "lock", "add", "stray", "commit",
                \* "merge", "abort", "remove", "release" and "crash" can happen

ASSUME TasksAssumption == MaxTasks \in Nat \ {0}

VARIABLES
    lock,       \* lock[s]: the agent named in the lock file of s; 0 if none
    live,       \* the symbols whose lock has not expired
    wt,         \* wt[i]: agent i's worktree; "missing" is one that git has
                \* registered but whose directory is gone
    edits,      \* edits[i]: the symbols changed in that worktree
    moved,      \* moved[i]: the symbols changed on the branch since then
    merging,    \* a conflicted merge is under way (MERGE_HEAD)
    dirty,      \* the files changed in the repository's own checkout
    pc,         \* what process p is doing
    agent,      \* agent[p]: its current task's agent; 0 before the first
    syms,       \* syms[p]: that task's symbols
    result,     \* result[p]: that task's CoordinatedResult
    leftLocks,  \* what a failure or a death left behind (ghosts): the agents
    leftTrees,  \* whose locks and whose worktrees nobody goes back for, and
    leftMerge   \* whether that is so of the merge under way

locks == <<lock, live>>
trees == <<wt, edits, moved>>
repo == <<merging, dirty>>
disk == <<locks, trees, repo>>
left == <<leftLocks, leftTrees, leftMerge>>
vars == <<disk, pc, agent, syms, result, left>>

Agents == 1..MaxTasks
Trees == {"absent", "present", "missing"}

\* The steps of one task, in the order of Claim, runSubagent, and Done or
\* Release.  "freeing" and "removing" are the end of a Done whose merge failed,
\* which does the two in the other order.
Steps == {"claim", "take", "add", "run", "commit", "merge", "abort",
          "freeing", "removing", "remove", "free"}

Outcomes == {"pending", "merged", "blocked", "failed", "refused", "unmerged"}

TypeOK ==
    /\ lock \in [Symbols -> Agents \cup {0}]
    /\ live \in SUBSET Symbols
    /\ wt \in [Agents -> Trees]
    /\ edits \in [Agents -> SUBSET Symbols]
    /\ moved \in [Agents -> SUBSET Symbols]
    /\ merging \in BOOLEAN
    /\ dirty \in SUBSET {FileOf[s] : s \in Symbols}
    /\ pc \in [Procs -> Steps \cup {"idle"}]
    /\ agent \in [Procs -> Agents \cup {0}]
    /\ syms \in [Procs -> SUBSET Symbols]
    /\ result \in [Procs -> Outcomes]
    /\ leftLocks \in SUBSET Agents
    /\ leftTrees \in SUBSET Agents
    /\ leftMerge \in BOOLEAN

Init ==
    /\ lock = [s \in Symbols |-> 0]
    /\ live = {}
    /\ wt = [i \in Agents |-> "absent"]
    /\ edits = [i \in Agents |-> {}]
    /\ moved = [i \in Agents |-> {}]
    /\ merging = FALSE
    /\ dirty = {}
    /\ pc = [p \in Procs |-> "idle"]
    /\ agent = [p \in Procs |-> 0]
    /\ syms = [p \in Procs |-> {}]
    /\ result = [p \in Procs |-> "pending"]
    /\ leftLocks = {}
    /\ leftTrees = {}
    /\ leftMerge = FALSE

--------------------------------------------------------------------------------
Goto(p, step) == pc' = [pc EXCEPT ![p] = step]
Report(p, outcome) == result' = [result EXCEPT ![p] = outcome]

\* Process p has added its agent's worktree and not removed it.
InWorktree(p) ==
    pc[p] \in {"run", "commit", "merge", "abort", "freeing", "removing", "remove"}

\* Process p's agent may have locks in its name.
HasLocks(p) == pc[p] \in {"add", "run", "commit", "merge", "abort", "freeing",
                          "remove", "free"}

\* FanoutCoordinated goes on to its next task, of which it is told the symbols.
NextTask(p, S) ==
    /\ pc[p] = "idle"
    /\ agent[p] < MaxTasks
    /\ S # {}
    /\ Goto(p, "claim")
    /\ agent' = [agent EXCEPT ![p] = @ + 1]
    /\ syms' = [syms EXCEPT ![p] = S]
    /\ Report(p, "pending")
    /\ UNCHANGED <<disk, left>>

\* It returns; the process may start another fan-out later.
EndFanout(p) ==
    /\ pc[p] = "idle"
    /\ agent[p] # 0
    /\ agent' = [agent EXCEPT ![p] = 0]
    /\ syms' = [syms EXCEPT ![p] = {}]
    /\ Report(p, "pending")
    /\ UNCHANGED <<disk, pc, left>>

\* Claim: a symbol does not exist, or its lock cannot be written.
ClaimFails(p) ==
    /\ pc[p] = "claim"
    /\ "symbol" \in Faults
    /\ Goto(p, "idle")
    /\ Report(p, "refused")
    /\ UNCHANGED <<disk, agent, syms, left>>

\* The symbols whose lock stands in the way of process p's current agent.
Blockers(p) == {s \in syms[p] : lock[s] \notin {0, agent[p]} /\ s \in live}

\* Acquire's first pass: the claim is blocked, and the task does not run.
Blocked(p) ==
    /\ pc[p] = "claim"
    /\ Blockers(p) # {}
    /\ Goto(p, "idle")
    /\ Report(p, "blocked")
    /\ UNCHANGED <<disk, agent, syms, left>>

\* ... or it is not: every symbol is free, expired, or the agent's already.
Acquirable(p) ==
    /\ pc[p] = "claim"
    /\ Blockers(p) = {}
    /\ Goto(p, "take")
    /\ UNCHANGED <<disk, agent, syms, result, left>>

WriteLocks(p, S) ==
    /\ lock' = [s \in Symbols |-> IF s \in S THEN agent[p] ELSE lock[s]]
    /\ live' = live \cup S

\* Acquire's second pass writes the locks.
Take(p) ==
    /\ pc[p] = "take"
    /\ WriteLocks(p, syms[p])
    /\ Goto(p, "add")
    /\ UNCHANGED <<trees, repo, agent, syms, result, left>>

\* A lock cannot be written: those written before it are removed again, except
\* where that fails; what is written of this one stays if it names the agent.
TakeFails(p) ==
    /\ pc[p] = "take"
    /\ "lock" \in Faults
    /\ \E gone, kept \in SUBSET syms[p] :
         /\ lock' = [s \in Symbols |-> IF s \in kept THEN agent[p]
                                      ELSE IF s \in gone THEN 0 ELSE lock[s]]
         /\ live' = (live \ gone) \cup kept
         /\ leftLocks' = IF kept = {} THEN leftLocks ELSE leftLocks \cup {agent[p]}
    /\ Goto(p, "idle")
    /\ Report(p, "refused")
    /\ UNCHANGED <<trees, repo, agent, syms, leftTrees, leftMerge>>

\* git worktree add --detach: checks out the branch's head in a new directory.
AddWorktree(p) ==
    /\ pc[p] = "add"
    /\ wt[agent[p]] = "absent"
    /\ wt' = [wt EXCEPT ![agent[p]] = "present"]
    /\ edits' = [edits EXCEPT ![agent[p]] = {}]
    /\ moved' = [moved EXCEPT ![agent[p]] = {}]
    /\ Goto(p, "run")
    /\ UNCHANGED <<locks, repo, agent, syms, result, left>>

\* Mutant of AddFails: the locks are not released.
AddFailsKeepsLocks(p) ==
    /\ pc[p] = "add"
    /\ wt[agent[p]] # "absent" \/ "add" \in Faults
    /\ Goto(p, "idle")
    /\ Report(p, "refused")
    /\ UNCHANGED <<disk, agent, syms, left>>

\* Mutant of AddFails: the worktree is tried again until it can be added.
AddFailsRetries(p) ==
    /\ pc[p] = "add"
    /\ wt[agent[p]] # "absent"
    /\ UNCHANGED vars

\* Mutant of AddFails: the failed claim cleans up the worktree too.
AddFailsRemoves(p) ==
    /\ pc[p] = "add"
    /\ wt[agent[p]] # "absent" \/ "add" \in Faults
    /\ Goto(p, "remove")
    /\ Report(p, "refused")
    /\ UNCHANGED <<disk, agent, syms, left>>

\* It fails, for one thing when git knows a worktree at that path, and a git
\* that is killed leaves what it had made of the worktree by then: Claim
\* releases the agent's locks and returns an error, whatever is there now.  (An
\* empty directory is "absent": git takes it for the next worktree.)
AddFails(p) ==
    /\ pc[p] = "add"
    /\ \/ wt[agent[p]] # "absent" /\ UNCHANGED <<trees, leftTrees>>
       \/ /\ wt[agent[p]] = "absent"
          /\ "add" \in Faults
          /\ \E half \in Trees : wt' = [wt EXCEPT ![agent[p]] = half]
          /\ leftTrees' = {i \in leftTrees \cup {agent[p]} : wt'[i] # "absent"}
          /\ UNCHANGED <<edits, moved>>
    /\ Goto(p, "free")
    /\ Report(p, "refused")
    /\ UNCHANGED <<locks, repo, agent, syms, leftLocks, leftMerge>>

\* The subagent edits one of its symbols in its worktree.
Edit(p, s) ==
    /\ pc[p] = "run"
    /\ s \in syms[p]
    /\ edits' = [edits EXCEPT ![agent[p]] = @ \cup {s}]
    /\ UNCHANGED <<locks, wt, moved, repo, pc, agent, syms, result, left>>

\* It edits the symbol in the repository's own checkout: Write, Edit and Bash
\* take a relative path to be relative to the process's working directory.
StrayEdit(p, s) ==
    /\ pc[p] = "run"
    /\ s \in syms[p]
    /\ "stray" \in Faults
    /\ dirty' = dirty \cup {FileOf[s]}
    /\ UNCHANGED <<locks, trees, merging, pc, agent, syms, result, left>>

\* The subagent returns an error: Release, and nothing is merged.
RunFails(p) ==
    /\ pc[p] = "run"
    /\ Goto(p, "remove")
    /\ Report(p, "failed")
    /\ UNCHANGED <<disk, agent, syms, left>>

\* The subagent is finished: Done.
RunEnds(p) ==
    /\ pc[p] = "run"
    /\ Goto(p, "commit")
    /\ UNCHANGED <<disk, agent, syms, result, left>>

\* git add -A and git commit in the worktree.
Commit(p) ==
    /\ pc[p] = "commit"
    /\ Goto(p, "merge")
    /\ UNCHANGED <<disk, agent, syms, result, left>>

\* One of them fails (a commit hook, say): Done returns at once.
CommitFails(p) ==
    /\ pc[p] = "commit"
    /\ "commit" \in Faults
    /\ Goto(p, "idle")
    /\ Report(p, "unmerged")
    /\ leftLocks' = leftLocks \cup {agent[p]}
    /\ leftTrees' = leftTrees \cup {agent[p]}
    /\ UNCHANGED <<disk, agent, syms, leftMerge>>

\* git refuses to start a merge during another one, and one that would
\* overwrite uncommitted changes.
Unmergeable(i) ==
    \/ merging
    \/ \E s \in edits[i] : FileOf[s] \in dirty

\* The agent's commit lands: the branch moves under the other worktrees.
MergeLands(p) ==
    /\ pc[p] = "merge"
    /\ ~ Unmergeable(agent[p])
    /\ edits[agent[p]] \cap moved[agent[p]] = {}
    /\ moved' = [i \in Agents |-> moved[i] \cup edits[agent[p]]]
    /\ Goto(p, "remove")
    /\ Report(p, "merged")
    /\ UNCHANGED <<locks, wt, edits, repo, agent, syms, left>>

\* Mutant of MergeConflicts: a conflicted merge is not aborted.
MergeConflictsStay(p) ==
    /\ pc[p] = "merge"
    /\ ~ Unmergeable(agent[p])
    /\ edits[agent[p]] \cap moved[agent[p]] # {}
    /\ merging' = TRUE
    /\ Goto(p, "freeing")
    /\ Report(p, "unmerged")
    /\ UNCHANGED <<locks, trees, dirty, agent, syms, left>>

\* The branch has another change of the same symbol: git stops half way.
MergeConflicts(p) ==
    /\ pc[p] = "merge"
    /\ ~ Unmergeable(agent[p])
    /\ edits[agent[p]] \cap moved[agent[p]] # {}
    /\ merging' = TRUE
    /\ Goto(p, "abort")
    /\ Report(p, "unmerged")
    /\ UNCHANGED <<locks, trees, dirty, agent, syms, left>>

\* git does not start the merge.
MergeRefused(p) ==
    /\ pc[p] = "merge"
    /\ Unmergeable(agent[p])
    /\ Goto(p, "abort")
    /\ Report(p, "unmerged")
    /\ UNCHANGED <<disk, agent, syms, left>>

\* What a git merge that stops half way has done: it has begun the merge, or
\* has changed files without having recorded that a merge is under way.
HalfMerge(p) ==
    \/ merging' = TRUE /\ UNCHANGED dirty
    \/ /\ dirty' \in {dirty \cup {FileOf[s] : s \in S} : S \in SUBSET edits[agent[p]]}
       /\ UNCHANGED merging

\* git merge breaks down for a reason of its own, or is killed.
MergeBreaks(p) ==
    /\ pc[p] = "merge"
    /\ "merge" \in Faults
    /\ HalfMerge(p)
    /\ Goto(p, "abort")
    /\ Report(p, "unmerged")
    /\ UNCHANGED <<locks, trees, agent, syms, left>>

\* git rev-parse, which names the commit to merge, fails: mergeAgent returns
\* before the merge, and before its abort.
RevParseFails(p) ==
    /\ pc[p] = "merge"
    /\ "merge" \in Faults
    /\ Goto(p, "freeing")
    /\ Report(p, "unmerged")
    /\ UNCHANGED <<disk, agent, syms, left>>

\* git merge --abort ends whatever merge is under way in the repository.
Abort(p) ==
    /\ pc[p] = "abort"
    /\ merging' = FALSE
    /\ leftMerge' = FALSE
    /\ Goto(p, "freeing")
    /\ UNCHANGED <<locks, trees, dirty, agent, syms, result, leftLocks, leftTrees>>

\* ... unless it fails, which mergeAgent does not look at.
AbortFails(p) ==
    /\ pc[p] = "abort"
    /\ "abort" \in Faults
    /\ leftMerge' = merging
    /\ Goto(p, "freeing")
    /\ UNCHANGED <<disk, agent, syms, result, leftLocks, leftTrees>>

\* What follows removeWorktree: ReleaseAgent, or the end of the task.
AfterRemoval(p) == Goto(p, IF pc[p] = "remove" THEN "free" ELSE "idle")

\* removeWorktree, when git removes it.
RemoveWorktree(p) ==
    /\ pc[p] \in {"remove", "removing"}
    /\ wt' = [wt EXCEPT ![agent[p]] = "absent"]
    /\ edits' = [edits EXCEPT ![agent[p]] = {}]
    /\ moved' = [moved EXCEPT ![agent[p]] = {}]
    /\ leftTrees' = leftTrees \ {agent[p]}
    /\ AfterRemoval(p)
    /\ UNCHANGED <<locks, repo, agent, syms, result, leftLocks, leftMerge>>

\* ... and when it does not: the directory is deleted and git is told to prune,
\* which makes it forget every worktree whose directory is gone.  Either may
\* fail in turn, and neither error is looked at.
RemoveFails(p) ==
    /\ pc[p] \in {"remove", "removing"}
    /\ "remove" \in Faults
    /\ \E rest \in Trees, pruned \in BOOLEAN :
         /\ pruned => rest # "missing"
         /\ wt' = [i \in Agents |-> IF i = agent[p] THEN rest
                                   ELSE IF pruned /\ wt[i] = "missing" THEN "absent"
                                   ELSE wt[i]]
    /\ leftTrees' = {i \in leftTrees \cup {agent[p]} : wt'[i] # "absent"}
    /\ AfterRemoval(p)
    /\ UNCHANGED <<locks, edits, moved, repo, agent, syms, result, leftLocks, leftMerge>>

\* What follows ReleaseAgent: the removal, or the end of the task.
AfterRelease(p) == Goto(p, IF pc[p] = "free" THEN "idle" ELSE "removing")

\* ReleaseAgent removes every lock in the agent's name.
Free(p) ==
    /\ pc[p] \in {"free", "freeing"}
    /\ lock' = [s \in Symbols |-> IF lock[s] = agent[p] THEN 0 ELSE lock[s]]
    /\ live' = {s \in live : lock[s] # agent[p]}
    /\ leftLocks' = leftLocks \ {agent[p]}
    /\ AfterRelease(p)
    /\ UNCHANGED <<trees, repo, agent, syms, result, leftTrees, leftMerge>>

\* It cannot remove some of them, of which it says nothing, or cannot read the
\* directory: then a task that was merged is reported as not merged.
FreeFails(p) ==
    /\ pc[p] \in {"free", "freeing"}
    /\ "release" \in Faults
    /\ \E kept \in SUBSET Symbols :
         /\ lock' = [s \in Symbols |->
                        IF lock[s] = agent[p] /\ s \notin kept THEN 0 ELSE lock[s]]
         /\ live' = {s \in live : lock[s] # agent[p] \/ s \in kept}
         /\ \/ UNCHANGED result
            \/ /\ kept = Symbols /\ pc[p] = "free" /\ result[p] = "merged"
               /\ Report(p, "unmerged")
    /\ leftLocks' = leftLocks \cup {agent[p]}
    /\ AfterRelease(p)
    /\ UNCHANGED <<trees, repo, agent, syms, leftTrees, leftMerge>>

\* A lock reaches its expiry.
Expire(s) ==
    /\ s \in live
    /\ live' = live \ {s}
    /\ UNCHANGED <<lock, trees, repo, pc, agent, syms, result, left>>

\* Process p dies, in the middle of a step perhaps, and is started again:
\* nothing on disk is cleaned up.
Crash(p) ==
    /\ pc[p] # "idle"
    /\ "crash" \in Faults
    /\ Goto(p, "idle")
    /\ agent' = [agent EXCEPT ![p] = 0]
    /\ syms' = [syms EXCEPT ![p] = {}]
    /\ Report(p, "pending")
    /\ \E S \in SUBSET (IF pc[p] = "take" THEN syms[p] ELSE {}) :
         /\ WriteLocks(p, S)
         /\ leftLocks' = IF HasLocks(p) \/ S # {} THEN leftLocks \cup {agent[p]}
                         ELSE leftLocks
    /\ LET adding == pc[p] = "add" /\ wt[agent[p]] = "absent" IN
         /\ \/ UNCHANGED wt
            \/ /\ adding \/ pc[p] \in {"remove", "removing"}
               /\ \E half \in Trees : wt' = [wt EXCEPT ![agent[p]] = half]
         /\ leftTrees' = IF adding \/ InWorktree(p)
                         THEN {i \in leftTrees \cup {agent[p]} : wt'[i] # "absent"}
                         ELSE leftTrees
    /\ \/ UNCHANGED repo
       \/ pc[p] = "merge" /\ HalfMerge(p)
    /\ leftMerge' = (leftMerge \/ (merging' /\ pc[p] \in {"merge", "abort"}))
    /\ UNCHANGED <<edits, moved>>

\* What the code of FanoutCoordinated does next in process p.
Proceed(p) ==
    \/ ClaimFails(p) \/ Blocked(p) \/ Acquirable(p) \/ Take(p) \/ TakeFails(p)
    \/ AddWorktree(p) \/ AddFails(p)
    \/ RunFails(p) \/ RunEnds(p)
    \/ Commit(p) \/ CommitFails(p)
    \/ MergeLands(p) \/ MergeConflicts(p) \/ MergeRefused(p) \/ MergeBreaks(p)
    \/ RevParseFails(p) \/ Abort(p) \/ AbortFails(p)
    \/ RemoveWorktree(p) \/ RemoveFails(p) \/ Free(p) \/ FreeFails(p)

Next ==
    \/ \E p \in Procs :
         \/ \E S \in SUBSET Symbols : NextTask(p, S)
         \/ EndFanout(p)
         \/ \E s \in Symbols : Edit(p, s) \/ StrayEdit(p, s)
         \/ Proceed(p)
         \/ Crash(p)
    \/ \E s \in Symbols : Expire(s)

Spec == Init /\ [][Next]_vars

\* The code goes on: every git command ends, and so does every subagent turn
\* (assuming that the model stops asking for tools: nothing else bounds the
\* agent's loop), and no step waits for another process.
FairSpec == Spec /\ \A p \in Procs : WF_vars(Proceed(p))
--------------------------------------------------------------------------------
(***************************************************************************)
(* A subagent has its worktree to itself, and has it for as long as it     *)
(* runs, commits and merges: another process whose agent has the same name *)
(* neither works in it nor removes it.                                     *)
(***************************************************************************)
OneTenant ==
    /\ \A p \in Procs : InWorktree(p) => wt[agent[p]] = "present"
    /\ \A p, q \in Procs :
         p # q /\ InWorktree(p) /\ InWorktree(q) => agent[p] # agent[q]

(***************************************************************************)
(* When no fan-out is at work the disk is clean, whatever was blocked,     *)
(* failed, conflicted or expired: a lock, a worktree or a half-done merge  *)
(* that is still there is one that a death, or a failure to write, add,    *)
(* commit, abort, remove or release left of that very agent, and that no   *)
(* later task has cleaned up since.                                        *)
(***************************************************************************)
QuietIsClean ==
    (\A p \in Procs : pc[p] = "idle") =>
        /\ \A s \in Symbols : lock[s] \in leftLocks \cup {0}
        /\ \A i \in Agents : wt[i] # "absent" => i \in leftTrees
        /\ merging => leftMerge

(***************************************************************************)
(* A task that is taken up is reported: the fan-out goes on to the next.   *)
(***************************************************************************)
TasksEnd ==
    \A p \in Procs : pc[p] = "claim" ~> pc[p] = "idle"

--------------------------------------------------------------------------------
(***************************************************************************)
(* The inductive invariant: everything on disk has somebody who is still   *)
(* going to clean it up, or was left by a failure.                         *)
(***************************************************************************)
CleanupInv ==
    /\ \A s \in Symbols : lock[s] # 0 =>
         lock[s] \in leftLocks \/ \E p \in Procs : HasLocks(p) /\ agent[p] = lock[s]
    /\ \A i \in Agents : wt[i] # "absent" =>
         i \in leftTrees \/ \E p \in Procs : InWorktree(p) /\ agent[p] = i
    /\ merging => leftMerge \/ \E p \in Procs : pc[p] = "abort"

BusyInv == \A p \in Procs : pc[p] # "idle" => agent[p] # 0

IInv == TypeOK /\ BusyInv /\ OneTenant /\ CleanupInv
================================================================================
