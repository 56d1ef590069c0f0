--------------------------------- MODULE Fanout ---------------------------------
(***************************************************************************)
(* Fan-outs of one or several OpenPlus processes on one machine: RunAll of *)
(* orchestrate/subagent.go over the worktrees of orchestrate/worktree.go,  *)
(* for /subagents (runtime/fanout.go), and without worktrees the samples   *)
(* and the ranking of /max (orchestrate/maxmode.go).                       *)
(*                                                                         *)
(* The worktrees lie in the system's temporary directory under names made  *)
(* of the task and of a number that every fan-out counts from one, so two  *)
(* fan-outs may want the same directory.  A git command is one step.       *)
(***************************************************************************)
EXTENDS Processes, Integers, FiniteSets

CONSTANTS
    MaxSubagents,       \* Session.MaxSubagents
    DefaultSamples,     \* of maxmode.go: what a request for none gets,
    MaxSamples,         \* and what a request for more gets
    Parallel,           \* Session.MaxSubagentParallel of each, or what 0 stands for
    Impatient,          \* bound: the processes whose fan-outs may be cancelled
    MaxFanouts,         \* bound: how many fan-outs there are in all
    MaxCrashes          \* bound: how many processes die

ASSUME FanoutAssumption ==
    /\ MaxSubagents \in Nat \ {0}
    /\ DefaultSamples \in Nat \ {0}
    /\ MaxSamples \in Nat /\ MaxSamples >= DefaultSamples
    /\ Parallel \in [Procs -> Nat \ {0}]
    /\ MaxFanouts \in Nat /\ MaxCrashes \in Nat

Most == IF MaxSubagents > MaxSamples THEN MaxSubagents ELSE MaxSamples
Tasks == 1..Most

VARIABLES
    inRepo,     \* whether the project is a git repository
    job,        \* what each process does: "idle", "fan", "max" or "judge"
    place,      \* where each task is, "none" when there is no such task
    seq,        \* WorktreeIsolator.seq
    dir,        \* each task's directory, or NoDir
    result,     \* what came of each task
    cancelled,  \* the processes whose fan-out's context has ended
    winner,     \* the candidate /max last returned, or 0
    dirs,       \* the worktree directories that exist
    known,      \* those git has registered
    leaked,     \* those whose removal was cut short or failed
    fanouts,    \* how many fan-outs there have been
    crashes     \* how many processes have died

NoDir == <<0, 0>>

diskVars == <<dirs, known, leaked>>
taskVars == <<place, seq, dir, result>>
jobVars == <<job, cancelled, winner, fanouts>>
fanVars == <<inRepo, jobVars, taskVars, diskVars, crashes>>

Dirs == Tasks \X (1..Most)

FanTypeOK ==
    /\ inRepo \in BOOLEAN
    /\ job \in [Procs -> {"idle", "fan", "max", "judge"}]
    /\ place \in [Procs -> [Tasks -> {"none", "queued", "slot", "run", "release", "done"}]]
    /\ seq \in [Procs -> 0..Most]
    /\ dir \in [Procs -> [Tasks -> Dirs \cup {NoDir}]]
    /\ result \in [Procs -> [Tasks -> {"none", "text", "blank", "error"}]]
    /\ cancelled \subseteq Procs
    /\ winner \in [Procs -> 0..Most]
    /\ dirs \subseteq Dirs /\ known \subseteq Dirs /\ leaked \subseteq Dirs
    /\ fanouts \in 0..MaxFanouts
    /\ crashes \in 0..MaxCrashes

Blank(value) == [p \in Procs |-> [i \in Tasks |-> value]]

FanInit ==
    /\ inRepo \in BOOLEAN
    /\ job = [p \in Procs |-> "idle"]
    /\ place = Blank("none") /\ seq = [p \in Procs |-> 0]
    /\ dir = Blank(NoDir) /\ result = Blank("none")
    /\ cancelled = {} /\ winner = [p \in Procs |-> 0]
    /\ dirs = {} /\ known = {} /\ leaked = {}
    /\ fanouts = 0 /\ crashes = 0

-----------------------------------------------------------------------------
\* RunAll.

\* ClampSamples: what a number of samples is changed to.
ClampSamples(n) ==
    IF n < 1 THEN DefaultSamples ELSE IF n > MaxSamples THEN MaxSamples ELSE n

Start(p, kind, n) ==
    /\ job[p] = "idle"
    /\ fanouts < MaxFanouts
    /\ fanouts' = fanouts + 1
    /\ job' = [job EXCEPT ![p] = kind]
    /\ place' = [place EXCEPT ![p] = [i \in Tasks |-> IF i <= n THEN "queued" ELSE "none"]]
    /\ seq' = [seq EXCEPT ![p] = 0]
    /\ dir' = [dir EXCEPT ![p] = [i \in Tasks |-> NoDir]]
    /\ result' = [result EXCEPT ![p] = [i \in Tasks |-> "none"]]
    /\ winner' = [winner EXCEPT ![p] = 0]
    /\ cancelled' = cancelled \ {p}
    /\ UNCHANGED <<inRepo, diskVars, crashes>>

\* More prompts than the limit are refused, and none at all.
StartFan(p, n) == n \in 1..MaxSubagents /\ Start(p, "fan", n)

StartMax(p, n) == Start(p, "max", ClampSamples(n))

Isolates(p) == job[p] = "fan" /\ inRepo

Move(p, i, to) == place' = [place EXCEPT ![p][i] = to]
Answer(p, i, r) == result' = [result EXCEPT ![p][i] = r]

\* Mutant of TakeSlot: no task gives its slot back.
TakeSlotForGood(p, i) ==
    /\ place[p][i] = "queued"
    /\ Cardinality({k \in Tasks : place[p][k] \in {"slot", "run", "release", "done"}})
         < Parallel[p]
    /\ Move(p, i, "slot")
    /\ UNCHANGED <<inRepo, jobVars, seq, dir, result, diskVars, crashes>>

\* The task holds a slot until its worktree is released.
TakeSlot(p, i) ==
    /\ place[p][i] = "queued"
    /\ Cardinality({k \in Tasks : place[p][k] \in {"slot", "run", "release"}}) < Parallel[p]
    /\ Move(p, i, "slot")
    /\ UNCHANGED <<inRepo, jobVars, seq, dir, result, diskVars, crashes>>

\* The context ends while the task is queued.
LeaveQueue(p, i) ==
    /\ place[p][i] = "queued"
    /\ p \in cancelled
    /\ Move(p, i, "done")
    /\ Answer(p, i, "error")
    /\ UNCHANGED <<inRepo, jobVars, seq, dir, diskVars, crashes>>

WorkInPlace(p, i) ==
    /\ place[p][i] = "slot"
    /\ ~Isolates(p)
    /\ Move(p, i, "run")
    /\ UNCHANGED <<inRepo, jobVars, seq, dir, result, diskVars, crashes>>

Wanted(p, i) == <<i, seq[p] + 1>>

\* Mutant of Isolate: git is made to use a directory that is there.
IsolateForce(p, i) ==
    /\ place[p][i] = "slot"
    /\ Isolates(p)
    /\ seq' = [seq EXCEPT ![p] = @ + 1]
    /\ dirs' = dirs \cup {Wanted(p, i)}
    /\ known' = known \cup {Wanted(p, i)}
    /\ dir' = [dir EXCEPT ![p][i] = Wanted(p, i)]
    /\ Move(p, i, "run")
    /\ UNCHANGED <<inRepo, jobVars, result, leaked, crashes>>

\* git worktree add takes a name that is neither on disk nor registered.
Isolate(p, i) ==
    /\ place[p][i] = "slot"
    /\ Isolates(p)
    /\ Wanted(p, i) \notin dirs \cup known
    /\ seq' = [seq EXCEPT ![p] = @ + 1]
    /\ dirs' = dirs \cup {Wanted(p, i)}
    /\ known' = known \cup {Wanted(p, i)}
    /\ dir' = [dir EXCEPT ![p][i] = Wanted(p, i)]
    /\ Move(p, i, "run")
    /\ UNCHANGED <<inRepo, jobVars, result, leaked, crashes>>

\* git refuses or fails; one that is killed by the end of the context leaves
\* what it had made, and nobody releases it.
IsolateFails(p, i) ==
    /\ place[p][i] = "slot"
    /\ Isolates(p)
    /\ seq' = [seq EXCEPT ![p] = @ + 1]
    /\ \/ UNCHANGED diskVars
       \/ /\ p \in cancelled
          /\ Wanted(p, i) \notin dirs \cup known
          /\ dirs' = dirs \cup {Wanted(p, i)}
          /\ known' \in {known, known \cup {Wanted(p, i)}}
          /\ leaked' = leaked \cup {Wanted(p, i)}
    /\ Move(p, i, "done")
    /\ Answer(p, i, "error")
    /\ UNCHANGED <<inRepo, jobVars, dir, crashes>>

\* Mutant of RunEnds: a task that failed is not cleaned up after.
RunEndsNoRelease(p, i, r) ==
    /\ place[p][i] = "run"
    /\ Answer(p, i, r)
    /\ Move(p, i, IF dir[p][i] = NoDir \/ r = "error" THEN "done" ELSE "release")
    /\ UNCHANGED <<inRepo, jobVars, seq, dir, diskVars, crashes>>

\* The subagent, or the generation, has its text or an error.
RunEnds(p, i, r) ==
    /\ place[p][i] = "run"
    /\ Answer(p, i, r)
    /\ Move(p, i, IF dir[p][i] = NoDir THEN "done" ELSE "release")
    /\ UNCHANGED <<inRepo, jobVars, seq, dir, diskVars, crashes>>

\* git worktree remove; or, when that fails, the directory is deleted, as far
\* as possible, and git forgets the ones that are gone, unless that fails too.
Release(p, i) ==
    /\ place[p][i] = "release"
    /\ LET d == dir[p][i]
       IN  \/ /\ dirs' = dirs \ {d} /\ known' = known \ {d} /\ leaked' = leaked
           \/ /\ dirs' = dirs \ {d} /\ known' = known \cap dirs' /\ leaked' = leaked
           \/ /\ dirs' \in {dirs, dirs \ {d}}
              /\ known' \in {known, known \cap dirs'}
              /\ leaked' = IF d \in dirs' \cup known' THEN leaked \cup {d} ELSE leaked
    /\ Move(p, i, "done")
    /\ UNCHANGED <<inRepo, jobVars, seq, dir, result, crashes>>

AllDone(p) == \A i \in Tasks : place[p][i] \in {"none", "done"}

\* What RunAll knew of its tasks is gone when it returns.
Forget(p) ==
    /\ seq' = [seq EXCEPT ![p] = 0]
    /\ place' = [place EXCEPT ![p] = [i \in Tasks |-> "none"]]
    /\ dir' = [dir EXCEPT ![p] = [i \in Tasks |-> NoDir]]
    /\ result' = [result EXCEPT ![p] = [i \in Tasks |-> "none"]]
    /\ cancelled' = cancelled \ {p}

\* The results of a fan-out are reported in the order of the prompts.
EndFan(p) ==
    /\ job[p] = "fan"
    /\ AllDone(p)
    /\ job' = [job EXCEPT ![p] = "idle"]
    /\ Forget(p)
    /\ UNCHANGED <<inRepo, winner, fanouts, diskVars, crashes>>

-----------------------------------------------------------------------------
\* /max.

Samples(p) == {i \in Tasks : place[p][i] # "none"}
Usable(p) == {i \in Tasks : result[p][i] = "text"}

Choose(p, i) ==
    /\ winner' = [winner EXCEPT ![p] = i]
    /\ job' = [job EXCEPT ![p] = "idle"]
    /\ UNCHANGED <<inRepo, cancelled, fanouts, taskVars, diskVars, crashes>>

\* A single sample, or the only one there is, is not judged; no usable sample
\* among several is an error.
Sampled(p) ==
    /\ job[p] = "max"
    /\ AllDone(p)
    /\ \/ \E i \in Samples(p) :
            /\ Samples(p) = {i}
            /\ Choose(p, IF result[p][i] = "error" THEN 0 ELSE i)
       \/ Cardinality(Samples(p)) > 1 /\ Usable(p) = {} /\ Choose(p, 0)
       \/ /\ Cardinality(Samples(p)) > 1
          /\ \E i \in Usable(p) : Usable(p) = {i} /\ Choose(p, i)
       \/ /\ Cardinality(Usable(p)) > 1
          /\ job' = [job EXCEPT ![p] = "judge"]
          /\ UNCHANGED <<inRepo, cancelled, winner, fanouts, taskVars, diskVars,
                         crashes>>

\* Mutant of Rank: any number the judge writes is taken.
RankAny(p, number) ==
    /\ job[p] = "judge"
    /\ Choose(p, number)

\* The judge fails, writes nothing that can be read (0), or the first number in
\* its reply is this one: it has to be one that was offered.
Rank(p, number) ==
    /\ job[p] = "judge"
    /\ Choose(p, IF number \in Usable(p) THEN number ELSE 0)

-----------------------------------------------------------------------------

\* The caller ends the context of a fan-out; a session never does.
Cancel(p) ==
    /\ p \in Impatient \ cancelled
    /\ job[p] \in {"fan", "max"}
    /\ cancelled' = cancelled \cup {p}
    /\ UNCHANGED <<inRepo, job, winner, fanouts, taskVars, diskVars, crashes>>

\* The process dies, and is started again.
Crash(p) ==
    /\ job[p] # "idle"
    /\ crashes < MaxCrashes
    /\ crashes' = crashes + 1
    /\ job' = [job EXCEPT ![p] = "idle"]
    /\ Forget(p)
    /\ leaked' = leaked \cup ({dir[p][i] : i \in Tasks} \ {NoDir})
    /\ UNCHANGED <<inRepo, winner, fanouts, dirs, known>>

\* What RunAll does by itself for one task.
TaskStep(p, i) ==
    \/ TakeSlot(p, i)
    \/ LeaveQueue(p, i)
    \/ WorkInPlace(p, i)
    \/ Isolate(p, i)
    \/ IsolateFails(p, i)
    \/ \E r \in {"text", "error"} \cup (IF job[p] = "max" THEN {"blank"} ELSE {}) :
         RunEnds(p, i, r)
    \/ Release(p, i)

JobStep(p) ==
    \/ \E i \in Tasks : TaskStep(p, i)
    \/ EndFan(p)
    \/ Sampled(p)
    \/ \E number \in 0..(Most + 1) : Rank(p, number)

-----------------------------------------------------------------------------

(***************************************************************************)
(* A subagent has its worktree to itself, whatever other fan-outs and      *)
(* processes do, and the worktree is there while it works                  *)
(* (worktree.go:30-63): no release and no leftover of another takes it     *)
(* away or is shared.                                                      *)
(***************************************************************************)
OwnWorktree ==
    \A p, q \in Procs : \A i, j \in Tasks :
        /\ dir[p][i] # NoDir /\ place[p][i] \in {"run", "release"}
        /\ Isolates(p)
        => /\ dir[p][i] \in dirs \cap known
           /\ dir[q][j] = dir[p][i] /\ place[q][j] \in {"run", "release"} => p = q /\ i = j

(***************************************************************************)
(* A worktree that no subagent is using is left behind, on disk or in      *)
(* git's books, only by a process that died, a git that was killed while   *)
(* it made one, or a removal that failed twice (worktree.go:46-60): no     *)
(* failure of a subagent leaves one.                                       *)
(***************************************************************************)
NothingLeft ==
    \A d \in (dirs \cup known) \ leaked :
        \E p \in Procs, i \in Tasks : dir[p][i] = d /\ place[p][i] \in {"run", "release"}

(***************************************************************************)
(* What /max returns was generated without an error; unless only one       *)
(* sample was asked for it is not blank; and with several to choose from   *)
(* it is one that the judge was offered (maxmode.go:148-231, 282-306).     *)
(***************************************************************************)
BestWasOffered ==
    \A p \in Procs :
        winner[p] # 0 /\ job[p] = "idle" /\ Samples(p) # {} =>
            \/ winner[p] \in Usable(p)
            \/ Samples(p) = {winner[p]} /\ result[p][winner[p]] = "blank"
===============================================================================
