-------------------------------- MODULE SharedProofs --------------------------------
(***************************************************************************)
(* Proofs about what several OpenPlus processes share: the worktrees of    *)
(* fan-outs and the runtimes of workflows (Orchestrate), and the memory of *)
(* a project (Recall).  The numbers of processes, tasks, chunks and edits  *)
(* are arbitrary.                                                          *)
(***************************************************************************)
EXTENDS Orchestrate, Recall, FiniteSetTheorems, FunctionTheorems, TLAPS

-----------------------------------------------------------------------------
(***************************************************************************)
(* The inductive invariant of fan-outs.                                    *)
(***************************************************************************)

\* The tasks that had their try at a worktree: no fewer than the names used.
Passed(p) == {i \in Tasks : place[p][i] \in {"run", "release", "done"}}
Counted == \A p \in Procs : seq[p] <= Cardinality(Passed(p))

\* What the place of a task tells about its directory and its result.
Shaped ==
    \A p \in Procs :
        /\ job[p] \in {"idle", "judge"} => AllDone(p)
        /\ \A i \in Tasks :
             /\ place[p][i] \in {"none", "queued", "slot"} => dir[p][i] = NoDir
             /\ place[p][i] = "run" /\ Isolates(p) => dir[p][i] # NoDir
             /\ place[p][i] = "release" => dir[p][i] # NoDir
             /\ place[p][i] \in {"release", "done"} => result[p][i] # "none"

\* The directory of a task that works there, or is being cleaned up after.
InUse(p, i) == dir[p][i] # NoDir /\ place[p][i] \in {"run", "release"}

Owned ==
    \A p, q \in Procs : \A i, j \in Tasks :
        InUse(p, i) =>
            /\ dir[p][i] \in dirs \cap known
            /\ InUse(q, j) /\ dir[q][j] = dir[p][i] => p = q /\ i = j

FanInv ==
    FanTypeOK /\ Counted /\ Shaped /\ Owned /\ NothingLeft /\ BestWasOffered

(***************************************************************************)
(* The inductive invariant of workflows.                                   *)
(***************************************************************************)

\* A phase that ended well, within its attempts.
Good(i) == ~report[i].failed /\ report[i].tries \in 1..(Workflow_.retries + 1)

\* The attempts that the phase has used up.
Attempts ==
    /\ flow = "try" => tries <= Workflow_.retries
    /\ flow = "run" => tries \in 1..(Workflow_.retries + 1)

\* As long as the workflow goes on, every phase so far ended well.
Going ==
    flow # "idle" =>
        /\ run > 0 /\ ok
        /\ k = Len(report) + 1 /\ last = Len(report)
        /\ \A i \in 1..Len(report) : Good(i)
        /\ flow \in {"try", "run"} => k <= Workflow_.phases

\* A runtime is struck, and a call is late, only by a run up to this one.
Struck ==
    /\ ended \subseteq 1..run
    /\ \A g \in slow : g[1] <= run
    /\ struck # {} => \E q \in ended : q <= run

FlowInv == FlowTypeOK /\ Attempts /\ Going /\ Struck /\ ReportTells /\ OnlyEndsSpoil

(***************************************************************************)
(* A fan-out, or a fault in one.                                           *)
(***************************************************************************)
Opens(p) == \E n \in Int : StartFan(p, n) \/ StartMax(p, n)
FanStep(p) == Opens(p) \/ JobStep(p) \/ Cancel(p) \/ Crash(p)

(***************************************************************************)
(* Tasks are counted from one, and no worktree has the name NoDir.         *)
(***************************************************************************)
LEMMA TaskFacts ==
    /\ Most \in Nat
    /\ Tasks \subseteq Nat
    /\ NoDir \notin Dirs
    /\ IsFiniteSet(Tasks) /\ Cardinality(Tasks) = Most
  <1>1. Most \in Nat
    BY FanoutAssumption DEF Most
  <1>2. IsFiniteSet(Tasks) /\ Cardinality(Tasks) = Most
    BY <1>1, FS_Interval DEF Tasks
  <1> QED  BY <1>1, <1>2 DEF Tasks, NoDir, Dirs

(***************************************************************************)
(* Only the task that moves is elsewhere afterwards; and only the one that *)
(* answers has a new result.                                               *)
(***************************************************************************)
LEMMA MoveFacts ==
    ASSUME FanTypeOK, NEW p \in Procs, NEW i \in Tasks, NEW to, Move(p, i, to)
    PROVE  /\ place'[p][i] = to
           /\ \A q \in Procs, j \in Tasks :
                q # p \/ j # i => place'[q][j] = place[q][j]
           /\ to \in {"none", "queued", "slot", "run", "release", "done"} =>
                place' \in [Procs -> [Tasks -> {"none", "queued", "slot", "run",
                                                "release", "done"}]]
  BY DEF Move, FanTypeOK

LEMMA AnswerFacts ==
    ASSUME FanTypeOK, NEW p \in Procs, NEW i \in Tasks, NEW r, Answer(p, i, r)
    PROVE  /\ result'[p][i] = r
           /\ \A q \in Procs, j \in Tasks :
                q # p \/ j # i => result'[q][j] = result[q][j]
           /\ r \in {"none", "text", "blank", "error"} =>
                result' \in [Procs -> [Tasks -> {"none", "text", "blank", "error"}]]
  BY DEF Answer, FanTypeOK

(***************************************************************************)
(* The names a fan-out uses are as many as the tasks that had their try:   *)
(* there is one left for the next.                                         *)
(***************************************************************************)
LEMMA PassedFacts ==
    ASSUME FanTypeOK, NEW p \in Procs
    PROVE  /\ IsFiniteSet(Passed(p)) /\ Cardinality(Passed(p)) \in Nat
           /\ Cardinality(Passed(p)) <= Most
           /\ \A i \in Tasks \ Passed(p) :
                /\ Cardinality(Passed(p)) < Most
                /\ IsFiniteSet(Passed(p) \cup {i})
                /\ Cardinality(Passed(p) \cup {i}) = Cardinality(Passed(p)) + 1
  <1>1. Passed(p) \in SUBSET Tasks
    BY DEF Passed
  <1>2. IsFiniteSet(Passed(p)) /\ Cardinality(Passed(p)) <= Most
    BY <1>1, FS_Subset, TaskFacts
  <1>3. Cardinality(Passed(p)) \in Nat
    BY <1>2, FS_CardinalityType
  <1>4. ASSUME NEW i \in Tasks \ Passed(p)
        PROVE  /\ Cardinality(Passed(p)) < Most
               /\ IsFiniteSet(Passed(p) \cup {i})
               /\ Cardinality(Passed(p) \cup {i}) = Cardinality(Passed(p)) + 1
    <2>1. /\ IsFiniteSet(Passed(p) \cup {i})
          /\ Cardinality(Passed(p) \cup {i}) = Cardinality(Passed(p)) + 1
      BY <1>2, FS_AddElement, Zenon
    <2>2. Passed(p) \cup {i} \in SUBSET Tasks
      BY <1>1
    <2>3. Cardinality(Passed(p) \cup {i}) <= Most
      BY <2>2, FS_Subset, TaskFacts
    <2> QED  BY <2>1, <2>3, <1>3, TaskFacts
  <1> QED  BY <1>2, <1>3, <1>4

(***************************************************************************)
(* The steps of fan-outs, one by one.                                      *)
(***************************************************************************)
LEMMA StepCases ==
    ASSUME NEW p \in Procs, FanStep(p)
    PROVE  \/ \E kind \in {"fan", "max"}, n \in Int : Start(p, kind, n)
           \/ \E i \in Tasks : TakeSlot(p, i) \/ WorkInPlace(p, i) \/ LeaveQueue(p, i)
           \/ \E i \in Tasks : Isolate(p, i)
           \/ \E i \in Tasks : IsolateFails(p, i)
           \/ \E i \in Tasks, r \in {"text", "error", "blank"} : RunEnds(p, i, r)
           \/ \E i \in Tasks : Release(p, i)
           \/ EndFan(p)
           \/ Sampled(p)
           \/ \E number \in Int : Rank(p, number)
           \/ Cancel(p)
           \/ Crash(p)
  <1>1. ASSUME NEW n \in Int, StartFan(p, n) \/ StartMax(p, n)
        PROVE  \E kind \in {"fan", "max"}, m \in Int : Start(p, kind, m)
    <2>1. ClampSamples(n) \in Int
      BY FanoutAssumption DEF ClampSamples
    <2> QED  BY <1>1, <2>1 DEF StartFan, StartMax
  <1>2. ASSUME NEW i \in Tasks, TaskStep(p, i)
        PROVE  \/ TakeSlot(p, i) \/ WorkInPlace(p, i) \/ LeaveQueue(p, i)
               \/ Isolate(p, i) \/ IsolateFails(p, i) \/ Release(p, i)
               \/ \E r \in {"text", "error", "blank"} : RunEnds(p, i, r)
    BY <1>2 DEF TaskStep
  <1>3. CASE Opens(p)
    BY <1>1, <1>3 DEF Opens
  <1>4. CASE JobStep(p)
    <2>1. \A number \in 0..(Most + 1) : number \in Int
      OBVIOUS
    <2>2. CASE \E i \in Tasks : TaskStep(p, i)
      BY <1>2, <2>2
    <2>3. CASE \E number \in 0..(Most + 1) : Rank(p, number)
      BY <2>1, <2>3
    <2> QED  BY <1>4, <2>2, <2>3 DEF JobStep
  <1> QED  BY <1>3, <1>4 DEF FanStep

LEMMA FanStarts == FanInit => FanInv
  <1> SUFFICES ASSUME FanInit
               PROVE  FanInv
    OBVIOUS
  <1>1. \A p \in Procs, i \in Tasks :
          place[p][i] = "none" /\ dir[p][i] = NoDir /\ result[p][i] = "none"
    BY DEF FanInit, Blank
  <1>2. FanTypeOK
    BY FanoutAssumption, TaskFacts DEF FanInit, FanTypeOK, Blank
  <1>3. Counted
    <2> SUFFICES ASSUME NEW p \in Procs
                 PROVE  seq[p] <= Cardinality(Passed(p))
      BY DEF Counted
    <2>1. Cardinality(Passed(p)) \in Nat
      BY <1>2, PassedFacts
    <2>2. seq[p] = 0
      BY DEF FanInit
    <2> QED  BY <2>1, <2>2
  <1>4. Shaped
    BY <1>1 DEF FanInit, Shaped, AllDone
  <1>5. Owned /\ NothingLeft
    BY <1>1 DEF FanInit, Owned, InUse, NothingLeft
  <1>6. BestWasOffered
    BY <1>1 DEF FanInit, BestWasOffered
  <1> QED  BY <1>2, <1>3, <1>4, <1>5, <1>6 DEF FanInv

LEMMA FanTypeStep ==
    ASSUME FanTypeOK, Counted, NEW p \in Procs, FanStep(p)
    PROVE  FanTypeOK'
  <1> USE TaskFacts, MoveFacts, AnswerFacts
  <1>1. ASSUME NEW kind \in {"fan", "max"}, NEW n \in Int, Start(p, kind, n)
        PROVE  FanTypeOK'
    BY <1>1, FanoutAssumption DEF Start, FanTypeOK, diskVars
  <1>2. ASSUME NEW i \in Tasks, TakeSlot(p, i) \/ WorkInPlace(p, i) \/ LeaveQueue(p, i)
        PROVE  FanTypeOK'
    BY <1>2 DEF TakeSlot, WorkInPlace, LeaveQueue, FanTypeOK, diskVars, jobVars
  <1>3. ASSUME NEW i \in Tasks, place[p][i] = "slot"
        PROVE  seq[p] + 1 \in 0..Most /\ Wanted(p, i) \in Dirs
    <2>1. i \in Tasks \ Passed(p)
      BY <1>3 DEF Passed
    <2>2. Cardinality(Passed(p)) \in Nat /\ Cardinality(Passed(p)) < Most
      BY <2>1, PassedFacts
    <2>3. seq[p] <= Cardinality(Passed(p))
      BY DEF Counted
    <2>4. seq[p] \in 0..Most
      BY DEF FanTypeOK
    <2> QED  BY <2>2, <2>3, <2>4 DEF Wanted, Dirs, Tasks
  <1>4. ASSUME NEW i \in Tasks, Isolate(p, i)
        PROVE  FanTypeOK'
    BY <1>4, <1>3 DEF Isolate, FanTypeOK, jobVars
  <1>5. ASSUME NEW i \in Tasks, IsolateFails(p, i)
        PROVE  FanTypeOK'
    BY <1>5, <1>3 DEF IsolateFails, FanTypeOK, jobVars, diskVars
  <1>6. ASSUME NEW i \in Tasks, NEW r \in {"text", "error", "blank"}, RunEnds(p, i, r)
        PROVE  FanTypeOK'
    BY <1>6 DEF RunEnds, FanTypeOK, jobVars, diskVars
  <1>7. ASSUME NEW i \in Tasks, Release(p, i)
        PROVE  FanTypeOK'
    BY <1>7 DEF Release, FanTypeOK, jobVars
  <1>8. ASSUME EndFan(p)
        PROVE  FanTypeOK'
    BY <1>8 DEF EndFan, Forget, FanTypeOK, diskVars
  <1>9. ASSUME NEW i \in 0..Most, Choose(p, i)
        PROVE  FanTypeOK'
    BY <1>9 DEF Choose, FanTypeOK, diskVars, taskVars
  <1>10. ASSUME Sampled(p)
         PROVE  FanTypeOK'
    <2>1. \/ \E i \in 0..Most : Choose(p, i)
          \/ /\ job' = [job EXCEPT ![p] = "judge"]
             /\ UNCHANGED <<inRepo, cancelled, winner, fanouts, taskVars, diskVars, crashes>>
      BY <1>10 DEF Sampled, Samples, Usable, Tasks
    <2> QED  BY <2>1, <1>9 DEF FanTypeOK, diskVars, taskVars
  <1>11. ASSUME NEW number \in Int, Rank(p, number)
         PROVE  FanTypeOK'
    BY <1>11, <1>9 DEF Rank, Usable, Tasks
  <1>12. ASSUME Cancel(p)
         PROVE  FanTypeOK'
    BY <1>12 DEF Cancel, FanTypeOK, diskVars, taskVars
  <1>13. ASSUME Crash(p)
         PROVE  FanTypeOK'
    BY <1>13, FanoutAssumption DEF Crash, Forget, FanTypeOK
  <1> QED
    BY StepCases, <1>1, <1>2, <1>4, <1>5, <1>6, <1>7, <1>8, <1>10, <1>11, <1>12, <1>13

(***************************************************************************)
(* A step of one process leaves the tasks of the others alone.             *)
(***************************************************************************)
Untouched(q) ==
    /\ job'[q] = job[q] /\ seq'[q] = seq[q] /\ winner'[q] = winner[q]
    /\ place'[q] = place[q] /\ dir'[q] = dir[q] /\ result'[q] = result[q]

LEMMA OthersUntouched ==
    ASSUME FanTypeOK, NEW p \in Procs, FanStep(p)
    PROVE  inRepo' = inRepo /\ \A q \in Procs \ {p} : Untouched(q)
  <1> SUFFICES inRepo' = inRepo /\ \A q \in Procs \ {p} : Untouched(q)
    OBVIOUS
  <1> USE DEF FanTypeOK, Untouched, diskVars, taskVars, jobVars, Move, Answer
  <1>1. ASSUME NEW kind \in {"fan", "max"}, NEW n \in Int, Start(p, kind, n)
        PROVE  inRepo' = inRepo /\ \A q \in Procs \ {p} : Untouched(q)
    BY <1>1 DEF Start
  <1>2. ASSUME NEW i \in Tasks, TakeSlot(p, i) \/ WorkInPlace(p, i) \/ LeaveQueue(p, i)
        PROVE  inRepo' = inRepo /\ \A q \in Procs \ {p} : Untouched(q)
    BY <1>2 DEF TakeSlot, WorkInPlace, LeaveQueue
  <1>3. ASSUME NEW i \in Tasks, Isolate(p, i)
        PROVE  inRepo' = inRepo /\ \A q \in Procs \ {p} : Untouched(q)
    BY <1>3 DEF Isolate
  <1>4. ASSUME NEW i \in Tasks, IsolateFails(p, i)
        PROVE  inRepo' = inRepo /\ \A q \in Procs \ {p} : Untouched(q)
    BY <1>4 DEF IsolateFails
  <1>5. ASSUME NEW i \in Tasks, NEW r \in {"text", "error", "blank"}, RunEnds(p, i, r)
        PROVE  inRepo' = inRepo /\ \A q \in Procs \ {p} : Untouched(q)
    BY <1>5 DEF RunEnds
  <1>6. ASSUME NEW i \in Tasks, Release(p, i)
        PROVE  inRepo' = inRepo /\ \A q \in Procs \ {p} : Untouched(q)
    BY <1>6 DEF Release
  <1>7. ASSUME EndFan(p)
        PROVE  inRepo' = inRepo /\ \A q \in Procs \ {p} : Untouched(q)
    BY <1>7 DEF EndFan, Forget
  <1>8. ASSUME NEW i, Choose(p, i)
        PROVE  inRepo' = inRepo /\ \A q \in Procs \ {p} : Untouched(q)
    BY <1>8 DEF Choose
  <1>9. ASSUME Sampled(p)
        PROVE  inRepo' = inRepo /\ \A q \in Procs \ {p} : Untouched(q)
    <2>1. \/ \E i : Choose(p, i)
          \/ /\ job' = [job EXCEPT ![p] = "judge"]
             /\ UNCHANGED <<inRepo, cancelled, winner, fanouts, taskVars, diskVars, crashes>>
      BY <1>9 DEF Sampled
    <2> QED  BY <2>1, <1>8
  <1>10. ASSUME NEW number \in Int, Rank(p, number)
         PROVE  inRepo' = inRepo /\ \A q \in Procs \ {p} : Untouched(q)
    BY <1>10, <1>8 DEF Rank
  <1>11. ASSUME Cancel(p) \/ Crash(p)
         PROVE  inRepo' = inRepo /\ \A q \in Procs \ {p} : Untouched(q)
    BY <1>11 DEF Cancel, Crash, Forget
  <1> QED
    BY StepCases, <1>1, <1>2, <1>3, <1>4, <1>5, <1>6, <1>7, <1>9, <1>10, <1>11

LEMMA CountedStep ==
    ASSUME FanTypeOK, Counted, NEW p \in Procs, FanStep(p)
    PROVE  Counted'
  <1> DEFINE Enough == seq'[p] <= Cardinality(Passed(p)')
  <1>1. Cardinality(Passed(p)') \in Nat
    <2>1. Passed(p)' \in SUBSET Tasks
      BY DEF Passed
    <2> QED  BY <2>1, TaskFacts, FS_Subset, FS_CardinalityType
  <1>2. \A q \in Procs \ {p} : seq'[q] <= Cardinality(Passed(q)')
    <2> SUFFICES ASSUME NEW q \in Procs \ {p}
                 PROVE  seq'[q] <= Cardinality(Passed(q)')
      OBVIOUS
    <2>1. Passed(q)' = Passed(q) /\ seq'[q] = seq[q]
      BY OthersUntouched DEF Untouched, Passed
    <2> QED  BY <2>1 DEF Counted
  <1>3. ASSUME seq'[p] = 0
        PROVE  Enough
    BY <1>1, <1>3
  <1>4. ASSUME seq'[p] = seq[p], Passed(p)' = Passed(p)
        PROVE  Enough
    BY <1>4 DEF Counted
  <1>5. ASSUME NEW i \in Tasks, i \notin Passed(p), Passed(p)' = Passed(p) \cup {i},
               seq'[p] \in {seq[p], seq[p] + 1}
        PROVE  Enough
    <2>1. /\ Cardinality(Passed(p)) \in Nat
          /\ Cardinality(Passed(p)') = Cardinality(Passed(p)) + 1
      BY <1>5, PassedFacts
    <2>2. seq[p] \in Nat /\ seq[p] <= Cardinality(Passed(p))
      BY TaskFacts DEF FanTypeOK, Counted
    <2> QED  BY <1>5, <2>1, <2>2
  <1>6. ASSUME NEW kind \in {"fan", "max"}, NEW n \in Int, Start(p, kind, n)
        PROVE  Enough
    BY <1>6, <1>3 DEF Start, FanTypeOK
  <1>7. ASSUME NEW i \in Tasks, NEW to, Move(p, i, to), seq'[p] \in {seq[p], seq[p] + 1},
               place[p][i] \notin {"run", "release", "done"},
               to \in {"run", "release", "done"}
        PROVE  Enough
    <2>1. i \notin Passed(p) /\ Passed(p)' = Passed(p) \cup {i}
      BY <1>7, MoveFacts DEF Passed
    <2> QED  BY <1>5, <1>7, <2>1
  <1>8. ASSUME NEW i \in Tasks, NEW to, Move(p, i, to), seq' = seq,
               place[p][i] \in {"run", "release", "done"} <=> to \in {"run", "release", "done"}
        PROVE  Enough
    <2>1. Passed(p)' = Passed(p)
      BY <1>8, MoveFacts DEF Passed
    <2> QED  BY <1>4, <1>8, <2>1
  <1>9. ASSUME NEW i \in Tasks, TakeSlot(p, i)
        PROVE  Enough
    BY <1>9, <1>8 DEF TakeSlot
  <1>10. ASSUME NEW i \in Tasks, WorkInPlace(p, i) \/ LeaveQueue(p, i)
         PROVE  Enough
    BY <1>10, <1>7 DEF WorkInPlace, LeaveQueue
  <1>11. ASSUME NEW i \in Tasks, Isolate(p, i) \/ IsolateFails(p, i)
         PROVE  Enough
    <2>1. seq'[p] = seq[p] + 1
      BY <1>11 DEF Isolate, IsolateFails, FanTypeOK
    <2> QED  BY <1>11, <2>1, <1>7 DEF Isolate, IsolateFails
  <1>12. ASSUME NEW i \in Tasks, NEW r \in {"text", "error", "blank"}, RunEnds(p, i, r)
         PROVE  Enough
    BY <1>12, <1>8 DEF RunEnds
  <1>13. ASSUME NEW i \in Tasks, Release(p, i)
         PROVE  Enough
    BY <1>13, <1>8 DEF Release
  <1>14. ASSUME EndFan(p) \/ Crash(p)
         PROVE  Enough
    BY <1>14, <1>3 DEF EndFan, Crash, Forget, FanTypeOK
  <1>15. ASSUME UNCHANGED taskVars
         PROVE  Enough
    BY <1>15, <1>4 DEF taskVars, Passed
  <1>16. ASSUME Sampled(p) \/ (\E number \in Int : Rank(p, number)) \/ Cancel(p)
         PROVE  Enough
    BY <1>15, <1>16 DEF Sampled, Choose, Rank, Cancel
  <1>17. Enough
    BY StepCases, <1>6, <1>9, <1>10, <1>11, <1>12, <1>13, <1>14, <1>16
  <1> QED  BY <1>2, <1>17 DEF Counted

LEMMA ShapedStep ==
    ASSUME FanTypeOK, Counted, Shaped, NEW p \in Procs, FanStep(p)
    PROVE  Shaped'
  <1> DEFINE Fits(i) ==
               /\ place'[p][i] \in {"none", "queued", "slot"} => dir'[p][i] = NoDir
               /\ place'[p][i] = "run" /\ Isolates(p)' => dir'[p][i] # NoDir
               /\ place'[p][i] = "release" => dir'[p][i] # NoDir
               /\ place'[p][i] \in {"release", "done"} => result'[p][i] # "none"
             Well == /\ job'[p] \in {"idle", "judge"} => AllDone(p)'
                     /\ \A i \in Tasks : Fits(i)
  <1>1. \A q \in Procs \ {p} :
          /\ job'[q] \in {"idle", "judge"} => AllDone(q)'
          /\ \A i \in Tasks :
               /\ place'[q][i] \in {"none", "queued", "slot"} => dir'[q][i] = NoDir
               /\ place'[q][i] = "run" /\ Isolates(q)' => dir'[q][i] # NoDir
               /\ place'[q][i] = "release" => dir'[q][i] # NoDir
               /\ place'[q][i] \in {"release", "done"} => result'[q][i] # "none"
    BY OthersUntouched DEF Untouched, Shaped, AllDone, Isolates
  <1>2. ASSUME NEW i \in Tasks, NEW to, Move(p, i, to), job' = job, inRepo' = inRepo,
               place[p][i] \notin {"none", "done"},
               \A j \in Tasks \ {i} : dir'[p][j] = dir[p][j] /\ result'[p][j] = result[p][j],
               Fits(i)
        PROVE  Well
    <2>1. job[p] \notin {"idle", "judge"}
      BY <1>2 DEF Shaped, AllDone
    <2>2. \A j \in Tasks \ {i} : Fits(j)
      BY <1>2, MoveFacts DEF Shaped, Isolates
    <2> QED  BY <1>2, <2>1, <2>2
  <1>3. ASSUME NEW kind \in {"fan", "max"}, NEW n \in Int, Start(p, kind, n)
        PROVE  Well
    BY <1>3 DEF Start, FanTypeOK
  <1>4. ASSUME NEW i \in Tasks, TakeSlot(p, i)
        PROVE  Well
    <2>1. place'[p][i] = "slot" /\ dir'[p][i] = NoDir
      BY <1>4, MoveFacts DEF TakeSlot, Shaped
    <2> QED  BY <1>2, <1>4, <2>1 DEF TakeSlot, jobVars
  <1>5. ASSUME NEW i \in Tasks, WorkInPlace(p, i)
        PROVE  Well
    <2>1. place'[p][i] = "run" /\ ~ Isolates(p)'
      BY <1>5, MoveFacts DEF WorkInPlace, Isolates, jobVars
    <2> QED  BY <1>2, <1>5, <2>1 DEF WorkInPlace, jobVars
  <1>6. ASSUME NEW i \in Tasks, LeaveQueue(p, i) \/ IsolateFails(p, i)
        PROVE  Well
    <2>1. /\ place'[p][i] = "done" /\ result'[p][i] = "error"
          /\ \A j \in Tasks \ {i} : result'[p][j] = result[p][j]
      BY <1>6, MoveFacts, AnswerFacts DEF LeaveQueue, IsolateFails
    <2> QED  BY <1>2, <1>6, <2>1 DEF LeaveQueue, IsolateFails, jobVars
  <1>7. ASSUME NEW i \in Tasks, Isolate(p, i)
        PROVE  Well
    <2>1. place'[p][i] = "run"
      BY <1>7, MoveFacts DEF Isolate
    <2>2. /\ dir'[p][i] = Wanted(p, i)
          /\ \A j \in Tasks \ {i} : dir'[p][j] = dir[p][j]
      BY <1>7 DEF Isolate, FanTypeOK
    <2>3. Wanted(p, i) # NoDir
      BY TaskFacts DEF Wanted, NoDir, Tasks
    <2> QED  BY <1>2, <1>7, <2>1, <2>2, <2>3 DEF Isolate, jobVars
  <1>8. ASSUME NEW i \in Tasks, NEW r \in {"text", "error", "blank"}, RunEnds(p, i, r)
        PROVE  Well
    <2>1. /\ place'[p][i] = IF dir[p][i] = NoDir THEN "done" ELSE "release"
          /\ result'[p][i] = r
          /\ \A j \in Tasks \ {i} : result'[p][j] = result[p][j]
      BY <1>8, MoveFacts, AnswerFacts DEF RunEnds
    <2> QED  BY <1>2, <1>8, <2>1 DEF RunEnds, jobVars
  <1>9. ASSUME NEW i \in Tasks, Release(p, i)
        PROVE  Well
    <2>1. place'[p][i] = "done" /\ result'[p][i] # "none"
      BY <1>9, MoveFacts DEF Release, Shaped
    <2> QED  BY <1>2, <1>9, <2>1 DEF Release, jobVars
  <1>10. ASSUME EndFan(p) \/ Crash(p)
         PROVE  Well
    BY <1>10 DEF EndFan, Crash, Forget, FanTypeOK, AllDone
  <1>11. ASSUME UNCHANGED <<taskVars, inRepo>>, AllDone(p), job'[p] \in {"idle", "judge"}
         PROVE  Well
    BY <1>11 DEF taskVars, Shaped, AllDone, Isolates
  <1>12. ASSUME Sampled(p) \/ \E number \in Int : Rank(p, number)
         PROVE  Well
    <2>1. AllDone(p)
      BY <1>12 DEF Sampled, Rank, Shaped
    <2>2. UNCHANGED <<taskVars, inRepo>> /\ job'[p] \in {"idle", "judge"}
      BY <1>12 DEF Sampled, Rank, Choose, FanTypeOK
    <2> QED  BY <1>11, <2>1, <2>2
  <1>13. ASSUME Cancel(p)
         PROVE  Well
    BY <1>13 DEF Cancel, Shaped, AllDone, taskVars, Isolates
  <1>14. Well
    BY StepCases, <1>3, <1>4, <1>5, <1>6, <1>7, <1>8, <1>9, <1>10, <1>12, <1>13
  <1> QED  BY <1>1, <1>14 DEF Shaped

LEMMA OwnedStep ==
    ASSUME FanTypeOK, Shaped, Owned, NEW p \in Procs, FanStep(p)
    PROVE  Owned'
  <1>1. ASSUME dirs \cap known \subseteq dirs' \cap known',
               \A q \in Procs, j \in Tasks :
                 InUse(q, j)' => InUse(q, j) /\ dir'[q][j] = dir[q][j]
        PROVE  Owned'
    BY <1>1 DEF Owned
  <1>2. \A q \in Procs \ {p} : \A j \in Tasks :
          /\ InUse(q, j)' <=> InUse(q, j)
          /\ dir'[q][j] = dir[q][j]
    BY OthersUntouched DEF Untouched, InUse
  <1>3. ASSUME UNCHANGED diskVars,
               \A j \in Tasks : InUse(p, j)' => InUse(p, j) /\ dir'[p][j] = dir[p][j]
        PROVE  Owned'
    BY <1>1, <1>2, <1>3 DEF diskVars
  <1>4. ASSUME NEW kind \in {"fan", "max"}, NEW n \in Int, Start(p, kind, n)
        PROVE  Owned'
    BY <1>4, <1>3 DEF Start, FanTypeOK, InUse
  <1>5. ASSUME NEW i \in Tasks, NEW to, Move(p, i, to), dir' = dir,
               InUse(p, i)' => InUse(p, i)
        PROVE  \A j \in Tasks : InUse(p, j)' => InUse(p, j) /\ dir'[p][j] = dir[p][j]
    <2>1. \A j \in Tasks \ {i} : InUse(p, j)' => InUse(p, j)
      BY <1>5, MoveFacts DEF InUse
    <2> QED  BY <1>5, <2>1
  <1>6. ASSUME NEW i \in Tasks, TakeSlot(p, i) \/ LeaveQueue(p, i)
        PROVE  Owned'
    <2>1. ~ InUse(p, i)'
      BY <1>6, MoveFacts DEF TakeSlot, LeaveQueue, InUse
    <2> QED  BY <1>3, <1>5, <1>6, <2>1 DEF TakeSlot, LeaveQueue
  <1>7. ASSUME NEW i \in Tasks, WorkInPlace(p, i)
        PROVE  Owned'
    <2>1. ~ InUse(p, i)'
      BY <1>7 DEF WorkInPlace, InUse, Shaped
    <2> QED  BY <1>3, <1>5, <1>7, <2>1 DEF WorkInPlace
  <1>8. ASSUME NEW i \in Tasks, NEW r \in {"text", "error", "blank"}, RunEnds(p, i, r)
        PROVE  Owned'
    <2>1. InUse(p, i)' => InUse(p, i)
      BY <1>8 DEF RunEnds, InUse
    <2> QED  BY <1>3, <1>5, <1>8, <2>1 DEF RunEnds
  <1>9. ASSUME NEW i \in Tasks, IsolateFails(p, i)
        PROVE  Owned'
    <2>1. ~ InUse(p, i)'
      BY <1>9, MoveFacts DEF IsolateFails, InUse
    <2>2. \A j \in Tasks : InUse(p, j)' => InUse(p, j) /\ dir'[p][j] = dir[p][j]
      BY <1>5, <1>9, <2>1 DEF IsolateFails
    <2>3. dirs \cap known \subseteq dirs' \cap known'
      BY <1>9 DEF IsolateFails, diskVars
    <2> QED  BY <1>1, <1>2, <2>2, <2>3
  <1>10. ASSUME NEW i \in Tasks, Isolate(p, i)
         PROVE  Owned'
    <2>1. /\ dir'[p][i] = Wanted(p, i)
          /\ \A j \in Tasks \ {i} : dir'[p][j] = dir[p][j]
      BY <1>10 DEF Isolate, FanTypeOK
    <2>2. \A j \in Tasks \ {i} : InUse(p, j)' <=> InUse(p, j)
      BY <1>10, <2>1, MoveFacts DEF Isolate, InUse
    <2>3. \A q \in Procs, j \in Tasks : q # p \/ j # i =>
            /\ InUse(q, j)' <=> InUse(q, j)
            /\ dir'[q][j] = dir[q][j]
      BY <1>2, <2>1, <2>2
    <2>4. /\ Wanted(p, i) \notin dirs
          /\ dirs' = dirs \cup {Wanted(p, i)} /\ known' = known \cup {Wanted(p, i)}
      BY <1>10 DEF Isolate
    <2>5. \A q \in Procs, j \in Tasks : InUse(q, j) => dir[q][j] \in dirs \cap known
      BY DEF Owned
    <2>6. \A q \in Procs, j \in Tasks : InUse(q, j)' =>
            /\ dir'[q][j] \in dirs' \cap known'
            /\ dir'[q][j] = Wanted(p, i) <=> q = p /\ j = i
      BY <2>1, <2>3, <2>4, <2>5
    <2> SUFFICES ASSUME NEW q \in Procs, NEW r \in Procs, NEW j \in Tasks, NEW l \in Tasks,
                        InUse(q, j)', InUse(r, l)', dir'[r][l] = dir'[q][j]
                 PROVE  q = r /\ j = l
      BY <2>6 DEF Owned
    <2>7. CASE dir'[q][j] = Wanted(p, i)
      BY <2>6, <2>7
    <2>8. CASE dir'[q][j] # Wanted(p, i)
      <3>1. (q # p \/ j # i) /\ (r # p \/ l # i)
        BY <2>1, <2>8
      <3> QED  BY <2>3, <3>1 DEF Owned
    <2> QED  BY <2>7, <2>8
  <1>11. ASSUME NEW i \in Tasks, Release(p, i)
         PROVE  Owned'
    <2>1. InUse(p, i) /\ ~ InUse(p, i)' /\ dir' = dir
      BY <1>11, MoveFacts DEF Release, InUse, Shaped
    <2>2. \A j \in Tasks : InUse(p, j)' => InUse(p, j)
      BY <1>5, <1>11, <2>1 DEF Release
    <2>3. (dirs \ {dir[p][i]}) \cap (known \ {dir[p][i]}) \subseteq dirs' \cap known'
      BY <1>11 DEF Release
    <2>4. \A q \in Procs, j \in Tasks : InUse(q, j)' =>
            /\ InUse(q, j) /\ dir'[q][j] = dir[q][j]
            /\ q # p \/ j # i
      BY <1>2, <2>1, <2>2
    <2>5. \A q \in Procs, j \in Tasks : InUse(q, j)' => dir[q][j] # dir[p][i]
      BY <2>1, <2>4 DEF Owned
    <2> QED  BY <2>3, <2>4, <2>5 DEF Owned
  <1>12. ASSUME EndFan(p) \/ Crash(p)
         PROVE  Owned'
    <2>1. \A j \in Tasks : ~ InUse(p, j)'
      BY <1>12 DEF EndFan, Crash, Forget, InUse, FanTypeOK
    <2>2. dirs' = dirs /\ known' = known
      BY <1>12 DEF EndFan, Crash, diskVars
    <2> QED  BY <1>1, <1>2, <2>1, <2>2
  <1>13. ASSUME UNCHANGED <<taskVars, diskVars>>
         PROVE  Owned'
    BY <1>13, <1>3 DEF taskVars, InUse
  <1>14. ASSUME Sampled(p) \/ (\E number \in Int : Rank(p, number)) \/ Cancel(p)
         PROVE  Owned'
    BY <1>13, <1>14 DEF Sampled, Choose, Rank, Cancel
  <1> QED
    BY StepCases, <1>4, <1>6, <1>7, <1>8, <1>9, <1>10, <1>11, <1>12, <1>14

LEMMA LeftStep ==
    ASSUME FanTypeOK, Shaped, Owned, NothingLeft, NEW p \in Procs, FanStep(p)
    PROVE  NothingLeft'
  <1> DEFINE Used(d) == \E q \in Procs, j \in Tasks : InUse(q, j) /\ dir[q][j] = d
             UsedStill(d) == \E q \in Procs, j \in Tasks : InUse(q, j)' /\ dir'[q][j] = d
  <1>1. \A d \in (dirs \cup known) \ leaked : Used(d)
    <2>1. \A d \in dirs \cup known : d # NoDir
      BY TaskFacts DEF FanTypeOK
    <2> QED  BY <2>1, Zenon DEF NothingLeft, InUse
  <1>2. ASSUME \A d \in (dirs' \cup known') \ leaked' : UsedStill(d)
        PROVE  NothingLeft'
    BY <1>2 DEF NothingLeft, InUse
  <1>3. \A q \in Procs \ {p} : \A j \in Tasks :
          /\ InUse(q, j)' <=> InUse(q, j)
          /\ dir'[q][j] = dir[q][j]
    BY OthersUntouched DEF Untouched, InUse
  <1>4. ASSUME NEW d, Used(d),
               \A j \in Tasks : InUse(p, j) /\ dir[p][j] = d =>
                                  InUse(p, j)' /\ dir'[p][j] = dir[p][j]
        PROVE  UsedStill(d)
    BY <1>3, <1>4
  <1>5. ASSUME UNCHANGED diskVars,
               \A j \in Tasks : InUse(p, j) => InUse(p, j)' /\ dir'[p][j] = dir[p][j]
        PROVE  NothingLeft'
    BY <1>1, <1>2, <1>4, <1>5 DEF diskVars
  <1>6. ASSUME NEW i \in Tasks, NEW to, Move(p, i, to), dir' = dir,
               ~ InUse(p, i) \/ to \in {"run", "release"}
        PROVE  \A j \in Tasks : InUse(p, j) => InUse(p, j)' /\ dir'[p][j] = dir[p][j]
    BY <1>6, MoveFacts DEF InUse
  <1>7. ASSUME NEW kind \in {"fan", "max"}, NEW n \in Int, Start(p, kind, n)
        PROVE  NothingLeft'
    <2>1. \A j \in Tasks : ~ InUse(p, j)
      BY <1>7 DEF Start, Shaped, AllDone, InUse
    <2> QED  BY <1>5, <1>7, <2>1 DEF Start
  <1>8. ASSUME NEW i \in Tasks, TakeSlot(p, i) \/ LeaveQueue(p, i) \/ WorkInPlace(p, i)
        PROVE  NothingLeft'
    <2>1. ~ InUse(p, i)
      BY <1>8 DEF TakeSlot, LeaveQueue, WorkInPlace, InUse
    <2> QED  BY <1>5, <1>6, <1>8, <2>1 DEF TakeSlot, LeaveQueue, WorkInPlace
  <1>9. ASSUME NEW i \in Tasks, NEW r \in {"text", "error", "blank"}, RunEnds(p, i, r)
        PROVE  NothingLeft'
    BY <1>5, <1>6, <1>9 DEF RunEnds, InUse
  <1>10. ASSUME NEW i \in Tasks, IsolateFails(p, i)
         PROVE  NothingLeft'
    <2>1. ~ InUse(p, i)
      BY <1>10 DEF IsolateFails, InUse
    <2>2. \A j \in Tasks : InUse(p, j) => InUse(p, j)' /\ dir'[p][j] = dir[p][j]
      BY <1>6, <1>10, <2>1 DEF IsolateFails
    <2>3. (dirs' \cup known') \ leaked' \subseteq (dirs \cup known) \ leaked
      BY <1>10 DEF IsolateFails, diskVars
    <2> QED  BY <1>1, <1>2, <1>4, <2>2, <2>3
  <1>11. ASSUME NEW i \in Tasks, Isolate(p, i)
         PROVE  NothingLeft'
    <2>1. /\ dir'[p][i] = Wanted(p, i)
          /\ \A j \in Tasks \ {i} : dir'[p][j] = dir[p][j]
      BY <1>11 DEF Isolate, FanTypeOK
    <2>2. ~ InUse(p, i) /\ InUse(p, i)'
      <3>1. Wanted(p, i) # NoDir
        BY TaskFacts DEF Wanted, NoDir, Tasks
      <3> QED  BY <1>11, <2>1, <3>1, MoveFacts DEF Isolate, InUse
    <2>3. \A j \in Tasks : InUse(p, j) => InUse(p, j)' /\ dir'[p][j] = dir[p][j]
      BY <1>11, <2>1, <2>2, MoveFacts DEF Isolate, InUse
    <2>4. (dirs' \cup known') \ leaked' \subseteq
            ((dirs \cup known) \ leaked) \cup {Wanted(p, i)}
      BY <1>11 DEF Isolate
    <2>5. UsedStill(Wanted(p, i))
      BY <2>1, <2>2
    <2> QED  BY <1>1, <1>2, <1>4, <2>3, <2>4, <2>5
  <1>12. ASSUME NEW i \in Tasks, Release(p, i)
         PROVE  NothingLeft'
    <2>1. dir' = dir
      BY <1>12 DEF Release
    <2>2. \A j \in Tasks \ {i} : InUse(p, j)' <=> InUse(p, j)
      BY <1>12, <2>1, MoveFacts DEF Release, InUse
    <2>3. (dirs' \cup known') \ leaked' \subseteq ((dirs \cup known) \ leaked) \ {dir[p][i]}
      BY <1>12 DEF Release
    <2> SUFFICES ASSUME NEW d \in (dirs' \cup known') \ leaked'
                 PROVE  UsedStill(d)
      BY <1>2
    <2>4. Used(d) /\ d # dir[p][i]
      BY <1>1, <2>3
    <2> QED  BY <1>4, <2>1, <2>2, <2>4
  <1>13. ASSUME EndFan(p)
         PROVE  NothingLeft'
    <2>1. \A j \in Tasks : ~ InUse(p, j)
      BY <1>13 DEF EndFan, AllDone, InUse
    <2> QED  BY <1>5, <1>13, <2>1 DEF EndFan
  <1>14. ASSUME Crash(p)
         PROVE  NothingLeft'
    <2>1. /\ dirs' = dirs /\ known' = known /\ leaked \subseteq leaked'
          /\ \A j \in Tasks : InUse(p, j) => dir[p][j] \in leaked'
      BY <1>14 DEF Crash, InUse
    <2> SUFFICES ASSUME NEW d \in (dirs' \cup known') \ leaked'
                 PROVE  UsedStill(d)
      BY <1>2
    <2>2. Used(d) /\ \A j \in Tasks : ~ (InUse(p, j) /\ dir[p][j] = d)
      BY <1>1, <2>1
    <2> QED  BY <1>4, <2>2
  <1>15. ASSUME UNCHANGED <<taskVars, diskVars>>
         PROVE  NothingLeft'
    BY <1>15, <1>5 DEF taskVars, InUse
  <1>16. ASSUME Sampled(p) \/ (\E number \in Int : Rank(p, number)) \/ Cancel(p)
         PROVE  NothingLeft'
    BY <1>15, <1>16 DEF Sampled, Choose, Rank, Cancel
  <1> QED
    BY StepCases, <1>7, <1>8, <1>9, <1>10, <1>11, <1>12, <1>13, <1>14, <1>16

LEMMA BestStep ==
    ASSUME FanTypeOK, Shaped, BestWasOffered, NEW p \in Procs, FanStep(p)
    PROVE  BestWasOffered'
  <1> DEFINE Best_ == winner'[p] # 0 /\ job'[p] = "idle" /\ Samples(p)' # {} =>
                        \/ winner'[p] \in Usable(p)'
                        \/ /\ Samples(p)' = {winner'[p]}
                           /\ result'[p][winner'[p]] = "blank"
  <1>1. \A q \in Procs \ {p} : winner'[q] # 0 /\ job'[q] = "idle" /\ Samples(q)' # {} =>
          \/ winner'[q] \in Usable(q)'
          \/ Samples(q)' = {winner'[q]} /\ result'[q][winner'[q]] = "blank"
    BY OthersUntouched DEF Untouched, BestWasOffered, Samples, Usable
  <1>2. ASSUME NEW kind \in {"fan", "max"}, NEW n \in Int, Start(p, kind, n)
        PROVE  Best_
    BY <1>2 DEF Start, FanTypeOK
  <1>3. ASSUME NEW i \in Tasks, place[p][i] \notin {"none", "done"}, job' = job
        PROVE  Best_
    BY <1>3 DEF Shaped, AllDone
  <1>4. ASSUME NEW i \in Tasks,
               \/ TakeSlot(p, i) \/ LeaveQueue(p, i) \/ WorkInPlace(p, i)
               \/ Isolate(p, i) \/ IsolateFails(p, i) \/ Release(p, i)
               \/ \E r \in {"text", "error", "blank"} : RunEnds(p, i, r)
        PROVE  Best_
    BY <1>3, <1>4 DEF TakeSlot, LeaveQueue, WorkInPlace, Isolate, IsolateFails,
       Release, RunEnds, jobVars
  <1>5. ASSUME EndFan(p) \/ Crash(p)
        PROVE  Best_
    BY <1>5 DEF EndFan, Crash, Forget, Samples, FanTypeOK
  <1>6. ASSUME NEW i \in 0..Most, Choose(p, i),
               \/ i = 0
               \/ i \in Usable(p)
               \/ Samples(p) = {i} /\ result[p][i] = "blank"
        PROVE  Best_
    BY <1>6 DEF Choose, taskVars, Samples, Usable, FanTypeOK
  <1>7. ASSUME Sampled(p)
        PROVE  Best_
    <2>1. ASSUME NEW i \in Samples(p), Samples(p) = {i},
                 Choose(p, IF result[p][i] = "error" THEN 0 ELSE i)
          PROVE  Best_
      <3>1. i \in Tasks /\ i \in 0..Most /\ place[p][i] = "done"
        BY <1>7, <2>1 DEF Samples, Sampled, AllDone, Tasks
      <3>2. result[p][i] \in {"text", "blank", "error"}
        BY <3>1 DEF Shaped, FanTypeOK
      <3>3. CASE result[p][i] = "error"
        BY <1>6, <2>1, <3>3, TaskFacts
      <3>4. CASE result[p][i] = "text"
        BY <1>6, <2>1, <3>1, <3>4 DEF Usable
      <3>5. CASE result[p][i] = "blank"
        BY <1>6, <2>1, <3>1, <3>5
      <3> QED  BY <3>2, <3>3, <3>4, <3>5
    <2>2. ASSUME Choose(p, 0)
          PROVE  Best_
      BY <1>6, <2>2, TaskFacts
    <2>3. ASSUME NEW i \in Usable(p), Choose(p, i)
          PROVE  Best_
      BY <1>6, <2>3 DEF Usable, Tasks
    <2>4. ASSUME job' = [job EXCEPT ![p] = "judge"]
          PROVE  Best_
      BY <2>4 DEF FanTypeOK
    <2> QED  BY <1>7, <2>1, <2>2, <2>3, <2>4 DEF Sampled
  <1>8. ASSUME NEW number \in Int, Rank(p, number)
        PROVE  Best_
    BY <1>6, <1>8, TaskFacts DEF Rank, Usable, Tasks
  <1>9. ASSUME Cancel(p)
        PROVE  Best_
    BY <1>9 DEF Cancel
  <1>10. Best_
    BY StepCases, <1>2, <1>4, <1>5, <1>7, <1>8, <1>9
  <1> QED  BY <1>1, <1>10 DEF BestWasOffered

LEMMA FanStill == FanInv /\ UNCHANGED fanVars => FanInv'
  <1> SUFFICES ASSUME FanInv, UNCHANGED fanVars
               PROVE  FanInv'
    OBVIOUS
  <1> USE DEF FanInv, fanVars, jobVars, taskVars, diskVars
  <1>1. FanTypeOK'
    BY DEF FanTypeOK
  <1>2. Counted'
    BY DEF Counted, Passed
  <1>3. Shaped'
    BY DEF Shaped, AllDone, Isolates
  <1>4. Owned'
    BY DEF Owned, InUse
  <1>5. NothingLeft'
    BY DEF NothingLeft
  <1>6. BestWasOffered'
    BY DEF BestWasOffered, Samples, Usable
  <1> QED  BY <1>1, <1>2, <1>3, <1>4, <1>5, <1>6

-----------------------------------------------------------------------------
(***************************************************************************)
(* A workflow's phase, and whether its context has ended, as seen after a  *)
(* step that leaves them alone.                                            *)
(***************************************************************************)
LEMMA FlowStarts == FlowInit => FlowInv
  <1> SUFFICES ASSUME FlowInit
               PROVE  FlowInv
    OBVIOUS
  <1>1. registered = [x \in {"review"} |-> Review]
    BY DEF FlowInit
  <1>2. FlowTypeOK
    BY <1>1, WorkflowAssumption DEF FlowInit, FlowTypeOK, Review
  <1>3. Attempts /\ Going /\ Struck /\ OnlyEndsSpoil
    BY DEF FlowInit, Attempts, Going, Struck, OnlyEndsSpoil
  <1>4. ReportTells
    BY <1>1 DEF FlowInit, ReportTells, Workflow_, Review
  <1> QED  BY <1>2, <1>3, <1>4 DEF FlowInv

(***************************************************************************)
(* A load adds a workflow, and changes none that is registered.            *)
(***************************************************************************)
LEMMA LoadFacts ==
    ASSUME NEW script \in Scripts, Load(script), FlowTypeOK
    PROVE  /\ DOMAIN registered \subseteq DOMAIN registered'
           /\ \A n \in DOMAIN registered : registered'[n] = registered[n]
           /\ \A n \in DOMAIN registered' :
                registered'[n] \in [phases : Nat, retries : Nat, js : BOOLEAN]
  <1>1. /\ NoLess(script.phases) \in Nat /\ NoLess(script.retries) \in Nat
    BY WorkflowAssumption DEF NoLess
  <1> DEFINE new == [phases |-> NoLess(script.phases), retries |-> NoLess(script.retries),
                     js |-> TRUE]
  <1>2. new \in [phases : Nat, retries : Nat, js : BOOLEAN]
    BY <1>1
  <1>3. script.name \notin DOMAIN registered
    BY DEF Load
  <1>4. registered' =
          [n \in DOMAIN registered \cup {script.name} |->
             IF n = script.name THEN new ELSE registered[n]]
    BY DEF Load
  <1> HIDE DEF new
  <1> QED  BY <1>2, <1>3, <1>4 DEF FlowTypeOK

(***************************************************************************)
(* One more entry in the report leaves the others as they were.            *)
(***************************************************************************)
LEMMA EntryFacts ==
    ASSUME report \in Seq(Entry), NEW t \in Nat, NEW f \in BOOLEAN,
           report' = Append(report, [tries |-> t, failed |-> f])
    PROVE  /\ report' \in Seq(Entry)
           /\ Len(report') = Len(report) + 1 /\ Len(report) \in Nat
           /\ \A i \in 1..Len(report) : report'[i] = report[i]
           /\ report'[Len(report) + 1].tries = t
           /\ report'[Len(report) + 1].failed = f
  <1> DEFINE e == [tries |-> t, failed |-> f]
  <1>1. e \in Entry
    BY DEF Entry
  <1>2. e.tries = t /\ e.failed = f
    OBVIOUS
  <1> HIDE DEF e
  <1>3. /\ report' \in Seq(Entry)
        /\ Len(report') = Len(report) + 1 /\ Len(report) \in Nat
        /\ \A i \in 1..Len(report) : report'[i] = report[i]
        /\ report'[Len(report) + 1] = e
    BY <1>1, report' = Append(report, e) DEF e
  <1> QED  BY <1>2, <1>3

LEMMA FlowTypeStep ==
    ASSUME FlowTypeOK, Going, Attempts, FlowNext
    PROVE  FlowTypeOK'
  <1> DEFINE Kept == \A n \in DOMAIN registered' :
                       registered'[n] \in [phases : Nat, retries : Nat, js : BOOLEAN]
  <1>1. ASSUME NEW script \in Scripts, Load(script)
        PROVE  FlowTypeOK'
    <2>1. Kept /\ DOMAIN registered \subseteq DOMAIN registered'
      BY <1>1, LoadFacts
    <2> QED  BY <1>1, <2>1 DEF Load, FlowTypeOK
  <1>2. ASSUME NEW n \in DOMAIN registered, StartFlow(n)
        PROVE  FlowTypeOK'
    BY <1>2, WorkflowAssumption DEF StartFlow, FlowTypeOK
  <1>3. ASSUME NextPhase
        PROVE  FlowTypeOK'
    BY <1>3 DEF NextPhase, Fail, FlowTypeOK
  <1>4. ASSUME Try
        PROVE  FlowTypeOK'
    <2>1. CASE Over
      <3>1. report' \in Seq(Entry)
        BY <1>4, <2>1, EntryFacts DEF Try, FlowTypeOK
      <3> QED  BY <1>4, <2>1, <3>1 DEF Try, Fail, FlowTypeOK
    <2>2. CASE ~ Over
      BY <1>4, <2>2 DEF Try, FlowTypeOK
    <2> QED  BY <2>1, <2>2
  <1>5. ASSUME flow = "run", Detach, registered' = registered
        PROVE  slow' \subseteq (1..MaxRuns) \X DOMAIN registered'
    <2>1. <<run, name>> \in (1..MaxRuns) \X DOMAIN registered
      BY <1>5, WorkflowAssumption DEF FlowTypeOK, Going
    <2> QED  BY <1>5, <2>1 DEF Detach, FlowTypeOK
  <1>6. ASSUME Retry
        PROVE  flow' \in {"try", "idle"} /\ ok' \in BOOLEAN /\ report' \in Seq(Entry)
    <2>1. CASE tries <= Workflow_.retries
      BY <1>6, <2>1 DEF Retry, FlowTypeOK
    <2>2. CASE ~ (tries <= Workflow_.retries)
      <3>1. report' \in Seq(Entry)
        BY <1>6, <2>2, EntryFacts DEF Retry, FlowTypeOK
      <3> QED  BY <1>6, <2>2, <3>1 DEF Retry, Fail
    <2> QED  BY <2>1, <2>2
  <1>7. ASSUME Succeeds
        PROVE  FlowTypeOK'
    <2>1. report' \in Seq(Entry)
      BY <1>7, EntryFacts DEF Succeeds, FlowTypeOK
    <2>2. slow' \subseteq (1..MaxRuns) \X DOMAIN registered'
      BY <1>5, <1>7 DEF Succeeds
    <2> QED  BY <1>7, <2>1, <2>2 DEF Succeeds, FlowTypeOK
  <1>8. ASSUME Fails
        PROVE  FlowTypeOK'
    <2>1. slow' \subseteq (1..MaxRuns) \X DOMAIN registered'
      BY <1>5, <1>8 DEF Fails
    <2>2. flow' \in {"try", "idle"} /\ ok' \in BOOLEAN /\ report' \in Seq(Entry)
      BY <1>6, <1>8 DEF Fails
    <2> QED  BY <1>8, <2>1, <2>2 DEF Fails, FlowTypeOK
  <1>9. ASSUME Interrupted
        PROVE  FlowTypeOK'
    <2>1. slow' \subseteq (1..MaxRuns) \X DOMAIN registered'
      BY <1>5, <1>9 DEF Interrupted
    <2>2. flow' \in {"try", "idle"} /\ ok' \in BOOLEAN /\ report' \in Seq(Entry)
      BY <1>6, <1>9 DEF Interrupted
    <2>3. run \in 1..MaxRuns
      BY <1>9, WorkflowAssumption DEF Interrupted, FlowTypeOK, Going
    <2>4. struck' \subseteq struck /\ spoiled' \subseteq spoiled \cup {run}
      BY <1>9 DEF Interrupted
    <2> QED  BY <1>9, <2>1, <2>2, <2>3, <2>4 DEF Interrupted, FlowTypeOK
  <1>10. ASSUME Interrupt
         PROVE  FlowTypeOK'
    BY <1>10 DEF Interrupt, FlowTypeOK
  <1>11. ASSUME NEW g \in slow, StrikeLate(g) \/ Notice(g)
         PROVE  FlowTypeOK'
    <2>1. g[2] \in DOMAIN registered
      BY DEF FlowTypeOK
    <2>2. slow' \subseteq slow /\ struck' \subseteq struck \cup {g[2]}
      BY <1>11 DEF StrikeLate, Notice
    <2> QED  BY <1>11, <2>1, <2>2 DEF StrikeLate, Notice, FlowTypeOK
  <1>12. ASSUME NEW r \in 1..run, EndContext(r)
         PROVE  FlowTypeOK'
    BY <1>12, WorkflowAssumption DEF EndContext, FlowTypeOK
  <1> QED
    BY <1>1, <1>2, <1>3, <1>4, <1>7, <1>8, <1>9, <1>10, <1>11, <1>12
    DEF FlowNext, PhaseStep

LEMMA AttemptsStep ==
    ASSUME FlowTypeOK, Attempts, FlowNext
    PROVE  Attempts'
  <1>1. /\ Workflow_ \in [phases : Nat, retries : Nat, js : BOOLEAN]
        /\ Workflow_.retries \in Nat /\ tries \in Nat
    BY DEF FlowTypeOK, Workflow_
  <1>2. ASSUME Retry, tries' = tries, UNCHANGED <<registered, name>>
        PROVE  Attempts'
    BY <1>1, <1>2 DEF Retry, Fail, Attempts, Workflow_
  <1>3. ASSUME NEW script \in Scripts, Load(script)
        PROVE  Attempts'
    BY <1>3 DEF Load, Attempts
  <1>4. ASSUME NEW n \in DOMAIN registered, StartFlow(n)
        PROVE  Attempts'
    BY <1>4 DEF StartFlow, Attempts
  <1>5. ASSUME NextPhase
        PROVE  Attempts'
    BY <1>1, <1>5 DEF NextPhase, Fail, Attempts, Workflow_
  <1>6. ASSUME Try
        PROVE  Attempts'
    BY <1>1, <1>6 DEF Try, Fail, Attempts, Workflow_
  <1>7. ASSUME Succeeds
        PROVE  Attempts'
    BY <1>7 DEF Succeeds, Attempts
  <1>8. ASSUME Fails \/ Interrupted
        PROVE  Attempts'
    BY <1>2, <1>8 DEF Fails, Interrupted
  <1>9. ASSUME UNCHANGED <<flow, tries, registered, name>>
        PROVE  Attempts'
    BY <1>9 DEF Attempts, Workflow_
  <1>10. ASSUME \/ Interrupt
                \/ \E g \in slow : StrikeLate(g) \/ Notice(g)
                \/ \E r \in 1..run : EndContext(r)
         PROVE  Attempts'
    BY <1>9, <1>10 DEF Interrupt, StrikeLate, Notice, EndContext
  <1> QED
    BY <1>3, <1>4, <1>5, <1>6, <1>7, <1>8, <1>10 DEF FlowNext, PhaseStep

LEMMA GoingStep ==
    ASSUME FlowTypeOK, Attempts, Going, FlowNext
    PROVE  Going'
  <1>1. /\ Workflow_.retries \in Nat /\ Workflow_.phases \in Nat /\ tries \in Nat
        /\ k \in Nat /\ Len(report) \in Nat
    BY DEF FlowTypeOK, Workflow_
  <1>2. ASSUME UNCHANGED <<k, last, report, ok, run, registered, name>>, flow # "idle",
               flow' \in {"try", "run"} => k <= Workflow_.phases
        PROVE  Going'
    BY <1>2 DEF Going, Good, Workflow_
  <1>3. ASSUME NEW script \in Scripts, Load(script)
        PROVE  Going'
    BY <1>3 DEF Load, Going
  <1>4. ASSUME NEW n \in DOMAIN registered, StartFlow(n)
        PROVE  Going'
    BY <1>4 DEF StartFlow, Going, FlowTypeOK
  <1>5. ASSUME flow' = "idle"
        PROVE  Going'
    BY <1>5 DEF Going
  <1>6. ASSUME NextPhase
        PROVE  Going'
    BY <1>2, <1>5, <1>6 DEF NextPhase, Fail
  <1>7. ASSUME Try
        PROVE  Going'
    BY <1>2, <1>5, <1>7 DEF Try, Fail, Going
  <1>8. ASSUME Succeeds
        PROVE  Going'
    <2>1. /\ Len(report') = Len(report) + 1
          /\ \A i \in 1..Len(report) : report'[i] = report[i]
          /\ report'[Len(report) + 1].tries = tries
          /\ report'[Len(report) + 1].failed = FALSE
      BY <1>1, <1>8, EntryFacts DEF Succeeds, FlowTypeOK
    <2>2. \A i \in 1..Len(report) : Good(i)'
      BY <1>8, <2>1 DEF Succeeds, Going, Good, Workflow_
    <2>3. \A i : i = Len(report) + 1 => Good(i)'
      BY <1>8, <2>1 DEF Succeeds, Attempts, Good, Workflow_
    <2>4. \A i \in 1..Len(report') : Good(i)'
      BY <1>1, <2>1, <2>2, <2>3
    <2>5. k' = Len(report') + 1 /\ last' = Len(report')
      BY <1>8, <2>1 DEF Succeeds, Going
    <2> QED  BY <1>8, <2>4, <2>5 DEF Succeeds, Going
  <1>9. ASSUME Fails \/ Interrupted
        PROVE  Going'
    <2>1. Retry /\ flow = "run" /\ UNCHANGED <<k, last, run, registered, name>>
      BY <1>9 DEF Fails, Interrupted
    <2> QED  BY <1>2, <1>5, <2>1 DEF Retry, Fail, Going
  <1>10. ASSUME UNCHANGED <<flow, k, last, report, ok, run, registered, name>>
         PROVE  Going'
    BY <1>10 DEF Going, Good, Workflow_
  <1>11. ASSUME \/ Interrupt
                \/ \E g \in slow : StrikeLate(g) \/ Notice(g)
                \/ \E r \in 1..run : EndContext(r)
         PROVE  Going'
    BY <1>10, <1>11 DEF Interrupt, StrikeLate, Notice, EndContext
  <1> QED
    BY <1>3, <1>4, <1>6, <1>7, <1>8, <1>9, <1>11 DEF FlowNext, PhaseStep

LEMMA StruckStep ==
    ASSUME FlowTypeOK, Going, Struck, FlowNext
    PROVE  Struck'
  <1>1. run \in Nat
    BY WorkflowAssumption DEF FlowTypeOK
  <1>2. ASSUME NEW n \in DOMAIN registered, StartFlow(n)
        PROVE  Struck'
    <2>1. run' = run + 1 /\ slow' = slow /\ ended' = ended /\ struck' = struck
      BY <1>2 DEF StartFlow
    <2>2. \A g \in slow : g[1] \in Nat
      BY DEF FlowTypeOK
    <2>3. \A g \in slow : g[1] <= run + 1
      BY <1>1, <2>2 DEF Struck
    <2>4. ended \subseteq 1..(run + 1)
      BY <1>1 DEF Struck
    <2>5. struck # {} => \E q \in ended : q <= run + 1
      BY <1>1 DEF Struck
    <2> QED  BY <2>1, <2>3, <2>4, <2>5 DEF Struck
  <1>3. ASSUME run' = run, ended' = ended, struck' \subseteq struck,
               slow' \subseteq slow \cup {<<run, name>>}
        PROVE  Struck'
    BY <1>1, <1>3 DEF Struck
  <1>4. ASSUME Succeeds \/ Fails \/ Interrupted
        PROVE  Struck'
    <2>1. run' = run /\ ended' = ended /\ struck' \subseteq struck
      BY <1>4 DEF Succeeds, Fails, Interrupted
    <2>2. slow' \subseteq slow \cup {<<run, name>>}
      BY <1>4 DEF Succeeds, Fails, Interrupted, Detach
    <2> QED  BY <1>3, <2>1, <2>2
  <1>5. ASSUME UNCHANGED <<run, ended, struck, slow>>
        PROVE  Struck'
    BY <1>5 DEF Struck
  <1>6. ASSUME NextPhase \/ Try \/ \E script \in Scripts : Load(script)
        PROVE  Struck'
    BY <1>5, <1>6 DEF NextPhase, Try, Load
  <1>7. ASSUME Interrupt
        PROVE  Struck'
    <2>1. run \in ended
      BY <1>7 DEF Interrupt, Over
    <2> QED  BY <1>1, <1>7, <2>1 DEF Interrupt, Struck
  <1>8. ASSUME NEW g \in slow, Notice(g)
        PROVE  Struck'
    BY <1>3, <1>8 DEF Notice
  <1>9. ASSUME NEW g \in slow, StrikeLate(g)
        PROVE  Struck'
    <2>1. CASE g[1] \in ended
      BY <1>9, <2>1 DEF StrikeLate, Struck
    <2>2. CASE g[1] \notin ended
      BY <1>3, <1>9, <2>2 DEF StrikeLate
    <2> QED  BY <2>1, <2>2
  <1>10. ASSUME NEW r \in 1..run, EndContext(r)
         PROVE  Struck'
    BY <1>1, <1>10 DEF EndContext, Struck
  <1> QED
    BY <1>2, <1>4, <1>6, <1>7, <1>8, <1>9, <1>10 DEF FlowNext, PhaseStep

LEMMA SpoilStep ==
    ASSUME FlowTypeOK, Struck, OnlyEndsSpoil, FlowNext
    PROVE  OnlyEndsSpoil'
  <1>1. ASSUME ended \subseteq ended', spoiled' \subseteq spoiled
        PROVE  OnlyEndsSpoil'
    BY <1>1 DEF OnlyEndsSpoil
  <1>2. ASSUME Interrupted
        PROVE  OnlyEndsSpoil'
    <2>1. struck # {} /\ ended' = ended
      BY <1>2 DEF Interrupted
    <2>2. PICK q \in ended : q <= run
      BY <2>1 DEF Struck
    <2>3. q \in Nat /\ run \in Nat
      BY WorkflowAssumption DEF FlowTypeOK
    <2>4. ~ Over => q < run
      BY <2>2, <2>3 DEF Over
    <2>5. spoiled' = spoiled \/ (~ Over /\ spoiled' = spoiled \cup {run})
      BY <1>2 DEF Interrupted
    <2> QED  BY <2>1, <2>4, <2>5 DEF OnlyEndsSpoil
  <1>3. ASSUME \/ \E script \in Scripts : Load(script)
               \/ \E n \in DOMAIN registered : StartFlow(n)
               \/ NextPhase \/ Try \/ Succeeds \/ Fails \/ Interrupt
               \/ \E g \in slow : StrikeLate(g) \/ Notice(g)
               \/ \E r \in 1..run : EndContext(r)
        PROVE  OnlyEndsSpoil'
    BY <1>1, <1>3 DEF Load, StartFlow, NextPhase, Try, Succeeds, Fails, Interrupt,
       StrikeLate, Notice, EndContext
  <1> QED  BY <1>2, <1>3 DEF FlowNext, PhaseStep

LEMMA TellsStep ==
    ASSUME FlowTypeOK, Attempts, Going, ReportTells, FlowNext, FlowTypeOK', Going'
    PROVE  ReportTells'
  <1>1. /\ Workflow_.retries \in Nat /\ Workflow_.phases \in Nat /\ tries \in Nat
        /\ k \in Nat /\ Len(report) \in Nat /\ Len(report') \in Nat
    BY DEF FlowTypeOK, Workflow_
  <1>2. ASSUME flow' # "idle", Len(report') <= Workflow_'.phases
        PROVE  ReportTells'
    BY <1>1, <1>2 DEF ReportTells, Going, Good
  <1>3. ASSUME NEW script \in Scripts, Load(script)
        PROVE  ReportTells'
    <2>1. Workflow_' = Workflow_
      BY <1>3, LoadFacts DEF Load, Workflow_, FlowTypeOK
    <2> QED  BY <1>3, <2>1 DEF Load, ReportTells, Over
  <1>4. ASSUME NEW n \in DOMAIN registered, StartFlow(n)
        PROVE  ReportTells'
    <2>1. Workflow_'.phases \in Nat
      BY DEF FlowTypeOK, Workflow_
    <2> QED  BY <1>2, <1>4, <2>1 DEF StartFlow
  <1>5. ASSUME UNCHANGED <<registered, name>>
        PROVE  Workflow_' = Workflow_
    BY <1>5 DEF Workflow_
  <1>6. Len(report) <= Workflow_.phases
    BY DEF ReportTells
  <1>7. ASSUME NextPhase
        PROVE  ReportTells'
    <2>1. UNCHANGED <<registered, name, report, run, ended>> /\ flow = "next"
      BY <1>7 DEF NextPhase
    <2>2. CASE flow' # "idle"
      BY <1>2, <1>5, <1>6, <2>1, <2>2
    <2>3. CASE flow' = "idle" /\ k > Workflow_.phases /\ ok' = ok
      <3>1. Len(report) = Workflow_.phases /\ ok' = TRUE
        BY <1>1, <1>6, <2>1, <2>3 DEF Going
      <3> QED  BY <1>1, <1>5, <2>1, <2>3, <3>1 DEF ReportTells, Going, Good
    <2>4. CASE flow' = "idle" /\ Over /\ ok' = FALSE
      BY <1>1, <1>5, <1>6, <2>1, <2>4 DEF ReportTells, Going, Good, Over
    <2> QED  BY <1>7, <2>2, <2>3, <2>4 DEF NextPhase, Fail
  <1>8. ASSUME flow \in {"try", "run"}, flow' = "idle", ok' = FALSE,
               UNCHANGED <<registered, name, run, ended>>,
               report' = Append(report, [tries |-> tries, failed |-> TRUE]),
               Over \/ tries = Workflow_.retries + 1
        PROVE  ReportTells'
    <2>1. /\ Len(report') = Len(report) + 1
          /\ \A i \in 1..Len(report) : report'[i] = report[i]
          /\ report'[Len(report) + 1].tries = tries
          /\ report'[Len(report) + 1].failed = TRUE
      BY <1>1, <1>8, EntryFacts DEF FlowTypeOK
    <2>2. Len(report) + 1 <= Workflow_.phases
      BY <1>8 DEF Going
    <2>3. \A i \in 1..(Len(report') - 1) :
            ~ report'[i].failed /\ report'[i].tries \in 1..(Workflow_.retries + 1)
      BY <1>1, <1>8, <2>1 DEF Going, Good
    <2> QED  BY <1>1, <1>5, <1>8, <2>1, <2>2, <2>3 DEF ReportTells, Over
  <1>9. ASSUME Try
        PROVE  ReportTells'
    <2>1. CASE Over
      BY <1>8, <1>9, <2>1 DEF Try, Fail
    <2>2. CASE ~ Over
      BY <1>2, <1>5, <1>6, <1>9, <2>2 DEF Try
    <2> QED  BY <2>1, <2>2
  <1>10. ASSUME Succeeds
         PROVE  ReportTells'
    <2>1. Len(report') = Len(report) + 1 /\ Len(report) + 1 <= Workflow_.phases
      BY <1>1, <1>10, EntryFacts DEF Succeeds, FlowTypeOK, Going
    <2> QED  BY <1>2, <1>5, <1>10, <2>1 DEF Succeeds
  <1>11. ASSUME Fails \/ Interrupted
         PROVE  ReportTells'
    <2>1. Retry /\ flow = "run" /\ UNCHANGED <<registered, name, run, ended>>
      BY <1>11 DEF Fails, Interrupted
    <2>2. CASE tries <= Workflow_.retries
      BY <1>2, <1>5, <1>6, <2>1, <2>2 DEF Retry
    <2>3. CASE ~ (tries <= Workflow_.retries)
      <3>1. tries = Workflow_.retries + 1
        BY <1>1, <2>1, <2>3 DEF Attempts
      <3> QED  BY <1>8, <2>1, <2>3, <3>1 DEF Retry, Fail
    <2> QED  BY <2>2, <2>3
  <1>12. ASSUME UNCHANGED <<registered, flow, name, k, last, report, ok, run>>,
                ended \subseteq ended'
         PROVE  ReportTells'
    BY <1>12 DEF ReportTells, Workflow_, Over
  <1>13. ASSUME \/ Interrupt
                \/ \E g \in slow : StrikeLate(g) \/ Notice(g)
                \/ \E r \in 1..run : EndContext(r)
         PROVE  ReportTells'
    BY <1>12, <1>13 DEF Interrupt, StrikeLate, Notice, EndContext
  <1> QED
    BY <1>3, <1>4, <1>7, <1>9, <1>10, <1>11, <1>13 DEF FlowNext, PhaseStep

LEMMA FlowStill == FlowInv /\ UNCHANGED flowVars => FlowInv'
  <1> SUFFICES ASSUME FlowInv, UNCHANGED flowVars
               PROVE  FlowInv'
    OBVIOUS
  <1> USE DEF FlowInv, flowVars
  <1>1. FlowTypeOK'
    BY DEF FlowTypeOK
  <1>2. Attempts' /\ Going'
    BY DEF Attempts, Going, Good, Workflow_
  <1>3. Struck' /\ OnlyEndsSpoil'
    BY DEF Struck, OnlyEndsSpoil
  <1>4. ReportTells'
    BY DEF ReportTells, Workflow_, Over
  <1> QED  BY <1>1, <1>2, <1>3, <1>4

-----------------------------------------------------------------------------
(***************************************************************************)
(* The inductive invariant of Orchestrate: however the steps of fan-outs,  *)
(* samples and workflows of any number of processes interleave, with       *)
(* contexts that end, processes that die and git commands that fail, the   *)
(* worktrees in use are there and are each one task's own, nothing else    *)
(* is left on disk that no failure of git accounts for, and a workflow's   *)
(* report holds its phases in order.                                       *)
(***************************************************************************)
OrchestrateInv == FanInv /\ FlowInv /\ kinds \in Kinds

THEOREM OrchestrateSafety == Spec => []OrchestrateInv
  <1>1. Init => OrchestrateInv
    BY FanStarts, FlowStarts DEF Init, OrchestrateInv
  <1>2. ASSUME OrchestrateInv, [Next]_vars
        PROVE  OrchestrateInv'
    <2>1. ASSUME NEW p \in Procs, FanStep(p), UNCHANGED <<flowVars, kinds>>
          PROVE  OrchestrateInv'
      <3>1. FanInv'
        BY <1>2, <2>1, FanTypeStep, CountedStep, ShapedStep, OwnedStep, LeftStep, BestStep
        DEF OrchestrateInv, FanInv
      <3>2. FlowInv'
        BY <1>2, <2>1, FlowStill DEF OrchestrateInv
      <3> QED  BY <1>2, <2>1, <3>1, <3>2 DEF OrchestrateInv
    <2>2. ASSUME Flow
          PROVE  OrchestrateInv'
      <3>1. FlowNext /\ UNCHANGED <<fanVars, kinds>>
        BY <2>2 DEF Flow
      <3>2. FlowTypeOK' /\ Going'
        BY <1>2, <3>1, FlowTypeStep, GoingStep DEF OrchestrateInv, FlowInv
      <3>3. FlowInv'
        BY <1>2, <3>1, <3>2, AttemptsStep, StruckStep, SpoilStep, TellsStep
        DEF OrchestrateInv, FlowInv
      <3>4. FanInv'
        BY <1>2, <3>1, FanStill DEF OrchestrateInv
      <3> QED  BY <1>2, <3>1, <3>3, <3>4 DEF OrchestrateInv
    <2>3. ASSUME NEW p \in Procs, Order(p) \/ Work(p) \/ Fault(p)
          PROVE  FanStep(p) /\ UNCHANGED <<flowVars, kinds>>
      <3>1. \A n \in 0..(Most + 1) : n \in Int
        OBVIOUS
      <3> QED  BY <2>3, <3>1 DEF Order, Work, Fault, FanStep, Opens
    <2>4. CASE UNCHANGED vars
      BY <1>2, <2>4, FanStill, FlowStill DEF vars, OrchestrateInv
    <2> QED  BY <1>2, <2>1, <2>2, <2>3, <2>4 DEF Next
  <1> QED  BY <1>1, <1>2, PTL DEF Spec

(***************************************************************************)
(* Every variable keeps its type: no fan-out runs out of names for its     *)
(* worktrees, and no workflow is forgotten that runs.                      *)
(***************************************************************************)
THEOREM OrchestrateTyping == Spec => []TypeOK
  <1>1. OrchestrateInv => TypeOK
    BY DEF OrchestrateInv, FanInv, FlowInv, TypeOK
  <1> QED  BY <1>1, OrchestrateSafety, PTL

(***************************************************************************)
(* For any number of processes and tasks: a subagent's worktree is there   *)
(* as long as it works, and is nobody else's.                              *)
(***************************************************************************)
THEOREM Isolation == Spec => []OwnWorktree
  <1>1. Owned => OwnWorktree
    BY DEF Owned, OwnWorktree, InUse
  <1> QED  BY <1>1, OrchestrateSafety, PTL DEF OrchestrateInv, FanInv

(***************************************************************************)
(* For any number of processes and tasks: a worktree that is left behind   *)
(* was left by a death, a killed git or a removal that failed twice.       *)
(***************************************************************************)
THEOREM Cleanliness == Spec => []NothingLeft
  BY OrchestrateSafety, PTL DEF OrchestrateInv, FanInv

(***************************************************************************)
(* For any number of samples: what /max returns is what the judge was      *)
(* offered, or the only sample there was.                                  *)
(***************************************************************************)
THEOREM Ranking == Spec => []BestWasOffered
  BY OrchestrateSafety, PTL DEF OrchestrateInv, FanInv

(***************************************************************************)
(* For any workflows, with any number of phases and retries: the report    *)
(* tells how far the workflow got.                                         *)
(***************************************************************************)
THEOREM Reporting == Spec => []ReportTells
  BY OrchestrateSafety, PTL DEF OrchestrateInv, FlowInv

(***************************************************************************)
(* For any workflows and runs: no run is interrupted before its context    *)
(* ends unless that of an earlier run has ended.                           *)
(***************************************************************************)
THEOREM Spoiling == Spec => []OnlyEndsSpoil
  BY OrchestrateSafety, PTL DEF OrchestrateInv, FlowInv

-----------------------------------------------------------------------------
(***************************************************************************)
(* The inductive invariant of the memory store.                            *)
(***************************************************************************)

\* Ids and writes number the rows in the same order.
Ordered ==
    /\ IsFiniteSet(rows)
    /\ \A r \in rows : r.id <= writes /\ r.text <= writes
    /\ \A r, s \in rows : r # s => \/ r.id < s.id /\ r.text < s.text
                                   \/ s.id < r.id /\ s.text < r.text

\* What the place of a process tells about the values it works with.
Working ==
    \A p \in Procs :
        /\ at[p] = "insert" => fresh[p] \in Dims
        /\ at[p] = "index" => fresh[p] \in 1..MaxWrites
        /\ at[p] \in {"count", "select", "delete"} => MaxEntries > 0
        /\ at[p] = "select" => excess[p] > 0
        /\ at[p] = "match" => lexical

\* Without the lexical index, what a search has found is there until it is told
\* otherwise.
Found ==
    /\ wrote \subseteq migrated
    /\ \A p \in Procs :
         ~lexical /\ at[p] = "fetch" /\ p \notin disturbed => chosen[p] \subseteq Ids

\* The processes that have still to count the rows, and those that have.
Waiting == {p \in Procs : at[p] \in {"index", "count"}}
Pruning == {p \in Procs : at[p] \in {"select", "delete"}}

\* A prune on its own spares the newest rows.
Spared ==
    raced \/
        /\ \A p, q \in Pruning : p = q
        /\ {i \in 1..writes : i > writes - MaxEntries} \subseteq {r.text : r \in rows}
        /\ \A p \in Procs :
             /\ at[p] = "select" => excess[p] + MaxEntries <= Cardinality(rows)
             /\ at[p] = "delete" =>
                  /\ chosen[p] \subseteq Ids
                  /\ \A r \in rows : r.id \in chosen[p] => r.text + MaxEntries <= writes

\* The rows that the prune of p leaves, of those there are now, are at most n.
Leaves(p, n) ==
    IF at[p] = "select" THEN Cardinality(rows) <= excess[p] + n
    ELSE Cardinality({r \in rows : r.id \notin chosen[p]}) <= n

\* The prunes come in an order, which is that of their counts: each will leave
\* no more rows than the cap, the writes that are still to count and the prunes
\* that counted after it allow.
Within(later) ==
    /\ \A p, q \in Pruning : q \in later[p] => later[q] \subseteq later[p] \ {q}
    /\ \A p \in Pruning :
         Leaves(p, MaxEntries + Cardinality(Waiting) + Cardinality(later[p] \cap Pruning))

Bounded ==
    MaxEntries > 0 =>
        \/ overfull
        \/ /\ Cardinality(rows) <= MaxEntries + Cardinality(Waiting) + Cardinality(Pruning)
           /\ \E later \in [Procs -> SUBSET Procs] : Within(later)

StoreInv == MemoryTypeOK /\ Ordered /\ Working /\ Found /\ Spared /\ Bounded

(***************************************************************************)
(* The inductive invariant of the notebook.                                *)
(***************************************************************************)

\* What the place of a process tells about what it is to write.
Holding ==
    /\ 0 \notin owned
    /\ \A p \in Procs :
         /\ doing[p] \in {"append", "write", "fill"} => facts[p] # {}
         /\ doing[p] = "make" => target[p] \in Names

\* Nobody has crossed another: one process at most has MEMORY.md in hand, with
\* all that is to be kept, and a scaffold that is to be made is not there.
Uncrossed ==
    crossed \/
        /\ \A p, q \in Procs :
             doing[p] \in {"write", "fill"} /\ doing[q] \in {"write", "fill"} => p = q
        /\ \A p \in Procs : doing[p] = "make" => files[target[p]] = 0
        /\ owned \subseteq {files[n] : n \in Names}
        /\ faults = 0 =>
             /\ (\A p \in Procs : doing[p] # "fill") => kept \subseteq memo
             /\ \A p \in Procs : doing[p] \in {"write", "fill"} => kept \subseteq copy[p]

BookInv == BookTypeOK /\ Holding /\ Uncrossed /\ NothingForgotten


-----------------------------------------------------------------------------
(***************************************************************************)
(* A set of natural numbers that is not empty has a least one; and if it   *)
(* is bounded, a greatest, which is Max of it.                             *)
(***************************************************************************)
LEMMA LeastFacts ==
    ASSUME NEW S, S \subseteq Nat, S # {}
    PROVE  \E x \in S : \A y \in S : x <= y
  <1>1. PICK x \in S : \A y \in S : <<y, x>> \notin OpToRel(<, Nat)
    BY NatLessThanWellFounded, WFMin, Zenon
  <1>2. \A y \in S : ~ (y < x)
    BY <1>1 DEF OpToRel
  <1> QED  BY <1>2

LEMMA MaxFacts ==
    ASSUME NEW S, S \subseteq Nat, S # {}, NEW n \in Nat, \A x \in S : x <= n
    PROVE  Max(S) \in S /\ \A x \in S : x <= Max(S)
  <1> DEFINE T == {m \in Nat : \A x \in S : x <= m}
  <1>1. PICK m \in T : \A y \in T : m <= y
    <2>1. T \subseteq Nat /\ n \in T
      OBVIOUS
    <2> QED  BY <2>1, LeastFacts, Zenon
  <1>2. m \in S
    <2> SUFFICES ASSUME m \notin S
                 PROVE  FALSE
      OBVIOUS
    <2>1. \A x \in S : x < m
      OBVIOUS
    <2>2. m \in Nat /\ m # 0
      <3>1. PICK x \in S : TRUE
        OBVIOUS
      <3> QED  BY <2>1, <3>1
    <2>3. m - 1 \in Nat /\ \A x \in S : x <= m - 1
      BY <2>1, <2>2
    <2>4. m - 1 \in T
      BY <2>3
    <2> QED  BY <1>1, <2>2, <2>4
  <1>3. \E x \in S : \A y \in S : x >= y
    BY <1>1, <1>2
  <1> QED  BY <1>3 DEF Max

-----------------------------------------------------------------------------
LEMMA BookStarts == BookInit => BookInv
  <1> SUFFICES ASSUME BookInit
               PROVE  BookInv
    OBVIOUS
  <1>1. BookTypeOK
    <2>1. 0 \in 0..MaxEdits /\ 0 \in 0..MaxFaults
      BY NotebookAssumption
    <2>2. /\ doing \in [Procs -> {"idle", "append", "write", "fill", "make"}]
          /\ facts \in [Procs -> SUBSET (1..MaxEdits)]
          /\ copy \in [Procs -> SUBSET (1..MaxEdits)]
          /\ target \in [Procs -> Names \cup {NoTarget}]
      BY DEF BookInit
    <2>3. files \in [Names -> 0..MaxEdits] /\ crossed \in BOOLEAN
      BY <2>1 DEF BookInit
    <2> QED  BY <2>1, <2>2, <2>3 DEF BookInit, BookTypeOK
  <1>2. \A p \in Procs : doing[p] = "idle"
    BY DEF BookInit
  <1>3. Holding
    BY <1>2 DEF BookInit, Holding
  <1>4. Uncrossed
    BY <1>2 DEF BookInit, Uncrossed
  <1>5. NothingForgotten
    BY DEF BookInit, NothingForgotten
  <1> QED  BY <1>1, <1>3, <1>4, <1>5 DEF BookInv

(***************************************************************************)
(* The steps on the files of a project, one by one.                        *)
(***************************************************************************)
LEMMA BookCases ==
    ASSUME BookNext
    PROVE  \/ \E p \in Procs, n \in Nat : Dream(p, n)
           \/ \E p \in Procs : ReadMemory(p) \/ Truncate(p) \/ Fill(p) \/ Make(p) \/ Break(p)
           \/ \E p \in Procs, runs \in RunSets, name_ \in Names : Distill(p, runs, name_)
           \/ NoteFact
           \/ \E name_ \in Names : EditScaffold(name_)
  BY DEF BookNext, BookStep

(***************************************************************************)
(* The fact that is appended is the first of those that are left.          *)
(***************************************************************************)
First(p) == CHOOSE x \in facts[p] : \A y \in facts[p] : x <= y

LEMMA FillFacts ==
    ASSUME BookTypeOK, Holding, NEW p \in Procs, Fill(p)
    PROVE  /\ First(p) \in facts[p] /\ First(p) \in 1..MaxEdits
           /\ memo' = copy[p] \cup {First(p)} /\ kept' = kept \cup {First(p)}
           /\ facts' = [facts EXCEPT ![p] = @ \ {First(p)}]
           /\ doing' = [doing EXCEPT ![p] = IF facts[p] = {First(p)} THEN "idle" ELSE "append"]
  <1>1. facts[p] # {} /\ facts[p] \subseteq 1..MaxEdits
    BY DEF Fill, Holding, BookTypeOK
  <1>2. \E x \in facts[p] : \A y \in facts[p] : x <= y
    BY <1>1, LeastFacts
  <1>3. First(p) \in facts[p]
    BY <1>2, Zenon DEF First
  <1> QED  BY <1>1, <1>3 DEF Fill, First, At

LEMMA BookTypeStep ==
    ASSUME BookTypeOK, Holding, BookNext
    PROVE  BookTypeOK'
  <1> USE NotebookAssumption DEF At
  <1>1. ASSUME NEW p \in Procs, NEW n \in Nat, Dream(p, n)
        PROVE  BookTypeOK'
    BY <1>1 DEF Dream, BookTypeOK
  <1>2. ASSUME NEW p \in Procs, ReadMemory(p) \/ Truncate(p)
        PROVE  BookTypeOK'
    <2>1. crossed' \in BOOLEAN
      BY <1>2 DEF ReadMemory, Truncate
    <2>2. doing' \in [Procs -> {"idle", "append", "write", "fill", "make"}]
      BY <1>2 DEF ReadMemory, Truncate, BookTypeOK
    <2>3. memo' \subseteq 1..MaxEdits
      BY <1>2 DEF ReadMemory, Truncate, BookTypeOK
    <2>4. copy' \in [Procs -> SUBSET (1..MaxEdits)]
      BY <1>2 DEF ReadMemory, Truncate, BookTypeOK
    <2>5. faults' \in 0..MaxFaults
      BY <1>2 DEF ReadMemory, Truncate, BookTypeOK
    <2> QED  BY <1>2, <2>1, <2>2, <2>3, <2>4, <2>5 DEF ReadMemory, Truncate, BookTypeOK
  <1>3. ASSUME NEW p \in Procs, Fill(p)
        PROVE  BookTypeOK'
    <2>1. /\ First(p) \in facts[p] /\ First(p) \in 1..MaxEdits
          /\ memo' = copy[p] \cup {First(p)} /\ kept' = kept \cup {First(p)}
          /\ facts' = [facts EXCEPT ![p] = @ \ {First(p)}]
          /\ doing' = [doing EXCEPT ![p] = IF facts[p] = {First(p)} THEN "idle" ELSE "append"]
      BY <1>3, FillFacts
    <2>2. memo' \subseteq 1..MaxEdits /\ kept' \subseteq 1..MaxEdits
      BY <2>1 DEF BookTypeOK
    <2>3. facts' \in [Procs -> SUBSET (1..MaxEdits)]
      BY <2>1 DEF BookTypeOK
    <2>4. doing' \in [Procs -> {"idle", "append", "write", "fill", "make"}]
      BY <2>1 DEF BookTypeOK
    <2>5. crossed' \in BOOLEAN /\ copy' \in [Procs -> SUBSET (1..MaxEdits)]
      BY <1>3 DEF Fill, BookTypeOK
    <2> QED  BY <1>3, <2>2, <2>3, <2>4, <2>5 DEF Fill, BookTypeOK
  <1>4. ASSUME NEW p \in Procs, Make(p)
        PROVE  BookTypeOK'
    <2>1. crossed' \in BOOLEAN
      BY <1>4 DEF Make
    <2>2. edits + 1 \in 0..MaxEdits /\ edits' = edits + 1
      BY <1>4 DEF Make, BookTypeOK
    <2>4. files' \in [Names -> 0..MaxEdits]
      BY <1>4, <2>2 DEF Make, BookTypeOK
    <2>3. /\ doing' \in [Procs -> {"idle", "append", "write", "fill", "make"}]
          /\ target' \in [Procs -> Names \cup {NoTarget}]
      BY <1>4 DEF Make, BookTypeOK
    <2> QED  BY <1>4, <2>1, <2>2, <2>3, <2>4 DEF Make, BookTypeOK
  <1>5. ASSUME NEW p \in Procs, Break(p)
        PROVE  BookTypeOK'
    <2>1. memo' \subseteq 1..MaxEdits
      BY <1>5 DEF Break, BookTypeOK
    <2> QED  BY <1>5, <2>1 DEF Break, BookTypeOK
  <1>6. ASSUME NEW p \in Procs, NEW runs \in RunSets, NEW name_ \in Names,
               Distill(p, runs, name_)
        PROVE  BookTypeOK'
    BY <1>6 DEF Distill, BookTypeOK
  <1>7. ASSUME NoteFact
        PROVE  BookTypeOK'
    BY <1>7 DEF NoteFact, BookTypeOK
  <1>8. ASSUME NEW name_ \in Names, EditScaffold(name_)
        PROVE  BookTypeOK'
    <2>1. crossed' \in BOOLEAN
      BY <1>8 DEF EditScaffold
    <2>2. edits + 1 \in 0..MaxEdits /\ edits' = edits + 1
      BY <1>8 DEF EditScaffold, BookTypeOK
    <2>4. files' \in [Names -> 0..MaxEdits]
      BY <1>8, <2>2 DEF EditScaffold, BookTypeOK
    <2>3. owned' \subseteq 1..MaxEdits
      <3>1. edits + 1 \in 1..MaxEdits
        BY <1>8 DEF EditScaffold, BookTypeOK
      <3> QED  BY <1>8, <3>1 DEF EditScaffold, BookTypeOK
    <2> QED  BY <1>8, <2>1, <2>2, <2>3, <2>4 DEF EditScaffold, BookTypeOK
  <1> QED
    BY BookCases, <1>1, <1>2, <1>3, <1>4, <1>5, <1>6, <1>7, <1>8

LEMMA HoldingStep ==
    ASSUME BookTypeOK, Holding, BookNext
    PROVE  Holding'
  <1> USE DEF At
  <1>1. ASSUME NEW p \in Procs, NEW n \in Nat, Dream(p, n)
        PROVE  Holding'
    <2>1. (edits + 1)..(edits + n) # {}
      <3>1. edits + 1 \in (edits + 1)..(edits + n)
        BY <1>1 DEF Dream, BookTypeOK
      <3> QED  BY <3>1
    <2> QED  BY <1>1, <2>1 DEF Dream, BookTypeOK, Holding
  <1>2. ASSUME NEW p \in Procs, ReadMemory(p) \/ Truncate(p) \/ Make(p) \/ Break(p)
        PROVE  Holding'
    BY <1>2 DEF ReadMemory, Truncate, Make, Break, BookTypeOK, Holding
  <1>3. ASSUME NEW p \in Procs, Fill(p)
        PROVE  Holding'
    <2>1. /\ First(p) \in facts[p]
          /\ facts' = [facts EXCEPT ![p] = @ \ {First(p)}]
          /\ doing' = [doing EXCEPT ![p] = IF facts[p] = {First(p)} THEN "idle" ELSE "append"]
      BY <1>3, FillFacts
    <2>2. doing'[p] = "append" => facts'[p] # {}
      BY <2>1 DEF BookTypeOK
    <2>3. doing'[p] \in {"idle", "append"}
      BY <2>1 DEF BookTypeOK
    <2>4. \A q \in Procs \ {p} : doing'[q] = doing[q] /\ facts'[q] = facts[q]
      BY <2>1 DEF BookTypeOK
    <2> QED  BY <1>3, <2>2, <2>3, <2>4 DEF Fill, Holding
  <1>4. ASSUME NEW p \in Procs, NEW runs \in RunSets, NEW name_ \in Names,
               Distill(p, runs, name_)
        PROVE  Holding'
    BY <1>4 DEF Distill, BookTypeOK, Holding
  <1>5. ASSUME NoteFact \/ \E name_ \in Names : EditScaffold(name_)
        PROVE  Holding'
    BY <1>5 DEF NoteFact, EditScaffold, BookTypeOK, Holding
  <1> QED  BY BookCases, <1>1, <1>2, <1>3, <1>4, <1>5

LEMMA UncrossedStep ==
    ASSUME BookTypeOK, Holding, Uncrossed, BookNext
    PROVE  Uncrossed'
  <1> USE DEF At, BookTypeOK
  <1> SUFFICES ASSUME ~ crossed'
               PROVE  Uncrossed'
    BY DEF Uncrossed
  <1>1. ~ crossed
    BY BookCases DEF Dream, ReadMemory, Truncate, Fill, Make, Break, Distill, NoteFact,
       EditScaffold
  <1> DEFINE Alone_ == \A p, q \in Procs :
               doing[p] \in {"write", "fill"} /\ doing[q] \in {"write", "fill"} => p = q
             Unmade == \A p \in Procs : doing[p] = "make" => files[target[p]] = 0
             Stand == owned \subseteq {files[n] : n \in Names}
             Noted == faults = 0 =>
               /\ (\A p \in Procs : doing[p] # "fill") => kept \subseteq memo
               /\ \A p \in Procs : doing[p] \in {"write", "fill"} => kept \subseteq copy[p]
  <1>2. Alone_ /\ Unmade /\ Stand /\ Noted
    BY <1>1 DEF Uncrossed
  <1>3. SUFFICES Alone_' /\ Unmade' /\ Stand' /\ Noted'
    BY DEF Uncrossed
  <1>4. ASSUME NEW p \in Procs, NEW n \in Nat, Dream(p, n)
        PROVE  Alone_' /\ Unmade' /\ Stand' /\ Noted'
    BY <1>2, <1>4 DEF Dream
  <1>5. ASSUME NEW p \in Procs, ReadMemory(p)
        PROVE  Alone_' /\ Unmade' /\ Stand' /\ Noted'
    <2>1. \A q \in Procs \ {p} : doing[q] \notin {"write", "fill"}
      BY <1>5 DEF ReadMemory, OthersHold
    <2>2. doing[p] = "append" /\ doing' = [doing EXCEPT ![p] = "write"]
      BY <1>5 DEF ReadMemory
    <2>3. Alone_'
      BY <2>1, <2>2
    <2>4. Unmade' /\ Stand'
      BY <1>2, <1>5, <2>2 DEF ReadMemory
    <2>5. faults' = 0 => faults = 0 /\ copy' = [copy EXCEPT ![p] = memo]
      BY <1>5 DEF ReadMemory
    <2>6. faults = 0 => kept \subseteq memo
      BY <1>2, <2>1, <2>2
    <2>7. Noted'
      BY <1>5, <2>1, <2>2, <2>5, <2>6 DEF ReadMemory
    <2> QED  BY <2>3, <2>4, <2>7
  <1>6. ASSUME NEW p \in Procs, Truncate(p)
        PROVE  Alone_' /\ Unmade' /\ Stand' /\ Noted'
    <2>1. doing[p] = "write" /\ doing' = [doing EXCEPT ![p] = "fill"]
      BY <1>6 DEF Truncate
    <2>2. UNCHANGED <<facts, copy, target, files, edits, kept, owned, faults>>
      BY <1>6 DEF Truncate
    <2> QED  BY <1>2, <2>1, <2>2
  <1>7. ASSUME NEW p \in Procs, Fill(p)
        PROVE  Alone_' /\ Unmade' /\ Stand' /\ Noted'
    <2>1. doing[p] = "fill" /\ doing'[p] \notin {"write", "fill", "make"}
      BY <1>7, FillFacts DEF Fill
    <2>2. \A q \in Procs \ {p} : doing'[q] = doing[q] /\ copy'[q] = copy[q]
      BY <1>7 DEF Fill
    <2>3. \A q \in Procs : doing'[q] \notin {"write", "fill"}
      BY <1>2, <2>1, <2>2
    <2>4. Unmade' /\ Stand'
      BY <1>2, <1>7, <2>1, <2>2 DEF Fill
    <2>5. faults' = 0 => kept' \subseteq memo'
      BY <1>2, <1>7, <2>1, FillFacts DEF Fill
    <2> QED  BY <2>3, <2>4, <2>5
  <1>8. ASSUME NEW p \in Procs, Make(p)
        PROVE  Alone_' /\ Unmade' /\ Stand' /\ Noted'
    <2>1. /\ doing[p] = "make" /\ target[p] \in Names /\ files[target[p]] = 0
          /\ files' = [files EXCEPT ![target[p]] = edits + 1]
          /\ doing' = [doing EXCEPT ![p] = "idle"]
          /\ target' = [target EXCEPT ![p] = NoTarget]
          /\ UNCHANGED <<memo, facts, copy, kept, owned, faults>>
      BY <1>2, <1>8 DEF Make, Holding
    <2>2. \A q \in Procs \ {p} : doing[q] = "make" => target[q] # target[p]
      BY <1>8 DEF Make, OthersMake
    <2>3. Alone_' /\ Noted'
      BY <1>2, <2>1
    <2>4. Unmade'
      BY <1>2, <2>1, <2>2 DEF Holding
    <2>5. Stand'
      BY <1>2, <2>1 DEF Holding
    <2> QED  BY <2>3, <2>4, <2>5
  <1>9. ASSUME NEW p \in Procs, Break(p)
        PROVE  Alone_' /\ Unmade' /\ Stand' /\ Noted'
    <2>1. faults' # 0
      BY <1>9, NotebookAssumption DEF Break
    <2>2. /\ doing' = [doing EXCEPT ![p] = "idle"] /\ files' = files /\ owned' = owned
          /\ target' = [target EXCEPT ![p] = NoTarget]
      BY <1>9 DEF Break
    <2> QED  BY <1>2, <2>1, <2>2
  <1>10. ASSUME NEW p \in Procs, NEW runs \in RunSets, NEW name_ \in Names,
                Distill(p, runs, name_)
         PROVE  Alone_' /\ Unmade' /\ Stand' /\ Noted'
    <2>1. /\ doing[p] = "idle" /\ files[name_] = 0
          /\ target' = [target EXCEPT ![p] = name_]
          /\ doing' = [doing EXCEPT ![p] = "make"]
          /\ UNCHANGED <<memo, facts, copy, files, edits, kept, owned, crossed, faults>>
      BY <1>10 DEF Distill
    <2> QED  BY <1>2, <2>1
  <1>11. ASSUME NoteFact
         PROVE  Alone_' /\ Unmade' /\ Stand' /\ Noted'
    <2>1. \A p \in Procs : doing[p] \notin {"write", "fill"}
      BY <1>11 DEF NoteFact
    <2> QED  BY <1>2, <1>11, <2>1 DEF NoteFact
  <1>12. ASSUME NEW name_ \in Names, EditScaffold(name_)
         PROVE  Alone_' /\ Unmade' /\ Stand' /\ Noted'
    <2>1. \A p \in Procs : ~ (doing[p] = "make" /\ target[p] = name_)
      BY <1>12 DEF EditScaffold
    <2>2. /\ files' = [files EXCEPT ![name_] = edits + 1]
          /\ owned' = (owned \ {files[name_]}) \cup {edits + 1}
          /\ UNCHANGED <<memo, doing, facts, copy, target, kept, faults>>
      BY <1>12 DEF EditScaffold
    <2>3. Alone_' /\ Noted'
      BY <1>2, <2>2
    <2>4. Unmade'
      BY <1>2, <2>1, <2>2 DEF Holding
    <2>5. Stand'
      BY <1>2, <2>2
    <2> QED  BY <2>3, <2>4, <2>5
  <1> QED
    BY BookCases, <1>4, <1>5, <1>6, <1>7, <1>8, <1>9, <1>10, <1>11, <1>12

LEMMA Unforgotten ==
    ASSUME BookTypeOK, Uncrossed
    PROVE  NothingForgotten
  BY DEF BookTypeOK, Uncrossed, NothingForgotten

-----------------------------------------------------------------------------
(***************************************************************************)
(* A step of p on the memory store.                                        *)
(***************************************************************************)
StoreStep(p) == WriteNext(p) \/ SearchNext(p) \/ Clear(p) \/ Refill(p) \/ Die(p)

(***************************************************************************)
(* A set of processes is finite, and grows and shrinks by ones.            *)
(***************************************************************************)
LEMMA GroupFacts ==
    ASSUME NEW S, S \subseteq Procs
    PROVE  /\ IsFiniteSet(S) /\ Cardinality(S) \in Nat
           /\ \A T \in SUBSET S : Cardinality(T) \in Nat /\ Cardinality(T) <= Cardinality(S)
           /\ \A x \in S : Cardinality(S) = Cardinality(S \ {x}) + 1
           /\ \A x \in Procs \ S : Cardinality(S \cup {x}) = Cardinality(S) + 1
  <1>1. IsFiniteSet(S)
    BY ProcessesAssumption, FS_Subset
  <1>2. Cardinality(S) \in Nat
    BY <1>1, FS_CardinalityType
  <1>3. \A T \in SUBSET S : Cardinality(T) \in Nat /\ Cardinality(T) <= Cardinality(S)
    BY <1>1, FS_Subset, FS_CardinalityType
  <1>4. ASSUME NEW x \in S
        PROVE  Cardinality(S) = Cardinality(S \ {x}) + 1
    <2>1. Cardinality(S \ {x}) = Cardinality(S) - 1
      BY <1>1, FS_RemoveElement
    <2> QED  BY <1>2, <2>1
  <1>5. \A x \in Procs \ S : Cardinality(S \cup {x}) = Cardinality(S) + 1
    BY <1>1, FS_AddElement
  <1> QED  BY <1>1, <1>2, <1>3, <1>4, <1>5

(***************************************************************************)
(* Rows are finitely many, and the ids of a set of rows are as many.       *)
(***************************************************************************)
LEMMA RowFacts ==
    ASSUME MemoryTypeOK, Ordered
    PROVE  /\ Cardinality(rows) \in Nat
           /\ \A T \in SUBSET rows : /\ IsFiniteSet(T) /\ Cardinality(T) \in Nat
                                     /\ Cardinality(T) <= Cardinality(rows)
           /\ Cardinality(Ids) = Cardinality(rows) /\ IsFiniteSet(Ids)
           /\ \A old \in SUBSET Ids :
                Cardinality({r \in rows : r.id \notin old}) =
                  Cardinality(rows) - Cardinality(old)
  <1>1. IsFiniteSet(rows) /\ Cardinality(rows) \in Nat
    BY FS_CardinalityType DEF Ordered
  <1>2. \A T \in SUBSET rows : /\ IsFiniteSet(T) /\ Cardinality(T) \in Nat
                               /\ Cardinality(T) <= Cardinality(rows)
    BY <1>1, FS_Subset, FS_CardinalityType
  <1>3. ASSUME NEW old \in SUBSET Ids
        PROVE  /\ IsFiniteSet(old)
               /\ Cardinality({r \in rows : r.id \in old}) = Cardinality(old)
    <2> DEFINE R == {r \in rows : r.id \in old}
               f == [r \in R |-> r.id]
    <2>1. f \in Bijection(R, old)
      <3>1. f \in [R -> old]
        OBVIOUS
      <3>2. ASSUME NEW r \in R, NEW s \in R, r # s
            PROVE  f[r] # f[s]
        <4>1. r.id \in Int /\ s.id \in Int /\ (r.id < s.id \/ s.id < r.id)
          BY <3>2 DEF Ordered, MemoryTypeOK
        <4>2. f[r] = r.id /\ f[s] = s.id
          OBVIOUS
        <4> QED  BY <4>1, <4>2
      <3>3. \A i \in old : \E r \in R : f[r] = i
        BY DEF Ids
      <3> QED  BY <3>1, <3>2, <3>3, Fun_IsBij, Zenon
    <2>2. ExistsBijection(R, old)
      BY <2>1 DEF ExistsBijection
    <2>3. IsFiniteSet(R)
      BY <1>2
    <2> QED  BY <2>2, <2>3, FS_Bijection
  <1>4. Cardinality(Ids) = Cardinality(rows) /\ IsFiniteSet(Ids)
    <2>1. {r \in rows : r.id \in Ids} = rows
      BY DEF Ids
    <2> QED  BY <1>3, <2>1
  <1>5. ASSUME NEW old \in SUBSET Ids
        PROVE  Cardinality({r \in rows : r.id \notin old}) =
                 Cardinality(rows) - Cardinality(old)
    <2> DEFINE R == {r \in rows : r.id \in old}
    <2>1. rows \ R = {r \in rows : r.id \notin old} /\ rows \cap R = R
      OBVIOUS
    <2>2. Cardinality(rows \ R) = Cardinality(rows) - Cardinality(rows \cap R)
      BY <1>1, FS_Difference, Zenon
    <2> QED  BY <1>3, <2>1, <2>2
  <1> QED  BY <1>1, <1>2, <1>4, <1>5

(***************************************************************************)
(* The next id is greater than those there are, and no greater than the    *)
(* number of the write.                                                    *)
(***************************************************************************)
LEMMA NextFacts ==
    ASSUME MemoryTypeOK, Ordered
    PROVE  /\ NextId \in 1..(writes + 1)
           /\ \A r \in rows : r.id < NextId
           /\ NextId \notin Ids
  <1>1. writes \in Nat /\ Ids \subseteq Nat \ {0} /\ \A i \in Ids : i <= writes
    BY MemoryStoreAssumption DEF MemoryTypeOK, Ids, Ordered
  <1>2. CASE rows = {}
    BY <1>1, <1>2 DEF NextId, Ids
  <1>3. CASE rows # {}
    <2>1. Ids # {}
      BY <1>3 DEF Ids
    <2>2. Max(Ids) \in Ids /\ \A i \in Ids : i <= Max(Ids)
      BY <1>1, <2>1, MaxFacts
    <2>3. NextId = Max(Ids) + 1
      BY <1>3 DEF NextId
    <2>4. PICK m : m = Max(Ids)
      OBVIOUS
    <2>5. /\ m \in Nat /\ m # 0 /\ m <= writes /\ NextId = m + 1
          /\ \A i \in Ids : i \in Nat /\ i <= m
      BY <1>1, <2>2, <2>3, <2>4
    <2>6. \A i \in Ids : i < NextId
      BY <2>5
    <2>7. NextId \in 1..(writes + 1)
      BY <1>1, <2>5
    <2>8. \A r \in rows : r.id \in Ids
      BY DEF Ids
    <2>9. NextId \notin Ids
      <3>1. \A i \in Ids : i # NextId
        BY <2>5
      <3> QED  BY <3>1
    <2> QED  BY <2>6, <2>7, <2>8, <2>9
  <1> QED  BY <1>2, <1>3

(***************************************************************************)
(* A step of one process leaves the operations of the others alone.        *)
(***************************************************************************)
LEMMA OthersWork ==
    ASSUME MemoryTypeOK, NEW p \in Procs, StoreStep(p)
    PROVE  \A q \in Procs \ {p} : /\ at'[q] = at[q] /\ fresh'[q] = fresh[q]
                                  /\ excess'[q] = excess[q] /\ chosen'[q] = chosen[q]
  <1> USE DEF MemoryTypeOK, Go, Finish, Ends
  <1>1. CASE WriteNext(p)
    <2>1. CASE StartWrite(p)
      BY <2>1 DEF StartWrite
    <2>2. CASE Insert(p)
      BY <2>2 DEF Insert
    <2>3. CASE InsertFails(p) \/ Index(p)
      BY <2>3 DEF InsertFails, Index
    <2>4. CASE Count(p)
      BY <2>4 DEF Count
    <2>5. CASE Select(p)
      BY <2>5 DEF Select
    <2>6. CASE Delete(p) \/ Unindex(p) \/ PruneFails(p)
      BY <2>6 DEF Delete, Unindex, PruneFails
    <2> QED  BY <1>1, <2>1, <2>2, <2>3, <2>4, <2>5, <2>6 DEF WriteNext
  <1>2. CASE SearchNext(p)
    <2>1. CASE SearchBlind(p) \/ SearchFails(p) \/ Fetch(p)
      BY <2>1 DEF SearchBlind, SearchFails, Fetch
    <2>2. CASE SearchVectors(p)
      BY <2>2 DEF SearchVectors
    <2>3. CASE Match(p)
      BY <2>3 DEF Match
    <2> QED  BY <1>2, <2>1, <2>2, <2>3 DEF SearchNext
  <1>3. CASE Clear(p) \/ Refill(p) \/ Die(p)
    BY <1>3 DEF Clear, Refill, Die
  <1> QED  BY <1>1, <1>2, <1>3 DEF StoreStep

(***************************************************************************)
(* The steps of a process, one by one.                                     *)
(***************************************************************************)
LEMMA StoreCases ==
    ASSUME NEW p \in Procs, StoreStep(p)
    PROVE  \/ StartWrite(p) \/ Insert(p) \/ InsertFails(p) \/ Index(p)
           \/ Count(p) \/ Select(p) \/ Delete(p) \/ Unindex(p) \/ PruneFails(p)
           \/ SearchBlind(p) \/ SearchVectors(p) \/ SearchFails(p) \/ Match(p) \/ Fetch(p)
           \/ Clear(p) \/ Refill(p) \/ Die(p)
  BY DEF StoreStep, WriteNext, SearchNext

(***************************************************************************)
(* An operation that is over leaves values of the right kind.              *)
(***************************************************************************)
LEMMA FinishType ==
    ASSUME MemoryTypeOK, NEW p \in Procs, Finish(p)
    PROVE  /\ at' \in [Procs -> Places] /\ fresh' \in [Procs -> Nat]
           /\ excess' \in [Procs -> Nat] /\ chosen' \in [Procs -> SUBSET (1..MaxWrites)]
           /\ at'[p] = "idle"
  BY DEF MemoryTypeOK, Finish, Go, Places

LEMMA EmbedsType ==
    ASSUME MemoryTypeOK, NEW p \in Procs, NEW d \in Dims, Embeds(p, d)
    PROVE  pins' \in [Procs -> [Endpoints -> Dims \cup {0}]]
  <1>1. PICK which \in Endpoints : pins' = [pins EXCEPT ![p][which] = d]
    BY DEF Embeds, Endpoint, Endpoints
  <1> QED  BY <1>1 DEF MemoryTypeOK

(***************************************************************************)
(* The row that is written is of the right kind, and Insert says so.       *)
(***************************************************************************)
LEMMA InsertFacts ==
    ASSUME MemoryTypeOK, Ordered, Working, NEW p \in Procs, Insert(p)
    PROVE  \E r \in [id : 1..MaxWrites, text : 1..MaxWrites, dim : Dims] :
             /\ rows' = rows \cup {r} /\ writes' = writes + 1 /\ writes' \in 0..MaxWrites
             /\ r.id \in 1..writes' /\ r.text = writes' /\ r \notin rows
             /\ \A s \in rows : s.id < r.id /\ s.text < r.text
             /\ r.id \notin Ids /\ r.id = NextId
  <1> DEFINE r == [id |-> NextId, text |-> writes + 1, dim |-> fresh[p]]
  <1>1. /\ NextId \in 1..(writes + 1) /\ NextId \notin Ids
        /\ \A s \in rows : s.id < NextId
    BY NextFacts
  <1>2. writes \in Nat /\ writes + 1 \in 1..MaxWrites /\ writes' = writes + 1
    BY MemoryStoreAssumption DEF Insert, MemoryTypeOK
  <1>3. NextId \in 1..MaxWrites
    BY <1>1, <1>2, MemoryStoreAssumption
  <1>4. fresh[p] \in Dims /\ rows' = rows \cup {r}
    BY DEF Insert, Working
  <1>5. r \in [id : 1..MaxWrites, text : 1..MaxWrites, dim : Dims]
    BY <1>2, <1>3, <1>4
  <1>6. \A s \in rows : s.text < writes + 1
    BY <1>2 DEF Ordered, MemoryTypeOK
  <1>7. r \notin rows
    BY <1>1 DEF Ids
  <1>8. writes' \in 0..MaxWrites /\ r.id \in 1..writes' /\ r.text = writes'
    BY <1>1, <1>2
  <1> HIDE DEF r
  <1>9. r.id = NextId
    BY DEF r
  <1>10. r.text = writes + 1
    BY DEF r
  <1> QED  BY <1>1, <1>2, <1>4, <1>5, <1>6, <1>7, <1>8, <1>9, <1>10

LEMMA MemTypeStep ==
    ASSUME MemoryTypeOK, Ordered, Working, NEW p \in Procs, StoreStep(p)
    PROVE  MemoryTypeOK'
  <1> DEFINE Ops == /\ at' \in [Procs -> Places] /\ fresh' \in [Procs -> Nat]
                    /\ excess' \in [Procs -> Nat]
                    /\ chosen' \in [Procs -> SUBSET (1..MaxWrites)]
  <1>0. /\ MemoryTypeOK /\ Dims \subseteq Nat /\ MaxWrites \in Nat /\ MaxEntries \in Nat
        /\ Finish(p) => Ops
    BY MemoryStoreAssumption, FinishType
  <1>1. ASSUME StartWrite(p)
        PROVE  MemoryTypeOK'
    <2>1. PICK d \in Dims : Embeds(p, d) /\ fresh' = [fresh EXCEPT ![p] = d]
      BY <1>1 DEF StartWrite
    <2>2. pins' \in [Procs -> [Endpoints -> Dims \cup {0}]]
      BY <2>1, EmbedsType
    <2> QED  BY <1>0, <1>1, <2>1, <2>2 DEF StartWrite, MemoryTypeOK, storeVars, knowVars, Go, Places
  <1>2. ASSUME Insert(p)
        PROVE  MemoryTypeOK'
    <2>1. PICK r \in [id : 1..MaxWrites, text : 1..MaxWrites, dim : Dims] :
            /\ rows' = rows \cup {r} /\ writes' \in 0..MaxWrites /\ r.id = NextId
      BY <1>2, InsertFacts
    <2>2. rows' \subseteq [id : 1..MaxWrites, text : 1..MaxWrites, dim : Dims]
      BY <2>1 DEF MemoryTypeOK
    <2>3. NextId \in Nat /\ AfterCommit \in {"index", "count", "idle"}
      BY <2>1 DEF AfterCommit
    <2>4. Ops
      <3>1. CASE AfterCommit = "idle"
        BY <1>0, <1>2, <3>1 DEF Insert
      <3>2. CASE AfterCommit # "idle"
        BY <1>0, <1>2, <2>3, <3>2 DEF Insert, Go, Places, MemoryTypeOK
      <3> QED  BY <3>1, <3>2
    <2>5. migrated' \subseteq Procs /\ wrote' \subseteq Procs
      BY <1>2 DEF Insert, MemoryTypeOK
    <2> QED  BY <1>0, <1>2, <2>1, <2>2, <2>4, <2>5 DEF Insert, MemoryTypeOK
  <1>3. ASSUME InsertFails(p)
        PROVE  MemoryTypeOK'
    BY <1>0, <1>3 DEF InsertFails, MemoryTypeOK, storeVars, knowVars
  <1>4. ASSUME Index(p)
        PROVE  MemoryTypeOK'
    <2>1. fresh[p] \in 1..MaxWrites
      BY <1>4 DEF Index, Working
    <2>2. Ops
      BY <1>0, <1>4 DEF Index, AfterIndex, Go, Places, MemoryTypeOK
    <2>3. shadow' \subseteq 1..MaxWrites
      BY <1>4, <2>1 DEF Index, MemoryTypeOK
    <2> QED  BY <1>0, <1>4, <2>2, <2>3 DEF Index, MemoryTypeOK, knowVars
  <1>5. ASSUME Count(p)
        PROVE  MemoryTypeOK'
    <2>1. Cardinality(rows) \in Nat
      BY RowFacts
    <2>2. Cardinality(rows) > MaxEntries => Cardinality(rows) - MaxEntries \in Nat
      BY <1>0, <2>1
    <2>3. Ops
      BY <1>0, <1>5, <2>2 DEF Count, Go, Places, MemoryTypeOK
    <2>4. raced' \in BOOLEAN /\ overfull' \in BOOLEAN
      BY <1>5 DEF Count, MemoryTypeOK
    <2> QED  BY <1>0, <1>5, <2>3, <2>4 DEF Count, MemoryTypeOK, storeVars
  <1>6. ASSUME Select(p)
        PROVE  MemoryTypeOK'
    <2>1. Ids \subseteq 1..MaxWrites
      BY DEF Ids, MemoryTypeOK
    <2>2. Ops
      BY <1>0, <1>6, <2>1 DEF Select, Go, Places, MemoryTypeOK
    <2> QED  BY <1>0, <1>6, <2>2 DEF Select, MemoryTypeOK, storeVars, knowVars
  <1>7. ASSUME Delete(p)
        PROVE  MemoryTypeOK'
    <2>1. Ops
      BY <1>0, <1>7 DEF Delete, Go, Places, MemoryTypeOK
    <2>2. overfull' \in BOOLEAN
      BY <1>7 DEF Delete
    <2>3. rows' \subseteq rows /\ disturbed' \subseteq Procs
      BY <1>7 DEF Delete, MemoryTypeOK
    <2> QED  BY <1>0, <1>7, <2>1, <2>2, <2>3 DEF Delete, MemoryTypeOK
  <1>8. ASSUME Unindex(p)
        PROVE  MemoryTypeOK'
    BY <1>0, <1>8 DEF Unindex, MemoryTypeOK, knowVars
  <1>9. ASSUME PruneFails(p)
        PROVE  MemoryTypeOK'
    BY <1>0, <1>9 DEF PruneFails, MemoryTypeOK, storeVars
  <1>10. ASSUME SearchBlind(p) \/ Fetch(p)
         PROVE  MemoryTypeOK'
    BY <1>0, <1>10 DEF SearchBlind, Fetch, Ends, MemoryTypeOK, storeVars
  <1>11. ASSUME SearchFails(p)
         PROVE  MemoryTypeOK'
    BY <1>0, <1>11 DEF SearchFails, EmbedFails, Ends, MemoryTypeOK, storeVars
  <1>12. ASSUME SearchVectors(p)
         PROVE  MemoryTypeOK'
    <2>1. Ids \subseteq 1..MaxWrites
      BY DEF Ids, MemoryTypeOK
    <2>2. PICK d \in Dims :
            /\ Embeds(p, d)
            /\ IF \E r \in rows : r.dim # d
               THEN Ends(p)
               ELSE /\ \E ids \in Best(Ids) : chosen' = [chosen EXCEPT ![p] = ids]
                    /\ Go(p, IF lexical THEN "match" ELSE "fetch")
                    /\ disturbed' = disturbed \ {p}
                    /\ UNCHANGED <<fresh, excess>>
      BY <1>12 DEF SearchVectors
    <2>3. pins' \in [Procs -> [Endpoints -> Dims \cup {0}]]
      BY <2>2, EmbedsType
    <2>4. Ops
      BY <1>0, <2>1, <2>2 DEF Ends, Best, Go, Places, MemoryTypeOK
    <2>5. disturbed' \subseteq Procs
      BY <2>2 DEF Ends, MemoryTypeOK
    <2> QED  BY <1>0, <1>12, <2>3, <2>4, <2>5 DEF SearchVectors, MemoryTypeOK, storeVars
  <1>13. ASSUME Match(p)
         PROVE  MemoryTypeOK'
    <2>1. PICK ids \in SUBSET (chosen[p] \cup shadow) : chosen' = [chosen EXCEPT ![p] = ids]
      BY <1>13 DEF Match, Best
    <2>2. Ops
      BY <1>0, <1>13, <2>1 DEF Match, Go, Places, MemoryTypeOK
    <2> QED  BY <1>0, <1>13, <2>2 DEF Match, MemoryTypeOK, storeVars, knowVars
  <1>14. ASSUME Clear(p)
         PROVE  MemoryTypeOK'
    <2>1. Ids \subseteq 1..MaxWrites
      BY DEF Ids, MemoryTypeOK
    <2>2. Ops
      BY <1>0, <1>14, <2>1 DEF Clear, Go, Places, MemoryTypeOK
    <2> QED  BY <1>0, <1>14, <2>2 DEF Clear, MemoryTypeOK, knowVars
  <1>15. ASSUME Refill(p)
         PROVE  MemoryTypeOK'
    <2>1. shadow' \subseteq 1..MaxWrites
      BY <1>15 DEF Refill, MemoryTypeOK
    <2> QED  BY <1>0, <1>15, <2>1 DEF Refill, MemoryTypeOK, knowVars
  <1>16. ASSUME Die(p)
         PROVE  MemoryTypeOK'
    <2>1. overfull' \in BOOLEAN
      BY <1>16 DEF Die
    <2>2. pins' \in [Procs -> [Endpoints -> Dims \cup {0}]]
      BY <1>16 DEF Die, NoPins, MemoryTypeOK
    <2>3. deaths' \in 0..MaxDeaths
      BY <1>16, MemoryStoreAssumption DEF Die, MemoryTypeOK
    <2> QED  BY <1>0, <1>16, <2>1, <2>2, <2>3 DEF Die, MemoryTypeOK, storeVars
  <1> QED
    BY StoreCases, <1>1, <1>2, <1>3, <1>4, <1>5, <1>6, <1>7, <1>8, <1>9, <1>10, <1>11,
       <1>12, <1>13, <1>14, <1>15, <1>16

(***************************************************************************)
(* The steps but for four change neither the rows nor the number of        *)
(* writes, and are not among those of a prune.                             *)
(***************************************************************************)
Quiet(p) ==
    /\ rows' = rows /\ writes' = writes /\ overfull' = overfull /\ raced' = raced
    /\ at[p] \notin {"select", "delete"} /\ at'[p] \notin {"select", "delete"}
    /\ MaxEntries > 0 => (at[p] \in {"index", "count"} <=> at'[p] \in {"index", "count"})

LEMMA QuietCases ==
    ASSUME MemoryTypeOK, NEW p \in Procs, StoreStep(p)
    PROVE  Quiet(p) \/ Insert(p) \/ Count(p) \/ Select(p) \/ Delete(p) \/ PruneFails(p) \/ Die(p)
  <1> USE DEF MemoryTypeOK, Go, Finish, Ends, Quiet, storeVars, knowVars
  <1>1. CASE StartWrite(p)
    BY <1>1 DEF StartWrite
  <1>2. CASE InsertFails(p)
    BY <1>2 DEF InsertFails
  <1>3. CASE Index(p)
    BY <1>3 DEF Index, AfterIndex
  <1>4. CASE Unindex(p)
    BY <1>4 DEF Unindex
  <1>5. CASE SearchBlind(p) \/ SearchFails(p) \/ Fetch(p)
    BY <1>5 DEF SearchBlind, SearchFails, Fetch
  <1>6. CASE SearchVectors(p)
    BY <1>6 DEF SearchVectors
  <1>7. CASE Match(p)
    BY <1>7 DEF Match
  <1>8. CASE Clear(p)
    BY <1>8 DEF Clear
  <1>9. CASE Refill(p)
    BY <1>9 DEF Refill
  <1> QED  BY StoreCases, <1>1, <1>2, <1>3, <1>4, <1>5, <1>6, <1>7, <1>8, <1>9

(***************************************************************************)
(* Rows come from Insert and go with Delete, and from nothing else.        *)
(***************************************************************************)
LEMMA RowCases ==
    ASSUME MemoryTypeOK, NEW p \in Procs, StoreStep(p)
    PROVE  (rows' = rows /\ writes' = writes) \/ Insert(p) \/ Delete(p)
  BY QuietCases DEF Quiet, Count, Select, PruneFails, Die, storeVars

LEMMA OrderedStep ==
    ASSUME MemoryTypeOK, Ordered, Working, NEW p \in Procs, StoreStep(p)
    PROVE  Ordered'
  <1>1. CASE rows' = rows /\ writes' = writes
    BY <1>1 DEF Ordered
  <1>2. CASE Insert(p)
    <2>1. PICK r \in [id : 1..MaxWrites, text : 1..MaxWrites, dim : Dims] :
            /\ rows' = rows \cup {r} /\ writes' = writes + 1 /\ r.id \in 1..writes'
            /\ r.text = writes' /\ \A s \in rows : s.id < r.id /\ s.text < r.text
      BY <1>2, InsertFacts
    <2>2. IsFiniteSet(rows')
      BY <2>1, FS_AddElement DEF Ordered
    <2>3. \A s \in rows' : s.id <= writes' /\ s.text <= writes'
      BY <2>1 DEF Ordered, MemoryTypeOK
    <2>4. \A s, t \in rows' : s # t => \/ s.id < t.id /\ s.text < t.text
                                       \/ t.id < s.id /\ t.text < s.text
      BY <2>1 DEF Ordered
    <2> QED  BY <2>2, <2>3, <2>4 DEF Ordered
  <1>3. CASE Delete(p)
    <2>1. rows' \subseteq rows /\ writes' = writes
      BY <1>3 DEF Delete
    <2>2. IsFiniteSet(rows')
      BY <2>1, FS_Subset DEF Ordered
    <2> QED  BY <2>1, <2>2 DEF Ordered
  <1> QED  BY RowCases, <1>1, <1>2, <1>3

LEMMA WorkingStep ==
    ASSUME MemoryTypeOK, Ordered, Working, NEW p \in Procs, StoreStep(p)
    PROVE  Working'
  <1> USE MemoryStoreAssumption DEF MemoryTypeOK, Go, Finish, Ends
  <1>1. lexical' = lexical
    BY StoreCases DEF StartWrite, Insert, InsertFails, Index, Count, Select, Delete, Unindex,
       PruneFails, SearchBlind, SearchVectors, SearchFails, Match, Fetch, Clear, Refill, Die
  <1>2. \A q \in Procs \ {p} : at'[q] = at[q] /\ fresh'[q] = fresh[q] /\ excess'[q] = excess[q]
    BY OthersWork
  <1> DEFINE Works == /\ at'[p] = "insert" => fresh'[p] \in Dims
                      /\ at'[p] = "index" => fresh'[p] \in 1..MaxWrites
                      /\ at'[p] \in {"count", "select", "delete"} => MaxEntries > 0
                      /\ at'[p] = "select" => excess'[p] > 0
                      /\ at'[p] = "match" => lexical
  <1>3. SUFFICES Works
    BY <1>1, <1>2 DEF Working
  <1>4. CASE StartWrite(p)
    BY <1>4 DEF StartWrite
  <1>5. CASE Insert(p)
    <2>1. NextId \in 1..MaxWrites
      BY <1>5, InsertFacts
    <2> QED  BY <1>5, <2>1 DEF Insert, AfterCommit
  <1>6. CASE InsertFails(p) \/ Unindex(p) \/ PruneFails(p) \/ SearchBlind(p)
             \/ SearchFails(p) \/ Fetch(p) \/ Refill(p) \/ Die(p)
    BY <1>6 DEF InsertFails, Unindex, PruneFails, SearchBlind, SearchFails, Fetch, Refill, Die
  <1>7. CASE Index(p)
    BY <1>7 DEF Index, AfterIndex
  <1>8. CASE Count(p)
    <2>1. Cardinality(rows) \in Nat /\ (at[p] = "count" => MaxEntries > 0)
      BY RowFacts DEF Working
    <2> QED  BY <1>8, <2>1 DEF Count
  <1>9. CASE Select(p)
    <2>1. MaxEntries > 0 /\ at'[p] \in {"idle", "delete"}
      BY <1>9 DEF Select, Working
    <2> QED  BY <2>1
  <1>10. CASE Delete(p)
    BY <1>10 DEF Delete
  <1>11. CASE SearchVectors(p)
    BY <1>11 DEF SearchVectors
  <1>12. CASE Match(p)
    BY <1>12 DEF Match
  <1>13. CASE Clear(p)
    BY <1>13 DEF Clear
  <1> QED
    BY StoreCases, <1>4, <1>5, <1>6, <1>7, <1>8, <1>9, <1>10, <1>11, <1>12, <1>13

LEMMA FoundStep ==
    ASSUME MemoryTypeOK, Ordered, Working, Found, NEW p \in Procs, StoreStep(p)
    PROVE  Found'
  <1> USE DEF MemoryTypeOK, Go, Finish, Ends, storeVars, knowVars
  <1>1. lexical' = lexical
    BY StoreCases DEF StartWrite, Insert, InsertFails, Index, Count, Select, Delete, Unindex,
       PruneFails, SearchBlind, SearchVectors, SearchFails, Match, Fetch, Clear, Refill, Die
  <1>2. wrote' \subseteq migrated'
    BY StoreCases DEF Found, StartWrite, Insert, InsertFails, Index, Count, Select, Delete,
       Unindex, PruneFails, SearchBlind, SearchVectors, SearchFails, Match, Fetch, Clear,
       Refill, Die
  <1>3. \A q \in Procs \ {p} : at'[q] = at[q] /\ chosen'[q] = chosen[q]
    BY OthersWork
  <1>4. \A q \in Procs \ {p} : q \in disturbed => q \in disturbed'
    BY StoreCases DEF StartWrite, Insert, InsertFails, Index, Count, Select, Delete,
       Unindex, PruneFails, SearchBlind, SearchVectors, SearchFails, Match, Fetch, Clear,
       Refill, Die
  <1>5. ASSUME NEW q \in Procs \ {p}, ~lexical, at[q] = "fetch", q \notin disturbed'
        PROVE  chosen'[q] \subseteq Ids'
    <2>1. chosen'[q] \subseteq Ids
      BY <1>3, <1>4, <1>5 DEF Found
    <2>2. CASE Delete(p)
      BY <1>5, <2>2 DEF Delete
    <2>3. CASE Insert(p)
      BY <2>1, <2>3 DEF Insert, Ids
    <2>4. CASE rows' = rows
      BY <2>1, <2>4 DEF Ids
    <2> QED  BY RowCases, <2>2, <2>3, <2>4
  <1>6. ASSUME ~lexical, at'[p] = "fetch", p \notin disturbed'
        PROVE  chosen'[p] \subseteq Ids'
    <2>1. SearchVectors(p)
      <3>1. ~ (StartWrite(p) \/ Insert(p) \/ InsertFails(p) \/ Index(p))
        BY <1>6 DEF StartWrite, Insert, InsertFails, Index, AfterCommit, AfterIndex
      <3>2. ~ (Count(p) \/ Select(p) \/ Delete(p) \/ Unindex(p) \/ PruneFails(p))
        BY <1>6 DEF Count, Select, Delete, Unindex, PruneFails
      <3>3. ~ (SearchBlind(p) \/ SearchFails(p) \/ Match(p) \/ Fetch(p))
        BY <1>6 DEF Working, SearchBlind, SearchFails, Match, Fetch
      <3>4. ~ (Clear(p) \/ Refill(p) \/ Die(p))
        BY <1>6 DEF Clear, Refill, Die
      <3> QED  BY StoreCases, <3>1, <3>2, <3>3, <3>4
    <2> QED  BY <1>6, <2>1 DEF SearchVectors, Best, Ids
  <1> QED  BY <1>1, <1>2, <1>3, <1>5, <1>6 DEF Found

(***************************************************************************)
(* A prune on its own spares the newest rows.                              *)
(***************************************************************************)
LEMMA SparedStep ==
    ASSUME MemoryTypeOK, Ordered, Working, Spared, NEW p \in Procs, StoreStep(p)
    PROVE  Spared'
  <1> SUFFICES ASSUME ~ raced'
               PROVE  Spared'
    BY DEF Spared
  <1> DEFINE Single == \A a, b \in Pruning : a = b
             Newest == {i \in 1..writes : i > writes - MaxEntries} \subseteq {r.text : r \in rows}
             Ample == \A q \in Procs :
                        at[q] = "select" => excess[q] + MaxEntries <= Cardinality(rows)
             Old == \A q \in Procs : at[q] = "delete" =>
                      /\ chosen[q] \subseteq Ids
                      /\ \A r \in rows : r.id \in chosen[q] => r.text + MaxEntries <= writes
  <1>1. ~ raced
    BY QuietCases DEF Quiet, Insert, Count, Select, Delete, PruneFails, Die, knowVars
  <1>2. Single /\ Newest /\ Ample /\ Old
    BY <1>1 DEF Spared
  <1>3. SUFFICES Single' /\ Newest' /\ Ample' /\ Old'
    BY DEF Spared
  <1>4. \A q \in Procs \ {p} : /\ at'[q] = at[q] /\ excess'[q] = excess[q]
                               /\ chosen'[q] = chosen[q]
    BY OthersWork
  <1>5. /\ MaxEntries \in Nat /\ MaxWrites \in Nat /\ writes \in Nat
        /\ Cardinality(rows) \in Nat
        /\ \A r \in rows : r.text \in Nat /\ r.id \in Nat /\ r.id \in Ids
    BY RowFacts, MemoryStoreAssumption DEF MemoryTypeOK, Ids
  <1>6. ASSUME rows' = rows, writes' = writes, at'[p] \notin {"select", "delete"}
        PROVE  Single' /\ Newest' /\ Ample' /\ Old'
    <2>1. Single'
      BY <1>2, <1>4, <1>6 DEF Pruning
    <2>2. Newest'
      BY <1>2, <1>6
    <2>3. Ample'
      BY <1>2, <1>4, <1>6
    <2>4. Old'
      BY <1>2, <1>4, <1>6 DEF Ids
    <2> QED  BY <2>1, <2>2, <2>3, <2>4
  <1>7. CASE Quiet(p) \/ PruneFails(p) \/ Die(p)
    BY <1>6, <1>7 DEF Quiet, PruneFails, Die, Finish, Go, storeVars, MemoryTypeOK
  <1>8. CASE Insert(p)
    <2>1. PICK n \in [id : 1..MaxWrites, text : 1..MaxWrites, dim : Dims] :
            /\ rows' = rows \cup {n} /\ writes' = writes + 1 /\ n.text = writes'
            /\ n \notin rows /\ n.id \notin Ids
      BY <1>8, InsertFacts
    <2>2. at'[p] \notin {"select", "delete"}
      BY <1>8 DEF Insert, AfterCommit, Finish, Go, MemoryTypeOK
    <2>3. Single'
      BY <1>2, <1>4, <2>2 DEF Pruning
    <2>4. Newest'
      <3> SUFFICES ASSUME NEW i \in 1..writes', i > writes' - MaxEntries
                   PROVE  \E r \in rows' : r.text = i
        OBVIOUS
      <3>1. CASE i = writes + 1
        BY <2>1, <3>1
      <3>2. CASE i # writes + 1
        <4>1. i \in 1..writes /\ i > writes - MaxEntries
          BY <1>5, <2>1, <3>2
        <4>2. \E r \in rows : r.text = i
          BY <1>2, <4>1
        <4> QED  BY <2>1, <4>2
      <3> QED  BY <3>1, <3>2
    <2>5. Cardinality(rows') = Cardinality(rows) + 1
      BY <2>1, FS_AddElement DEF Ordered
    <2>6. Ample'
      BY <1>2, <1>4, <1>5, <2>2, <2>5 DEF MemoryTypeOK
    <2>7. Ids \subseteq Ids' /\ \A q \in Procs \ {p} : at[q] = "delete" => chosen[q] \subseteq Ids
      BY <1>2, <2>1 DEF Ids
    <2>8. Old'
      BY <1>2, <1>4, <1>5, <2>1, <2>2, <2>7
    <2> QED  BY <2>3, <2>4, <2>6, <2>8
  <1>9. CASE Count(p)
    <2>1. CASE Cardinality(rows) > MaxEntries
      <3>1. /\ excess' = [excess EXCEPT ![p] = Cardinality(rows) - MaxEntries]
            /\ ~ Racing(p) /\ at' = [at EXCEPT ![p] = "select"]
            /\ rows' = rows /\ writes' = writes
        BY <1>9, <2>1 DEF Count, Go, storeVars
      <3>2. \A q \in Procs \ {p} : at'[q] \notin {"select", "delete"}
        BY <1>4, <3>1 DEF Racing
      <3>3. Single'
        BY <3>2 DEF Pruning
      <3>4. Newest'
        BY <1>2, <3>1
      <3>5. Ample'
        BY <1>5, <3>1, <3>2 DEF MemoryTypeOK
      <3>6. Old'
        BY <3>1, <3>2 DEF MemoryTypeOK
      <3> QED  BY <3>3, <3>4, <3>5, <3>6
    <2>2. CASE ~ (Cardinality(rows) > MaxEntries)
      BY <1>6, <1>9, <2>2 DEF Count, Finish, Go, storeVars, MemoryTypeOK
    <2> QED  BY <2>1, <2>2
  <1>10. CASE Select(p)
    <2>1. PICK old \in SUBSET Ids :
            /\ Cardinality(old) = IF excess[p] < Cardinality(rows) THEN excess[p]
                                  ELSE Cardinality(rows)
            /\ \A i \in old : \A j \in Ids \ old : i < j
            /\ IF old = {} THEN Finish(p)
               ELSE /\ chosen' = [chosen EXCEPT ![p] = old]
                    /\ Go(p, "delete")
                    /\ UNCHANGED <<fresh, excess>>
      BY <1>10 DEF Select
    <2>2. at[p] = "select" /\ rows' = rows /\ writes' = writes
      BY <1>10 DEF Select, storeVars
    <2>3. CASE old = {}
      BY <1>6, <2>1, <2>2, <2>3 DEF Finish, Go, MemoryTypeOK
    <2>4. CASE old # {}
      <3>1. at'[p] = "delete" /\ chosen'[p] = old
        BY <2>1, <2>4 DEF Go, MemoryTypeOK
      <3>2. Single'
        BY <1>2, <1>4, <2>2 DEF Pruning
      <3>3. Newest' /\ Ample'
        BY <1>2, <1>4, <2>2, <3>1
      <3> DEFINE Rest == {r \in rows : r.id \notin old}
      <3>4. Cardinality(Rest) = Cardinality(rows) - Cardinality(old)
        BY RowFacts
      <3>5. Cardinality(Rest) >= MaxEntries
        BY <1>2, <1>5, <2>1, <2>2, <3>4 DEF MemoryTypeOK
      <3>6. ASSUME NEW r \in rows, r.id \in old
            PROVE  r.text + MaxEntries <= writes
        <4> DEFINE f == [s \in Rest |-> s.text]
                   Later == (r.text + 1)..writes
        <4>1. ASSUME NEW s \in Rest
              PROVE  s.text \in Later
          <5>1. r.id < s.id
            BY <1>5, <2>1, <3>6
          <5>2. r.text < s.text
            BY <1>5, <5>1 DEF Ordered
          <5> QED  BY <1>5, <5>2 DEF Ordered
        <4>2. ASSUME NEW s \in Rest, NEW t \in Rest, s # t
              PROVE  s.text # t.text
          <5>1. s.text < t.text \/ t.text < s.text
            BY <4>2 DEF Ordered
          <5> QED  BY <1>5, <5>1
        <4>3. f \in Injection(Rest, Later)
          BY <4>1, <4>2, Fun_IsInj
        <4>4. r.text <= writes /\ r.text + 1 \in Int /\ writes \in Int
          BY <1>5 DEF Ordered
        <4>5. IsFiniteSet(Later) /\ Cardinality(Later) = writes - r.text
          <5>1. /\ IsFiniteSet(Later)
                /\ Cardinality(Later) = IF r.text + 1 > writes THEN 0
                                        ELSE writes - (r.text + 1) + 1
            BY <4>4, FS_Interval, Zenon
          <5> QED  BY <1>5, <4>4, <5>1
        <4>6. Cardinality(Rest) <= Cardinality(Later)
          BY <4>3, <4>5, FS_Injection, Zenon DEF ExistsInjection
        <4>7. Cardinality(Rest) \in Nat
          BY RowFacts
        <4> QED  BY <1>5, <3>5, <4>4, <4>5, <4>6, <4>7
      <3>7. \A q \in Procs \ {p} : at'[q] # "delete"
        BY <1>2, <1>4, <2>2 DEF Pruning
      <3>8. Ids' = Ids
        BY <2>2 DEF Ids
      <3>9. Old'
        BY <2>2, <3>1, <3>6, <3>7, <3>8
      <3> QED  BY <3>2, <3>3, <3>9
    <2> QED  BY <2>3, <2>4
  <1>11. CASE Delete(p)
    <2>1. /\ at[p] = "delete" /\ rows' = {r \in rows : r.id \notin chosen[p]}
          /\ writes' = writes /\ at'[p] \notin {"select", "delete"}
      BY <1>11 DEF Delete, Finish, Go, MemoryTypeOK
    <2>2. \A q \in Procs : at'[q] \notin {"select", "delete"}
      BY <1>2, <1>4, <2>1 DEF Pruning
    <2>3. Newest'
      <3> SUFFICES ASSUME NEW i \in 1..writes, i > writes - MaxEntries
                   PROVE  \E r \in rows' : r.text = i
        BY <2>1
      <3>1. PICK r \in rows : r.text = i
        BY <1>2
      <3>2. r.id \notin chosen[p]
        BY <1>2, <1>5, <2>1, <3>1
      <3> QED  BY <2>1, <3>1, <3>2
    <2>4. Single' /\ Ample' /\ Old'
      BY <2>2 DEF Pruning
    <2> QED  BY <2>3, <2>4
  <1> QED  BY QuietCases, <1>7, <1>8, <1>9, <1>10, <1>11

(***************************************************************************)
(* What there is after a step: rows are counted as before; and a bound on  *)
(* what a prune leaves may be raised.                                      *)
(***************************************************************************)
LEMMA NextRows ==
    ASSUME Ordered'
    PROVE  /\ Cardinality(rows') \in Nat
           /\ \A T \in SUBSET rows' : Cardinality(T) \in Nat /\ Cardinality(T) <= Cardinality(rows')
  <1>1. IsFiniteSet(rows')
    BY DEF Ordered
  <1> QED  BY <1>1, FS_CardinalityType, FS_Subset

LEMMA WithinNext ==
    ASSUME NEW later \in [Procs -> SUBSET Procs],
           \A a, b \in Pruning' : b \in later[a] => later[b] \subseteq later[a] \ {b},
           \A a \in Pruning' : \A n \in Nat :
             n = MaxEntries + Cardinality(Waiting') + Cardinality(later[a] \cap Pruning')
               => Leaves(a, n)'
    PROVE  Within(later)'
  <1> SUFFICES ASSUME NEW a \in Pruning'
               PROVE  Leaves(a, MaxEntries + Cardinality(Waiting)
                                  + Cardinality(later[a] \cap Pruning))'
    BY DEF Within
  <1>1. Waiting' \subseteq Procs /\ later[a] \cap Pruning' \subseteq Procs
    BY DEF Waiting, Pruning
  <1>2. Cardinality(Waiting') \in Nat /\ Cardinality(later[a] \cap Pruning') \in Nat
    BY <1>1, GroupFacts
  <1>3. PICK n \in Nat :
          n = MaxEntries + Cardinality(Waiting') + Cardinality(later[a] \cap Pruning')
    BY <1>2, MemoryStoreAssumption
  <1>4. Leaves(a, n)'
    BY <1>3
  <1> QED  BY <1>3, <1>4 DEF Leaves

LEMMA UnderCap ==
    ASSUME MemoryTypeOK', Ordered', Cardinality(rows') <= MaxEntries
    PROVE  Bounded'
  <1> DEFINE later == [q \in Procs |-> {}]
  <1>1. later \in [Procs -> SUBSET Procs]
    OBVIOUS
  <1>2. Waiting' \subseteq Procs /\ Pruning' \subseteq Procs
    BY DEF Waiting, Pruning
  <1>3. Cardinality(Waiting') \in Nat /\ Cardinality(Pruning') \in Nat
    BY <1>2, GroupFacts
  <1>4. /\ Cardinality(rows') \in Nat /\ MaxEntries \in Nat
        /\ \A T \in SUBSET rows' : Cardinality(T) \in Nat /\ Cardinality(T) <= Cardinality(rows')
    BY NextRows, MemoryStoreAssumption
  <1>5. Cardinality(rows') <= MaxEntries + Cardinality(Waiting') + Cardinality(Pruning')
    BY <1>3, <1>4
  <1>6. ASSUME NEW a \in Pruning', NEW n \in Nat,
               n = MaxEntries + Cardinality(Waiting') + Cardinality(later[a] \cap Pruning')
        PROVE  Leaves(a, n)'
    <2>1. Cardinality(later[a] \cap Pruning') = 0 /\ a \in Procs
      <3>1. later[a] \cap Pruning' = {} /\ a \in Procs
        BY DEF Pruning
      <3> QED  BY <3>1, FS_EmptySet
    <2>2. Cardinality(rows') <= n
      BY <1>3, <1>4, <1>6, <2>1
    <2>3. excess'[a] \in Nat
      BY <2>1 DEF MemoryTypeOK
    <2>4. {r \in rows' : r.id \notin chosen'[a]} \in SUBSET rows'
      OBVIOUS
    <2>5. Cardinality({r \in rows' : r.id \notin chosen'[a]}) <= n
      BY <1>4, <2>2, <2>4
    <2>6. Cardinality(rows') <= excess'[a] + n
      BY <1>4, <2>2, <2>3
    <2> QED  BY <2>5, <2>6 DEF Leaves
  <1>7. \A a, b \in Pruning' : b \in later[a] => later[b] \subseteq later[a] \ {b}
    BY DEF Pruning
  <1> HIDE DEF later
  <1>8. Within(later)'
    BY <1>1, <1>6, <1>7, WithinNext
  <1> QED  BY <1>1, <1>5, <1>8 DEF Bounded

(***************************************************************************)
(* The cap is kept, whatever prunes overlap, until one of them fails.      *)
(***************************************************************************)
LEMMA BoundedStep ==
    ASSUME MemoryTypeOK, Ordered, Working, Bounded, MemoryTypeOK', Ordered',
           NEW p \in Procs, StoreStep(p)
    PROVE  Bounded'
  <1> SUFFICES ASSUME MaxEntries > 0, ~ overfull'
               PROVE  Bounded'
    BY DEF Bounded
  <1> DEFINE W == Cardinality(Waiting)
             P == Cardinality(Pruning)
  <1>1. /\ MaxEntries \in Nat /\ W \in Nat /\ P \in Nat /\ Cardinality(rows) \in Nat
        /\ \A T \in SUBSET Pruning : Cardinality(T) \in Nat /\ Cardinality(T) <= P
        /\ \A T \in SUBSET rows : Cardinality(T) \in Nat /\ Cardinality(T) <= Cardinality(rows)
    <2>1. Waiting \subseteq Procs /\ Pruning \subseteq Procs
      BY DEF Waiting, Pruning
    <2> QED  BY <2>1, GroupFacts, RowFacts, MemoryStoreAssumption
  <1>2. \A q \in Procs \ {p} : /\ at'[q] = at[q] /\ excess'[q] = excess[q]
                               /\ chosen'[q] = chosen[q]
    BY OthersWork
  <1>3. CASE Cardinality(rows') <= MaxEntries
    BY <1>3, UnderCap
  <1>4. CASE ~ (Cardinality(rows') <= MaxEntries)
    <2>1. ~ overfull
      <3>1. CASE Quiet(p) \/ Insert(p) \/ Select(p) \/ PruneFails(p) \/ Die(p)
        BY <3>1 DEF Quiet, Insert, Select, PruneFails, Die, knowVars, MemoryTypeOK
      <3>2. CASE Count(p)
        BY <1>1, <1>4, <3>2 DEF Count, storeVars
      <3>3. CASE Delete(p)
        <4>1. Cardinality(rows') \in Nat
          BY NextRows
        <4>2. Cardinality(rows') > MaxEntries
          BY <1>1, <1>4, <4>1
        <4>3. overfull' = (overfull /\ Cardinality(rows') > MaxEntries)
          BY <3>3 DEF Delete
        <4> QED  BY <4>2, <4>3, Zenon
      <3> QED  BY QuietCases, <3>1, <3>2, <3>3
    <2>2. Cardinality(rows) <= MaxEntries + W + P
      BY <2>1 DEF Bounded
    <2>3. PICK later \in [Procs -> SUBSET Procs] : Within(later)
      BY <2>1 DEF Bounded
    <2>4. \A a, b \in Pruning : b \in later[a] => later[b] \subseteq later[a] \ {b}
      BY <2>3 DEF Within
    <2>5. \A a \in Pruning : Leaves(a, MaxEntries + W + Cardinality(later[a] \cap Pruning))
      BY <2>3 DEF Within
    <2>6. \A a \in Procs : later[a] \cap Pruning \subseteq Pruning
      OBVIOUS
    <2>7. ASSUME rows' = rows, Waiting' = Waiting, Pruning' = Pruning, p \notin Pruning
          PROVE  Bounded'
      <3>1. ASSUME NEW a \in Pruning, NEW n \in Nat, Leaves(a, n)
            PROVE  Leaves(a, n)'
        <4>1. a \in Procs \ {p}
          BY <2>7 DEF Pruning
        <4> QED  BY <1>2, <2>7, <3>1, <4>1 DEF Leaves
      <3>2. \A a \in Pruning' : \A n \in Nat :
              n = MaxEntries + Cardinality(Waiting') + Cardinality(later[a] \cap Pruning')
                => Leaves(a, n)'
        BY <2>5, <2>7, <3>1
      <3>3. \A a, b \in Pruning' : b \in later[a] => later[b] \subseteq later[a] \ {b}
        BY <2>4, <2>7
      <3>4. Within(later)'
        BY <3>2, <3>3, WithinNext
      <3> QED  BY <2>2, <2>3, <2>7, <3>4 DEF Bounded
    <2>8. CASE Quiet(p)
      <3>1. Waiting' = Waiting /\ Pruning' = Pruning /\ p \notin Pruning
        BY <1>2, <2>8 DEF Quiet, Waiting, Pruning
      <3> QED  BY <2>7, <2>8, <3>1 DEF Quiet
    <2>9. CASE Die(p)
      <3>1. at[p] \notin {"index", "count", "select", "delete"} /\ at'[p] = "idle"
        BY <2>9 DEF Die, Finish, Go, MemoryTypeOK
      <3>2. Waiting' = Waiting /\ Pruning' = Pruning /\ p \notin Pruning
        BY <1>2, <3>1 DEF Waiting, Pruning
      <3> QED  BY <2>7, <2>9, <3>2 DEF Die, storeVars
    <2>10. CASE PruneFails(p)
      BY <2>10 DEF PruneFails
    <2>11. CASE Insert(p)
      <3>1. PICK r \in [id : 1..MaxWrites, text : 1..MaxWrites, dim : Dims] :
              rows' = rows \cup {r} /\ r \notin rows
        BY <2>11, InsertFacts
      <3>2. at[p] = "insert" /\ at'[p] \in {"index", "count"}
        BY <1>1, <2>11 DEF Insert, AfterCommit, Go, MemoryTypeOK
      <3>3. Waiting' = Waiting \cup {p} /\ p \notin Waiting /\ Pruning' = Pruning
        BY <1>2, <3>2 DEF Waiting, Pruning
      <3>4. Cardinality(Waiting') = W + 1
        <4>1. Waiting \subseteq Procs
          BY DEF Waiting
        <4> QED  BY <3>3, <4>1, GroupFacts
      <3>5. Cardinality(rows') = Cardinality(rows) + 1
        BY <3>1, FS_AddElement DEF Ordered
      <3>6. ASSUME NEW a \in Pruning, NEW n \in Nat, Leaves(a, n)
            PROVE  Leaves(a, n + 1)'
        <4>1. a \in Procs \ {p} /\ excess[a] \in Nat
          BY <3>2 DEF Pruning, MemoryTypeOK
        <4>2. CASE at[a] = "select"
          <5>1. Cardinality(rows') <= excess'[a] + (n + 1) /\ at'[a] = "select"
            BY <1>1, <1>2, <3>5, <3>6, <4>1, <4>2 DEF Leaves
          <5> QED  BY <5>1 DEF Leaves
        <4>3. CASE at[a] # "select"
          <5> DEFINE Rest == {s \in rows : s.id \notin chosen[a]}
          <5>1. IsFiniteSet(Rest) /\ Cardinality(Rest) \in Nat /\ Cardinality(Rest) <= n
            BY <3>6, <4>3, RowFacts DEF Leaves
          <5>2. IsFiniteSet(Rest \cup {r}) /\ Cardinality(Rest \cup {r}) <= n + 1
            <6>1. /\ IsFiniteSet(Rest \cup {r})
                  /\ Cardinality(Rest \cup {r}) =
                       IF r \in Rest THEN Cardinality(Rest) ELSE Cardinality(Rest) + 1
              BY <5>1, FS_AddElement, Zenon
            <6> HIDE DEF Rest
            <6> QED  BY <5>1, <6>1
          <5>3. {s \in rows' : s.id \notin chosen[a]} \subseteq Rest \cup {r}
            BY <3>1
          <5>4. Cardinality({s \in rows' : s.id \notin chosen[a]}) <= Cardinality(Rest \cup {r})
            BY <5>2, <5>3, FS_Subset, Zenon
          <5>5. Cardinality({s \in rows' : s.id \notin chosen[a]}) \in Nat
            BY NextRows
          <5>6. Cardinality(Rest \cup {r}) \in Nat
            BY <5>2, FS_CardinalityType
          <5>7. Cardinality({s \in rows' : s.id \notin chosen[a]}) <= n + 1
            BY <5>2, <5>4, <5>5, <5>6
          <5>8. chosen'[a] = chosen[a] /\ at'[a] # "select"
            BY <1>2, <4>1, <4>3
          <5> QED  BY <5>7, <5>8 DEF Leaves
        <4> QED  BY <4>2, <4>3
      <3>7. ASSUME NEW a \in Pruning', NEW n \in Nat,
                   n = MaxEntries + Cardinality(Waiting') + Cardinality(later[a] \cap Pruning')
            PROVE  Leaves(a, n)'
        <4>1. a \in Pruning /\ Cardinality(later[a] \cap Pruning) \in Nat
          BY <1>1, <3>3
        <4>2. PICK m \in Nat : m = MaxEntries + W + Cardinality(later[a] \cap Pruning)
          BY <1>1, <4>1
        <4>3. n = m + 1
          BY <1>1, <3>3, <3>4, <3>7, <4>1, <4>2
        <4>4. Leaves(a, m)
          BY <2>5, <4>1, <4>2
        <4>5. Leaves(a, m + 1)'
          BY <3>6, <4>1, <4>4
        <4> QED  BY <4>3, <4>5
      <3>8. \A a, b \in Pruning' : b \in later[a] => later[b] \subseteq later[a] \ {b}
        BY <2>4, <3>3
      <3>9. Within(later)'
        BY <3>7, <3>8, WithinNext
      <3>10. Cardinality(rows') <= MaxEntries + Cardinality(Waiting') + Cardinality(Pruning')
        BY <1>1, <2>2, <3>3, <3>4, <3>5
      <3> QED  BY <2>3, <3>9, <3>10 DEF Bounded
    <2>12. CASE Count(p)
      <3>1. /\ Cardinality(rows) > MaxEntries /\ rows' = rows /\ at[p] = "count"
            /\ at' = [at EXCEPT ![p] = "select"]
            /\ excess' = [excess EXCEPT ![p] = Cardinality(rows) - MaxEntries]
        BY <1>1, <1>4, <2>12 DEF Count, Go, storeVars
      <3>2. at'[p] = "select" /\ excess'[p] = Cardinality(rows) - MaxEntries
        BY <3>1 DEF MemoryTypeOK
      <3>3. /\ Waiting' = Waiting \ {p} /\ p \in Waiting
            /\ Pruning' = Pruning \cup {p} /\ p \notin Pruning
        BY <1>2, <3>1, <3>2 DEF Waiting, Pruning
      <3>4. /\ W = Cardinality(Waiting') + 1 /\ Cardinality(Pruning') = P + 1
            /\ Cardinality(Waiting') \in Nat
            /\ \A T \in SUBSET Pruning : Cardinality(T \cup {p}) = Cardinality(T) + 1
        <4>1. Waiting \subseteq Procs /\ Pruning \subseteq Procs /\ Waiting' \subseteq Procs
          BY <3>3 DEF Waiting, Pruning
        <4>2. \A T \in SUBSET Pruning : p \in Procs \ T /\ T \subseteq Procs
          BY <3>3, <4>1
        <4> QED  BY <3>3, <4>1, <4>2, GroupFacts
      <3> DEFINE next == [q \in Procs |-> IF q = p THEN {} ELSE later[q] \cup {p}]
      <3>5. next \in [Procs -> SUBSET Procs]
        OBVIOUS
      <3>6. ASSUME NEW a \in Pruning', NEW b \in Pruning', b \in next[a]
            PROVE  next[b] \subseteq next[a] \ {b}
        <4>1. a \in Procs /\ b \in Procs /\ a # p
          BY <3>6 DEF Pruning
        <4>2. CASE b = p
          BY <4>1, <4>2
        <4>3. CASE b # p
          <5>1. a \in Pruning /\ b \in Pruning /\ b \in later[a]
            BY <3>3, <3>6, <4>1, <4>3
          <5>2. later[b] \subseteq later[a] \ {b}
            BY <2>4, <5>1
          <5> QED  BY <4>1, <4>3, <5>2
        <4> QED  BY <4>2, <4>3
      <3>7. ASSUME NEW a \in Pruning', NEW n \in Nat,
                   n = MaxEntries + Cardinality(Waiting') + Cardinality(next[a] \cap Pruning')
            PROVE  Leaves(a, n)'
        <4>1. CASE a = p
          <5>1. next[a] \cap Pruning' = {}
            BY <4>1
          <5>2. Cardinality(next[a] \cap Pruning') = 0
            BY <5>1, FS_EmptySet
          <5>3. Cardinality(rows) <= excess'[p] + n
            BY <1>1, <3>2, <3>4, <3>7, <5>2
          <5> QED  BY <3>1, <3>2, <4>1, <5>3 DEF Leaves
        <4>2. CASE a # p
          <5>1. a \in Pruning /\ a \in Procs \ {p}
            BY <3>3, <4>2 DEF Pruning
          <5>2. next[a] \cap Pruning' = (later[a] \cap Pruning) \cup {p}
            BY <3>3, <5>1
          <5>3. Cardinality(next[a] \cap Pruning') = Cardinality(later[a] \cap Pruning) + 1
            <6>1. later[a] \cap Pruning \in SUBSET Pruning
              OBVIOUS
            <6>2. Cardinality((later[a] \cap Pruning) \cup {p})
                    = Cardinality(later[a] \cap Pruning) + 1
              BY <3>4, <6>1
            <6> QED  BY <5>2, <6>2
          <5>4. Cardinality(later[a] \cap Pruning) \in Nat
            BY <1>1
          <5>5. n = MaxEntries + W + Cardinality(later[a] \cap Pruning)
            BY <1>1, <3>4, <3>7, <5>3, <5>4
          <5>6. Leaves(a, n)
            BY <2>5, <5>1, <5>5
          <5> QED  BY <1>2, <3>1, <5>1, <5>6 DEF Leaves
        <4> QED  BY <4>1, <4>2
      <3> HIDE DEF next
      <3>8. Within(next)'
        BY <3>5, <3>6, <3>7, WithinNext
      <3>9. Cardinality(rows') <= MaxEntries + Cardinality(Waiting') + Cardinality(Pruning')
        BY <1>1, <2>2, <3>1, <3>4
      <3> QED  BY <3>5, <3>8, <3>9 DEF Bounded
    <2>13. CASE Select(p)
      <3>1. PICK old \in SUBSET Ids :
              /\ Cardinality(old) = IF excess[p] < Cardinality(rows) THEN excess[p]
                                    ELSE Cardinality(rows)
              /\ IF old = {} THEN Finish(p)
                 ELSE /\ chosen' = [chosen EXCEPT ![p] = old]
                      /\ Go(p, "delete")
                      /\ UNCHANGED <<fresh, excess>>
        BY <2>13 DEF Select
      <3>2. at[p] = "select" /\ rows' = rows /\ excess[p] > 0 /\ excess[p] \in Nat
        BY <2>13 DEF Select, Working, MemoryTypeOK, storeVars
      <3>3. old # {}
        <4>1. old = {} => Cardinality(old) = 0
          BY FS_EmptySet
        <4> QED  BY <1>1, <1>4, <3>1, <3>2, <4>1
      <3>4. at'[p] = "delete" /\ chosen'[p] = old
        BY <3>1, <3>3 DEF Go, MemoryTypeOK
      <3>5. Waiting' = Waiting /\ Pruning' = Pruning /\ p \in Pruning
        BY <1>2, <3>2, <3>4 DEF Waiting, Pruning
      <3>6. ASSUME NEW a \in Pruning, NEW n \in Nat, Leaves(a, n)
            PROVE  Leaves(a, n)'
        <4>1. CASE a = p
          <5>1. Cardinality({r \in rows : r.id \notin old}) = Cardinality(rows) - Cardinality(old)
            BY RowFacts
          <5>2. Cardinality(rows) <= excess[p] + n
            BY <3>2, <3>6, <4>1 DEF Leaves
          <5>3. Cardinality({r \in rows : r.id \notin old}) <= n
            BY <1>1, <3>1, <3>2, <5>1, <5>2
          <5> QED  BY <3>2, <3>4, <4>1, <5>3 DEF Leaves
        <4>2. CASE a # p
          <5>1. a \in Procs \ {p}
            BY <4>2 DEF Pruning
          <5> QED  BY <1>2, <3>2, <3>6, <5>1 DEF Leaves
        <4> QED  BY <4>1, <4>2
      <3>7. \A a \in Pruning' : \A n \in Nat :
              n = MaxEntries + Cardinality(Waiting') + Cardinality(later[a] \cap Pruning')
                => Leaves(a, n)'
        BY <2>5, <3>5, <3>6
      <3>8. \A a, b \in Pruning' : b \in later[a] => later[b] \subseteq later[a] \ {b}
        BY <2>4, <3>5
      <3>9. Within(later)'
        BY <3>7, <3>8, WithinNext
      <3> QED  BY <2>2, <2>3, <3>2, <3>5, <3>9 DEF Bounded
    <2>14. CASE Delete(p)
      <3>1. /\ at[p] = "delete" /\ rows' = {r \in rows : r.id \notin chosen[p]}
            /\ at'[p] \notin {"select", "delete", "index", "count"}
        BY <2>14 DEF Delete, Finish, Go, MemoryTypeOK
      <3>2. Waiting' = Waiting /\ Pruning' = Pruning \ {p} /\ p \in Pruning
        BY <1>2, <3>1 DEF Waiting, Pruning
      <3>3. p \notin later[p]
        BY <2>4, <3>2
      <3>4. Cardinality(later[p] \cap Pruning) \in Nat /\ Cardinality(rows') \in Nat
        BY <1>1, NextRows
      <3>5. Cardinality(rows') <= MaxEntries + W + Cardinality(later[p] \cap Pruning)
        BY <2>5, <3>1, <3>2 DEF Leaves
      <3>6. ASSUME NEW T, T \subseteq Pruning', later[p] \cap Pruning \subseteq T
            PROVE  /\ Cardinality(T) \in Nat
                   /\ Cardinality(later[p] \cap Pruning) <= Cardinality(T)
        <4>1. T \subseteq Procs
          BY <3>6 DEF Pruning
        <4> QED  BY <3>6, <4>1, GroupFacts
      <3>7. /\ Cardinality(Pruning') \in Nat
            /\ Cardinality(later[p] \cap Pruning) <= Cardinality(Pruning')
        <4>1. later[p] \cap Pruning \subseteq Pruning'
          BY <3>2, <3>3
        <4> QED  BY <3>6, <4>1
      <3>8. ASSUME NEW a \in Pruning', NEW n \in Nat,
                   n = MaxEntries + Cardinality(Waiting') + Cardinality(later[a] \cap Pruning')
            PROVE  Leaves(a, n)'
        <4>1. a \in Procs \ {p} /\ a \in Pruning /\ excess'[a] \in Nat
          BY <3>2 DEF Pruning, MemoryTypeOK
        <4> DEFINE Rest == {r \in rows' : r.id \notin chosen'[a]}
        <4>2. Cardinality(Rest) \in Nat /\ Cardinality(Rest) <= Cardinality(rows')
          BY NextRows
        <4>3. CASE p \in later[a]
          <5>1. later[p] \cap Pruning \subseteq later[a] \cap Pruning'
            BY <2>4, <3>2, <3>3, <4>1, <4>3
          <5>2. /\ Cardinality(later[a] \cap Pruning') \in Nat
                /\ Cardinality(later[p] \cap Pruning) <= Cardinality(later[a] \cap Pruning')
            BY <3>6, <5>1
          <5>3. Cardinality(rows') <= n
            BY <1>1, <3>2, <3>4, <3>5, <3>8, <5>2
          <5>4. Cardinality(rows') <= excess'[a] + n /\ Cardinality(Rest) <= n
            BY <3>4, <4>1, <4>2, <5>3
          <5> QED  BY <5>4 DEF Leaves
        <4>4. CASE p \notin later[a]
          <5>1. later[a] \cap Pruning' = later[a] \cap Pruning
            BY <3>2, <4>4
          <5>2. Leaves(a, n)
            BY <2>5, <3>2, <3>8, <4>1, <5>1
          <5>3. at'[a] = at[a] /\ excess'[a] = excess[a] /\ chosen'[a] = chosen[a]
            BY <1>2, <4>1
          <5>4. CASE at[a] = "select"
            <6>1. rows' \in SUBSET rows
              BY <3>1
            <6>2. Cardinality(rows') <= Cardinality(rows)
              BY <1>1, <6>1
            <6>3. Cardinality(rows) <= excess[a] + n
              BY <5>2, <5>4 DEF Leaves
            <6>4. Cardinality(rows') <= excess'[a] + n
              BY <1>1, <3>4, <4>1, <5>3, <6>2, <6>3
            <6> QED  BY <5>3, <5>4, <6>4 DEF Leaves
          <5>5. CASE at[a] # "select"
            <6> DEFINE Before == {r \in rows : r.id \notin chosen[a]}
            <6>1. Rest \subseteq Before /\ Before \in SUBSET rows
              BY <3>1, <5>3
            <6>2. IsFiniteSet(Before) /\ Cardinality(Before) \in Nat
              BY RowFacts
            <6>3. Cardinality(Rest) <= Cardinality(Before)
              BY <6>1, <6>2, FS_Subset, Zenon
            <6>4. Cardinality(Before) <= n
              BY <5>2, <5>5 DEF Leaves
            <6>5. Cardinality(Rest) <= n
              BY <4>2, <6>2, <6>3, <6>4
            <6> QED  BY <5>3, <5>5, <6>5 DEF Leaves
          <5> QED  BY <5>4, <5>5
        <4> QED  BY <4>3, <4>4
      <3>9. \A a, b \in Pruning' : b \in later[a] => later[b] \subseteq later[a] \ {b}
        BY <2>4, <3>2
      <3>10. Within(later)'
        BY <3>8, <3>9, WithinNext
      <3>11. Cardinality(rows') <= MaxEntries + Cardinality(Waiting') + Cardinality(Pruning')
        BY <1>1, <3>2, <3>4, <3>5, <3>7
      <3> QED  BY <2>3, <3>10, <3>11 DEF Bounded
    <2> QED
      BY QuietCases, <2>8, <2>9, <2>10, <2>11, <2>12, <2>13, <2>14
  <1> QED  BY <1>3, <1>4

LEMMA StoreStarts ==
    ASSUME MemoryInit
    PROVE  StoreInv
  <1>1. MemoryTypeOK
    <2>1. 0 \in 0..MaxWrites /\ 0 \in 0..MaxDeaths
      BY MemoryStoreAssumption
    <2>2. /\ at \in [Procs -> Places] /\ fresh \in [Procs -> Nat] /\ excess \in [Procs -> Nat]
          /\ chosen \in [Procs -> SUBSET (1..MaxWrites)]
          /\ pins \in [Procs -> [Endpoints -> Dims \cup {0}]]
      BY DEF MemoryInit, Places, NoPins
    <2>3. lexical \in BOOLEAN /\ overfull \in BOOLEAN /\ raced \in BOOLEAN
      BY DEF MemoryInit
    <2> QED  BY <2>1, <2>2, <2>3 DEF MemoryInit, MemoryTypeOK
  <1>2. rows = {} /\ writes = 0 /\ \A p \in Procs : at[p] = "idle"
    BY DEF MemoryInit
  <1>3. IsFiniteSet(rows) /\ Cardinality(rows) = 0
    BY <1>2, FS_EmptySet
  <1>4. Ordered /\ Working
    BY <1>2, <1>3 DEF Ordered, Working
  <1>5. Found
    BY <1>2 DEF Found, MemoryInit
  <1>6. Pruning = {} /\ Waiting = {} /\ Cardinality({}) = 0
    BY <1>2, FS_EmptySet DEF Pruning, Waiting
  <1>7. Spared
    BY <1>2, <1>6 DEF Spared
  <1>8. Bounded
    <2> DEFINE later == [q \in Procs |-> {}]
    <2>1. later \in [Procs -> SUBSET Procs] /\ Within(later)
      BY <1>6 DEF Within
    <2>2. Cardinality(rows) <= MaxEntries + Cardinality(Waiting) + Cardinality(Pruning)
      BY <1>3, <1>6, MemoryStoreAssumption
    <2> HIDE DEF later
    <2> QED  BY <2>1, <2>2 DEF Bounded
  <1> QED  BY <1>1, <1>4, <1>5, <1>7, <1>8 DEF StoreInv

LEMMA StoreGoesOn ==
    ASSUME StoreInv, MemoryNext
    PROVE  StoreInv'
  <1>1. PICK p \in Procs : StoreStep(p)
    BY DEF MemoryNext, StoreStep
  <1>2. MemoryTypeOK'
    BY <1>1, MemTypeStep DEF StoreInv
  <1>3. Ordered'
    BY <1>1, OrderedStep DEF StoreInv
  <1>4. Working'
    BY <1>1, WorkingStep DEF StoreInv
  <1>5. Found'
    BY <1>1, FoundStep DEF StoreInv
  <1>6. Spared'
    BY <1>1, SparedStep DEF StoreInv
  <1>7. Bounded'
    BY <1>1, <1>2, <1>3, BoundedStep DEF StoreInv
  <1> QED  BY <1>2, <1>3, <1>4, <1>5, <1>6, <1>7 DEF StoreInv

LEMMA StoreStays ==
    ASSUME StoreInv, UNCHANGED memoryVars
    PROVE  StoreInv'
  <1> USE DEF memoryVars, storeVars, opVars, knowVars
  <1>1. MemoryTypeOK' /\ Ordered' /\ Working'
    BY DEF StoreInv, MemoryTypeOK, Ordered, Working
  <1>2. Found'
    BY DEF StoreInv, Found, Ids
  <1>3. Spared'
    BY DEF StoreInv, Spared, Ids, Pruning
  <1>4. Bounded'
    BY DEF StoreInv, Bounded, Within, Leaves, Waiting, Pruning
  <1> QED  BY <1>1, <1>2, <1>3, <1>4 DEF StoreInv

LEMMA CapFollows ==
    ASSUME MemoryTypeOK, Spared, Bounded
    PROVE  CapKept
  <1> SUFFICES ASSUME MaxEntries > 0
               PROVE  CapKept
    BY DEF CapKept
  <1> DEFINE Writing == {p \in Procs : at[p] \in {"index", "count", "select", "delete"}}
  <1>1. Writing = Waiting \cup Pruning /\ Waiting \cap Pruning = {}
    BY DEF Waiting, Pruning
  <1>2. /\ IsFiniteSet(Waiting) /\ Cardinality(Waiting) \in Nat
        /\ IsFiniteSet(Pruning) /\ Cardinality(Pruning) \in Nat
    <2>1. Waiting \subseteq Procs /\ Pruning \subseteq Procs
      BY DEF Waiting, Pruning
    <2> QED  BY <2>1, GroupFacts
  <1>3. Cardinality(Writing) = Cardinality(Waiting) + Cardinality(Pruning)
    <2>1. Cardinality(Waiting \cup Pruning)
            = Cardinality(Waiting) + Cardinality(Pruning) - Cardinality(Waiting \cap Pruning)
      BY <1>2, FS_Union, Zenon
    <2>2. Cardinality(Waiting \cap Pruning) = 0
      BY <1>1, FS_EmptySet, Zenon
    <2>3. Cardinality(Writing) = Cardinality(Waiting \cup Pruning)
      BY <1>1
    <2> HIDE DEF Writing
    <2> QED  BY <1>2, <2>1, <2>2, <2>3
  <1>4. overfull \/ Cardinality(rows) <= MaxEntries + Cardinality(Writing)
    <2>1. overfull \/ Cardinality(rows)
            <= MaxEntries + Cardinality(Waiting) + Cardinality(Pruning)
      BY DEF Bounded
    <2> HIDE DEF Writing
    <2> QED  BY <1>2, <1>3, <2>1, MemoryStoreAssumption
  <1>5. raced \/ {i \in 1..writes : i > writes - MaxEntries} \subseteq {r.text : r \in rows}
    BY DEF Spared
  <1> QED  BY <1>4, <1>5, Zenon DEF CapKept

LEMMA FindFollows ==
    ASSUME MemoryTypeOK, Found
    PROVE  SearchFinds
  BY DEF MemoryTypeOK, Found, SearchFinds

LEMMA BookGoesOn ==
    ASSUME BookInv, BookNext
    PROVE  BookInv'
  <1>1. BookTypeOK'
    BY BookTypeStep DEF BookInv
  <1>2. Holding'
    BY HoldingStep DEF BookInv
  <1>3. Uncrossed'
    BY UncrossedStep DEF BookInv
  <1>4. NothingForgotten'
    BY <1>1, <1>3 DEF BookTypeOK, Uncrossed, NothingForgotten
  <1> QED  BY <1>1, <1>2, <1>3, <1>4 DEF BookInv

LEMMA BookStays ==
    ASSUME BookInv, UNCHANGED bookVars
    PROVE  BookInv'
  BY DEF BookInv, bookVars, BookTypeOK, Holding, Uncrossed, NothingForgotten

-----------------------------------------------------------------------------
\* What sessions remember for one another is as it should be.
RecallInv == StoreInv /\ BookInv /\ part \in Parts

(***************************************************************************)
(* RecallInv holds in every state: it is inductive, and the properties     *)
(* below follow from it.                                                   *)
(***************************************************************************)
THEOREM RecallSafety == RecallSpec => []RecallInv
  <1>1. RecallInit => RecallInv
    BY StoreStarts, BookStarts DEF RecallInit, RecallInv
  <1>2. RecallInv /\ [RecallNext]_recallVars => RecallInv'
    <2> SUFFICES ASSUME RecallInv, [RecallNext]_recallVars
                 PROVE  RecallInv'
      OBVIOUS
    <2>1. CASE TurnMoves
      BY <2>1, StoreGoesOn, BookStays DEF TurnMoves, RecallInv
    <2>2. CASE CommandMoves
      BY <2>2, StoreStays, BookGoesOn DEF CommandMoves, RecallInv
    <2>3. CASE UNCHANGED recallVars
      BY <2>3, StoreStays, BookStays DEF recallVars, RecallInv
    <2> QED  BY <2>1, <2>2, <2>3 DEF RecallNext
  <1> QED  BY <1>1, <1>2, PTL DEF RecallSpec

(***************************************************************************)
(* Every variable of the memory store and of the notebook has its type:    *)
(* ids and chunks stay within the number of writes (store.go:200-330).     *)
(***************************************************************************)
THEOREM RecallTyping == RecallSpec => []RecallTypeOK
  <1>1. RecallInv => RecallTypeOK
    BY DEF RecallInv, StoreInv, BookInv, RecallTypeOK
  <1> QED  BY <1>1, RecallSafety, PTL

(***************************************************************************)
(* The store holds no more rows than its cap and the writes under way      *)
(* allow, however many processes prune at once, until a prune fails; and   *)
(* the newest rows are spared until two prunes overlap (store.go:276-330). *)
(***************************************************************************)
THEOREM Capping == RecallSpec => []CapKept
  <1>1. RecallInv => CapKept
    BY CapFollows DEF RecallInv, StoreInv
  <1> QED  BY <1>1, RecallSafety, PTL

(***************************************************************************)
(* A search of a process that has written finds something, unless rows     *)
(* were deleted under it or the lexical index names rows that are gone     *)
(* (search.go:38-131).                                                     *)
(***************************************************************************)
THEOREM Finding == RecallSpec => []SearchFinds
  <1>1. RecallInv => SearchFinds
    BY FindFollows DEF RecallInv, StoreInv
  <1> QED  BY <1>1, RecallSafety, PTL

(***************************************************************************)
(* No fact is lost from MEMORY.md and no scaffold the user has edited is   *)
(* made again, unless two cross or a read or write is cut off              *)
(* (memo.go:58-77, distill.go:268-281).                                    *)
(***************************************************************************)
THEOREM Remembering == RecallSpec => []NothingForgotten
  <1>1. RecallInv => NothingForgotten
    BY DEF RecallInv, BookInv
  <1> QED  BY <1>1, RecallSafety, PTL
================================================================================
