---------------------------- MODULE LockStoreProofs ----------------------------
(***************************************************************************)
(* Proofs about LockStore: its types for any number of processes, and, for *)
(* any number of workers of one process, that granted claims exclude each  *)
(* other and that the store implements SymbolLock.                         *)
(***************************************************************************)
EXTENDS LockStore, TLAPS

(***************************************************************************)
(* A worker is a process and an agent of it.                               *)
(***************************************************************************)
LEMMA PairFacts ==
    \A w \in Workers : /\ Proc(w) \in Procs
                       /\ Agent(w) \in Agents
                       /\ Agent(w) # Nobody
                       /\ w # Nobody
  BY WorkersAssumption, NobodyAssumption DEF Proc, Agent

(***************************************************************************)
(* Workers of one store have different names.                              *)
(***************************************************************************)
LEMMA NameFacts ==
    ASSUME OneStore
    PROVE  \A v, w \in Workers : v # w => Agent(v) # Agent(w)
  <1> SUFFICES ASSUME NEW v \in Workers, NEW w \in Workers, Agent(v) = Agent(w)
               PROVE  v = w
    OBVIOUS
  <1>1. v = <<Proc(v), Agent(v)>> /\ w = <<Proc(w), Agent(w)>>
    BY WorkersAssumption DEF Proc, Agent
  <1>2. Proc(v) = Proc(w)
    BY DEF OneStore
  <1> QED  BY <1>1, <1>2

(***************************************************************************)
(* What aging does: an age stays in its range, never shrinks, and an age   *)
(* that is no larger than another stays so.                                *)
(***************************************************************************)
LEMMA AgeFacts ==
    /\ 0 \in Ages
    /\ \A t \in Ages : Older(t) \in Ages
    /\ \A t \in Ages : IsStale(t) => IsStale(Older(t))
    /\ \A t, u \in Ages : t <= u => Older(t) <= Older(u)
    /\ \A t, u \in Ages : t <= u /\ IsStale(t) => IsStale(u)
  BY ExpiryAssumption DEF Ages, Older, IsStale

--------------------------------------------------------------------------------
(***************************************************************************)
(* Type correctness, for any number of processes.                          *)
(***************************************************************************)
LEMMA TypeInit == Init => TypeOK
  BY AgeFacts DEF Init, TypeOK, Outside

LEMMA TypeStep == TypeOK /\ [Next]_vars => TypeOK'
  <1> SUFFICES ASSUME TypeOK, [Next]_vars
               PROVE  TypeOK'
    OBVIOUS
  <1> USE PairFacts, AgeFacts DEF TypeOK, Inside, Outside, files
  <1>1. ASSUME NEW w \in Workers, NEW S \in SUBSET Symbols, Call(w, S)
        PROVE  TypeOK'
    BY <1>1 DEF Call, Goto
  <1>2. ASSUME NEW w \in Workers, Release(w)
        PROVE  TypeOK'
    BY <1>2 DEF Release, Goto
  <1>3. ASSUME NEW w \in Workers, Abandon(w)
        PROVE  TypeOK'
    BY <1>3 DEF Abandon, Finish
  <1>4. ASSUME NEW w \in Workers, Enter(w)
        PROVE  TypeOK'
    BY <1>4 DEF Enter, Lock, Goto
  <1>5. ASSUME NEW w \in Workers, List(w)
        PROVE  TypeOK'
    BY <1>5 DEF List, Lock, Goto
  <1>6. ASSUME NEW w \in Workers, WriteFails(w)
        PROVE  TypeOK'
    BY <1>6 DEF WriteFails, Goto, RollbackSet
  <1>7. ASSUME NEW w \in Workers, Swept(w)
        PROVE  TypeOK'
    BY <1>7 DEF Swept, Finish, Unlock
  <1>8. ASSUME NEW w \in Workers, NEW s \in Symbols, CheckFree(w, s)
        PROVE  TypeOK'
    <2>1. CASE todo[w] = {s}
      BY <1>8, <2>1 DEF CheckFree, Checked, Goto
    <2>2. CASE todo[w] # {s}
      BY <1>8, <2>2 DEF CheckFree, Checked
    <2> QED  BY <2>1, <2>2
  <1>9. ASSUME NEW w \in Workers, NEW s \in Symbols, CheckStale(w, s)
        PROVE  TypeOK'
    BY <1>9 DEF CheckStale, Checked, Goto
  <1>10. ASSUME NEW w \in Workers, NEW s \in Symbols, Refuse(w, s)
         PROVE  TypeOK'
    BY <1>10 DEF Refuse, Finish, Unlock
  <1>11. ASSUME NEW w \in Workers, NEW s \in Symbols, Open(w, s)
         PROVE  TypeOK'
    BY <1>11 DEF Open, SetFile, Goto
  <1>12. ASSUME NEW w \in Workers, NEW s \in Symbols, Fill(w, s)
         PROVE  TypeOK'
    BY <1>12 DEF Fill, SetFile, Goto, Unlock
  <1>13. ASSUME NEW w \in Workers, NEW s \in Symbols, Look(w, s)
         PROVE  TypeOK'
    BY <1>13 DEF Look
  <1>14. ASSUME NEW w \in Workers, NEW s \in Symbols, Remove(w, s)
         PROVE  TypeOK'
    BY <1>14 DEF Remove, SetFile
  <1>15. ASSUME NEW p \in Procs, Crash(p)
         PROVE  TypeOK'
    BY <1>15 DEF Crash, Finish
  <1>16. CASE Tick
    BY <1>16 DEF Tick
  <1>17. CASE UNCHANGED vars
    BY <1>17 DEF vars
  <1>18. ASSUME NEW w \in Workers, NEW s \in Symbols, RemoveFails(w, s)
         PROVE  TypeOK'
    BY <1>18 DEF RemoveFails
  <1>19. ASSUME NEW w \in Workers, ListFails(w)
         PROVE  TypeOK'
    BY <1>19 DEF ListFails, Finish
  <1> QED
    BY <1>1, <1>2, <1>3, <1>4, <1>5, <1>6, <1>7, <1>8, <1>9, <1>10, <1>11,
       <1>12, <1>13, <1>14, <1>15, <1>16, <1>17, <1>18, <1>19 DEF Next, Proceed

(***************************************************************************)
(* Every state of the store is well typed, for every number of processes,  *)
(* agents and symbols and every expiry.                                    *)
(***************************************************************************)
THEOREM Typing == Spec => []TypeOK
  BY TypeInit, TypeStep, PTL DEF Spec

--------------------------------------------------------------------------------

(***************************************************************************)
(* A worker inside the mutex is alone there.                               *)
(***************************************************************************)
LEMMA Alone ==
    ASSUME OneStore, TypeOK, MutexInv,
           NEW w \in Workers, pc[w] \in Inside
    PROVE  \A v \in Workers \ {w} : pc[v] \in Outside
  <1> SUFFICES ASSUME NEW v \in Workers, v # w, pc[v] \in Inside
               PROVE  FALSE
    BY DEF TypeOK
  <1>1. mu[Proc(v)] = v /\ mu[Proc(w)] = w
    BY DEF MutexInv
  <1> QED  BY <1>1 DEF OneStore

(***************************************************************************)
(* The mutex is held by exactly the worker that is inside.                *)
(***************************************************************************)
LEMMA MutexStep ==
    ASSUME OneStore, IInv, TypeOK', [Next]_vars
    PROVE  MutexInv'
  <1> USE PairFacts DEF IInv, TypeOK, MutexInv, Inside, Outside, files, OneStore
  <1>1. ASSUME NEW w \in Workers, NEW S \in SUBSET Symbols, Call(w, S)
        PROVE  MutexInv'
    BY <1>1 DEF Call, Goto
  <1>2. ASSUME NEW w \in Workers, Release(w)
        PROVE  MutexInv'
    BY <1>2 DEF Release, Goto
  <1>3. ASSUME NEW w \in Workers, Abandon(w)
        PROVE  MutexInv'
    BY <1>3 DEF Abandon, Finish
  <1>4. ASSUME NEW w \in Workers, Enter(w)
        PROVE  MutexInv'
    BY <1>4 DEF Enter, Lock, Goto
  <1>5. ASSUME NEW w \in Workers, List(w)
        PROVE  MutexInv'
    BY <1>5 DEF List, Lock, Goto
  <1>6. ASSUME NEW w \in Workers, WriteFails(w)
        PROVE  MutexInv'
    BY <1>6 DEF WriteFails, Goto, RollbackSet
  <1>7. ASSUME NEW w \in Workers, Swept(w)
        PROVE  MutexInv'
    BY <1>7 DEF Swept, Finish, Unlock
  <1>8. ASSUME NEW w \in Workers, NEW s \in Symbols, CheckFree(w, s)
        PROVE  MutexInv'
    BY <1>8 DEF CheckFree, Checked, Goto
  <1>9. ASSUME NEW w \in Workers, NEW s \in Symbols, CheckStale(w, s)
        PROVE  MutexInv'
    BY <1>9 DEF CheckStale, HeldAgainst, Checked, Goto
  <1>10. ASSUME NEW w \in Workers, NEW s \in Symbols, Refuse(w, s)
        PROVE  MutexInv'
    BY <1>10 DEF Refuse, Finish, Unlock
  <1>11. ASSUME NEW w \in Workers, NEW s \in Symbols, Open(w, s)
        PROVE  MutexInv'
    BY <1>11 DEF Open, SetFile, Goto
  <1>12. ASSUME NEW w \in Workers, NEW s \in Symbols, Fill(w, s)
        PROVE  MutexInv'
    BY <1>12 DEF Fill, Opened, SetFile, Goto, Unlock
  <1>13. ASSUME NEW w \in Workers, NEW s \in Symbols, Look(w, s)
        PROVE  MutexInv'
    BY <1>13 DEF Look
  <1>14. ASSUME NEW w \in Workers, NEW s \in Symbols, Remove(w, s)
        PROVE  MutexInv'
    BY <1>14 DEF Remove, SetFile
  <1>15. ASSUME NEW p \in Procs, Crash(p)
         PROVE  MutexInv'
    BY <1>15 DEF Crash, Finish
  <1>16. CASE Tick
    BY <1>16 DEF Tick
  <1>17. CASE UNCHANGED vars
    BY <1>17 DEF vars
  <1>18. ASSUME NEW w \in Workers, NEW s \in Symbols, RemoveFails(w, s)
         PROVE  MutexInv'
    BY <1>18 DEF RemoveFails
  <1>19. ASSUME NEW w \in Workers, ListFails(w)
         PROVE  MutexInv'
    BY <1>19 DEF ListFails, Finish
  <1> QED
    BY <1>1, <1>2, <1>3, <1>4, <1>5, <1>6, <1>7, <1>8, <1>9, <1>10, <1>11,
       <1>12, <1>13, <1>14, <1>15, <1>16, <1>17, <1>18, <1>19 DEF Next, Proceed

(***************************************************************************)
(* A symbol that a worker has cleared is nobody else's.                   *)
(***************************************************************************)
LEMMA ClearedStep ==
    ASSUME OneStore, IInv, TypeOK', [Next]_vars
    PROVE  ClearedInv'
  <1> USE PairFacts, NameFacts, AgeFacts
      DEF IInv, TypeOK, MutexInv, ClearedInv, HeldInv, Cleared, Owns, Lapsed,
          Inside, Outside, files, OneStore
  <1>1. ASSUME NEW w \in Workers, NEW S \in SUBSET Symbols, Call(w, S)
        PROVE  ClearedInv'
    BY <1>1 DEF Call, Goto
  <1>2. ASSUME NEW w \in Workers, Release(w)
        PROVE  ClearedInv'
    BY <1>2 DEF Release, Goto
  <1>3. ASSUME NEW w \in Workers, Abandon(w)
        PROVE  ClearedInv'
    BY <1>3 DEF Abandon, Finish
  <1>4. ASSUME NEW w \in Workers, Enter(w)
        PROVE  ClearedInv'
    BY <1>4 DEF Enter, Lock, Goto
  <1>5. ASSUME NEW w \in Workers, List(w)
        PROVE  ClearedInv'
    BY <1>5 DEF List, Lock, Goto
  <1>6. ASSUME NEW w \in Workers, WriteFails(w)
        PROVE  ClearedInv'
    BY <1>6 DEF WriteFails, Goto, RollbackSet
  <1>7. ASSUME NEW w \in Workers, Swept(w)
        PROVE  ClearedInv'
    BY <1>7 DEF Swept, Finish, Unlock
  <1>8. ASSUME NEW w \in Workers, NEW s \in Symbols, CheckFree(w, s)
        PROVE  ClearedInv'
    BY <1>8 DEF CheckFree, Checked, Goto
  <1>9. ASSUME NEW w \in Workers, NEW s \in Symbols, CheckStale(w, s)
        PROVE  ClearedInv'
    BY <1>9 DEF CheckStale, HeldAgainst, Checked, Goto
  <1>10. ASSUME NEW w \in Workers, NEW s \in Symbols, Refuse(w, s)
        PROVE  ClearedInv'
    BY <1>10 DEF Refuse, Finish, Unlock
  <1>11. ASSUME NEW w \in Workers, NEW s \in Symbols, Open(w, s)
        PROVE  ClearedInv'
    BY <1>11 DEF Open, SetFile, Goto
  <1>12. ASSUME NEW w \in Workers, NEW s \in Symbols, Fill(w, s)
        PROVE  ClearedInv'
    BY <1>12 DEF Fill, Opened, SetFile, Goto, Unlock
  <1>13. ASSUME NEW w \in Workers, NEW s \in Symbols, Look(w, s)
        PROVE  ClearedInv'
    BY <1>13 DEF Look
  <1>14. ASSUME NEW w \in Workers, NEW s \in Symbols, Remove(w, s)
        PROVE  ClearedInv'
    BY <1>14 DEF Remove, SetFile
  <1>15. ASSUME NEW p \in Procs, Crash(p)
         PROVE  ClearedInv'
    BY <1>15 DEF Crash, Finish
  <1>16. CASE Tick
    BY <1>16 DEF Tick
  <1>17. CASE UNCHANGED vars
    BY <1>17 DEF vars
  <1>18. ASSUME NEW w \in Workers, NEW s \in Symbols, RemoveFails(w, s)
         PROVE  ClearedInv'
    BY <1>18 DEF RemoveFails
  <1>19. ASSUME NEW w \in Workers, ListFails(w)
         PROVE  ClearedInv'
    BY <1>19 DEF ListFails, Finish
  <1> QED
    BY <1>1, <1>2, <1>3, <1>4, <1>5, <1>6, <1>7, <1>8, <1>9, <1>10, <1>11,
       <1>12, <1>13, <1>14, <1>15, <1>16, <1>17, <1>18, <1>19 DEF Next, Proceed

(***************************************************************************)
(* What the second pass has written stands.                               *)
(***************************************************************************)
LEMMA TakenStep ==
    ASSUME OneStore, IInv, TypeOK', [Next]_vars
    PROVE  TakenInv'
  <1> USE PairFacts, NameFacts, AgeFacts
      DEF IInv, TypeOK, MutexInv, TakenInv, Owns, Opened, Inside, Outside,
          files, OneStore
  <1>1. ASSUME NEW w \in Workers, NEW S \in SUBSET Symbols, Call(w, S)
        PROVE  TakenInv'
    BY <1>1 DEF Call, Goto
  <1>2. ASSUME NEW w \in Workers, Release(w)
        PROVE  TakenInv'
    BY <1>2 DEF Release, Goto
  <1>3. ASSUME NEW w \in Workers, Abandon(w)
        PROVE  TakenInv'
    BY <1>3 DEF Abandon, Finish
  <1>4. ASSUME NEW w \in Workers, Enter(w)
        PROVE  TakenInv'
    BY <1>4 DEF Enter, Lock, Goto
  <1>5. ASSUME NEW w \in Workers, List(w)
        PROVE  TakenInv'
    BY <1>5 DEF List, Lock, Goto
  <1>6. ASSUME NEW w \in Workers, WriteFails(w)
        PROVE  TakenInv'
    BY <1>6 DEF WriteFails, Goto, RollbackSet
  <1>7. ASSUME NEW w \in Workers, Swept(w)
        PROVE  TakenInv'
    BY <1>7 DEF Swept, Finish, Unlock
  <1>8. ASSUME NEW w \in Workers, NEW s \in Symbols, CheckFree(w, s)
        PROVE  TakenInv'
    BY <1>8 DEF CheckFree, Checked, Goto
  <1>9. ASSUME NEW w \in Workers, NEW s \in Symbols, CheckStale(w, s)
        PROVE  TakenInv'
    BY <1>9 DEF CheckStale, HeldAgainst, Checked, Goto
  <1>10. ASSUME NEW w \in Workers, NEW s \in Symbols, Refuse(w, s)
        PROVE  TakenInv'
    BY <1>10 DEF Refuse, Finish, Unlock
  <1>11. ASSUME NEW w \in Workers, NEW s \in Symbols, Open(w, s)
        PROVE  TakenInv'
    BY <1>11 DEF Open, SetFile, Goto
  <1>12. ASSUME NEW w \in Workers, NEW s \in Symbols, Fill(w, s)
        PROVE  TakenInv'
    <2>1. \A v \in Workers \ {w} : pc[v] \in Outside /\ taken[v] = {}
      BY <1>12, Alone DEF Fill
    <2>2. \A v \in Workers \ {w} : pc'[v] = pc[v] /\ taken'[v] = taken[v]
      BY <1>12 DEF Fill, Goto
    <2>3. Opened(w) = {s} /\ s \notin taken[w] /\ todo'[w] = todo[w]
      BY <1>12 DEF Fill
    <2>4. CASE todo[w] = {}
      BY <1>12, <2>1, <2>2, <2>4 DEF Fill, Goto
    <2>5. CASE todo[w] # {}
      <3>1. pc'[w] = "open" /\ taken'[w] = taken[w] \cup {s} /\ want'[w] = want[w]
        BY <1>12, <2>5 DEF Fill, Goto
      <3>2. taken'[w] = want[w] \ todo[w]
        BY <3>1, <2>3, <1>12 DEF Fill
      <3>3. \A r \in taken'[w] : Owns(w, r)'
        BY <3>1, <1>12 DEF Fill, SetFile, Ages
      <3> QED  BY <3>1, <3>2, <3>3, <2>1, <2>2, <2>3, <1>12 DEF Fill
    <2> QED  BY <2>4, <2>5
  <1>13. ASSUME NEW w \in Workers, NEW s \in Symbols, Look(w, s)
        PROVE  TakenInv'
    BY <1>13 DEF Look
  <1>14. ASSUME NEW w \in Workers, NEW s \in Symbols, Remove(w, s)
        PROVE  TakenInv'
    BY <1>14 DEF Remove, SetFile
  <1>15. ASSUME NEW p \in Procs, Crash(p)
         PROVE  TakenInv'
    BY <1>15 DEF Crash, Finish
  <1>16. CASE Tick
    <2>1. \A w \in Workers, s \in Symbols :
             pc[w] \in {"open", "fill"} /\ Owns(w, s) => Owns(w, s)'
      BY <1>16 DEF Tick
    <2> QED  BY <1>16, <2>1 DEF Tick
  <1>17. CASE UNCHANGED vars
    BY <1>17 DEF vars
  <1>18. ASSUME NEW w \in Workers, NEW s \in Symbols, RemoveFails(w, s)
         PROVE  TakenInv'
    BY <1>18 DEF RemoveFails
  <1>19. ASSUME NEW w \in Workers, ListFails(w)
         PROVE  TakenInv'
    BY <1>19 DEF ListFails, Finish
  <1> QED
    BY <1>1, <1>2, <1>3, <1>4, <1>5, <1>6, <1>7, <1>8, <1>9, <1>10, <1>11,
       <1>12, <1>13, <1>14, <1>15, <1>16, <1>17, <1>18, <1>19 DEF Next, Proceed

(***************************************************************************)
(* The locks of a claim in force stand.                                   *)
(***************************************************************************)
LEMMA HeldStep ==
    ASSUME OneStore, IInv, TypeOK', [Next]_vars
    PROVE  HeldInv'
  <1> USE PairFacts, NameFacts, AgeFacts
      DEF IInv, TypeOK, MutexInv, ClearedInv, TakenInv, HeldInv, Cleared,
          Owns, Opened, Lapsed, Inside, Outside, files, OneStore
  <1>1. ASSUME NEW w \in Workers, NEW S \in SUBSET Symbols, Call(w, S)
        PROVE  HeldInv'
    BY <1>1 DEF Call, Goto
  <1>2. ASSUME NEW w \in Workers, Release(w)
        PROVE  HeldInv'
    BY <1>2 DEF Release, Goto
  <1>3. ASSUME NEW w \in Workers, Abandon(w)
        PROVE  HeldInv'
    BY <1>3 DEF Abandon, Finish
  <1>4. ASSUME NEW w \in Workers, Enter(w)
        PROVE  HeldInv'
    BY <1>4 DEF Enter, Lock, Goto
  <1>5. ASSUME NEW w \in Workers, List(w)
        PROVE  HeldInv'
    BY <1>5 DEF List, Lock, Goto
  <1>6. ASSUME NEW w \in Workers, WriteFails(w)
        PROVE  HeldInv'
    BY <1>6 DEF WriteFails, Goto, RollbackSet
  <1>7. ASSUME NEW w \in Workers, Swept(w)
        PROVE  HeldInv'
    BY <1>7 DEF Swept, Finish, Unlock
  <1>8. ASSUME NEW w \in Workers, NEW s \in Symbols, CheckFree(w, s)
        PROVE  HeldInv'
    BY <1>8 DEF CheckFree, Checked, Goto
  <1>9. ASSUME NEW w \in Workers, NEW s \in Symbols, CheckStale(w, s)
        PROVE  HeldInv'
    BY <1>9 DEF CheckStale, HeldAgainst, Checked, Goto
  <1>10. ASSUME NEW w \in Workers, NEW s \in Symbols, Refuse(w, s)
        PROVE  HeldInv'
    BY <1>10 DEF Refuse, Finish, Unlock
  <1>11. ASSUME NEW w \in Workers, NEW s \in Symbols, Open(w, s)
        PROVE  HeldInv'
    BY <1>11 DEF Open, SetFile, Goto
  <1>12. ASSUME NEW w \in Workers, NEW s \in Symbols, Fill(w, s)
        PROVE  HeldInv'
    <2>1. ASSUME NEW v \in Workers, v # w, pc[v] = "held", ~ Lapsed(v)
          PROVE  \A r \in want[v] : r # s
      BY <1>12, <2>1 DEF Fill
    <2>2. ASSUME NEW v \in Workers, v # w, pc'[v] = "held"
          PROVE  Lapsed(v)' \/ \A r \in want'[v] : Owns(v, r)'
      BY <1>12, <2>1, <2>2 DEF Fill, SetFile, Goto
    <2>3. ASSUME pc'[w] = "held"
          PROVE  \A r \in want'[w] : Owns(w, r)'
      <3>1. todo[w] = {} /\ want'[w] = want[w] /\ clock'[w] = clock[w]
        BY <1>12, <2>3 DEF Fill, Goto
      <3>2. want[w] = taken[w] \cup {s}
        BY SMTT(30), <3>1, <1>12 DEF Fill
      <3> QED  BY <3>1, <3>2, <1>12 DEF Fill, SetFile, Ages
    <2> QED  BY <2>2, <2>3
  <1>13. ASSUME NEW w \in Workers, NEW s \in Symbols, Look(w, s)
        PROVE  HeldInv'
    BY <1>13 DEF Look
  <1>14. ASSUME NEW w \in Workers, NEW s \in Symbols, Remove(w, s)
        PROVE  HeldInv'
    BY <1>14 DEF Remove, SetFile
  <1>15. ASSUME NEW p \in Procs, Crash(p)
         PROVE  HeldInv'
    BY <1>15 DEF Crash, Finish
  <1>16. CASE Tick
    <2> SUFFICES ASSUME NEW w \in Workers, pc'[w] = "held"
                 PROVE  Lapsed(w)' \/ \A s \in want'[w] : Owns(w, s)'
      OBVIOUS
    <2>1. pc[w] = "held" /\ want'[w] = want[w] /\ clock'[w] = Older(clock[w])
      BY <1>16 DEF Tick
    <2>2. CASE Lapsed(w)
      BY <2>1, <2>2
    <2>3. ASSUME NEW s \in want[w], Owns(w, s)
          PROVE  Owns(w, s)'
      BY ZenonT(60), <1>16, <2>1, <2>3 DEF Tick
    <2> QED  BY <2>1, <2>2, <2>3
  <1>17. CASE UNCHANGED vars
    BY <1>17 DEF vars
  <1>18. ASSUME NEW w \in Workers, NEW s \in Symbols, RemoveFails(w, s)
         PROVE  HeldInv'
    BY <1>18 DEF RemoveFails
  <1>19. ASSUME NEW w \in Workers, ListFails(w)
         PROVE  HeldInv'
    BY <1>19 DEF ListFails, Finish
  <1> QED
    BY <1>1, <1>2, <1>3, <1>4, <1>5, <1>6, <1>7, <1>8, <1>9, <1>10, <1>11,
       <1>12, <1>13, <1>14, <1>15, <1>16, <1>17, <1>18, <1>19 DEF Next, Proceed

(***************************************************************************)
(* Every lock has one who is to remove it, or was left for good.           *)
(***************************************************************************)
LEMMA LeakStep ==
    ASSUME OneStore, IInv, TypeOK', [Next]_vars
    PROVE  LeakInv'
  <1> USE PairFacts, NameFacts
      DEF IInv, TypeOK, LeakInv, SweepInv, TakenInv,
          Opened, files, OneStore
  <1>1. ASSUME NEW w \in Workers, NEW S \in SUBSET Symbols, Call(w, S)
        PROVE  LeakInv'
    BY <1>1 DEF Call, Goto
  <1>2. ASSUME NEW w \in Workers, Release(w)
        PROVE  LeakInv'
    BY <1>2 DEF Release, Goto
  <1>3. ASSUME NEW w \in Workers, Abandon(w)
        PROVE  LeakInv'
    BY <1>3 DEF Abandon, Finish
  <1>4. ASSUME NEW w \in Workers, Enter(w)
        PROVE  LeakInv'
    BY <1>4 DEF Enter, Lock, Goto
  <1>5. ASSUME NEW w \in Workers, List(w)
        PROVE  LeakInv'
    BY <1>5 DEF List, Lock, Goto
  <1>6. ASSUME NEW w \in Workers, WriteFails(w)
        PROVE  LeakInv'
    BY <1>6 DEF WriteFails, Goto, RollbackSet
  <1>7. ASSUME NEW w \in Workers, Swept(w)
        PROVE  LeakInv'
    BY <1>7 DEF Swept, Finish, Unlock
  <1>8. ASSUME NEW w \in Workers, NEW s \in Symbols, CheckFree(w, s)
        PROVE  LeakInv'
    BY <1>8 DEF CheckFree, Checked, Goto
  <1>9. ASSUME NEW w \in Workers, NEW s \in Symbols, CheckStale(w, s)
        PROVE  LeakInv'
    BY <1>9 DEF CheckStale, HeldAgainst, Checked, Goto
  <1>10. ASSUME NEW w \in Workers, NEW s \in Symbols, Refuse(w, s)
         PROVE  LeakInv'
    BY <1>10 DEF Refuse, Finish, Unlock
  <1>11. ASSUME NEW w \in Workers, NEW s \in Symbols, Open(w, s)
         PROVE  LeakInv'
    BY <1>11 DEF Open, SetFile, Goto
  <1>12. ASSUME NEW w \in Workers, NEW s \in Symbols, Fill(w, s)
         PROVE  LeakInv'
    BY <1>12 DEF Fill, SetFile, Unlock, Goto
  <1>13. ASSUME NEW w \in Workers, NEW s \in Symbols, Look(w, s)
         PROVE  LeakInv'
    BY <1>13 DEF Look
  <1>14. ASSUME NEW w \in Workers, NEW s \in Symbols, Remove(w, s)
         PROVE  LeakInv'
    BY <1>14 DEF Remove, SetFile
  <1>15. ASSUME NEW p \in Procs, Crash(p)
         PROVE  LeakInv'
    BY <1>15 DEF Crash, Finish
  <1>16. ASSUME Tick
         PROVE  LeakInv'
    BY <1>16 DEF Tick
  <1>17. CASE UNCHANGED vars
    BY <1>17 DEF vars
  <1>18. ASSUME NEW w \in Workers, NEW s \in Symbols, RemoveFails(w, s)
         PROVE  LeakInv'
    BY <1>18 DEF RemoveFails
  <1>19. ASSUME NEW w \in Workers, ListFails(w)
         PROVE  LeakInv'
    BY <1>19 DEF ListFails, Finish
  <1> QED
    BY <1>1, <1>2, <1>3, <1>4, <1>5, <1>6, <1>7, <1>8, <1>9, <1>10, <1>11,
       <1>12, <1>13, <1>14, <1>15, <1>16, <1>17, <1>18, <1>19 DEF Next, Proceed

(***************************************************************************)
(* A sweep goes on one lock at a time.                                     *)
(***************************************************************************)
LEMMA SweepStep ==
    ASSUME OneStore, IInv, TypeOK', [Next]_vars
    PROVE  SweepInv'
  <1> USE PairFacts, NameFacts
      DEF IInv, TypeOK, TakenInv, SweepInv,
          files, OneStore
  <1>1. ASSUME NEW w \in Workers, NEW S \in SUBSET Symbols, Call(w, S)
        PROVE  SweepInv'
    BY <1>1 DEF Call, Goto
  <1>2. ASSUME NEW w \in Workers, Release(w)
        PROVE  SweepInv'
    BY <1>2 DEF Release, Goto
  <1>3. ASSUME NEW w \in Workers, Abandon(w)
        PROVE  SweepInv'
    BY <1>3 DEF Abandon, Finish
  <1>4. ASSUME NEW w \in Workers, Enter(w)
        PROVE  SweepInv'
    BY <1>4 DEF Enter, Lock, Goto
  <1>5. ASSUME NEW w \in Workers, List(w)
        PROVE  SweepInv'
    BY <1>5 DEF List, Lock, Goto
  <1>6. ASSUME NEW w \in Workers, WriteFails(w)
        PROVE  SweepInv'
    BY <1>6 DEF WriteFails, Goto, RollbackSet
  <1>7. ASSUME NEW w \in Workers, Swept(w)
        PROVE  SweepInv'
    BY <1>7 DEF Swept, Finish, Unlock
  <1>8. ASSUME NEW w \in Workers, NEW s \in Symbols, CheckFree(w, s)
        PROVE  SweepInv'
    BY <1>8 DEF CheckFree, Checked, Goto
  <1>9. ASSUME NEW w \in Workers, NEW s \in Symbols, CheckStale(w, s)
        PROVE  SweepInv'
    BY <1>9 DEF CheckStale, HeldAgainst, Checked, Goto
  <1>10. ASSUME NEW w \in Workers, NEW s \in Symbols, Refuse(w, s)
         PROVE  SweepInv'
    BY <1>10 DEF Refuse, Finish, Unlock
  <1>11. ASSUME NEW w \in Workers, NEW s \in Symbols, Open(w, s)
         PROVE  SweepInv'
    BY <1>11 DEF Open, SetFile, Goto
  <1>12. ASSUME NEW w \in Workers, NEW s \in Symbols, Fill(w, s)
         PROVE  SweepInv'
    BY <1>12 DEF Fill, SetFile, Unlock, Goto
  <1>13. ASSUME NEW w \in Workers, NEW s \in Symbols, Look(w, s)
         PROVE  SweepInv'
    BY <1>13 DEF Look
  <1>14. ASSUME NEW w \in Workers, NEW s \in Symbols, Remove(w, s)
         PROVE  SweepInv'
    BY <1>14 DEF Remove, SetFile
  <1>15. ASSUME NEW p \in Procs, Crash(p)
         PROVE  SweepInv'
    BY <1>15 DEF Crash, Finish
  <1>16. ASSUME Tick
         PROVE  SweepInv'
    BY <1>16 DEF Tick
  <1>17. CASE UNCHANGED vars
    BY <1>17 DEF vars
  <1>18. ASSUME NEW w \in Workers, NEW s \in Symbols, RemoveFails(w, s)
         PROVE  SweepInv'
    BY <1>18 DEF RemoveFails
  <1>19. ASSUME NEW w \in Workers, ListFails(w)
         PROVE  SweepInv'
    BY <1>19 DEF ListFails, Finish
  <1> QED
    BY <1>1, <1>2, <1>3, <1>4, <1>5, <1>6, <1>7, <1>8, <1>9, <1>10, <1>11,
       <1>12, <1>13, <1>14, <1>15, <1>16, <1>17, <1>18, <1>19 DEF Next, Proceed

(***************************************************************************)
(* Nobody else writes between a claim's look at a lock and its write.      *)
(***************************************************************************)
LEMMA NotedStep ==
    ASSUME OneStore, IInv, TypeOK', [Next]_vars
    PROVE  NotedInv'
  <1> USE PairFacts, NameFacts, AgeFacts
      DEF IInv, TypeOK, MutexInv,
          TakenInv, NotedInv, Displaced, Opened, Inside, Outside, files,
          OneStore
  <1>1. ASSUME NEW w \in Workers, NEW S \in SUBSET Symbols, Call(w, S)
        PROVE  NotedInv'
    BY <1>1 DEF Call, Goto
  <1>2. ASSUME NEW w \in Workers, Release(w)
        PROVE  NotedInv'
    BY <1>2 DEF Release, Goto
  <1>3. ASSUME NEW w \in Workers, Abandon(w)
        PROVE  NotedInv'
    BY <1>3 DEF Abandon, Finish
  <1>4. ASSUME NEW w \in Workers, Enter(w)
        PROVE  NotedInv'
    BY <1>4 DEF Enter, Lock, Goto
  <1>5. ASSUME NEW w \in Workers, List(w)
        PROVE  NotedInv'
    BY <1>5 DEF List, Lock, Goto
  <1>6. ASSUME NEW w \in Workers, WriteFails(w)
        PROVE  NotedInv'
    BY <1>6 DEF WriteFails, Goto, RollbackSet
  <1>7. ASSUME NEW w \in Workers, Swept(w)
        PROVE  NotedInv'
    BY <1>7 DEF Swept, Finish, Unlock
  <1>8. ASSUME NEW w \in Workers, NEW s \in Symbols, CheckFree(w, s)
        PROVE  NotedInv'
    BY <1>8 DEF CheckFree, Checked, Goto
  <1>9. ASSUME NEW w \in Workers, NEW s \in Symbols, CheckStale(w, s)
        PROVE  NotedInv'
    BY <1>9 DEF CheckStale, HeldAgainst, Checked, Goto
  <1>10. ASSUME NEW w \in Workers, NEW s \in Symbols, Refuse(w, s)
         PROVE  NotedInv'
    BY <1>10 DEF Refuse, Finish, Unlock
  <1>11. ASSUME NEW w \in Workers, NEW s \in Symbols, Open(w, s)
         PROVE  NotedInv'
    BY <1>11 DEF Open, SetFile, Goto
  <1>12. ASSUME NEW w \in Workers, NEW s \in Symbols, Fill(w, s)
         PROVE  NotedInv'
    BY <1>12 DEF Fill, SetFile, Unlock, Goto
  <1>13. ASSUME NEW w \in Workers, NEW s \in Symbols, Look(w, s)
         PROVE  NotedInv'
    BY <1>13 DEF Look
  <1>14. ASSUME NEW w \in Workers, NEW s \in Symbols, Remove(w, s)
         PROVE  NotedInv'
    BY <1>14 DEF Remove, SetFile
  <1>15. ASSUME NEW p \in Procs, Crash(p)
         PROVE  NotedInv'
    BY <1>15 DEF Crash, Finish
  <1>16. ASSUME Tick
         PROVE  NotedInv'
    BY ZenonT(60), <1>16 DEF Tick
  <1>17. CASE UNCHANGED vars
    BY <1>17 DEF vars
  <1>18. ASSUME NEW w \in Workers, NEW s \in Symbols, RemoveFails(w, s)
         PROVE  NotedInv'
    BY <1>18 DEF RemoveFails
  <1>19. ASSUME NEW w \in Workers, ListFails(w)
         PROVE  NotedInv'
    BY <1>19 DEF ListFails, Finish
  <1> QED
    BY <1>1, <1>2, <1>3, <1>4, <1>5, <1>6, <1>7, <1>8, <1>9, <1>10, <1>11,
       <1>12, <1>13, <1>14, <1>15, <1>16, <1>17, <1>18, <1>19 DEF Next, Proceed

--------------------------------------------------------------------------------
(***************************************************************************)
(* In one store, for any number of workers and symbols, IInv holds         *)
(* throughout: the mutex has one owner, what a claim was granted stands    *)
(* until it has outlived the expiry, and every lock on disk has one who    *)
(* holds it, is still to remove it, or has left it for good.               *)
(***************************************************************************)
THEOREM Safety ==
    ASSUME OneStore
    PROVE  Spec => []IInv
  <1>1. Init => IInv
    <2> SUFFICES ASSUME Init
                 PROVE  IInv
      OBVIOUS
    <2> USE DEF Init
    <2>1. TypeOK
      BY TypeInit
    <2>2. MutexInv
      BY PairFacts DEF MutexInv, Inside
    <2>3. ClearedInv
      BY DEF ClearedInv
    <2>4. TakenInv
      BY DEF TakenInv
    <2>5. HeldInv
      BY DEF HeldInv
    <2>6. LeakInv
      BY PairFacts DEF LeakInv
    <2>7. SweepInv
      BY DEF SweepInv
    <2>8. NotedInv
      BY DEF NotedInv
    <2> QED  BY <2>1, <2>2, <2>3, <2>4, <2>5, <2>6, <2>7, <2>8 DEF IInv
  <1>2. IInv /\ [Next]_vars => IInv'
    BY TypeStep, MutexStep, ClearedStep, TakenStep, HeldStep, LeakStep, SweepStep,
       NotedStep DEF IInv
  <1> QED  BY <1>1, <1>2, PTL DEF Spec

(***************************************************************************)
(* However many workers one store serves, and however their calls, failed  *)
(* writes, crashes and late releases interleave: two granted claims share  *)
(* a symbol only when one of them has outlived the expiry.                 *)
(***************************************************************************)
THEOREM Exclusion ==
    ASSUME OneStore
    PROVE  Spec => []Exclusive
  <1>1. IInv => Exclusive
    BY NameFacts DEF IInv, HeldInv, Owns, Exclusive, TypeOK
  <1> QED  BY <1>1, Safety, PTL

--------------------------------------------------------------------------------
(***************************************************************************)
(* A step that neither grants nor ends a claim is invisible to SymbolLock. *)
(***************************************************************************)
LEMMA Stutter ==
    ASSUME \A v \in Workers :
             \/ pc'[v] = pc[v] /\ want'[v] = want[v] /\ clock'[v] = clock[v]
             \/ pc[v] # "held" /\ pc'[v] # "held"
    PROVE  UNCHANGED Promise!vars
  <1>1. HeldClaim' = HeldClaim
    BY DEF HeldClaim
  <1>2. HeldLapsed' = HeldLapsed
    BY DEF HeldLapsed, Lapsed
  <1> QED  BY <1>1, <1>2 DEF Promise!vars

(***************************************************************************)
(* A step after which some claims are gone is a Drop.                      *)
(***************************************************************************)
LEMMA Dropping ==
    ASSUME NEW W \in SUBSET Workers,
           \A v \in W : pc'[v] # "held",
           \A v \in Workers \ W :
             pc'[v] = pc[v] /\ want'[v] = want[v] /\ clock'[v] = clock[v]
    PROVE  Promise!Drop(W)
  <1>1. HeldClaim' = [v \in Workers |-> IF v \in W THEN {} ELSE HeldClaim[v]]
    BY DEF HeldClaim
  <1>2. HeldLapsed' = HeldLapsed \ W
    BY DEF HeldLapsed, Lapsed
  <1> QED  BY <1>1, <1>2 DEF Promise!Drop

(***************************************************************************)
(* The last write of a second pass is a Grant.                             *)
(***************************************************************************)
LEMMA Granting ==
    ASSUME OneStore, IInv, NEW w \in Workers, NEW s \in Symbols, Fill(w, s),
           todo[w] = {}
    PROVE  Promise!Grant(w, want[w])
  <1> USE DEF IInv, TypeOK
  <1>1. HeldClaim[w] = {}
    BY DEF Fill, HeldClaim
  <1>2. want[w] # {}
    BY DEF Fill, Opened
  <1>3. \A v \in Workers : Promise!InForce(v) \cap want[w] = {}
    <2> SUFFICES ASSUME NEW v \in Workers, pc[v] = "held", ~ Lapsed(v)
                 PROVE  want[v] \cap want[w] = {}
      BY DEF Promise!InForce, HeldClaim, HeldLapsed, Lapsed
    <2>1. v # w /\ Cleared(w) = want[w]
      BY DEF Fill, Cleared
    <2> QED  BY <2>1 DEF ClearedInv
  <1>4. /\ pc' = [pc EXCEPT ![w] = "held"]
        /\ want' = want /\ clock' = clock
    BY DEF Fill, Goto
  <1>5. HeldClaim' = [HeldClaim EXCEPT ![w] = want[w]]
    BY <1>4 DEF HeldClaim
  <1>6. HeldLapsed' \in {HeldLapsed, HeldLapsed \cup {w}}
    <2>1. CASE Lapsed(w)
      BY <1>4, <2>1 DEF HeldLapsed, Lapsed
    <2>2. CASE ~ Lapsed(w)
      BY <1>4, <2>2, <1>1 DEF HeldLapsed, Lapsed, Fill
    <2> QED  BY <2>1, <2>2
  <1> QED  BY <1>1, <1>2, <1>3, <1>5, <1>6 DEF Promise!Grant

(***************************************************************************)
(* Every step of one store is a step of SymbolLock, or invisible to it.    *)
(***************************************************************************)
LEMMA Simulation ==
    ASSUME OneStore, IInv, [Next]_vars
    PROVE  [Promise!Next]_(Promise!vars)
  <1> USE DEF IInv, TypeOK
  <1>1. ASSUME NEW w \in Workers, NEW S \in SUBSET Symbols, Call(w, S)
        PROVE  UNCHANGED Promise!vars
    BY <1>1, Stutter DEF Call, Goto
  <1>2. ASSUME NEW w \in Workers, Release(w)
        PROVE  Promise!Drop({w})
    BY <1>2, Dropping DEF Release, Goto
  <1>3. ASSUME NEW w \in Workers, Abandon(w)
        PROVE  Promise!Drop({w})
    BY <1>3, Dropping DEF Abandon, Finish
  <1>4. ASSUME NEW w \in Workers, Enter(w) \/ List(w) \/ ListFails(w) \/ WriteFails(w)
                                 \/ Swept(w)
        PROVE  UNCHANGED Promise!vars
    <2>1. CASE Enter(w)
      BY <2>1, Stutter DEF Enter, Goto
    <2>2. CASE List(w)
      BY <2>2, Stutter DEF List, Goto
    <2>3. CASE WriteFails(w)
      BY <2>3, Stutter DEF WriteFails, Goto
    <2>4. CASE Swept(w)
      BY <2>4, Stutter DEF Swept, Finish
    <2>5. CASE ListFails(w)
      BY <2>5, Stutter DEF ListFails, Finish
    <2> QED  BY <1>4, <2>1, <2>2, <2>3, <2>4, <2>5
  <1>5. ASSUME NEW w \in Workers, NEW s \in Symbols,
               CheckFree(w, s) \/ CheckStale(w, s) \/ Refuse(w, s)
        PROVE  UNCHANGED Promise!vars
    <2>1. CASE CheckFree(w, s)
      BY <2>1, Stutter DEF CheckFree, Checked, Goto
    <2>2. CASE CheckStale(w, s)
      BY <2>2, Stutter DEF CheckStale, Checked, Goto
    <2>3. CASE Refuse(w, s)
      BY <2>3, Stutter DEF Refuse, Finish
    <2> QED  BY <1>5, <2>1, <2>2, <2>3
  <1>6. ASSUME NEW w \in Workers, NEW s \in Symbols,
               Open(w, s) \/ Look(w, s) \/ Remove(w, s) \/ RemoveFails(w, s)
        PROVE  UNCHANGED Promise!vars
    <2>1. CASE Open(w, s)
      BY <2>1, Stutter DEF Open, Goto
    <2>2. CASE Look(w, s)
      BY <2>2, Stutter DEF Look
    <2>3. CASE Remove(w, s)
      BY <2>3, Stutter DEF Remove
    <2>4. CASE RemoveFails(w, s)
      BY <2>4, Stutter DEF RemoveFails
    <2> QED  BY <1>6, <2>1, <2>2, <2>3, <2>4
  <1>7. ASSUME NEW w \in Workers, NEW s \in Symbols, Fill(w, s)
        PROVE  Promise!Grant(w, want[w]) \/ UNCHANGED Promise!vars
    <2>1. CASE todo[w] = {}
      BY <1>7, <2>1, Granting
    <2>2. CASE todo[w] # {}
      BY <1>7, <2>2, Stutter DEF Fill, Goto
    <2> QED  BY <2>1, <2>2
  <1>8. ASSUME NEW p \in Procs, Crash(p)
        PROVE  Promise!Drop({w \in Workers : Proc(w) = p})
    BY <1>8, Dropping DEF Crash, Finish
  <1>9. ASSUME Tick
        PROVE  Promise!Lapse(HeldLapsed')
    <2>1. HeldClaim' = HeldClaim
      BY <1>9 DEF Tick, HeldClaim
    <2>2. HeldLapsed' = HeldLapsed \cup HeldLapsed'
      BY <1>9, AgeFacts DEF Tick, HeldLapsed, Lapsed
    <2> QED  BY <2>1, <2>2 DEF Promise!Lapse
  <1>10. ASSUME UNCHANGED vars
         PROVE  UNCHANGED Promise!vars
    BY <1>10, Stutter DEF vars
  <1>11. HeldLapsed' \subseteq Workers
    BY DEF HeldLapsed
  <1>12. \A w \in Workers : want[w] \in SUBSET Symbols
    OBVIOUS
  <1> QED
    BY <1>1, <1>2, <1>3, <1>4, <1>5, <1>6, <1>7, <1>8, <1>9, <1>10, <1>11, <1>12
    DEF Next, Proceed, Promise!Next

(***************************************************************************)
(* One store implements SymbolLock: the behaviours of Acquire and          *)
(* ReleaseAgent, seen from their callers, are behaviours of a lock whose   *)
(* grants are atomic and disjoint from every claim in force.               *)
(***************************************************************************)
THEOREM Implementation ==
    ASSUME OneStore
    PROVE  Spec => KeepsPromise
  <1>1. Init => Promise!Init
    BY DEF Init, Promise!Init, HeldClaim, HeldLapsed
  <1>2. IInv /\ [Next]_vars => [Promise!Next]_(Promise!vars)
    BY Simulation
  <1> QED  BY <1>1, <1>2, Safety, PTL DEF Spec, KeepsPromise, Promise!Spec

(***************************************************************************)
(* Two claims in force never share a symbol: in SymbolLock, for any        *)
(* workers and symbols, and so in a store that implements it.              *)
(***************************************************************************)
THEOREM Disjointness == Promise!Spec => [](Promise!TypeOK /\ Promise!Disjoint)
  <1> USE DEF Promise!TypeOK, Promise!Disjoint, Promise!InForce
  <1>1. Promise!Init => Promise!TypeOK /\ Promise!Disjoint
    BY DEF Promise!Init
  <1>2. ASSUME Promise!TypeOK, Promise!Disjoint, [Promise!Next]_(Promise!vars)
        PROVE  Promise!TypeOK' /\ Promise!Disjoint'
    <2>1. ASSUME NEW w \in Workers, NEW S \in SUBSET Symbols, Promise!Grant(w, S)
          PROVE  Promise!TypeOK' /\ Promise!Disjoint'
      <3>1. Promise!TypeOK'
        BY <2>1, <1>2 DEF Promise!Grant
      <3>2. ASSUME NEW v \in Workers, v # w
            PROVE  Promise!InForce(v)' = Promise!InForce(v)
        BY <2>1, <3>2, <1>2 DEF Promise!Grant
      <3>3. Promise!InForce(w)' \subseteq S
        BY <2>1, <1>2 DEF Promise!Grant
      <3>4. \A v \in Workers : Promise!InForce(v) \cap S = {}
        BY <2>1 DEF Promise!Grant
      <3>5. Promise!Disjoint'
        BY <3>2, <3>3, <3>4, <1>2
      <3> QED  BY <3>1, <3>5
    <2>2. ASSUME NEW W \in SUBSET Workers, Promise!Drop(W)
          PROVE  Promise!TypeOK' /\ Promise!Disjoint'
      BY <2>2, <1>2 DEF Promise!Drop
    <2>3. ASSUME NEW W \in SUBSET Workers, Promise!Lapse(W)
          PROVE  Promise!TypeOK' /\ Promise!Disjoint'
      BY <2>3, <1>2 DEF Promise!Lapse
    <2>4. CASE UNCHANGED Promise!vars
      BY <2>4, <1>2 DEF Promise!vars
    <2> QED  BY <1>2, <2>1, <2>2, <2>3, <2>4 DEF Promise!Next
  <1> QED  BY <1>1, <1>2, PTL DEF Promise!Spec

--------------------------------------------------------------------------------
(***************************************************************************)
(* For any number of workers of one store: a lock names an agent that is   *)
(* taking, holding or releasing it, or one that may leave locks behind:    *)
(* it went away for good, or failed to remove or to list them.             *)
(***************************************************************************)
THEOREM NothingLeft ==
    ASSUME OneStore
    PROVE  Spec => []NoLeak
  <1>1. IInv => NoLeak
    BY DEF IInv, LeakInv, NoLeak
  <1> QED  BY <1>1, Safety, PTL

(***************************************************************************)
(* For any number of workers of one store, and any expiry: no lock that    *)
(* has not expired is removed or overwritten by anyone but its own agent,  *)
(* and a takeover of an expired one is noted.                              *)
(***************************************************************************)
THEOREM Lawfulness ==
    ASSUME OneStore
    PROVE  Spec => NoTheft
  <1> DEFINE Lawful(s) == holder[s] # Nobody /\ holder'[s] # holder[s] =>
                            \E w \in Workers : mu[Proc(w)] = w /\ Displaced(w, s)
  <1>1. ASSUME IInv, Next, NEW s \in Symbols
        PROVE  Lawful(s)
    <2>1. ASSUME NEW w \in Workers, NEW r \in Symbols, Open(w, r)
          PROVE  Lawful(s)
      BY <1>1, <2>1 DEF IInv, TypeOK, MutexInv, NotedInv, Open, SetFile, Inside
    <2>2. ASSUME NEW w \in Workers, NEW r \in Symbols, Fill(w, r)
          PROVE  Lawful(s)
      BY <1>1, <2>2 DEF IInv, TypeOK, NotedInv, Fill, SetFile
    <2>3. ASSUME NEW w \in Workers, NEW r \in Symbols, Remove(w, r)
          PROVE  Lawful(s)
      BY <1>1, <2>3 DEF IInv, TypeOK, MutexInv, TakenInv, Displaced, Remove,
         SetFile, Inside
    <2>4. CASE UNCHANGED holder
      BY <2>4
    <2>5. \/ UNCHANGED holder
          \/ \E w \in Workers, r \in Symbols : Open(w, r) \/ Fill(w, r) \/ Remove(w, r)
      BY ZenonT(60), <1>1 DEF Next, Proceed, Call, Release, Abandon, Enter, List, ListFails,
         WriteFails, Swept, RemoveFails, CheckFree, CheckStale, Checked, Refuse, Look, Crash, Tick, files
    <2> QED  BY <2>1, <2>2, <2>3, <2>4, <2>5
  <1>2. IInv /\ [Next]_vars => [\A s \in Symbols : Lawful(s)]_vars
    BY <1>1
  <1> QED  BY <1>2, Safety, PTL DEF Spec, NoTheft
================================================================================
