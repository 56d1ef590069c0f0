------------------------------- MODULE AgentProofs -------------------------------
(***************************************************************************)
(* What a turn and a stream promise for every history, budget, judge and   *)
(* window, and for every response, protocol and fault.                     *)
(*                                                                         *)
(* Of a turn: the goal gates the outcome, the record stays in step with    *)
(* what the caller gets (one invariant, IInv, ties the record and the      *)
(* checkpoint to the history they are made of); what the agent is sent     *)
(* fits (Fresh: the messages of a history are told apart by their numbers; *)
(* Fitted: what is sent is what Recent takes), and nothing is gone that    *)
(* fitted and was not saved (Held: where the messages offered are until    *)
(* the turn ends); the state keeps its types.                              *)
(*                                                                         *)
(* Of a stream: a consumer fails only for a reason (StreamInv follows an   *)
(* error from where it is put to the consumer), and has, whatever breaks   *)
(* while the context is not done, a prefix of what was sent, or all of it  *)
(* (ParserInv: the parser's state says what the frames handled leave open; *)
(* Faithful: told and to be told is what they mean).                       *)
(***************************************************************************)
EXTENDS Turn, Stream, PositionsProofs



(***************************************************************************)
(* Every step keeps the invariant.                                         *)
(***************************************************************************)
LEMMA OutcomeStep ==
    ASSUME IInv, [Next]_vars
    PROVE  IInv'
  <1> USE DEF IInv, GoalGate, InStep, Ids
  <1>1. ASSUME NEW cost \in Costs, Submit(cost)
        PROVE  IInv'
    BY <1>1 DEF Submit, New, context
  <1>2. ASSUME NEW memory \in Retrievals, AssembleContext(memory)
        PROVE  IInv'
    BY <1>2 DEF AssembleContext, context
  <1>3. ASSUME NEW cost \in Costs, ModelCalls(cost)
        PROVE  IInv'
    BY <1>3 DEF ModelCalls, Say, context
  <1>4. ASSUME NEW cost \in Costs, ToolsReturn(cost)
        PROVE  IInv'
    BY <1>4 DEF ToolsReturn, Say, context
  <1>5. ASSUME NEW cost \in Costs, ModelReplies(cost)
        PROVE  IInv'
    BY <1>5 DEF ModelReplies, Say, context
  <1>6. ASSUME ProviderFails
        PROVE  IInv'
    BY <1>6 DEF ProviderFails, Fail, context
  <1>7. ASSUME JudgeFails
        PROVE  IInv'
    BY <1>7 DEF JudgeFails, Fail, context
  <1>8. ASSUME NEW answer, JudgeMet(answer)
        PROVE  IInv'
    BY <1>8 DEF JudgeMet, context
  <1>9. ASSUME NEW answer, JudgeExhausted(answer)
        PROVE  IInv'
    BY <1>9 DEF JudgeExhausted, Fail, context
  <1>10. ASSUME NEW answer, JudgeUnmet(answer)
         PROVE  IInv'
    BY <1>10 DEF JudgeUnmet, context
  <1>11. ASSUME Record
         PROVE  IInv'
    BY <1>11 DEF Record, context
  <1>12. ASSUME NoCheckpoint
         PROVE  IInv'
    BY <1>12 DEF NoCheckpoint, Return, context
  <1>13. ASSUME BeginWrite
         PROVE  IInv'
    BY <1>13 DEF BeginWrite, context
  <1>14. ASSUME WriteFails
         PROVE  IInv'
    BY <1>14 DEF WriteFails, Return, context
  <1>15. ASSUME EndWrite
         PROVE  IInv'
    BY <1>15 DEF EndWrite, context
  <1>16. ASSUME Compact
         PROVE  IInv'
    BY <1>16 DEF Compact, Return, context
  <1>17. ASSUME CompactNothing
         PROVE  IInv'
    BY <1>17 DEF CompactNothing, Return, context
  <1>18. ASSUME Crash
         PROVE  IInv'
    BY <1>18 DEF Crash
  <1>19. CASE UNCHANGED vars
    BY <1>19 DEF vars, context
  <1> QED
    BY <1>1, <1>2, <1>3, <1>4, <1>5, <1>6, <1>7, <1>8, <1>9, <1>10, <1>11,
       <1>12, <1>13, <1>14, <1>15, <1>16, <1>17, <1>18,
       <1>19 DEF Next, AgentStep, JudgeStep, FinishStep

(***************************************************************************)
(* The goal gate and the step of the session's record with the caller's    *)
(* history hold in every state, for any judge, rounds, history and cut.    *)
(***************************************************************************)
THEOREM TurnSafety == Spec => []IInv
  <1>1. Init => IInv
    BY DEF Init, IInv, GoalGate, InStep
  <1>2. IInv /\ [Next]_vars => IInv'
    BY OutcomeStep
  <1> QED  BY <1>1, <1>2, PTL DEF Spec

(***************************************************************************)
(* For any number of rounds and any judge: a turn with a goal is recorded, *)
(* saved and returned as done only after a MET of its own.                 *)
(***************************************************************************)
THEOREM Gated == Spec => []GoalGate
  <1>1. IInv => GoalGate
    BY DEF IInv
  <1> QED  BY <1>1, TurnSafety, PTL

(***************************************************************************)
(* For any history and any cut: after a turn that succeeded the session's  *)
(* record is the history the caller was given.                             *)
(***************************************************************************)
THEOREM Recorded == Spec => []InStep
  <1>1. IInv => InStep
    BY DEF IInv
  <1> QED  BY <1>1, TurnSafety, PTL

-----------------------------------------------------------------------------
(***************************************************************************)
(* The budget.                                                             *)
(***************************************************************************)

\* What is left after each of the costs: f says so.
Leaving(f, costs, room) ==
    /\ f \in [0..Len(costs) -> Int] /\ f[0] = room
    /\ \A i \in 1..Len(costs) :
         /\ costs[i] <= f[i - 1] => f[i] = f[i - 1] - costs[i]
         /\ ~ (costs[i] <= f[i - 1]) => f[i] = f[i - 1]

(***************************************************************************)
(* The room only shrinks; what fits is taken out of it, so that it does    *)
(* not become negative, and if it is, nothing fits.                        *)
(***************************************************************************)
LEMMA RoomFacts ==
    ASSUME NEW costs \in Seq(Nat), NEW room \in Int
    PROVE  /\ Leaving(RoomAfter(costs, room), costs, room)
           /\ \A i \in 0..Len(costs) :
                /\ RoomAfter(costs, room)[i] <= room
                /\ room >= 0 => RoomAfter(costs, room)[i] >= 0
                /\ room < 0 => RoomAfter(costs, room)[i] = room
  <1> DEFINE n == Len(costs)
             next == [i \in 1..n |-> [v \in Int |-> IF costs[i] <= v THEN v - costs[i] ELSE v]]
  <1>1. n \in Nat /\ \A i \in 1..n : costs[i] \in Nat
    OBVIOUS
  <1>2. \A i \in 1..n : \A v \in Int : /\ next[i][v] = IF costs[i] <= v THEN v - costs[i] ELSE v
                                       /\ next[i][v] \in Int
    BY <1>1
  <1> HIDE DEF n, next
  <1>3. \E f : GoesOn(f, n, Int, room, next)
    <2>1. \A i \in 1..n : \A v \in Int : next[i][v] \in Int
      BY <1>2
    <2> QED  BY <1>1, <2>1, Recursion, Zenon
  <1>4. PICK f : /\ f \in [0..n -> Int]
                 /\ \A i \in 0..n : f[i] = IF i = 0 THEN room ELSE next[i][f[i - 1]]
    BY <1>3 DEF GoesOn
  <1>5. \A i \in 1..n : i \in 0..n /\ i # 0 /\ i - 1 \in 0..n /\ f[i - 1] \in Int
    BY <1>1, <1>4
  <1>6. f[0] = room /\ 0 \in 0..n
    BY <1>1, <1>4
  <1>7. \A i \in 1..n : f[i] = IF costs[i] <= f[i - 1] THEN f[i - 1] - costs[i] ELSE f[i - 1]
    BY <1>2, <1>4, <1>5
  <1> DEFINE IsLeft(g) == g = [i \in 0..n |->
               IF i = 0 THEN room
               ELSE IF costs[i] <= g[i - 1] THEN g[i - 1] - costs[i] ELSE g[i - 1]]
             left == CHOOSE g : IsLeft(g)
  <1>8. IsLeft(f)
    <2>1. \A i \in 0..n : f[i] = IF i = 0 THEN room
               ELSE IF costs[i] <= f[i - 1] THEN f[i - 1] - costs[i] ELSE f[i - 1]
      BY <1>1, <1>6, <1>7
    <2> QED  BY <1>4, <2>1
  <1>9. IsLeft(left)
    BY <1>8
  <1>10. RoomAfter(costs, room) = left
    BY DEF RoomAfter, n
  <1>11. \A i \in 0..n : left[i] = IF i = 0 THEN room
           ELSE IF costs[i] <= left[i - 1] THEN left[i - 1] - costs[i] ELSE left[i - 1]
    BY <1>9
  <1>12. left = [i \in 0..n |-> left[i]]
    BY <1>9
  <1> HIDE DEF left, IsLeft
  <1> DEFINE Same == {i \in 0..n : left[i] = f[i]}
  <1>13. 0..n \subseteq Same
    <2>1. 0 \in Same
      BY <1>6, <1>11
    <2>2. \A i \in 1..n : i - 1 \in Same => i \in Same
      BY <1>5, <1>7, <1>11
    <2> HIDE DEF Same
    <2> QED  BY <1>1, <2>1, <2>2, Upward
  <1>14. left = f
    BY <1>4, <1>12, <1>13
  <1>15. Leaving(f, costs, room)
    BY <1>1, <1>4, <1>6, <1>7 DEF Leaving, n
  <1> DEFINE Bounded == {i \in 0..n : /\ f[i] <= room
                                      /\ room >= 0 => f[i] >= 0
                                      /\ room < 0 => f[i] = room}
  <1>16. 0..n \subseteq Bounded
    <2>1. 0 \in Bounded
      BY <1>6
    <2>2. ASSUME NEW i \in 1..n, i - 1 \in Bounded
          PROVE  i \in Bounded
      <3>1. /\ f[i - 1] <= room /\ (room >= 0 => f[i - 1] >= 0) /\ (room < 0 => f[i - 1] = room)
            /\ f[i - 1] \in Int /\ costs[i] \in Nat /\ i \in 0..n
        BY <1>1, <1>5, <2>2
      <3>2. CASE costs[i] <= f[i - 1]
        <4>1. f[i] = f[i - 1] - costs[i]
          BY <1>7, <3>2
        <4> QED  BY <3>1, <3>2, <4>1
      <3>3. CASE ~ (costs[i] <= f[i - 1])
        <4>1. f[i] = f[i - 1]
          BY <1>7, <3>3
        <4> QED  BY <3>1, <4>1
      <3> QED  BY <3>2, <3>3
    <2> HIDE DEF Bounded
    <2> QED  BY <1>1, <2>1, <2>2, Upward
  <1> QED  BY <1>10, <1>14, <1>15, <1>16 DEF n

(***************************************************************************)
(* What Recent takes of a history is what leaves room: of the messages     *)
(* from the newest back, each that fits in what the ones before left.      *)
(***************************************************************************)
Taken(h, room) ==
    {i \in DOMAIN h : h[i].cost <= RoomAfter(CostsOf(Newest1st(h)), room)[Len(h) - i]}

After(h, room, i) == RoomAfter(CostsOf(Newest1st(h)), room)[Len(h) - i]

LEMMA CostFacts ==
    /\ \A h \in Seq(Message) : CostsOf(h) \in Seq(Nat) /\ Len(CostsOf(h)) = Len(h)
    /\ \A h \in Seq(Message) : \A i \in 1..Len(h) : CostsOf(h)[i] = h[i].cost /\ h[i].cost \in Nat
  <1> SUFFICES ASSUME NEW h \in Seq(Message)
               PROVE  /\ CostsOf(h) \in Seq(Nat) /\ Len(CostsOf(h)) = Len(h)
                      /\ \A i \in 1..Len(h) : CostsOf(h)[i] = h[i].cost /\ h[i].cost \in Nat
    OBVIOUS
  <1>1. ASSUME NEW m \in Message
        PROVE  m.cost \in Nat
    <2>1. m.cost \in Costs \cup {1}
      BY DEF Message
    <2>2. Costs \cup {1} \subseteq Nat
      BY TurnAssumption
    <2> QED  BY <2>1, <2>2
  <1>2. \A i \in 1..Len(h) : h[i].cost \in Nat
    BY <1>1
  <1> QED  BY <1>2 DEF CostsOf

LEMMA TakenFacts ==
    ASSUME NEW h \in Seq(Message), NEW room \in Int
    PROVE  /\ Taken(h, room) \in SUBSET (1..Len(h))
           /\ Recent(h, room) = Pick(h, Taken(h, room))
           /\ \A i \in 0..Len(h) :
                /\ After(h, room, i) \in Int
                /\ After(h, room, i) <= room
                /\ room >= 0 => After(h, room, i) >= 0
                /\ room < 0 => After(h, room, i) = room
           /\ After(h, room, Len(h)) = room
           /\ \A i \in 1..Len(h) :
                /\ i \in Taken(h, room) <=> h[i].cost <= After(h, room, i)
                /\ i \in Taken(h, room) => After(h, room, i - 1) = After(h, room, i) - h[i].cost
                /\ i \notin Taken(h, room) => After(h, room, i - 1) = After(h, room, i)
  <1> DEFINE n == Len(h)
             new == Newest1st(h)
             costs == CostsOf(new)
             left == RoomAfter(costs, room)
  <1>1. n \in Nat /\ DOMAIN h = 1..n
    OBVIOUS
  <1>2. new \in Seq(Message) /\ Len(new) = n /\ \A i \in 1..n : new[n + 1 - i] = h[i]
    <2>1. \A i \in 1..n : n + 1 - i \in 1..n /\ h[n + 1 - i] \in Message /\ n + 1 - (n + 1 - i) = i
      BY <1>1
    <2>2. new = [i \in 1..n |-> h[n + 1 - i]]
      BY <1>1 DEF Newest1st
    <2>3. new \in Seq(Message) /\ Len(new) = n
      BY <1>1, <2>1, <2>2
    <2> QED  BY <2>1, <2>2, <2>3
  <1>3. costs \in Seq(Nat) /\ Len(costs) = n /\ \A i \in 1..n : costs[n + 1 - i] = h[i].cost
    <2>1. costs \in Seq(Nat) /\ Len(costs) = n /\ \A i \in 1..n : costs[i] = new[i].cost
      BY <1>2, CostFacts
    <2>2. \A i \in 1..n : n + 1 - i \in 1..n
      BY <1>1
    <2> QED  BY <1>2, <2>1, <2>2
  <1>4. Recent(h, room) = Pick(h, Taken(h, room)) /\ Taken(h, room) \in SUBSET (1..n)
    BY <1>1 DEF Recent, Taken
  <1>5. \A i : After(h, room, i) = left[n - i]
    BY DEF After
  <1>6. \A i \in 1..n : i \in Taken(h, room) <=> h[i].cost <= After(h, room, i)
    BY <1>1 DEF Taken, After
  <1> HIDE DEF n, new, costs, left
  <1>7. /\ left \in [0..n -> Int] /\ left[0] = room
        /\ \A i \in 1..n : /\ costs[i] <= left[i - 1] => left[i] = left[i - 1] - costs[i]
                           /\ ~ (costs[i] <= left[i - 1]) => left[i] = left[i - 1]
        /\ \A i \in 0..n : /\ left[i] <= room
                           /\ room >= 0 => left[i] >= 0
                           /\ room < 0 => left[i] = room
    BY <1>3, RoomFacts, Zenon DEF left, Leaving
  <1>8. \A i \in 0..n : /\ After(h, room, i) \in Int
                        /\ After(h, room, i) <= room
                        /\ room >= 0 => After(h, room, i) >= 0
                        /\ room < 0 => After(h, room, i) = room
    <2>1. \A i \in 0..n : n - i \in 0..n
      BY SMTT(20), <1>1
    <2> QED  BY <1>5, <1>7, <2>1
  <1>9. After(h, room, n) = room
    BY <1>1, <1>5, <1>7
  <1>10. ASSUME NEW i \in 1..n
         PROVE  /\ i \in Taken(h, room) => After(h, room, i - 1) = After(h, room, i) - h[i].cost
                /\ i \notin Taken(h, room) => After(h, room, i - 1) = After(h, room, i)
    <2>1. PICK k : k = n + 1 - i
      OBVIOUS
    <2>2. k \in 1..n /\ k = n - (i - 1) /\ k - 1 = n - i
      BY <1>1, <2>1
    <2>3. costs[k] = h[i].cost
      BY <1>3, <2>1
    <2>4. After(h, room, i - 1) = left[k] /\ After(h, room, i) = left[k - 1]
      BY <1>5, <2>2
    <2> QED  BY <1>6, <1>7, <2>2, <2>3, <2>4
  <1> QED  BY <1>4, <1>6, <1>8, <1>9, <1>10 DEF n

(***************************************************************************)
(* What is left at a message is the room without the newer ones taken.     *)
(***************************************************************************)
LEMMA Spent ==
    ASSUME NEW h \in Seq(Message), NEW room \in Int
    PROVE  \A i \in 0..Len(h) :
             After(h, room, i) = room - TotalAt(CostsOf(h), {j \in Taken(h, room) : j > i})
  <1> DEFINE n == Len(h)
             s == CostsOf(h)
             K == Taken(h, room)
             Newer(i) == {j \in K : j > i}
             Good == {j \in 0..n : After(h, room, n - j) = room - TotalAt(s, Newer(n - j))}
  <1>1. /\ n \in Nat /\ s \in Seq(Nat) /\ Len(s) = n /\ K \in SUBSET (1..n)
        /\ \A i \in 1..n : s[i] = h[i].cost
    <2>1. n \in Nat
      OBVIOUS
    <2>2. s \in Seq(Nat) /\ Len(s) = n /\ \A i \in 1..n : s[i] = h[i].cost
      BY CostFacts, Zenon
    <2>3. K \in SUBSET (1..n)
      BY TakenFacts, Zenon
    <2> QED  BY <2>1, <2>2, <2>3
  <1>2. /\ \A i \in 0..n : After(h, room, i) \in Int
        /\ After(h, room, n) = room
        /\ \A i \in 1..n :
             /\ i \in K => After(h, room, i - 1) = After(h, room, i) - s[i]
             /\ i \notin K => After(h, room, i - 1) = After(h, room, i)
    <2>1. /\ \A i \in 0..n : After(h, room, i) \in Int
          /\ After(h, room, n) = room
          /\ \A i \in 1..n :
               /\ i \in K => After(h, room, i - 1) = After(h, room, i) - h[i].cost
               /\ i \notin K => After(h, room, i - 1) = After(h, room, i)
      BY TakenFacts, Zenon
    <2> HIDE DEF n, s, K
    <2> QED  BY <1>1, <2>1
  <1> HIDE DEF n, s, K
  <1>0. n \in Nat /\ \A j \in K : j \in Int /\ 1 <= j /\ j <= n
    <2>1. n \in Nat /\ K \in SUBSET (1..n)
      BY <1>1
    <2> QED  BY <2>1
  <1>3. \A i : TotalAt(s, Newer(i)) \in Nat
    <2> HIDE DEF Newer
    <2> QED  BY <1>1, SumFacts
  <1>4. 0 \in Good
    <2>1. Newer(n) = {} /\ n - 0 = n /\ 0 \in 0..n
      BY <1>0
    <2>2. TotalAt(s, {}) = 0
      BY <1>1, SumFacts
    <2>3. After(h, room, n) = room - TotalAt(s, Newer(n))
      <3>1. After(h, room, n) = room
        BY <1>2
      <3>2. TotalAt(s, Newer(n)) = 0
        BY <2>1, <2>2, Zenon
      <3> HIDE DEF Newer
      <3> QED  BY <3>1, <3>2
    <2>4. After(h, room, n - 0) = room - TotalAt(s, Newer(n - 0))
      BY <2>1, <2>3, Zenon
    <2> QED  BY <2>1, <2>4
  <1>5. ASSUME NEW j \in 1..n, j - 1 \in Good
        PROVE  j \in Good
    <2>1. PICK i : i = n - (j - 1)
      OBVIOUS
    <2>2. i \in 1..n /\ i - 1 = n - j /\ i \in 0..n
      BY <1>0, <2>1
    <2>3. After(h, room, i) = room - TotalAt(s, Newer(i))
      BY <1>5, <2>1
    <2>4. After(h, room, i - 1) = room - TotalAt(s, Newer(i - 1))
      <3>1. CASE i \in K
        <4>0. i \in Int /\ \A k \in K : k > i - 1 <=> k > i \/ k = i
          BY <1>0, <2>2
        <4>1. Newer(i - 1) = Newer(i) \cup {i} /\ i \notin Newer(i)
          <5>1. i \notin Newer(i)
            BY <4>0
          <5>2. Newer(i - 1) = {k \in K : k > i \/ k = i}
            BY <4>0, Zenon
          <5>3. {k \in K : k > i \/ k = i} = {k \in K : k > i} \cup {i}
            BY <3>1, Zenon
          <5> QED  BY <5>1, <5>2, <5>3, Zenon
        <4>2. \A T : i \notin T => TotalAt(s, T \cup {i}) = TotalAt(s, T) + s[i]
          BY <1>1, <2>2, SumFacts
        <4>3. TotalAt(s, Newer(i - 1)) = TotalAt(s, Newer(i)) + s[i]
          BY <4>1, <4>2
        <4>4. s[i] \in Nat
          BY <1>1, <2>2
        <4>5. After(h, room, i - 1) = After(h, room, i) - s[i]
          BY <1>2, <2>2, <3>1
        <4>6. TotalAt(s, Newer(i)) \in Nat
          BY <1>3
        <4> HIDE DEF Newer
        <4> QED  BY <2>3, <4>3, <4>4, <4>5, <4>6
      <3>2. CASE i \notin K
        <4>1. Newer(i - 1) = Newer(i)
          BY <1>0, <2>2, <3>2
        <4> QED  BY <1>2, <2>2, <2>3, <3>2, <4>1
      <3> QED  BY <3>1, <3>2
    <2>6. j \in 0..n
      BY <1>0
    <2>5. After(h, room, n - j) = room - TotalAt(s, Newer(n - j))
      BY <2>2, <2>4, Zenon
    <2> QED  BY <2>5, <2>6
  <1> HIDE DEF Good
  <1>6. 0..n \subseteq Good
    BY <1>1, <1>4, <1>5, Upward
  <1>7. ASSUME NEW i \in 0..n
        PROVE  After(h, room, i) = room - TotalAt(s, Newer(i))
    <2>1. PICK j : j = n - i
      OBVIOUS
    <2>2. j \in 0..n /\ n - j = i
      BY <1>1, <2>1
    <2>3. j \in Good
      BY <1>6, <2>2
    <2> QED  BY <2>2, <2>3 DEF Good
  <1> QED  BY <1>7 DEF n, s, K

(***************************************************************************)
(* What Recent chooses costs no more than the room, or is nothing when     *)
(* there is none; and no other choice that fits has a message it lacks and *)
(* all the newer ones it has.                                              *)
(***************************************************************************)
LEMMA Best ==
    ASSUME NEW h \in Seq(Message), NEW room \in Int
    PROVE  /\ room >= 0 => TotalAt(CostsOf(h), Taken(h, room)) <= room
           /\ room < 0 => TotalAt(CostsOf(h), Taken(h, room)) = 0
           /\ \A P \in SUBSET (1..Len(h)) : TotalAt(CostsOf(h), P) <= room =>
                \A i \in P \ Taken(h, room) :
                  {j \in P : j > i} # {j \in Taken(h, room) : j > i}
  <1> DEFINE n == Len(h)
             s == CostsOf(h)
             K == Taken(h, room)
             Newer(i) == {j \in K : j > i}
  <1>1. /\ n \in Nat /\ s \in Seq(Nat) /\ Len(s) = n /\ K \in SUBSET (1..n)
        /\ \A i \in 1..n : s[i] = h[i].cost /\ s[i] \in Nat
    <2>1. n \in Nat
      OBVIOUS
    <2>2. s \in Seq(Nat) /\ Len(s) = n /\ \A i \in 1..n : s[i] = h[i].cost /\ h[i].cost \in Nat
      BY CostFacts, Zenon
    <2>3. K \in SUBSET (1..n)
      BY TakenFacts, Zenon
    <2> QED  BY <2>1, <2>2, <2>3
  <1>2. /\ \A i \in 0..n : /\ After(h, room, i) \in Int
                           /\ room >= 0 => After(h, room, i) >= 0
                           /\ room < 0 => After(h, room, i) = room
        /\ \A i \in 1..n : i \in K <=> s[i] <= After(h, room, i)
    <2>1. /\ \A i \in 0..n : /\ After(h, room, i) \in Int
                             /\ room >= 0 => After(h, room, i) >= 0
                             /\ room < 0 => After(h, room, i) = room
          /\ \A i \in 1..n : i \in K <=> h[i].cost <= After(h, room, i)
      BY TakenFacts, Zenon
    <2> HIDE DEF n, s, K
    <2> QED  BY <1>1, <2>1
  <1>3. \A i \in 0..n : After(h, room, i) = room - TotalAt(s, Newer(i))
    BY Spent
  <1> HIDE DEF n, s, K
  <1>0. n \in Nat /\ \A j \in K : j \in Int /\ 1 <= j /\ j <= n
    <2>1. n \in Nat /\ K \in SUBSET (1..n)
      BY <1>1
    <2> QED  BY <2>1
  <1>4. \A T : TotalAt(s, T) \in Nat
    BY <1>1, SumFacts
  <1>5. room >= 0 => TotalAt(s, K) <= room
    <2>1. Newer(0) = K /\ 0 \in 0..n
      BY <1>0
    <2>2. After(h, room, 0) = room - TotalAt(s, K)
      BY <1>3, <2>1
    <2> QED  BY <1>2, <1>4, <2>1, <2>2
  <1>6. room < 0 => TotalAt(s, K) = 0
    <2>1. SUFFICES ASSUME room < 0
                   PROVE  TotalAt(s, K) = 0
      OBVIOUS
    <2>2. K = {}
      <3>1. ASSUME NEW i \in K
            PROVE  FALSE
        <4>1. i \in 1..n /\ i \in 0..n
          BY <1>1
        <4> QED  BY <1>1, <1>2, <2>1, <4>1
      <3> QED  BY <3>1
    <2>3. TotalAt(s, {}) = 0
      BY <1>1, SumFacts
    <2> QED  BY <2>2, <2>3
  <1>7. ASSUME NEW P \in SUBSET (1..n), TotalAt(s, P) <= room, NEW i \in P \ K,
               {j \in P : j > i} = Newer(i)
        PROVE  FALSE
    <2>1. i \in 1..n /\ i \in 0..n /\ i \notin Newer(i)
      BY <1>1
    <2>2. s[i] \in Nat /\ s[i] > After(h, room, i)
      BY <1>1, <1>2, <2>1
    <2>3. After(h, room, i) = room - TotalAt(s, Newer(i))
      BY <1>3, <2>1
    <2>4. (Newer(i) \cup {i}) \cap (1..n) \subseteq P
      BY <1>7
    <2> HIDE DEF Newer
    <2>5. \A T : i \notin T => TotalAt(s, T \cup {i}) = TotalAt(s, T) + s[i]
      BY <1>1, <2>1, SumFacts
    <2>6. TotalAt(s, Newer(i) \cup {i}) = TotalAt(s, Newer(i)) + s[i]
      BY <2>1, <2>5
    <2>7. \A T, U : T \cap (1..n) \subseteq U => TotalAt(s, T) <= TotalAt(s, U)
      BY <1>1, SumFacts
    <2>8. TotalAt(s, Newer(i) \cup {i}) <= TotalAt(s, P)
      BY <2>4, <2>7
    <2>9. /\ TotalAt(s, P) \in Nat /\ TotalAt(s, Newer(i)) \in Nat
          /\ TotalAt(s, Newer(i) \cup {i}) \in Nat
      BY <1>4
    <2> QED  BY <1>7, <2>2, <2>3, <2>6, <2>8, <2>9
  <1> QED  BY <1>5, <1>6, <1>7 DEF n, s, K

(***************************************************************************)
(* The cost of what Recent takes is the sum of the costs at what is taken. *)
(***************************************************************************)
LEMMA CostOfRecent ==
    ASSUME NEW h \in Seq(Message), NEW room \in Int
    PROVE  /\ Recent(h, room) \in Seq(Message)
           /\ Total(CostsOf(Recent(h, room))) = TotalAt(CostsOf(h), Taken(h, room))
  <1> DEFINE K == Taken(h, room)
             r == Pick(h, K)
             s == CostsOf(h)
  <1>1. /\ K \in SUBSET (1..Len(h)) /\ Recent(h, room) = r
        /\ s \in Seq(Nat) /\ Len(s) = Len(h)
        /\ \A i \in 1..Len(h) : s[i] = h[i].cost
    BY CostFacts, TakenFacts
  <1> HIDE DEF K, s
  <1>2. /\ Cardinality(K) \in Nat
        /\ r \in Seq(Message) /\ Len(r) = Cardinality(K)
        /\ \A k \in 1..Cardinality(K) : Nth(K, k) \in K /\ r[k] = h[Nth(K, k)]
    BY <1>1, PickFacts
  <1>3. CostsOf(r) = [k \in 1..Cardinality(K) |-> r[k].cost]
    BY <1>2 DEF CostsOf
  <1>4. \A k \in 1..Cardinality(K) : r[k].cost = s[Nth(K, k)]
    BY <1>1, <1>2
  <1>5. CostsOf(r) = Pick(s, K)
    BY <1>3, <1>4 DEF Pick
  <1>6. Total(Pick(s, K)) = TotalAt(s, K)
    BY <1>1, PickTotal
  <1> QED  BY <1>1, <1>2, <1>5, <1>6 DEF K, s

(***************************************************************************)
(* A message is told from the others of a history by its number.           *)
(***************************************************************************)
Distinct(h) == \A i, j \in DOMAIN h : h[i].id = h[j].id => i = j

(***************************************************************************)
(* A new message at the end, and some of the messages of a history.        *)
(***************************************************************************)
LEMMA AppendFacts ==
    ASSUME NEW h \in Seq(Message), Distinct(h), NEW m \in Message, m.id \notin Ids(h)
    PROVE  /\ Append(h, m) \in Seq(Message)
           /\ Distinct(Append(h, m))
           /\ Ids(Append(h, m)) = Ids(h) \cup {m.id}
  <1> DEFINE n == Len(h)
             a == Append(h, m)
  <1>1. /\ n \in Nat /\ DOMAIN h = 1..n
        /\ a \in Seq(Message) /\ DOMAIN a = 1..(n + 1)
        /\ a[n + 1] = m /\ \A i \in 1..n : a[i] = h[i]
    OBVIOUS
  <1> HIDE DEF n, a
  <1>2. \A i \in 1..(n + 1) : i \in 1..n \/ i = n + 1
    BY <1>1
  <1>3. \A i \in 1..n : i \in 1..(n + 1) /\ i # n + 1 /\ h[i].id # m.id
    BY <1>1 DEF Ids
  <1>4. Distinct(a)
    <2>1. \A i, j \in 1..n : h[i].id = h[j].id => i = j
      BY <1>1 DEF Distinct
    <2> QED  BY <1>1, <1>2, <1>3, <2>1 DEF Distinct
  <1>5. Ids(a) = Ids(h) \cup {m.id}
    <2>1. n + 1 \in 1..(n + 1)
      BY <1>1
    <2> QED  BY <1>1, <1>2, <1>3, <2>1 DEF Ids
  <1> QED  BY <1>1, <1>4, <1>5 DEF a

LEMMA PickIds ==
    ASSUME NEW h \in Seq(Message), NEW S \in SUBSET (1..Len(h))
    PROVE  /\ Pick(h, S) \in Seq(Message)
           /\ Ids(Pick(h, S)) = {h[i].id : i \in S}
           /\ Distinct(h) => Distinct(Pick(h, S))
  <1> DEFINE n == Cardinality(S)
             p == Pick(h, S)
  <1>1. /\ IsFiniteSet(S) /\ n \in Nat
        /\ p \in Seq(Message) /\ Len(p) = n
        /\ \A k \in 1..n : Nth(S, k) \in S /\ p[k] = h[Nth(S, k)]
        /\ \A i \in S : Rank(S, i) \in 1..n /\ p[Rank(S, i)] = h[i]
    BY PickFacts
  <1>2. \A k, l \in 1..n : k < l => Nth(S, k) < Nth(S, l)
    BY <1>1, NthFacts
  <1>3. \A k \in 1..n : Nth(S, k) \in Int
    <2>1. \A k \in 1..n : Nth(S, k) \in S
      BY <1>1
    <2>2. S \subseteq Int
      OBVIOUS
    <2> HIDE DEF n
    <2> QED  BY <2>1, <2>2, Zenon
  <1> HIDE DEF n, p
  <1>4. DOMAIN p = 1..n /\ DOMAIN h = 1..Len(h)
    <2>1. p \in Seq(Message) /\ Len(p) = n
      BY <1>1
    <2> QED  BY <2>1
  <1>5. Ids(p) = {h[i].id : i \in S}
    <2>1. \A k \in 1..n : p[k].id \in {h[i].id : i \in S}
      BY <1>1
    <2>2. \A i \in S : h[i].id \in {p[k].id : k \in 1..n}
      <3>1. ASSUME NEW i \in S
            PROVE  h[i].id \in {p[k].id : k \in 1..n}
        <4>1. PICK k \in 1..n : p[k] = h[i]
          BY <1>1
        <4> QED  BY <4>1
      <3> QED  BY <3>1
    <2> QED  BY <1>4, <2>1, <2>2 DEF Ids
  <1>6. ASSUME Distinct(h)
        PROVE  Distinct(p)
    <2>1. SUFFICES ASSUME NEW k \in 1..n, NEW l \in 1..n, p[k].id = p[l].id, k # l
                   PROVE  FALSE
      BY <1>4 DEF Distinct
    <2>2. Nth(S, k) = Nth(S, l)
      <3>1. /\ Nth(S, k) \in DOMAIN h /\ Nth(S, l) \in DOMAIN h
            /\ h[Nth(S, k)].id = h[Nth(S, l)].id
        BY <1>1, <1>4, <2>1
      <3> QED  BY <1>6, <3>1 DEF Distinct
    <2>3. k < l \/ l < k
      BY <1>1, <2>1
    <2> QED  BY <1>2, <1>3, <2>2, <2>3
  <1> QED  BY <1>1, <1>5, <1>6 DEF p

LEMMA CutFacts ==
    ASSUME NEW h \in Seq(Message), Distinct(h), Len(h) > KeepRecent + 1,
           NEW m \in Message, m.id \notin Ids(h)
    PROVE  LET c == <<m>> \o SubSeq(h, Len(h) - KeepRecent + 1, Len(h))
           IN  /\ c \in Seq(Message)
               /\ Distinct(c)
               /\ Ids(c) \subseteq Ids(h) \cup {m.id}
  <1> DEFINE n == Len(h)
             K == KeepRecent
             tail == SubSeq(h, n - K + 1, n)
             c == <<m>> \o tail
  <1>1. n \in Nat /\ K \in Nat /\ K >= 1 /\ n > K + 1 /\ DOMAIN h = 1..n
    BY TurnAssumption
  <1> HIDE DEF n, K
  <1>2. \A i \in (n - K + 1)..n : i \in 1..n /\ h[i] \in Message
    BY <1>1 DEF n
  <1>3. /\ tail \in Seq(Message) /\ Len(tail) = K
        /\ \A i \in 1..K : tail[i] = h[n - K + i]
    <2>1. /\ tail \in Seq(Message)
          /\ Len(tail) = IF n - K + 1 <= n THEN n - (n - K + 1) + 1 ELSE 0
          /\ \A i \in 1..(n - (n - K + 1) + 1) : tail[i] = h[(n - K + 1) + i - 1]
      <3>1. n - K + 1 \in Int /\ n \in Int
        BY <1>1
      <3>2. \A i \in (n - K + 1)..n : h[i] \in Message
        BY <1>2
      <3> QED  BY <3>1, <3>2, SubSeqProperties
    <2> HIDE DEF tail
    <2>2. n - K + 1 <= n /\ n - (n - K + 1) + 1 = K
      BY <1>1
    <2>3. \A i \in 1..K : (n - K + 1) + i - 1 = n - K + i
      BY <1>1
    <2> QED  BY <2>1, <2>2, <2>3
  <1> HIDE DEF tail
  <1>4. /\ c \in Seq(Message) /\ DOMAIN c = 1..(K + 1)
        /\ c[1] = m /\ \A i \in 2..(K + 1) : c[i] = tail[i - 1]
    BY <1>1, <1>3
  <1> HIDE DEF c
  <1>5. \A i \in 2..(K + 1) : c[i] = h[n - K + (i - 1)] /\ n - K + (i - 1) \in 1..n
    BY <1>1, <1>3, <1>4
  <1>6. \A i \in 1..(K + 1) : i = 1 \/ i \in 2..(K + 1)
    BY <1>1
  <1>7. \A i \in 1..n : h[i].id # m.id
    BY <1>1 DEF Ids
  <1>8. Distinct(c)
    <2>1. SUFFICES ASSUME NEW i \in 1..(K + 1), NEW j \in 1..(K + 1), c[i].id = c[j].id
                   PROVE  i = j
      BY <1>4 DEF Distinct
    <2>2. CASE i = 1 \/ j = 1
      BY <1>4, <1>5, <1>6, <1>7, <2>1, <2>2
    <2>3. CASE i \in 2..(K + 1) /\ j \in 2..(K + 1)
      <3>1. n - K + (i - 1) = n - K + (j - 1)
        BY <1>1, <1>5, <2>1, <2>3 DEF Distinct
      <3> QED  BY <1>1, <3>1
    <2> QED  BY <1>6, <2>2, <2>3
  <1>9. Ids(c) \subseteq Ids(h) \cup {m.id}
    <2>1. \A i \in 1..(K + 1) : c[i].id \in Ids(h) \cup {m.id}
      BY <1>1, <1>4, <1>5, <1>6 DEF Ids
    <2> QED  BY <1>4, <2>1 DEF Ids
  <1> QED  BY <1>4, <1>8, <1>9 DEF c, tail, n, K

(***************************************************************************)
(* The type invariant of a turn.  What keeps the token count a natural is  *)
(* that the sections never leave more room than the prompt left them; what *)
(* keeps the histories sequences of messages is that a message is made     *)
(* only below the bound, and that a cut is of a history longer than it.    *)
(***************************************************************************)
LEMMA SectionFacts ==
    ASSUME NEW hasCheckpoint \in BOOLEAN, NEW memory \in Retrievals
    PROVE  /\ SectionRoom(hasCheckpoint, memory) \in Int
           /\ SectionRoom(hasCheckpoint, memory) <= Budget - SystemCost
           /\ SectionRoom(hasCheckpoint, memory) < 0
                => SectionRoom(hasCheckpoint, memory) = Budget - SystemCost
  <1> DEFINE room == Budget - SystemCost
             base3 == IF ~hasCheckpoint THEN <<>>
                      ELSE IF TaskCost <= room
                      THEN <<TaskCost, ProgressCost, SummaryCost>>
                      ELSE <<SummaryCost>>
             costs == base3 \o memory
  <1>1. /\ room \in Int /\ memory \in Seq(Nat)
        /\ TaskCost \in Nat /\ ProgressCost \in Nat /\ SummaryCost \in Nat
    BY TurnAssumption
  <1>2. base3 \in Seq(Nat)
    <2>1. <<>> \in Seq(Nat) /\ <<SummaryCost>> \in Seq(Nat)
          /\ <<TaskCost, ProgressCost, SummaryCost>> \in Seq(Nat)
      BY <1>1
    <2> QED  BY <2>1
  <1>3. SectionRoom(hasCheckpoint, memory) = RoomAfter(costs, room)[Len(costs)]
    BY DEF SectionRoom
  <1> HIDE DEF room, base3
  <1>4. costs \in Seq(Nat)
    BY <1>1, <1>2
  <1> HIDE DEF costs
  <1>5. Len(costs) \in 0..Len(costs)
    BY <1>4
  <1>6. /\ RoomAfter(costs, room) \in [0..Len(costs) -> Int]
        /\ \A i \in 0..Len(costs) :
             /\ RoomAfter(costs, room)[i] <= room
             /\ room >= 0 => RoomAfter(costs, room)[i] >= 0
             /\ room < 0 => RoomAfter(costs, room)[i] = room
    BY <1>1, <1>4, RoomFacts DEF Leaving
  <1>7. PICK v : v = RoomAfter(costs, room)[Len(costs)]
    OBVIOUS
  <1>8. v \in Int /\ v <= room /\ (room >= 0 => v >= 0) /\ (room < 0 => v = room)
    BY <1>5, <1>6, <1>7
  <1>9. v < 0 => v = room
    BY <1>1, <1>8
  <1> QED  BY <1>3, <1>7, <1>8, <1>9 DEF room

LEMMA TotalType ==
    ASSUME NEW s \in Seq(Nat)
    PROVE  Total(s) \in Nat
  <1>1. PICK f \in [0..Len(s) -> Nat] : Total(s) = f[Len(s)]
    BY TotalFacts
  <1>2. Len(s) \in 0..Len(s)
    OBVIOUS
  <1> QED  BY <1>1, <1>2

\* What New and Marker make is a message.
LEMMA NewFacts ==
    ASSUME TypeOK, made < MaxMessages
    PROVE  /\ made + 1 \in 1..MaxMessages
           /\ \A kind \in Kinds : \A cost \in Costs \cup {1} :
                New(kind, cost) \in Message /\ New(kind, cost).id = made + 1
           /\ Marker \in Message /\ Marker.id = made + 1
  <1>1. made + 1 \in 1..MaxMessages
    BY TurnAssumption DEF TypeOK
  <1> QED  BY <1>1 DEF New, Marker, Message, Kinds

\* The messages are numbered as they are made, and no history has one twice;
\* the message of the turn under way is not in the caller's history yet.
Fresh ==
    /\ Distinct(caller) /\ Distinct(hist) /\ Distinct(base)
    /\ Ids(caller) \cup Ids(hist) \cup Ids(base) \subseteq 1..made
    /\ pc # "idle" => msg \in Message /\ msg.id \in (1..made) \ Ids(caller)

LEMMA TypeStep ==
    ASSUME TypeOK, Fresh, [Next]_vars
    PROVE  TypeOK'
  <1>0. /\ pc \in {"idle", "assemble", "ask", "tools", "judge", "record", "save",
                   "write", "compact"}
        /\ caller \in Seq(Message) /\ session \in Seq(Message)
        /\ runs \in Seq(Seq(1..MaxMessages)) /\ msg \in Message \cup {<<>>}
        /\ used \in Nat /\ base \in Seq(Message) /\ hist \in Seq(Message)
        /\ round \in 0..MaxRounds /\ verdict \in {"none", "met", "unmet"}
        /\ file \in SUBSET (1..MaxMessages) /\ last \in {"none", "done", "failed"}
        /\ made \in 0..MaxMessages
    BY DEF TypeOK
  <1>00. MaxRounds \in Nat /\ MaxRounds >= 1 /\ MaxMessages \in Nat
    BY TurnAssumption
  <1>1. ASSUME NEW cost \in Costs, Submit(cost)
        PROVE  TypeOK'
    <2>1. msg' \in Message /\ made' \in 0..MaxMessages
      BY <1>0, <1>00, <1>1, NewFacts DEF Submit, Kinds
    <2> QED  BY <1>0, <1>1, <2>1 DEF Submit, TypeOK
  <1>2. ASSUME NEW memory \in Retrievals, AssembleContext(memory)
        PROVE  TypeOK'
    <2> DEFINE h == Append(caller, msg)
               room == SectionRoom(file # {}, memory)
               prompt == IF file = {} THEN 0 ELSE TaskCost + ProgressCost + SummaryCost
    <2>1. msg \in Message
      BY <1>2 DEF AssembleContext, Fresh
    <2>2. h \in Seq(Message) /\ (file # {}) \in BOOLEAN
      BY <1>0, <2>1
    <2>3. room \in Int /\ room <= Budget - SystemCost
      BY <2>2, SectionFacts
    <2>4. /\ Budget \in Nat /\ SystemCost \in Nat /\ prompt \in Nat
          /\ Retrievals \subseteq Seq(Nat)
      BY TurnAssumption
    <2> HIDE DEF h, room, prompt
    <2>5. Recent(h, room) \in Seq(Message)
      BY <2>2, <2>3, CostOfRecent
    <2>6. base' \in Seq(Message) /\ hist' = base'
      BY <1>2, <2>2, <2>5 DEF AssembleContext, h, room
    <2>7. Total(CostsOf(base')) \in Nat /\ Total(CostsOf(h)) \in Nat /\ Total(memory) \in Nat
      <3>1. CostsOf(base') \in Seq(Nat) /\ CostsOf(h) \in Seq(Nat) /\ memory \in Seq(Nat)
        BY <2>2, <2>4, <2>6, CostFacts
      <3> QED  BY <3>1, TotalType
    <2>8. used' \in Nat
      <3>1. /\ Budget = 0 => used' = (SystemCost + Total(memory) + prompt) + Total(CostsOf(h))
            /\ Budget # 0 => used' = Budget - room + Total(CostsOf(base'))
        BY <1>2 DEF AssembleContext, h, room, prompt
      <3> QED  BY <2>3, <2>4, <2>7, <3>1
    <2>9. 1 \in 0..MaxRounds
      BY <1>00
    <2> QED  BY <1>0, <1>2, <2>1, <2>6, <2>8, <2>9 DEF AssembleContext, TypeOK
  <1>3. ASSUME NEW cost \in Costs, NEW kind \in {"call", "result", "reply"},
               NEW next \in {"ask", "tools", "judge", "record"}, Say(kind, cost, next)
        PROVE  TypeOK'
    <2>1. hist' \in Seq(Message) /\ made' \in 0..MaxMessages
      <3>1. New(kind, cost) \in Message /\ made + 1 \in 1..MaxMessages
        BY <1>3, NewFacts DEF Say, Kinds
      <3> QED  BY <1>0, <1>00, <1>3, <3>1 DEF Say
    <2> QED  BY <1>0, <1>3, <2>1 DEF Say, TypeOK, context
  <1>4. ASSUME ProviderFails \/ JudgeFails
        PROVE  TypeOK'
    BY <1>0, <1>4 DEF ProviderFails, JudgeFails, Fail, TypeOK, context
  <1>5. ASSUME NEW answer, JudgeMet(answer) \/ JudgeExhausted(answer)
        PROVE  TypeOK'
    BY <1>0, <1>5 DEF JudgeMet, JudgeExhausted, Fail, TypeOK, context
  <1>6. ASSUME NEW answer, JudgeUnmet(answer)
        PROVE  TypeOK'
    <2>1. base' \in Seq(Message) /\ made' \in 0..MaxMessages
      <3>1. New("feedback", 1) \in Message /\ made + 1 \in 1..MaxMessages
        BY <1>6, NewFacts DEF JudgeUnmet, Kinds
      <3> QED  BY <1>0, <1>00, <1>6, <3>1 DEF JudgeUnmet
    <2>2. round' \in 0..MaxRounds
      BY <1>0, <1>00, <1>6 DEF JudgeUnmet
    <2> QED  BY <1>0, <1>6, <2>1, <2>2 DEF JudgeUnmet, TypeOK
  <1>7. ASSUME Record
        PROVE  TypeOK'
    <2> DEFINE S == {i \in DOMAIN hist : hist[i].kind = "call"}
               calls == Pick(hist, S)
               ids == [i \in DOMAIN calls |-> calls[i].id]
    <2>1. calls \in Seq(Message)
      BY <1>0, PickIds
    <2> HIDE DEF calls
    <2>2. \A m \in Message : m.id \in 1..MaxMessages
      BY DEF Message
    <2>3. ids \in Seq(1..MaxMessages)
      <3>1. Len(calls) \in Nat /\ DOMAIN calls = 1..Len(calls)
            /\ \A i \in 1..Len(calls) : calls[i] \in Message
        BY <2>1
      <3>2. \A i \in 1..Len(calls) : calls[i].id \in 1..MaxMessages
        BY <2>2, <3>1
      <3>3. ids = [i \in 1..Len(calls) |-> calls[i].id]
        BY <3>1
      <3> QED  BY <3>1, <3>2, <3>3
    <2> HIDE DEF ids
    <2>4. runs' = runs \/ runs' = Append(runs, ids)
      BY <1>7 DEF Record, calls, ids
    <2>5. runs' \in Seq(Seq(1..MaxMessages))
      <3> DEFINE V == Seq(1..MaxMessages)
      <3>1. runs \in Seq(V) /\ ids \in V
        BY <1>0, <2>3
      <3> HIDE DEF V
      <3>2. runs' \in Seq(V)
        BY <2>4, <3>1
      <3> QED  BY <3>2 DEF V
    <2> QED  BY <1>0, <1>7, <2>5 DEF Record, TypeOK, context
  <1>8. ASSUME NoCheckpoint \/ WriteFails \/ CompactNothing
        PROVE  TypeOK'
    BY <1>0, <1>8 DEF NoCheckpoint, WriteFails, CompactNothing, Return, TypeOK, context
  <1>9. ASSUME BeginWrite
        PROVE  TypeOK'
    BY <1>0, <1>9 DEF BeginWrite, TypeOK, context
  <1>10. ASSUME EndWrite
         PROVE  TypeOK'
    <2>1. Ids(hist) \subseteq 1..MaxMessages
      <3>1. \A m \in Message : m.id \in 1..MaxMessages
        BY DEF Message
      <3> QED  BY <1>0, <3>1 DEF Ids
    <2> QED  BY <1>0, <1>10, <2>1 DEF EndWrite, TypeOK, context
  <1>11. ASSUME Compact
         PROVE  TypeOK'
    <2>1. /\ Marker \in Message /\ Marker.id = made + 1 /\ made + 1 \in 1..MaxMessages
          /\ Len(hist) > KeepRecent + 1
      BY <1>11, NewFacts DEF Compact
    <2>2. Marker.id \notin Ids(hist) /\ Distinct(hist)
      BY <1>0, <1>00, <2>1 DEF Fresh
    <2>3. Compacted(hist) \in Seq(Message)
      BY <1>0, <2>1, <2>2, CutFacts DEF Compacted
    <2>4. made' \in 0..MaxMessages
      BY <1>00, <1>11, <2>1 DEF Compact
    <2> QED  BY <1>0, <1>11, <2>3, <2>4 DEF Compact, Return, TypeOK, context
  <1>12. ASSUME Crash
         PROVE  TypeOK'
    BY <1>0, <1>00, <1>12 DEF Crash, TypeOK
  <1>13. CASE UNCHANGED vars
    BY <1>13 DEF vars, context, TypeOK
  <1>14. ASSUME NEW cost \in Costs, ModelCalls(cost) \/ ToolsReturn(cost) \/ ModelReplies(cost)
         PROVE  TypeOK'
    BY <1>3, <1>14 DEF ModelCalls, ToolsReturn, ModelReplies
  <1> QED
    BY <1>1, <1>2, <1>4, <1>5, <1>6, <1>7, <1>8, <1>9, <1>10, <1>11, <1>12, <1>13,
       <1>14 DEF Next, AgentStep, JudgeStep, FinishStep

LEMMA FreshStep ==
    ASSUME TypeOK, Fresh, [Next]_vars
    PROVE  Fresh'
  <1>0. /\ caller \in Seq(Message) /\ hist \in Seq(Message) /\ base \in Seq(Message)
        /\ made \in 0..MaxMessages /\ MaxMessages \in Nat
        /\ Distinct(caller) /\ Distinct(hist) /\ Distinct(base)
        /\ Ids(caller) \subseteq 1..made /\ Ids(hist) \subseteq 1..made
        /\ Ids(base) \subseteq 1..made
        /\ pc # "idle" => msg \in Message /\ msg.id \in (1..made) \ Ids(caller)
    BY TurnAssumption DEF TypeOK, Fresh
  <1>00. /\ \A s \in SUBSET (1..made) : s \subseteq 1..(made + 1)
         /\ \A s \in SUBSET (1..made) : s \cup {made + 1} \subseteq 1..(made + 1)
         /\ made + 1 \in 1..(made + 1) /\ made + 1 \notin 1..made
    BY <1>0
  <1>1. ASSUME NEW cost \in Costs, Submit(cost)
        PROVE  Fresh'
    <2>1. msg' \in Message /\ msg'.id = made + 1 /\ made' = made + 1
      BY <1>1, NewFacts DEF Submit, Kinds
    <2>2. caller' = caller /\ hist' = hist /\ base' = base
      BY <1>1 DEF Submit
    <2>3. msg'.id \in (1..made') \ Ids(caller')
      BY <1>0, <1>00, <2>1, <2>2
    <2>4. Ids(caller') \cup Ids(hist') \cup Ids(base') \subseteq 1..made'
      BY <1>0, <1>00, <2>1, <2>2
    <2> QED  BY <1>0, <2>1, <2>2, <2>3, <2>4 DEF Fresh
  <1>2. ASSUME NEW memory \in Retrievals, AssembleContext(memory)
        PROVE  Fresh'
    <2> DEFINE h == Append(caller, msg)
               room == SectionRoom(file # {}, memory)
    <2>1. msg \in Message /\ msg.id \in (1..made) \ Ids(caller)
      BY <1>0, <1>2 DEF AssembleContext
    <2>2. h \in Seq(Message) /\ Distinct(h) /\ Ids(h) = Ids(caller) \cup {msg.id}
      BY <1>0, <2>1, AppendFacts
    <2>3. room \in Int
      <3>1. (file # {}) \in BOOLEAN
        OBVIOUS
      <3> QED  BY <3>1, SectionFacts
    <2> HIDE DEF h, room
    <2>4. Recent(h, room) = Pick(h, Taken(h, room)) /\ Taken(h, room) \in SUBSET (1..Len(h))
      BY <2>2, <2>3, TakenFacts
    <2>5. /\ Distinct(Recent(h, room))
          /\ Ids(Recent(h, room)) \subseteq Ids(h)
      <3>1. /\ Ids(Recent(h, room)) = {h[i].id : i \in Taken(h, room)}
            /\ Distinct(Recent(h, room))
        BY <2>2, <2>4, PickIds
      <3>2. DOMAIN h = 1..Len(h)
        BY <2>2
      <3> QED  BY <2>4, <3>1, <3>2 DEF Ids
    <2>6. Distinct(base') /\ Ids(base') \subseteq 1..made /\ hist' = base'
      <3>1. (base' = h \/ base' = Recent(h, room)) /\ hist' = base'
        BY <1>2 DEF AssembleContext, h, room
      <3>2. Ids(h) \subseteq 1..made
        BY <1>0, <2>1, <2>2
      <3> QED  BY <2>2, <2>5, <3>1, <3>2
    <2>7. caller' = caller /\ msg' = msg /\ made' = made
      BY <1>2 DEF AssembleContext
    <2> QED  BY <1>0, <2>1, <2>6, <2>7 DEF Fresh
  <1>3. ASSUME NEW cost \in Costs, NEW kind \in {"call", "result", "reply"},
               NEW next \in {"ask", "tools", "judge", "record"}, Say(kind, cost, next),
               pc # "idle"
        PROVE  Fresh'
    <2>1. New(kind, cost) \in Message /\ New(kind, cost).id = made + 1
      BY <1>3, NewFacts DEF Say, Kinds
    <2>2. hist' = Append(hist, New(kind, cost)) /\ made' = made + 1
      BY <1>3 DEF Say
    <2>3. New(kind, cost).id \notin Ids(hist)
      BY <1>0, <1>00, <2>1
    <2>4. Distinct(hist') /\ Ids(hist') = Ids(hist) \cup {made + 1}
      BY <1>0, <2>1, <2>2, <2>3, AppendFacts
    <2>5. caller' = caller /\ base' = base /\ msg' = msg
      BY <1>3 DEF Say, context
    <2>6. Ids(caller') \cup Ids(hist') \cup Ids(base') \subseteq 1..made'
      BY <1>0, <1>00, <2>2, <2>4, <2>5
    <2>7. msg' \in Message /\ msg'.id \in (1..made') \ Ids(caller')
      BY <1>0, <1>00, <1>3, <2>2, <2>5
    <2> QED  BY <1>0, <2>4, <2>5, <2>6, <2>7 DEF Fresh
  <1>4. ASSUME pc' = "idle", caller' = hist, UNCHANGED <<hist, base, msg, made>>
        PROVE  Fresh'
    BY <1>0, <1>4 DEF Fresh
  <1>5. ASSUME pc # "idle", UNCHANGED <<caller, hist, base, msg, made>>
        PROVE  Fresh'
    BY <1>0, <1>5 DEF Fresh
  <1>6. ASSUME NEW answer, JudgeUnmet(answer)
        PROVE  Fresh'
    <2>1. New("feedback", 1) \in Message /\ New("feedback", 1).id = made + 1
      BY <1>6, NewFacts DEF JudgeUnmet, Kinds
    <2>2. base' = Append(base, New("feedback", 1)) /\ made' = made + 1 /\ hist' = base'
      BY <1>6 DEF JudgeUnmet
    <2>3. New("feedback", 1).id \notin Ids(base)
      BY <1>0, <1>00, <2>1
    <2>4. Distinct(base') /\ Ids(base') = Ids(base) \cup {made + 1}
      BY <1>0, <2>1, <2>2, <2>3, AppendFacts
    <2>5. caller' = caller /\ msg' = msg /\ pc # "idle"
      BY <1>6 DEF JudgeUnmet
    <2>6. Ids(caller') \cup Ids(hist') \cup Ids(base') \subseteq 1..made'
      BY <1>0, <1>00, <2>2, <2>4, <2>5
    <2>7. msg' \in Message /\ msg'.id \in (1..made') \ Ids(caller')
      BY <1>0, <1>00, <2>2, <2>5
    <2> QED  BY <1>0, <2>2, <2>4, <2>5, <2>6, <2>7 DEF Fresh
  <1>7. ASSUME Compact
        PROVE  Fresh'
    <2>1. /\ Marker \in Message /\ Marker.id = made + 1 /\ Len(hist) > KeepRecent + 1
      BY <1>7, NewFacts DEF Compact
    <2>2. Marker.id \notin Ids(hist)
      BY <1>0, <1>00, <2>1
    <2>3. /\ Distinct(Compacted(hist))
          /\ Ids(Compacted(hist)) \subseteq Ids(hist) \cup {made + 1}
      BY <1>0, <2>1, <2>2, CutFacts DEF Compacted
    <2>4. /\ caller' = Compacted(hist) /\ hist' = hist /\ base' = base
          /\ made' = made + 1 /\ pc' = "idle"
      BY <1>7 DEF Compact, Return, context
    <2>5. Ids(caller') \cup Ids(hist') \cup Ids(base') \subseteq 1..made'
      BY <1>0, <1>00, <2>3, <2>4
    <2> QED  BY <1>0, <2>3, <2>4, <2>5 DEF Fresh
  <1>8. ASSUME Crash
        PROVE  Fresh'
    <2>1. Ids(<<>>) = {} /\ Distinct(<<>>)
      BY DEF Ids, Distinct
    <2> QED  BY <1>8, <2>1 DEF Crash, Fresh
  <1>9. CASE UNCHANGED vars
    BY <1>0, <1>9 DEF vars, context, Fresh
  <1>10. ASSUME NEW cost \in Costs, ModelCalls(cost) \/ ToolsReturn(cost) \/ ModelReplies(cost)
         PROVE  Fresh'
    BY <1>3, <1>10 DEF ModelCalls, ToolsReturn, ModelReplies
  <1>11. ASSUME \/ ProviderFails \/ JudgeFails \/ NoCheckpoint \/ WriteFails \/ CompactNothing
                \/ \E answer : JudgeExhausted(answer)
         PROVE  Fresh'
    BY <1>4, <1>11 DEF ProviderFails, JudgeFails, NoCheckpoint, WriteFails, CompactNothing,
       JudgeExhausted, Fail, Return, context
  <1>12. ASSUME Record \/ BeginWrite \/ EndWrite \/ \E answer : JudgeMet(answer)
         PROVE  Fresh'
    BY <1>5, <1>12 DEF Record, BeginWrite, EndWrite, JudgeMet, context
  <1> QED
    BY <1>1, <1>2, <1>6, <1>7, <1>8, <1>9, <1>10, <1>11,
       <1>12 DEF Next, AgentStep, JudgeStep, FinishStep

(***************************************************************************)
(* In the first round of a turn with a budget, what the agent starts with  *)
(* is what Recent takes, for the room that the token count implies.  The   *)
(* front-end's history does not change before the turn is over, and a      *)
(* later round starts with more.                                           *)
(***************************************************************************)
Room == Budget - (used - Total(CostsOf(base)))

Fitted ==
    pc \notin {"idle", "assemble"} =>
        /\ round >= 1
        /\ round = 1 /\ Budget > 0 =>
             /\ base = Recent(Append(caller, msg), Room)
             /\ Room < 0 => Room = Budget - SystemCost

LEMMA FittedStep ==
    ASSUME TypeOK, Fresh, Fitted, [Next]_vars
    PROVE  Fitted'
  <1>0. round \in Nat
    BY TurnAssumption DEF TypeOK
  <1>1. ASSUME NEW memory \in Retrievals, AssembleContext(memory)
        PROVE  Fitted'
    <2> DEFINE h == Append(caller, msg)
               room == SectionRoom(file # {}, memory)
               t == Total(CostsOf(base'))
    <2>1. caller \in Seq(Message) /\ msg \in Message /\ h \in Seq(Message)
      BY <1>1 DEF AssembleContext, Fresh, TypeOK
    <2>2. room \in Int /\ (room < 0 => room = Budget - SystemCost)
      <3>1. (file # {}) \in BOOLEAN
        OBVIOUS
      <3> QED  BY <3>1, SectionFacts
    <2>3. Budget \in Nat
      BY TurnAssumption
    <2> HIDE DEF room, h
    <2>4. CASE Budget > 0
      <3>1. base' = Recent(h, room) /\ used' = Budget - room + t
        BY <1>1, <2>3, <2>4 DEF AssembleContext, h, room
      <3>2. Total(CostsOf(Recent(h, room))) \in Nat
        <4>1. Recent(h, room) \in Seq(Message)
          BY <2>1, <2>2, CostOfRecent
        <4>2. CostsOf(Recent(h, room)) \in Seq(Nat)
          BY <4>1, CostFacts
        <4> QED  BY <4>2, TotalType
      <3>3. t \in Nat
        BY <3>1, <3>2
      <3>4. Room' = Budget - (used' - t)
        BY DEF Room
      <3> HIDE DEF t
      <3>5. Room' = room
        BY <2>2, <2>3, <3>1, <3>3, <3>4
      <3>6. h = Append(caller', msg') /\ round' = 1
        BY <1>1 DEF AssembleContext, h
      <3> QED  BY <2>2, <3>1, <3>5, <3>6 DEF Fitted
    <2>5. CASE ~ (Budget > 0)
      BY <1>1, <2>5 DEF AssembleContext, Fitted
    <2> QED  BY <2>4, <2>5
  <1>2. ASSUME pc \notin {"idle", "assemble"}, UNCHANGED <<caller, msg, used, base, round>>
        PROVE  Fitted'
    BY <1>2 DEF Fitted, Room
  <1>3. ASSUME NEW answer, JudgeUnmet(answer)
        PROVE  Fitted'
    <2>1. round >= 1 /\ round' = round + 1
      BY <1>3 DEF JudgeUnmet, Fitted
    <2>2. round' >= 1 /\ round' # 1
      BY <1>0, <2>1
    <2> QED  BY <2>2 DEF Fitted
  <1>4. ASSUME pc' \in {"idle", "assemble"}
        PROVE  Fitted'
    BY <1>4 DEF Fitted
  <1>5. ASSUME NEW cost \in Costs, ModelCalls(cost) \/ ToolsReturn(cost) \/ ModelReplies(cost)
        PROVE  Fitted'
    BY <1>2, <1>5 DEF ModelCalls, ToolsReturn, ModelReplies, Say, context
  <1>6. ASSUME Record \/ BeginWrite \/ EndWrite \/ \E answer : JudgeMet(answer)
        PROVE  Fitted'
    BY <1>2, <1>6 DEF Record, BeginWrite, EndWrite, JudgeMet, context
  <1>7. ASSUME \/ ProviderFails \/ JudgeFails \/ NoCheckpoint \/ WriteFails \/ CompactNothing
               \/ Compact \/ Crash
               \/ \E answer : JudgeExhausted(answer)
               \/ \E cost \in Costs : Submit(cost)
        PROVE  Fitted'
    BY <1>4, <1>7 DEF ProviderFails, JudgeFails, NoCheckpoint, WriteFails, CompactNothing,
       JudgeExhausted, Compact, Crash, Submit, Fail, Return
  <1>8. CASE UNCHANGED vars
    BY <1>8 DEF vars, context, Fitted, Room
  <1> QED
    BY <1>1, <1>3, <1>5, <1>6, <1>7, <1>8 DEF Next, AgentStep, JudgeStep, FinishStep

LEMMA FittedMeans ==
    ASSUME TypeOK, Fresh, Fitted
    PROVE  FitsBest
  <1> DEFINE h == Append(caller, msg)
             room == Room
             K == Taken(h, room)
             n == Len(h)
             s == CostsOf(h)
  <1>1. SUFFICES ASSUME pc = "ask", round = 1, hist = base, Budget > 0
                 PROVE  /\ used <= Max({Budget, SystemCost})
                        /\ LET chosen == {i \in DOMAIN h : h[i].id \in Ids(base)}
                           IN  \A P \in SUBSET DOMAIN h : TotalAt(s, P) <= room =>
                                 \A i \in P \ chosen :
                                   {j \in P : j > i} # {j \in chosen : j > i}
    BY Zenon DEF FitsBest, Room
  <1>2. /\ caller \in Seq(Message) /\ Distinct(caller) /\ msg \in Message
        /\ msg.id \notin Ids(caller) /\ base \in Seq(Message)
    BY <1>1 DEF TypeOK, Fresh
  <1>3. h \in Seq(Message) /\ Distinct(h)
    BY <1>2, AppendFacts
  <1>4. n \in Nat /\ DOMAIN h = 1..n
    BY <1>3
  <1>5. /\ used \in Nat /\ Budget \in Nat /\ SystemCost \in Nat
    BY TurnAssumption DEF TypeOK
  <1>6. PICK t : t = Total(CostsOf(base))
    OBVIOUS
  <1>7. t \in Nat
    <2>1. CostsOf(base) \in Seq(Nat)
      BY <1>2, CostFacts
    <2> QED  BY <1>6, <2>1, TotalType
  <1>8. room = Budget - (used - t) /\ room \in Int
    BY <1>5, <1>6, <1>7 DEF Room
  <1>9. base = Recent(h, room) /\ (room < 0 => room = Budget - SystemCost)
    BY <1>1 DEF Fitted
  <1> HIDE DEF h, room
  <1>10. K \in SUBSET (1..n) /\ base = Pick(h, K)
    <2>1. K \in SUBSET (1..n) /\ Recent(h, room) = Pick(h, K)
      BY <1>3, <1>8, TakenFacts, Zenon
    <2> QED  BY <1>9, <2>1
  <1>11. t = TotalAt(s, K)
    BY <1>3, <1>6, <1>8, <1>9, CostOfRecent
  <1>12. /\ room >= 0 => TotalAt(s, K) <= room
         /\ room < 0 => TotalAt(s, K) = 0
         /\ \A P \in SUBSET (1..n) : TotalAt(s, P) <= room =>
              \A i \in P \ K : {j \in P : j > i} # {j \in K : j > i}
    BY <1>3, <1>8, Best, Zenon
  <1> HIDE DEF K, n, s
  <1>13. used <= Max({Budget, SystemCost})
    <2>1. used <= Budget \/ used = SystemCost
      BY <1>5, <1>7, <1>8, <1>9, <1>11, <1>12
    <2>2. Max({Budget, SystemCost}) >= Budget /\ Max({Budget, SystemCost}) >= SystemCost
          /\ Max({Budget, SystemCost}) \in Nat
      <3> DEFINE S == {Budget, SystemCost}
      <3>1. S \subseteq Nat /\ S # {} /\ Budget \in S /\ SystemCost \in S
        BY <1>5
      <3>2. Budget + SystemCost \in Nat /\ \A x \in S : x <= Budget + SystemCost
        BY <1>5
      <3> HIDE DEF S
      <3>3. Max(S) \in S /\ \A x \in S : x <= Max(S)
        BY <3>1, <3>2, MaxFacts
      <3>4. Max(S) \in Nat /\ Budget <= Max(S) /\ SystemCost <= Max(S)
        BY <3>1, <3>3
      <3> QED  BY <1>5, <3>4 DEF S
    <2> QED  BY <1>5, <2>1, <2>2
  <1>14. {i \in DOMAIN h : h[i].id \in Ids(base)} = K
    <2>1. Ids(base) = {h[i].id : i \in K}
      BY <1>3, <1>10, PickIds DEF n
    <2>2. \A i \in 1..n : h[i].id \in Ids(base) <=> i \in K
      BY <1>3, <1>4, <1>10, <2>1 DEF Distinct
    <2> QED  BY <1>4, <1>10, <2>2
  <1> QED  BY <1>4, <1>12, <1>13, <1>14

LEMMA TurnStarts == Init => TypeOK /\ Fresh /\ Fitted
  <1> SUFFICES ASSUME Init
               PROVE  TypeOK /\ Fresh /\ Fitted
    OBVIOUS
  <1>1. <<>> \in Seq(Message) /\ <<>> \in Seq(Seq(1..MaxMessages))
    OBVIOUS
  <1>2. 0 \in 0..MaxRounds /\ 0 \in 0..MaxMessages /\ {} \in SUBSET (1..MaxMessages)
    BY TurnAssumption
  <1>3. Ids(<<>>) = {} /\ Distinct(<<>>)
    BY DEF Ids, Distinct
  <1> QED  BY <1>1, <1>2, <1>3 DEF Init, TypeOK, Fresh, Fitted

(***************************************************************************)
(* For every history, budget, judge and window, the state of a turn keeps  *)
(* its types: no number of a message, round or iteration leaves its range. *)
(***************************************************************************)
THEOREM TurnTyping == Spec => []TypeOK
  <1>1. TypeOK /\ Fresh /\ [Next]_vars => TypeOK' /\ Fresh'
    BY TypeStep, FreshStep
  <1> QED  BY <1>1, TurnStarts, PTL DEF Spec

(***************************************************************************)
(* For every budget, and every cost of a message and of the system prompt: *)
(* the messages the agent is sent are the most recent ones that fit, and   *)
(* they are the whole history as long as it fits.                          *)
(***************************************************************************)
THEOREM Fitting == Spec => []FitsBest
  <1>1. TypeOK /\ Fresh /\ Fitted /\ [Next]_vars => TypeOK' /\ Fresh' /\ Fitted'
    BY TypeStep, FreshStep, FittedStep
  <1>2. TypeOK /\ Fresh /\ Fitted => FitsBest
    BY FittedMeans
  <1> QED  BY <1>1, <1>2, TurnStarts, PTL DEF Spec

(***************************************************************************)
(* What a turn has been given of what the caller offered: a message that   *)
(* it lacks had no room, and all that it has is still there when the round *)
(* is over, whatever the judge adds to it.                                 *)
(***************************************************************************)
Held ==
    pc \notin {"idle", "assemble"} =>
        /\ \A i \in DOMAIN Offered : i \notin Kept => NoRoomFor(i)
        /\ Ids(base) \subseteq Ids(hist)

LEMMA OfferedFacts ==
    ASSUME TypeOK, Fresh, pc # "idle"
    PROVE  /\ Offered \in Seq(Message) /\ Distinct(Offered)
           /\ DOMAIN Offered = 1..Len(Offered)
           /\ Ids(Offered) \subseteq 1..made
  <1>1. /\ caller \in Seq(Message) /\ Distinct(caller) /\ Ids(caller) \subseteq 1..made
        /\ msg \in Message /\ msg.id \in 1..made /\ msg.id \notin Ids(caller)
    BY DEF TypeOK, Fresh
  <1>2. /\ Offered \in Seq(Message) /\ Distinct(Offered)
        /\ Ids(Offered) = Ids(caller) \cup {msg.id}
    BY <1>1, AppendFacts DEF Offered
  <1> QED  BY <1>1, <1>2

(***************************************************************************)
(* What Recent leaves out has no room beside the newer messages it takes.  *)
(***************************************************************************)
LEMMA HeldStarts ==
    ASSUME TypeOK, Fresh, NEW memory \in Retrievals, AssembleContext(memory)
    PROVE  Held'
  <1> DEFINE h == Offered
             room == SectionRoom(file # {}, memory)
             K == Taken(h, room)
             n == Len(h)
             s == CostsOf(h)
             Newer(i) == {j \in K : j > i}
  <1>1. h \in Seq(Message) /\ Distinct(h) /\ n \in Nat /\ DOMAIN h = 1..n
    BY OfferedFacts DEF AssembleContext
  <1>2. room \in Int /\ Budget \in Nat
    <2>1. (file # {}) \in BOOLEAN
      OBVIOUS
    <2> QED  BY <2>1, SectionFacts, TurnAssumption
  <1>3. /\ Offered' = h /\ hist' = base'
        /\ base' = IF Budget = 0 THEN h ELSE Recent(h, room)
        /\ Budget # 0 => used' = Budget - room + Total(CostsOf(base'))
    BY DEF AssembleContext, Offered
  <1>4. CASE Budget = 0
    <2>1. base' = h
      BY <1>3, <1>4
    <2>2. Kept' = DOMAIN h
      BY <1>3, <2>1 DEF Kept, Ids
    <2> QED  BY <1>3, <2>2 DEF Held
  <1>5. CASE Budget # 0
    <2> HIDE DEF h, room
    <2>1. base' = Recent(h, room) /\ used' = Budget - room + Total(CostsOf(base'))
      BY <1>3, <1>5
    <2>2. K \in SUBSET (1..n) /\ Recent(h, room) = Pick(h, K)
      BY <1>1, <1>2, TakenFacts, Zenon
    <2>3. Total(CostsOf(base')) = TotalAt(s, K)
      BY <1>1, <1>2, <2>1, CostOfRecent
    <2>4. \A i \in 1..n : i \notin K => ~(h[i].cost <= After(h, room, i))
      BY <1>1, <1>2, TakenFacts, Zenon
    <2>5. \A i \in 0..n : After(h, room, i) = room - TotalAt(s, Newer(i))
      BY <1>1, <1>2, Spent, Zenon
    <2>6. Kept' = K
      <3>1. Ids(base') = {h[i].id : i \in K}
        BY <1>1, <2>1, <2>2, PickIds DEF n
      <3> HIDE DEF K, n
      <3>2. \A i \in 1..n : h[i].id \in Ids(base') <=> i \in K
        BY <1>1, <2>2, <3>1 DEF Distinct
      <3>3. Kept' = {i \in 1..n : h[i].id \in Ids(base')}
        BY <1>1, <1>3 DEF Kept
      <3> QED  BY <2>2, <3>2, <3>3
    <2>7. s \in Seq(Nat) /\ Len(s) = n /\ \A i \in 1..n : s[i] = h[i].cost
      BY <1>1, CostFacts
    <2> HIDE DEF n, s, K
    <2>8. ASSUME NEW i \in 1..n, i \notin K
          PROVE  TotalAt(s, Newer(i) \cup {i}) > Budget - (used' - TotalAt(s, K))
      <3>1. TotalAt(s, Newer(i)) \in Nat /\ TotalAt(s, K) \in Nat
        BY <2>7, SumFacts, Zenon
      <3>2. TotalAt(s, Newer(i) \cup {i}) = TotalAt(s, Newer(i)) + s[i]
        <4>1. i \notin Newer(i)
          BY <2>8
        <4> HIDE DEF Newer
        <4>2. i \in 1..Len(s)
          BY <2>7
        <4> QED  BY <2>7, <4>1, <4>2, SumFacts
      <3>3. i \in 0..n /\ s[i] \in Nat
        BY <1>1, <2>7
      <3> HIDE DEF Newer
      <3>4. ~(s[i] <= room - TotalAt(s, Newer(i)))
        BY <2>4, <2>5, <2>7, <2>8, <3>3
      <3>5. Budget - (used' - TotalAt(s, K)) = room
        BY <1>2, <2>1, <2>3, <3>1
      <3> QED  BY <1>2, <3>1, <3>2, <3>3, <3>4, <3>5
    <2>9. ASSUME NEW i \in 1..n, i \notin Kept'
          PROVE  NoRoomFor(i)'
      <3>1. TotalAt(s, Newer(i) \cup {i}) > Budget - (used' - TotalAt(s, K))
        BY <2>6, <2>8, <2>9
      <3>2. CostsOf(Offered)' = s
        BY <1>3 DEF s, CostsOf
      <3>3. Budget > 0
        BY <1>2, <1>5
      <3> QED  BY <2>6, <3>1, <3>2, <3>3 DEF NoRoomFor, Newer
    <2> QED  BY <1>1, <1>3, <2>9 DEF Held
  <1> QED  BY <1>4, <1>5

LEMMA HeldStep ==
    ASSUME TypeOK, Fresh, Held, [Next]_vars
    PROVE  Held'
  <1>1. ASSUME NEW memory \in Retrievals, AssembleContext(memory)
        PROVE  Held'
    BY <1>1, HeldStarts
  <1>2. ASSUME pc \notin {"idle", "assemble"}, UNCHANGED <<caller, msg, used, base>>,
               Ids(hist) \subseteq Ids(hist')
        PROVE  Held'
    <2>1. Offered' = Offered /\ Kept' = Kept
      BY <1>2 DEF Offered, Kept
    <2>2. \A i \in DOMAIN Offered : NoRoomFor(i) => NoRoomFor(i)'
      BY <1>2, <2>1 DEF NoRoomFor
    <2> QED  BY <1>2, <2>1, <2>2 DEF Held
  <1>3. ASSUME NEW answer, JudgeUnmet(answer)
        PROVE  Held'
    <2> DEFINE m == New("feedback", 1)
    <2>1. /\ pc \notin {"idle", "assemble"} /\ UNCHANGED <<caller, msg, used>>
          /\ base' = Append(base, m) /\ hist' = base'
      BY <1>3 DEF JudgeUnmet
    <2>2. m \in Message /\ m.id = made + 1
      BY <1>3, NewFacts DEF JudgeUnmet, Kinds
    <2>3. made + 1 \notin 1..made
      BY TurnAssumption DEF TypeOK
    <2>4. base \in Seq(Message) /\ Distinct(base) /\ Ids(base) \subseteq 1..made
      BY DEF TypeOK, Fresh
    <2> HIDE DEF m
    <2>5. Ids(base') = Ids(base) \cup {made + 1}
      BY <2>1, <2>2, <2>3, <2>4, AppendFacts
    <2>6. Offered' = Offered
      BY <2>1 DEF Offered
    <2>7. \A i \in DOMAIN Offered : Offered[i].id # made + 1
      BY <2>1, <2>3, OfferedFacts DEF Ids
    <2>8. Kept' = Kept
      BY <2>5, <2>6, <2>7 DEF Kept
    <2>9. \A i \in DOMAIN Offered : NoRoomFor(i) => NoRoomFor(i)'
      BY <2>1, <2>6, <2>8 DEF NoRoomFor
    <2> QED  BY <2>1, <2>6, <2>8, <2>9 DEF Held
  <1>4. ASSUME NEW cost \in Costs, NEW kind \in {"call", "result", "reply"},
               NEW next \in {"ask", "tools", "judge", "record"}, Say(kind, cost, next),
               pc \notin {"idle", "assemble"}
        PROVE  Held'
    <2>1. hist' = Append(hist, New(kind, cost)) /\ UNCHANGED <<caller, msg, used, base>>
      BY <1>4 DEF Say, context
    <2>2. hist \in Seq(Message)
      BY DEF TypeOK
    <2>3. Ids(hist) \subseteq Ids(hist')
      BY <2>1, <2>2 DEF Ids
    <2> QED  BY <1>2, <1>4, <2>1, <2>3
  <1>5. ASSUME pc' \in {"idle", "assemble"}
        PROVE  Held'
    BY <1>5 DEF Held
  <1>6. ASSUME NEW cost \in Costs, ModelCalls(cost) \/ ToolsReturn(cost) \/ ModelReplies(cost)
        PROVE  Held'
    BY <1>4, <1>6 DEF ModelCalls, ToolsReturn, ModelReplies
  <1>7. ASSUME Record \/ BeginWrite \/ EndWrite \/ \E answer : JudgeMet(answer)
        PROVE  Held'
    BY <1>2, <1>7 DEF Record, BeginWrite, EndWrite, JudgeMet, context
  <1>8. ASSUME \/ ProviderFails \/ JudgeFails \/ NoCheckpoint \/ WriteFails \/ CompactNothing
               \/ Compact \/ Crash
               \/ \E answer : JudgeExhausted(answer)
               \/ \E cost \in Costs : Submit(cost)
        PROVE  Held'
    BY <1>5, <1>8 DEF ProviderFails, JudgeFails, NoCheckpoint, WriteFails, CompactNothing,
       JudgeExhausted, Compact, Crash, Submit, Fail, Return
  <1>9. CASE UNCHANGED vars
    <2>1. UNCHANGED <<pc, caller, msg, used, base, hist>>
      BY <1>9 DEF vars, context
    <2>2. CASE pc \in {"idle", "assemble"}
      BY <1>5, <2>1, <2>2
    <2>3. CASE pc \notin {"idle", "assemble"}
      <3>1. Ids(hist') = Ids(hist)
        BY <2>1 DEF Ids
      <3> QED  BY <1>2, <2>1, <2>3, <3>1
    <2> QED  BY <2>2, <2>3
  <1> QED
    BY <1>1, <1>3, <1>6, <1>7, <1>8, <1>9 DEF Next, AgentStep, JudgeStep, FinishStep

(***************************************************************************)
(* For any history, budget, judge, cut and window: when a turn ends, well  *)
(* or not, a message that the caller offered and does not get back is told *)
(* by checkpoint.md at that moment or had no room in the budget, and one   *)
(* that the last round made is told by it.                                 *)
(***************************************************************************)
THEOREM Durable == Spec => DurableFirst
  <1> DEFINE gone(id) == id \notin Ids(caller') \cup file
             Keeps == pc # "idle" /\ last' # "none" =>
                        /\ \A i \in DOMAIN Offered : gone(Offered[i].id) => NoRoomFor(i)
                        /\ \A id \in Ids(hist) : ~gone(id)
  <1>1. TypeOK /\ Fresh /\ Held /\ [Next]_vars => TypeOK' /\ Fresh' /\ Held'
    BY TypeStep, FreshStep, HeldStep
  <1>2. Init => Held
    BY DEF Init, Held
  <1>3. IInv /\ Held /\ [Next]_vars => [Keeps]_vars
    <2> SUFFICES ASSUME IInv, Held, Next, pc # "idle", last' # "none"
                 PROVE  Keeps
      OBVIOUS
    <2>1. last = "none"
      BY DEF IInv
    <2>2. \/ NoCheckpoint \/ WriteFails \/ CompactNothing \/ Compact
          \/ ProviderFails \/ JudgeFails \/ \E answer : JudgeExhausted(answer)
      BY <2>1 DEF Next, AgentStep, JudgeStep, FinishStep, Submit, AssembleContext,
         ModelCalls, ToolsReturn, ModelReplies, Say,
         JudgeMet, JudgeUnmet, Record, BeginWrite, EndWrite, Crash
    <2>3. pc \notin {"idle", "assemble"}
      BY <2>2 DEF NoCheckpoint, WriteFails, CompactNothing, Compact, ProviderFails,
         JudgeFails, JudgeExhausted
    <2>4. \A id \in Ids(hist) : ~gone(id)
      <3>1. CASE Compact
        <4>1. Ids(hist) \subseteq file
          BY <3>1 DEF Compact, IInv
        <4> QED  BY <4>1
      <3>2. CASE ~Compact
        <4>1. caller' = hist
          BY <2>2, <3>2 DEF NoCheckpoint, WriteFails, CompactNothing, ProviderFails,
             JudgeFails, JudgeExhausted, Fail
        <4>2. Ids(caller') = Ids(hist)
          BY <4>1 DEF Ids
        <4> QED  BY <4>2
      <3> QED  BY <3>1, <3>2
    <2>5. ASSUME NEW i \in DOMAIN Offered, gone(Offered[i].id)
          PROVE  NoRoomFor(i)
      <3>1. Offered[i].id \notin Ids(hist)
        BY <2>4, <2>5
      <3>2. Offered[i].id \notin Ids(base)
        BY <2>3, <3>1 DEF Held
      <3> QED  BY <2>3, <3>2 DEF Held, Kept
    <2> HIDE DEF gone
    <2> QED  BY <2>4, <2>5
  <1> QED  BY <1>1, <1>2, <1>3, TurnStarts, TurnSafety, PTL DEF Spec, DurableFirst

-----------------------------------------------------------------------------
(***************************************************************************)
(* Events of the first frames are events of more frames.                   *)
(***************************************************************************)
LEMMA EventsGrow ==
    ASSUME NEW m \in Nat, NEW n \in Nat, m <= n
    PROVE  Seq(Events(m)) \subseteq Seq(Events(n))
  <1>1. Events(m) \subseteq Events(n)
    <2>1. 1..m \subseteq 1..n
      OBVIOUS
    <2>2. SUBSET (1..m) \subseteq SUBSET (1..n)
      BY <2>1
    <2> QED  BY <2>2 DEF Events
  <1> QED  BY <1>1

(***************************************************************************)
(* One event is a sequence of events.                                      *)
(***************************************************************************)
LEMMA OneEvent ==
    ASSUME NEW S, NEW e \in S
    PROVE  <<e>> \in Seq(S)
  OBVIOUS

\* Some numbers of calls are integers, and finitely many.
LEMMA IndexSets ==
    ASSUME NEW S \in SUBSET Indexes
    PROVE  S \in SUBSET Int /\ IsFiniteSet(S)
  <1>1. Indexes \subseteq Int /\ IsFiniteSet(Indexes)
    BY IndexAssumption
  <1> QED  BY <1>1, FS_Subset

(***************************************************************************)
(* What finalize tells are events of the frames read, and none an error.   *)
(***************************************************************************)
LEMMA FinalizedTells ==
    ASSUME StreamTypeOK
    PROVE  /\ Finalized \in Seq(Events(read))
           /\ Finalized # <<>>
           /\ \A i \in DOMAIN Finalized : Finalized[i].kind # "error"
  <1> DEFINE order == InOrder(open)
             Good == [kind : {"call", "usage", "end"}, of : SUBSET (1..read)]
             calls == [i \in DOMAIN order |-> Event("call", args[order[i]])]
             told == IF usage = 0 THEN <<>> ELSE <<Event("usage", {usage})>>
             final == <<Event("end", {})>>
  <1>1. order \in Seq(open)
    <2>1. open \in SUBSET Int /\ IsFiniteSet(open)
      BY IndexSets DEF StreamTypeOK
    <2> QED  BY <2>1, OrderFacts
  <1>0. DOMAIN order = 1..Len(order) /\ Len(order) \in Nat
    BY <1>1
  <1> HIDE DEF order
  <1>2. calls \in Seq(Good)
    <2>1. order \in [1..Len(order) -> open]
      BY <1>1
    <2>2. ASSUME NEW i \in 1..Len(order)
          PROVE  Event("call", args[order[i]]) \in Good
      BY <2>1, <2>2 DEF StreamTypeOK, Event
    <2>3. calls \in [1..Len(order) -> Good]
      BY <1>0, <2>2
    <2> HIDE DEF calls, Good
    <2> QED  BY <1>0, <2>3
  <1>3. told \in Seq(Good)
    <2>1. CASE usage = 0
      BY <2>1
    <2>2. CASE usage # 0
      <3>1. Event("usage", {usage}) \in Good
        BY <2>2 DEF StreamTypeOK, Event
      <3> QED  BY <2>2, <3>1
    <2> QED  BY <2>1, <2>2
  <1>4. final \in Seq(Good) /\ Len(final) = 1
    BY DEF Event
  <1>5. Finalized = calls \o told \o final
    BY DEF Finalized, order
  <1> HIDE DEF calls, told, final, Good
  <1>6. /\ Finalized \in Seq(Good)
        /\ Len(Finalized) = Len(calls) + Len(told) + 1
    <2> DEFINE first == calls \o told
    <2>1. first \in Seq(Good) /\ Len(first) = Len(calls) + Len(told)
      BY <1>2, <1>3
    <2>2. Finalized = first \o final
      BY <1>5
    <2> HIDE DEF first
    <2>3. first \o final \in Seq(Good)
      BY <2>1, <1>4
    <2>4. Len(first \o final) = Len(first) + Len(final)
      BY <2>1, <1>4, ConcatProperties
    <2> QED  BY <1>4, <2>1, <2>2, <2>3, <2>4
  <1>7. Finalized # <<>>
    BY <1>2, <1>3, <1>6
  <1>8. ASSUME NEW i \in DOMAIN Finalized
        PROVE  Finalized[i] \in Good
    BY <1>6
  <1>9. Good \subseteq Events(read) /\ \A e \in Good : e.kind # "error"
    BY DEF Good, Events
  <1> QED  BY <1>6, <1>7, <1>8, <1>9

(***************************************************************************)
(* Initially nothing has been read, and the only error there may be is the *)
(* refusal.                                                                *)
(***************************************************************************)
LEMMA ErrorsStart == StreamInit => StreamInv
  <1> SUFFICES ASSUME StreamInit  PROVE StreamInv
    OBVIOUS
  <1> USE DEF StreamInit, Reason
  <1>1. response \in Seq(Frame)
    BY ResponseAssumption
  <1>2. <<>> \in Seq(Events(0)) /\ 0 \in 0..Len(response)
    BY <1>1
  <1>3. Failure \in Events(0)
    BY DEF Failure, Event, Events
  <1>4. <<Failure>> \in Seq(Events(0)) /\ <<Failure>> # <<>>
    BY <1>3
  <1>5. StreamTypeOK
    <2>1. read = 0 /\ todo \in Seq(Events(read)) /\ got \in Seq(Events(read))
      BY <1>2, <1>4
    <2>2. pump \in {"emit", "last"} <=> todo # <<>>
      BY <1>4
    <2>3. sent \in 0..Len(response) /\ read \in 0..sent /\ usage \in 0..read
      BY <1>2
    <2> QED  BY <2>1, <2>2, <2>3 DEF StreamTypeOK
  <1>6. (\E i \in DOMAIN todo : todo[i].kind = "error") => Reason
    OBVIOUS
  <1> QED  BY <1>5, <1>6 DEF StreamInv

(***************************************************************************)
(* The steps of the network, the reader and the context.                   *)
(***************************************************************************)
LEMMA SourceStep ==
    ASSUME StreamInv,
           \/ Arrive \/ BodyEnds \/ BodyBreaks \/ Cancel
           \/ ReaderStep
    PROVE  StreamInv'
  <1>0. response \in Seq(Frame) /\ Len(response) \in Nat
    BY ResponseAssumption DEF StreamInv, StreamTypeOK
  <1> USE DEF StreamInv, StreamTypeOK, Reason, server, wire, source, parser, sink
  <1>1. CASE Arrive
    BY <1>0, <1>1 DEF Arrive
  <1>2. CASE BodyEnds
    BY <1>2 DEF BodyEnds
  <1>3. CASE BodyBreaks
    BY <1>3 DEF BodyBreaks
  <1>4. CASE Cancel
    BY <1>4 DEF Cancel
  <1>5. CASE Scan
    <2>0. read \in Nat /\ read' = read + 1
      BY <1>0, <1>5 DEF Scan
    <2>1. Seq(Events(read)) \subseteq Seq(Events(read'))
      <3> HIDE DEF StreamTypeOK, StreamInv
      <3>1. read' \in Nat /\ read <= read'
        BY <2>0
      <3> QED  BY <2>0, <3>1, EventsGrow
    <2>2. SUBSET (1..read) \subseteq SUBSET (1..read')
      BY <1>0, <1>5 DEF Scan
    <2>3. StreamTypeOK'
      BY <1>0, <1>5, <2>1, <2>2 DEF Scan
    <2>4. Reason => Reason'
      BY <1>0, <1>5 DEF Scan
    <2> QED
      <3> HIDE DEF StreamTypeOK, Reason
      <3>1. UNCHANGED <<errs, pump, todo, consumer, cancelled, body>>
        BY <1>5 DEF Scan
      <3>2. (\E i \in DOMAIN todo' : todo'[i].kind = "error") => Reason'
        BY <2>4, <3>1
      <3> QED  BY <2>0, <2>3, <2>4, <3>1, <3>2
  <1>6. CASE ScanFails
    BY <1>6 DEF ScanFails
  <1>7. CASE ScanEnds
    BY <1>7 DEF ScanEnds
  <1>8. CASE DropFrame
    BY <1>8 DEF DropFrame
  <1>9. CASE CloseErrs
    BY <1>9 DEF CloseErrs
  <1>10. CASE CloseFrames
    BY <1>10 DEF CloseFrames
  <1> QED  BY <1>1, <1>2, <1>3, <1>4, <1>5, <1>6, <1>7, <1>8, <1>9, <1>10 DEF ReaderStep

(***************************************************************************)
(* A step that gives the pump events to tell keeps the invariant, if none  *)
(* of them is an error without a reason.                                   *)
(***************************************************************************)
LEMMA TellStep ==
    ASSUME StreamInv, pump = "select",
           NEW events \in Seq(Events(read)), NEW more \in BOOLEAN, Tell(events, more),
           (\E i \in DOMAIN events : events[i].kind = "error") => Reason',
           UNCHANGED <<server, wire, read, sink>>,
           reader' \in {"scan", reader}, errs' \in {"empty", errs}, Reason => Reason',
           open' \in SUBSET Indexes, args' \in [Indexes -> SUBSET (1..read)],
           usage' \in 0..read
    PROVE  StreamInv'
  <1>1. /\ todo' = events
        /\ pump' \in {"select", "emit", "last", "leave", "gone"} /\ pump' # "gone"
        /\ pump' \in {"emit", "last"} <=> todo' # <<>>
    BY DEF Tell
  <1>2. StreamTypeOK'
    BY <1>1 DEF StreamInv, StreamTypeOK, server, wire, sink
  <1>3. errs' = "error" => cancelled' \/ body' = "broken"
    BY DEF StreamInv, wire
  <1>4. reader' = "offer" => read' > 0
    BY DEF StreamInv
  <1>5. consumer' = "failed" => Reason'
    BY DEF StreamInv, sink
  <1> QED  BY <1>1, <1>2, <1>3, <1>4, <1>5 DEF StreamInv

(***************************************************************************)
(* Both protocols read a frame into events of frames already read, and     *)
(* only an error frame into an error.                                      *)
(***************************************************************************)
LEMMA TakeFrameStep ==
    ASSUME StreamInv, TakeFrame
    PROVE  StreamInv'
  <1> DEFINE f == response[read]
  <1>1. /\ UNCHANGED <<server, wire, read, errs, sink>>
        /\ reader = "offer" /\ reader' = "scan" /\ pump = "select"
    BY DEF TakeFrame
  <1>2. read \in Nat /\ read \in 1..read /\ f \in Frame
    BY <1>1, ResponseAssumption DEF StreamInv, StreamTypeOK
  <1>3. f.kind \in {"open", "frag", "stop"} => f.call \in Indexes
    BY <1>2 DEF Frame
  <1>4. Reason => Reason'
    BY <1>1 DEF Reason, server, wire
  <1>5. /\ open \in SUBSET Indexes /\ args \in [Indexes -> SUBSET (1..read)]
        /\ usage \in 0..read
    BY DEF StreamInv, StreamTypeOK
  <1>6. CASE protocol = "anthropic" /\ AnthropicFrame(f)
    <2> DEFINE events == AnthropicEvents(f)
    <2>1. ASSUME f.kind \in {"text", "usage", "end", "error"}
          PROVE  /\ events = <<Event(f.kind, {read})>>
                 /\ Event(f.kind, {read}) \in Events(read)
      BY <1>2, <2>1 DEF AnthropicEvents, Event, Events
    <2>2. ASSUME f.kind = "stop", f.call \in open
          PROVE  /\ events = <<Event("call", args[f.call])>>
                 /\ Event("call", args[f.call]) \in Events(read)
      BY <1>5, <2>2 DEF AnthropicEvents, Event, Events
    <2>3. f.kind = "error" => Reason'
      BY <1>2, <1>4, <1>6 DEF Reason
    <2> HIDE DEF events
    <2>4. /\ events \in Seq(Events(read))
          /\ (\E i \in DOMAIN events : events[i].kind = "error") => Reason'
      <3>1. CASE f.kind \in {"text", "usage", "end", "error"}
        <4>1. events \in Seq(Events(read))
          BY <2>1, <3>1, OneEvent
        <4>2. (\E i \in DOMAIN events : events[i].kind = "error") => f.kind = "error"
          BY <2>1, <3>1 DEF Event
        <4> QED  BY <2>3, <4>1, <4>2
      <3>2. CASE f.kind = "stop" /\ f.call \in open
        <4>1. events \in Seq(Events(read))
          BY <2>2, <3>2, OneEvent
        <4>2. \A i \in DOMAIN events : events[i].kind = "call"
          BY <2>2, <3>2 DEF Event
        <4> QED  BY <4>1, <4>2
      <3>3. CASE ~(f.kind \in {"text", "usage", "end", "error"})
                 /\ ~(f.kind = "stop" /\ f.call \in open)
        <4>1. events = <<>>
          BY <3>3 DEF events, AnthropicEvents
        <4> QED  BY <4>1
      <3> QED  BY <3>1, <3>2, <3>3
    <2>5. /\ open' \in SUBSET Indexes /\ args' \in [Indexes -> SUBSET (1..read)]
          /\ usage' \in 0..read
      BY <1>2, <1>3, <1>5, <1>6 DEF AnthropicFrame
    <2> QED  BY <1>1, <1>4, <1>6, <2>4, <2>5, TellStep DEF AnthropicFrame, events
  <1>7. CASE protocol = "openai" /\ OpenAIFrame(f)
    <2>1. /\ open' \in SUBSET Indexes /\ args' \in [Indexes -> SUBSET (1..read)]
          /\ usage' \in 0..read
      BY <1>2, <1>3, <1>5, <1>7 DEF OpenAIFrame
    <2>2. CASE f.kind = "end"
      <3>1. Tell(Finalized, FALSE)
        BY <1>7, <2>2 DEF OpenAIFrame
      <3>2. /\ Finalized \in Seq(Events(read))
            /\ \A i \in DOMAIN Finalized : Finalized[i].kind # "error"
        BY FinalizedTells DEF StreamInv
      <3> QED  BY <1>1, <1>4, <2>1, <3>1, <3>2, TellStep
    <2>3. CASE f.kind # "end"
      <3> DEFINE events == IF f.kind = "text" THEN <<Event("text", {read})>> ELSE <<>>
      <3>1. Tell(events, TRUE)
        BY <1>7, <2>3 DEF OpenAIFrame
      <3>2. Event("text", {read}) \in Events(read)
        BY <1>2 DEF Event, Events
      <3>3. events \in Seq(Events(read))
        BY <3>2
      <3>4. \A i \in DOMAIN events : events[i].kind # "error"
        BY DEF Event
      <3> HIDE DEF events
      <3> QED  BY <1>1, <1>4, <2>1, <3>1, <3>3, <3>4, TellStep
    <2> QED  BY <2>2, <2>3
  <1> QED  BY <1>6, <1>7 DEF TakeFrame

(***************************************************************************)
(* The select's other cases: an error that was put into errs, a context    *)
(* that ended, and the end of the frames.                                  *)
(***************************************************************************)
LEMMA SelectStep ==
    ASSUME StreamInv, SeesError \/ SeesCancel \/ SeesClosed
    PROVE  StreamInv'
  <1>1. /\ UNCHANGED <<server, wire, reader, read, parser, sink>>
        /\ pump = "select" /\ errs' \in {"empty", errs}
    BY DEF SeesError, SeesCancel, SeesClosed, source
  <1>2. Reason => Reason'
    BY <1>1 DEF Reason, server, wire
  <1>3. /\ open' \in SUBSET Indexes /\ args' \in [Indexes -> SUBSET (1..read)]
        /\ usage' \in 0..read
    BY <1>1 DEF StreamInv, StreamTypeOK, parser
  <1>4. CASE SeesError \/ SeesCancel
    <2>1. Tell(<<Failure>>, FALSE)
      BY <1>4 DEF SeesError, SeesCancel
    <2>2. Failure \in Events(read)
      BY DEF Failure, Event, Events
    <2>3. <<Failure>> \in Seq(Events(read))
      BY <2>2, OneEvent
    <2>4. Reason
      BY <1>4 DEF SeesError, SeesCancel, StreamInv, Reason
    <2> QED  BY <1>1, <1>2, <1>3, <2>1, <2>3, <2>4, TellStep
  <1>5. CASE SeesClosed /\ protocol = "openai"
    <2>1. Tell(Finalized, FALSE)
      BY <1>5 DEF SeesClosed
    <2>2. /\ Finalized \in Seq(Events(read))
          /\ \A i \in DOMAIN Finalized : Finalized[i].kind # "error"
      BY FinalizedTells DEF StreamInv
    <2> QED  BY <1>1, <1>2, <1>3, <2>1, <2>2, TellStep
  <1>6. CASE SeesClosed /\ protocol # "openai"
    <2> DEFINE none == <<>>
    <2>1. Tell(none, FALSE)
      BY <1>6 DEF SeesClosed
    <2>2. none \in Seq(Events(read)) /\ ~(\E i \in DOMAIN none : none[i].kind = "error")
      OBVIOUS
    <2> HIDE DEF none
    <2> QED  BY <1>1, <1>2, <1>3, <2>1, <2>2, TellStep
  <1> QED  BY <1>4, <1>5, <1>6

(***************************************************************************)
(* What is left to tell after an event was taken or dropped.               *)
(***************************************************************************)
LEMMA AdvanceKeepsTypes ==
    ASSUME StreamInv, todo # <<>>, Advance
    PROVE  /\ todo' \in Seq(Events(read))
           /\ pump' \in {"select", "emit", "last", "leave"}
           /\ pump' \in {"emit", "last"} <=> todo' # <<>>
           /\ \A i \in DOMAIN todo' : todo'[i] = todo[i + 1] /\ i + 1 \in DOMAIN todo
           /\ Head(todo) = todo[1] /\ 1 \in DOMAIN todo /\ todo[1] \in Events(read)
           /\ pump # "gone"
  <1>1. todo \in Seq(Events(read)) /\ pump \in {"emit", "last"}
    BY DEF StreamInv, StreamTypeOK
  <1> HIDE DEF StreamInv, Events
  <1>2. /\ todo' \in Seq(Events(read))
        /\ \A i \in DOMAIN todo' : todo'[i] = todo[i + 1] /\ i + 1 \in DOMAIN todo
    BY <1>1 DEF Advance
  <1>3. Head(todo) = todo[1] /\ 1 \in DOMAIN todo /\ todo[1] \in Events(read)
    BY <1>1
  <1>4. /\ pump' \in {"select", "emit", "last", "leave"}
        /\ pump' \in {"emit", "last"} <=> todo' # <<>>
    BY <1>1 DEF Advance
  <1> QED  BY <1>1, <1>2, <1>3, <1>4

(***************************************************************************)
(* Telling the events, and leaving.                                        *)
(***************************************************************************)
LEMMA TellingStep ==
    ASSUME StreamInv, Receive \/ DropEvent \/ PumpLeaves \/ SeesEnd
    PROVE  StreamInv'
  <1>1. CASE Receive
    <2> USE <1>1 DEF Receive
    <2>1. UNCHANGED <<server, wire, source, parser>>
      OBVIOUS
    <2>2. Reason => Reason'
      BY <2>1 DEF Reason, server, wire, source
    <2>3. got' \in Seq(Events(read)) /\ consumer' \in {"recv", "done", "failed"}
      <3>1. got \in Seq(Events(read)) /\ consumer \in {"recv", "done", "failed"}
        BY DEF StreamInv, StreamTypeOK
      <3>2. Head(todo) \in Events(read)
        BY AdvanceKeepsTypes
      <3> HIDE DEF StreamInv, Events, Advance
      <3> QED  BY <3>1, <3>2
    <2>4. StreamTypeOK'
      BY <2>1, <2>3, AdvanceKeepsTypes DEF StreamInv, StreamTypeOK, server, wire, source, parser
    <2>5. consumer' = "failed" => Reason'
      BY <2>2, AdvanceKeepsTypes DEF StreamInv
    <2>6. (\E i \in DOMAIN todo' : todo'[i].kind = "error") => Reason'
      BY <2>2, AdvanceKeepsTypes DEF StreamInv
    <2>7. /\ reader' = "offer" => read' > 0
          /\ errs' = "error" => cancelled' \/ body' = "broken"
      BY <2>1, AdvanceKeepsTypes DEF StreamInv, wire, source
    <2> QED  BY <2>4, <2>5, <2>6, <2>7 DEF StreamInv
  <1>2. CASE DropEvent
    <2> USE <1>2 DEF DropEvent
    <2>1. UNCHANGED <<server, wire, source, parser, sink>>
      OBVIOUS
    <2>2. Reason => Reason'
      BY <2>1 DEF Reason, server, wire, source
    <2>3. StreamTypeOK'
      BY <2>1, AdvanceKeepsTypes DEF StreamInv, StreamTypeOK, server, wire, source, parser, sink
    <2>4. (\E i \in DOMAIN todo' : todo'[i].kind = "error") => Reason'
      BY <2>2, AdvanceKeepsTypes DEF StreamInv
    <2>5. /\ reader' = "offer" => read' > 0
          /\ errs' = "error" => cancelled' \/ body' = "broken"
          /\ consumer' = "failed" => Reason'
      BY <2>1, <2>2, AdvanceKeepsTypes DEF StreamInv, wire, source, sink
    <2> QED  BY <2>3, <2>4, <2>5 DEF StreamInv
  <1>3. CASE PumpLeaves
    BY <1>3 DEF PumpLeaves, StreamInv, StreamTypeOK, Reason, server, wire, source, parser, sink
  <1>4. CASE SeesEnd
    BY <1>4 DEF SeesEnd, StreamInv, StreamTypeOK, Reason, server, wire, source, parser
  <1> QED  BY <1>1, <1>2, <1>3, <1>4

(***************************************************************************)
(* Whoever holds an error, the reader's channel, the pump or the consumer, *)
(* has a reason for it, for any response in both protocols.                *)
(***************************************************************************)
THEOREM StreamSafety == StreamSpec => []StreamInv
  <1>1. StreamInv /\ [StreamNext]_streamVars => StreamInv'
    <2>1. StreamInv /\ StreamNext => StreamInv'
      BY SourceStep, TakeFrameStep, SelectStep, TellingStep DEF StreamNext, PumpStep
    <2>2. StreamInv /\ UNCHANGED streamVars => StreamInv'
      BY DEF streamVars, StreamInv, StreamTypeOK, Reason, server, wire, source, parser, sink
    <2> QED  BY <2>1, <2>2
  <1> QED  BY ErrorsStart, <1>1, PTL DEF StreamSpec

(***************************************************************************)
(* For every response: the state keeps its types; what is told is made of  *)
(* frames that were read.                                                  *)
(***************************************************************************)
THEOREM StreamTyping == StreamSpec => []StreamTypeOK
  <1>1. StreamInv => StreamTypeOK
    BY DEF StreamInv
  <1> QED  BY <1>1, StreamSafety, PTL

(***************************************************************************)
(* For every response of either protocol: a consumer that fails has a      *)
(* context that is done, a body that broke, a refusal or an error frame to *)
(* blame; the order in which channels close is never the reason.           *)
(***************************************************************************)
THEOREM Blame == StreamSpec => []FailsForAReason
  <1>1. StreamInv => FailsForAReason
    BY DEF StreamInv, Reason, FailsForAReason
  <1> QED  BY <1>1, StreamSafety, PTL

(***************************************************************************)
(* What a response means, frame by frame.                                  *)
(***************************************************************************)
LEMMA FrameFacts ==
    ASSUME NEW r \in Seq(Frame), NEW n \in 1..Len(r)
    PROVE  /\ r[n] \in Frame
           /\ r[n].kind \in {"text", "usage", "end", "error", "open", "frag", "stop"}
           /\ r[n].kind \in {"open", "frag", "stop"} => r[n].call \in Indexes
  <1>1. r[n] \in Frame
    OBVIOUS
  <1> QED  BY <1>1 DEF Frame

\* Some of the first k frames.
LEMMA FrameSets ==
    ASSUME NEW k \in Nat, NEW S \in SUBSET (1..k)
    PROVE  /\ S \in SUBSET Int /\ IsFiniteSet(S)
           /\ \A i \in S : i < k + 1
  <1>1. IsFiniteSet(S)
    <2>1. IsFiniteSet(1..k)
      BY FS_Interval
    <2> QED  BY <2>1, FS_Subset
  <1> QED  BY <1>1

\* The events of a set of frames in order, and of one more.
LEMMA MapStep ==
    ASSUME NEW n \in Nat, n >= 1, NEW S \in SUBSET (1..(n - 1)), NEW f
    PROVE  /\ [i \in DOMAIN InOrder(S \cup {n}) |-> f[InOrder(S \cup {n})[i]]]
                = [i \in DOMAIN InOrder(S) |-> f[InOrder(S)[i]]] \o <<f[n]>>
           /\ [i \in DOMAIN InOrder(S) |-> f[InOrder(S)[i]]] \in Seq({f[i] : i \in S})
  <1> DEFINE s == InOrder(S)
             t == InOrder(S \cup {n})
             e == [i \in DOMAIN s |-> f[s[i]]]
  <1>0. n - 1 \in Nat /\ (n - 1) + 1 = n
    OBVIOUS
  <1>1. s \in Seq(S) /\ t = Append(s, n)
    <2>1. S \in SUBSET Int /\ IsFiniteSet(S) /\ n \in Int /\ \A i \in S : i < n
      BY <1>0, FrameSets
    <2> QED  BY <2>1, OrderFacts
  <1> HIDE DEF s, t
  <1>2. /\ Len(s) \in Nat /\ DOMAIN s = 1..Len(s) /\ \A i \in 1..Len(s) : s[i] \in S
        /\ DOMAIN t = 1..(Len(s) + 1)
        /\ \A i \in 1..Len(s) : t[i] = s[i]
        /\ t[Len(s) + 1] = n
    BY <1>1
  <1>3. e \in Seq({f[i] : i \in S}) /\ Len(e) = Len(s)
    BY <1>2
  <1>4. \A i \in 1..Len(s) : e[i] = f[s[i]]
    BY <1>2
  <1> DEFINE V == {f[i] : i \in S} \cup {f[n]}
  <1>5. e \in Seq(V) /\ f[n] \in V
    BY <1>3
  <1> HIDE DEF e, V
  <1>6. /\ e \o <<f[n]>> = [i \in 1..(Len(s) + 1) |->
                IF i <= Len(s) THEN e[i] ELSE f[n]]
    BY <1>2, <1>3, <1>5
  <1>7. \A i \in 1..(Len(s) + 1) : f[t[i]] = IF i <= Len(s) THEN e[i] ELSE f[n]
    <2>1. \A i \in 1..(Len(s) + 1) : i \in 1..Len(s) \/ i = Len(s) + 1
      BY <1>2
    <2>2. \A i \in 1..Len(s) : i <= Len(s) /\ f[t[i]] = e[i]
      BY <1>2, <1>4
    <2>3. ~ (Len(s) + 1 <= Len(s)) /\ f[t[Len(s) + 1]] = f[n]
      BY <1>2
    <2> QED  BY <2>1, <2>2, <2>3
  <1>8. [i \in DOMAIN t |-> f[t[i]]] = e \o <<f[n]>>
    BY <1>2, <1>6, <1>7
  <1> QED  BY <1>3, <1>8 DEF e, s, t

LEMMA AnthropicGrows ==
    ASSUME NEW r \in Seq(Frame), NEW n \in 1..Len(r)
    PROVE  /\ AnthropicTells(r, n) =>
                AnthropicMeaning(r, n) = AnthropicMeaning(r, n - 1) \o <<AnthropicTold(r, n)>>
           /\ ~ AnthropicTells(r, n) => AnthropicMeaning(r, n) = AnthropicMeaning(r, n - 1)
  <1> DEFINE k == n - 1
             S == {m \in 1..k : AnthropicTells(r, m)}
             T == {m \in 1..n : AnthropicTells(r, m)}
             f == [m \in 1..n |-> AnthropicTold(r, m)]
             Events1(U) == [i \in DOMAIN InOrder(U) |-> f[InOrder(U)[i]]]
  <1>1. k \in Nat /\ n = k + 1 /\ S \in SUBSET (1..k) /\ T \in SUBSET (1..n)
        /\ (\A m \in 1..n : m \in 1..k \/ m = n)
        /\ \A m \in 1..k : m \in 1..n
    OBVIOUS
  <1>2. IF AnthropicTells(r, n) THEN T = S \cup {n} ELSE T = S
    BY <1>1
  <1> HIDE DEF k, S
  <1>3. \A U \in SUBSET (1..n) : [i \in DOMAIN InOrder(U) |-> AnthropicTold(r, InOrder(U)[i])] = Events1(U)
    <2>1. SUFFICES ASSUME NEW U \in SUBSET (1..n)
                   PROVE  [i \in DOMAIN InOrder(U) |-> AnthropicTold(r, InOrder(U)[i])] = Events1(U)
      OBVIOUS
    <2>2. InOrder(U) \in Seq(U)
      <3>1. n \in Nat
        BY <1>1
      <3> QED  BY <3>1, FrameSets, OrderFacts
    <2>3. PICK s : s = InOrder(U)
      OBVIOUS
    <2>4. \A i \in DOMAIN s : s[i] \in 1..n
      <3>1. s \in Seq(U)
        BY <2>2, <2>3
      <3>2. \A i \in DOMAIN s : s[i] \in U
        BY <3>1
      <3> QED  BY <3>2
    <2> QED  BY <2>3, <2>4
  <1>4. AnthropicMeaning(r, n) = Events1(T)
    BY <1>1, <1>3 DEF AnthropicMeaning
  <1>5. AnthropicMeaning(r, n - 1) = Events1(S)
    <2>1. S \in SUBSET (1..n)
      BY <1>1
    <2> QED  BY <1>3, <2>1 DEF AnthropicMeaning, S, k
  <1>6. f[n] = AnthropicTold(r, n)
    BY <1>1
  <1> HIDE DEF f, T
  <1>7. Events1(S \cup {n}) = Events1(S) \o <<f[n]>>
    <2>1. n \in Nat /\ n >= 1
      BY <1>1
    <2>2. S \in SUBSET (1..(n - 1))
      BY <1>1 DEF k
    <2> QED  BY <2>1, <2>2, MapStep, Zenon
  <1> QED  BY <1>2, <1>4, <1>5, <1>6, <1>7

LEMMA SaidFacts ==
    ASSUME NEW r \in Seq(Frame), NEW n \in 1..Len(r)
    PROVE  /\ Said(r, n) \in SUBSET (1..n)
           /\ (\E m \in 1..n : r[m].kind = "end") =>
                \A k \in n..Len(r) : Said(r, k) = Said(r, n)
           /\ r[n].kind = "end" => Said(r, n) = Said(r, n - 1)
           /\ (\A m \in 1..n : r[m].kind # "end") => Said(r, n) = Said(r, n - 1) \cup {n}
  <1>1. Said(r, n) \in SUBSET (1..n)
    BY DEF Said
  <1>2. ASSUME NEW e \in 1..n, r[e].kind = "end", NEW k \in n..Len(r)
        PROVE  Said(r, k) = Said(r, n)
    <2>1. \A m \in 1..k : m \in 1..n \/ e \in 1..m
      OBVIOUS
    <2>2. \A m \in 1..n : m \in 1..k
      OBVIOUS
    <2> QED  BY <1>2, <2>1, <2>2 DEF Said
  <1>3. /\ \A m \in 1..n : m \in 1..(n - 1) \/ m = n
        /\ \A m \in 1..(n - 1) : m \in 1..n
        /\ n \in 1..n
    OBVIOUS
  <1>4. r[n].kind = "end" => Said(r, n) = Said(r, n - 1)
    BY <1>3 DEF Said
  <1>5. (\A m \in 1..n : r[m].kind # "end") => Said(r, n) = Said(r, n - 1) \cup {n}
    BY <1>3 DEF Said
  <1> QED  BY <1>1, <1>2, <1>4, <1>5

LEMMA TextsGrow ==
    ASSUME NEW r \in Seq(Frame), NEW n \in 1..Len(r)
    PROVE  /\ (\A m \in 1..n : r[m].kind # "end") /\ r[n].kind = "text" =>
                Texts(r, Said(r, n)) = Texts(r, Said(r, n - 1)) \o <<Event("text", {n})>>
           /\ (\A m \in 1..n : r[m].kind # "end") /\ r[n].kind # "text" =>
                Texts(r, Said(r, n)) = Texts(r, Said(r, n - 1))
           /\ r[n].kind = "end" => Texts(r, Said(r, n)) = Texts(r, Said(r, n - 1))
           /\ (\E m \in 1..n : r[m].kind = "end") =>
                \A k \in n..Len(r) : OpenAIMeaning(r, k) = OpenAIMeaning(r, n)
  <1> DEFINE k == n - 1
             S == {m \in Said(r, k) : r[m].kind = "text"}
             T == {m \in Said(r, n) : r[m].kind = "text"}
             f == [m \in 1..n |-> Event("text", {m})]
             Events1(U) == [i \in DOMAIN InOrder(U) |-> f[InOrder(U)[i]]]
  <1>1. k \in Nat /\ n = k + 1 /\ S \in SUBSET (1..k) /\ T \in SUBSET (1..n)
    BY DEF Said
  <1>2. \A U \in SUBSET (1..n) : [i \in DOMAIN InOrder(U) |-> Event("text", {InOrder(U)[i]})] = Events1(U)
    <2>1. SUFFICES ASSUME NEW U \in SUBSET (1..n)
                   PROVE  [i \in DOMAIN InOrder(U) |-> Event("text", {InOrder(U)[i]})] = Events1(U)
      OBVIOUS
    <2>2. InOrder(U) \in Seq(U)
      <3>1. n \in Nat
        BY <1>1
      <3> QED  BY <3>1, FrameSets, OrderFacts
    <2>3. PICK s : s = InOrder(U)
      OBVIOUS
    <2>4. \A i \in DOMAIN s : s[i] \in 1..n
      <3>1. s \in Seq(U)
        BY <2>2, <2>3
      <3>2. \A i \in DOMAIN s : s[i] \in U
        BY <3>1
      <3> QED  BY <3>2
    <2> QED  BY <2>3, <2>4
  <1>3. Texts(r, Said(r, n)) = Events1(T)
    BY <1>1, <1>2 DEF Texts
  <1>4. Texts(r, Said(r, n - 1)) = Events1(S)
    <2>1. S \in SUBSET (1..n)
      BY <1>1
    <2> QED  BY <1>2, <2>1 DEF Texts
  <1>5. f[n] = Event("text", {n})
    BY <1>1
  <1>6. (\A m \in 1..n : r[m].kind # "end") =>
            IF r[n].kind = "text" THEN T = S \cup {n} ELSE T = S
    BY SaidFacts
  <1>7. r[n].kind = "end" => T = S
    BY SaidFacts
  <1>8. ASSUME NEW m \in 1..n, r[m].kind = "end", NEW j \in n..Len(r)
        PROVE  OpenAIMeaning(r, j) = OpenAIMeaning(r, n)
    <2>1. Said(r, j) = Said(r, n)
      BY <1>8, SaidFacts
    <2> QED  BY <2>1 DEF OpenAIMeaning
  <1> HIDE DEF f, S, T, k
  <1>9. Events1(S \cup {n}) = Events1(S) \o <<f[n]>>
    <2>1. n \in Nat /\ n >= 1
      BY <1>1
    <2>2. S \in SUBSET (1..(n - 1))
      BY <1>1 DEF k
    <2> QED  BY <2>1, <2>2, MapStep, Zenon
  <1> QED  BY <1>3, <1>4, <1>5, <1>6, <1>7, <1>8, <1>9

(***************************************************************************)
(* What the parsers keep, and what it says of the frames they have         *)
(* handled: the calls left open, and the frames of each; for the other     *)
(* protocol all the calls, and the last frame that told the usage.         *)
(***************************************************************************)
AnthropicParser(r, k, o, a) ==
    \A i \in Indexes :
        /\ i \in o <=> Opening(r, i, k) # {}
        /\ \A m \in Opening(r, i, k) : a[i] = Frags(r, i, m, k)

OpenAIParser(r, k, o, a, u) ==
    LET told == {n \in Said(r, k) : r[n].kind = "usage"}
    IN  /\ \A i \in Indexes : /\ i \in o <=> Heard(r, i, Said(r, k)) # {}
                              /\ a[i] = Heard(r, i, Said(r, k))
        /\ told = {} => u = 0
        /\ told # {} => u \in told /\ \A m \in told : m <= u

LEMMA OpeningFacts ==
    ASSUME NEW r \in Seq(Frame), NEW n \in 1..Len(r), NEW i
    PROVE  /\ IsFrame(r, n, "open", i) => Opening(r, i, n) = {n}
           /\ IsFrame(r, n, "stop", i) => Opening(r, i, n) = {}
           /\ ~ IsFrame(r, n, "open", i) /\ ~ IsFrame(r, n, "stop", i) =>
                Opening(r, i, n) = Opening(r, i, n - 1)
           /\ \A m, l \in Opening(r, i, n - 1) : m = l
           /\ \A m \in Opening(r, i, n - 1) : m \in 1..n
           /\ \A m \in 1..n : IsFrame(r, n, "frag", i) =>
                Frags(r, i, m, n) = Frags(r, i, m, n - 1) \cup {n}
           /\ \A m \in 1..n : ~ IsFrame(r, n, "frag", i) =>
                Frags(r, i, m, n) = Frags(r, i, m, n - 1)
  <1>1. /\ n \in Nat /\ n >= 1
        /\ \A m \in 1..n : m \in 1..(n - 1) \/ m = n
        /\ \A m \in 1..(n - 1) : m \in 1..n /\ n \in (m + 1)..n /\ m # n
    OBVIOUS
  <1>2. IsFrame(r, n, "open", i) => Opening(r, i, n) = {n}
    <2>1. \A j \in (n + 1)..n : FALSE
      BY <1>1
    <2>2. n \in 1..n
      BY <1>1
    <2> QED  BY <1>1, <2>1, <2>2 DEF Opening
  <1>3. IsFrame(r, n, "stop", i) => Opening(r, i, n) = {}
    <2>1. IsFrame(r, n, "stop", i) => ~ IsFrame(r, n, "open", i)
      BY DEF IsFrame
    <2> QED  BY <1>1, <2>1 DEF Opening
  <1>4. ASSUME ~ IsFrame(r, n, "open", i), ~ IsFrame(r, n, "stop", i)
        PROVE  Opening(r, i, n) = Opening(r, i, n - 1)
    <2>1. \A m \in 1..(n - 1) : \A j \in (m + 1)..n : j \in (m + 1)..(n - 1) \/ j = n
      BY <1>1
    <2>2. \A m \in 1..(n - 1) : \A j \in (m + 1)..(n - 1) : j \in (m + 1)..n
      BY <1>1
    <2> QED  BY <1>1, <1>4, <2>1, <2>2 DEF Opening
  <1>5. ASSUME NEW m \in Opening(r, i, n - 1), NEW l \in Opening(r, i, n - 1), m # l
        PROVE  FALSE
    <2>1. m \in 1..(n - 1) /\ l \in 1..(n - 1)
      BY DEF Opening
    <2>2. l \in (m + 1)..(n - 1) \/ m \in (l + 1)..(n - 1)
      BY <1>1, <1>5, <2>1
    <2> QED  BY <2>2 DEF Opening
  <1>6. \A m \in Opening(r, i, n - 1) : m \in 1..n
    BY <1>1 DEF Opening
  <1>7. ASSUME NEW m \in 1..n
        PROVE  /\ IsFrame(r, n, "frag", i) => Frags(r, i, m, n) = Frags(r, i, m, n - 1) \cup {n}
               /\ ~ IsFrame(r, n, "frag", i) => Frags(r, i, m, n) = Frags(r, i, m, n - 1)
    <2>1. /\ \A j \in m..n : j \in m..(n - 1) \/ j = n
          /\ \A j \in m..(n - 1) : j \in m..n
          /\ n \in m..n
      BY <1>1
    <2> QED  BY <2>1 DEF Frags
  <1> QED  BY <1>2, <1>3, <1>4, <1>5, <1>6, <1>7

LEMMA AnthropicParses ==
    ASSUME NEW r \in Seq(Frame), NEW n \in 1..Len(r), NEW X,
           NEW o \in SUBSET Indexes, NEW a \in [Indexes -> X],
           AnthropicParser(r, n - 1, o, a),
           NEW o2, NEW a2,
           o2 = IF r[n].kind = "open" THEN o \cup {r[n].call}
                ELSE IF r[n].kind = "stop" THEN o \ {r[n].call} ELSE o,
           a2 = IF r[n].kind = "open" THEN [a EXCEPT ![r[n].call] = {}]
                ELSE IF r[n].kind = "frag" /\ r[n].call \in o
                THEN [a EXCEPT ![r[n].call] = @ \cup {n}] ELSE a
    PROVE  AnthropicParser(r, n, o2, a2)
  <1>1. /\ r[n].kind \in {"text", "usage", "end", "error", "open", "frag", "stop"}
        /\ r[n].kind \in {"open", "frag", "stop"} => r[n].call \in Indexes
    BY FrameFacts
  <1> SUFFICES ASSUME NEW i \in Indexes
               PROVE  /\ i \in o2 <=> Opening(r, i, n) # {}
                      /\ \A m \in Opening(r, i, n) : a2[i] = Frags(r, i, m, n)
    BY DEF AnthropicParser
  <1>2. /\ i \in o <=> Opening(r, i, n - 1) # {}
        /\ \A m \in Opening(r, i, n - 1) : a[i] = Frags(r, i, m, n - 1)
    BY DEF AnthropicParser
  <1>3. CASE IsFrame(r, n, "open", i)
    <2>1. Opening(r, i, n) = {n}
      BY <1>3, OpeningFacts
    <2>2. i \in o2 /\ a2[i] = {}
      BY <1>3 DEF IsFrame
    <2>3. Frags(r, i, n, n) = {}
      BY <1>3 DEF Frags, IsFrame
    <2> QED  BY <2>1, <2>2, <2>3
  <1>4. CASE IsFrame(r, n, "stop", i)
    <2>1. Opening(r, i, n) = {}
      BY <1>4, OpeningFacts
    <2>2. i \notin o2
      BY <1>4 DEF IsFrame
    <2> QED  BY <2>1, <2>2
  <1>5. CASE ~ IsFrame(r, n, "open", i) /\ ~ IsFrame(r, n, "stop", i)
    <2>1. Opening(r, i, n) = Opening(r, i, n - 1)
      BY <1>5, OpeningFacts
    <2>2. i \in o2 <=> i \in o
      BY <1>1, <1>5 DEF IsFrame
    <2>3. ASSUME NEW m \in Opening(r, i, n)
          PROVE  a2[i] = Frags(r, i, m, n)
      <3>1. m \in 1..n /\ i \in o /\ a[i] = Frags(r, i, m, n - 1)
        <4>1. m \in Opening(r, i, n - 1)
          BY <2>1
        <4>2. \A l \in Opening(r, i, n - 1) : l \in 1..n
          BY OpeningFacts
        <4> QED  BY <1>2, <4>1, <4>2
      <3>2. CASE IsFrame(r, n, "frag", i)
        <4>1. Frags(r, i, m, n) = Frags(r, i, m, n - 1) \cup {n}
          BY <3>1, <3>2, OpeningFacts
        <4>2. a2[i] = a[i] \cup {n}
          BY <3>1, <3>2 DEF IsFrame
        <4> QED  BY <3>1, <4>1, <4>2
      <3>3. CASE ~ IsFrame(r, n, "frag", i)
        <4>1. Frags(r, i, m, n) = Frags(r, i, m, n - 1)
          BY <3>1, <3>3, OpeningFacts
        <4>2. a2[i] = a[i]
          BY <1>1, <1>5, <3>3 DEF IsFrame
        <4> QED  BY <3>1, <4>1, <4>2
      <3> QED  BY <3>2, <3>3
    <2> QED  BY <1>2, <2>1, <2>2, <2>3
  <1> QED  BY <1>3, <1>4, <1>5

\* A call that is stopped is told with the frames since it was opened.
LEMMA StopTold ==
    ASSUME NEW r \in Seq(Frame), NEW n \in 1..Len(r), r[n].kind = "stop",
           NEW o, NEW a, AnthropicParser(r, n - 1, o, a)
    PROVE  /\ AnthropicTells(r, n) <=> r[n].call \in o
           /\ r[n].call \in o => AnthropicTold(r, n) = Event("call", a[r[n].call])
  <1>1. r[n].call \in Indexes
    BY FrameFacts
  <1> DEFINE i == r[n].call
  <1>2. /\ i \in o <=> Opening(r, i, n - 1) # {}
        /\ \A m \in Opening(r, i, n - 1) : a[i] = Frags(r, i, m, n - 1)
    BY <1>1 DEF AnthropicParser
  <1>3. AnthropicTells(r, n) <=> i \in o
    BY <1>2 DEF AnthropicTells
  <1>4. ASSUME i \in o
        PROVE  AnthropicTold(r, n) = Event("call", a[i])
    <2>1. PICK m \in Opening(r, i, n - 1) : TRUE
      BY <1>2, <1>4
    <2>2. Opening(r, i, n - 1) = {m} /\ m \in 1..n
      <3>1. /\ \A k, l \in Opening(r, i, n - 1) : k = l
            /\ \A k \in Opening(r, i, n - 1) : k \in 1..n
        BY OpeningFacts
      <3> QED  BY <2>1, <3>1
    <2>3. Frags(r, i, m, n) = Frags(r, i, m, n - 1)
      <3>1. ~ IsFrame(r, n, "frag", i)
        BY DEF IsFrame
      <3> QED  BY <2>2, <3>1, OpeningFacts
    <2>4. UNION {Frags(r, i, l, n) : l \in Opening(r, i, n - 1)} = a[i]
      BY <1>2, <2>1, <2>2, <2>3
    <2> QED  BY <2>4 DEF AnthropicTold
  <1> QED  BY <1>3, <1>4

LEMMA OpenAIParses ==
    ASSUME NEW r \in Seq(Frame), NEW n \in 1..Len(r), NEW X,
           NEW o \in SUBSET Indexes, NEW a \in [Indexes -> X], NEW u,
           OpenAIParser(r, n - 1, o, a, u),
           \A m \in 1..(n - 1) : r[m].kind # "end",
           NEW o2, NEW a2, NEW u2,
           o2 = IF r[n].kind = "frag" THEN o \cup {r[n].call} ELSE o,
           a2 = IF r[n].kind = "frag" THEN [a EXCEPT ![r[n].call] = @ \cup {n}] ELSE a,
           u2 = IF r[n].kind = "usage" THEN n ELSE u
    PROVE  OpenAIParser(r, n, o2, a2, u2)
  <1>1. /\ r[n].kind \in {"text", "usage", "end", "error", "open", "frag", "stop"}
        /\ r[n].kind = "frag" => r[n].call \in Indexes
    BY FrameFacts
  <1> DEFINE S == Said(r, n - 1)
             T == Said(r, n)
             told(U) == {m \in U : r[m].kind = "usage"}
  <1>2. /\ \A i \in Indexes : (i \in o <=> Heard(r, i, S) # {}) /\ a[i] = Heard(r, i, S)
        /\ told(S) = {} => u = 0
        /\ told(S) # {} => u \in told(S) /\ \A m \in told(S) : m <= u
    BY DEF OpenAIParser
  <1>3. S \subseteq 1..(n - 1) /\ n \in Nat
    BY DEF Said
  <1>4. CASE r[n].kind = "end"
    <2>1. T = S
      BY <1>4, SaidFacts
    <2>2. o2 = o /\ a2 = a /\ u2 = u
      BY <1>4
    <2> QED  BY <1>2, <2>1, <2>2 DEF OpenAIParser
  <1>5. CASE r[n].kind # "end"
    <2>1. T = S \cup {n}
      <3>1. \A m \in 1..n : m \in 1..(n - 1) \/ m = n
        OBVIOUS
      <3>2. \A m \in 1..n : r[m].kind # "end"
        BY <1>5, <3>1
      <3> QED  BY <3>2, SaidFacts
    <2> HIDE DEF S, T
    <2>2. ASSUME NEW i \in Indexes
          PROVE  (i \in o2 <=> Heard(r, i, T) # {}) /\ a2[i] = Heard(r, i, T)
      <3>1. CASE IsFrame(r, n, "frag", i)
        <4>1. Heard(r, i, T) = Heard(r, i, S) \cup {n}
          BY <2>1, <3>1 DEF Heard
        <4>2. i \in o2 /\ a2[i] = a[i] \cup {n}
          BY <3>1 DEF IsFrame
        <4> QED  BY <1>2, <4>1, <4>2
      <3>2. CASE ~ IsFrame(r, n, "frag", i)
        <4>1. Heard(r, i, T) = Heard(r, i, S)
          BY <2>1, <3>2 DEF Heard
        <4>2. (i \in o2 <=> i \in o) /\ a2[i] = a[i]
          BY <1>1, <3>2 DEF IsFrame
        <4> QED  BY <1>2, <4>1, <4>2
      <3> QED  BY <3>1, <3>2
    <2>3. /\ told(T) = {} => u2 = 0
          /\ told(T) # {} => u2 \in told(T) /\ \A m \in told(T) : m <= u2
      <3>1. CASE r[n].kind = "usage"
        <4>1. \A m \in S : m <= n
          BY <1>3
        <4>2. \A m \in T : m <= n
          BY <1>3, <2>1, <4>1
        <4>3. u2 = n /\ n \in told(T)
          BY <2>1, <3>1
        <4> QED  BY <4>2, <4>3
      <3>2. CASE r[n].kind # "usage"
        <4>1. u2 = u /\ told(T) = told(S)
          BY <2>1, <3>2
        <4> QED  BY <1>2, <4>1
      <3> QED  BY <3>1, <3>2
    <2> QED  BY <2>2, <2>3 DEF OpenAIParser, T
  <1> QED  BY <1>4, <1>5

(***************************************************************************)
(* What finalize tells, after the texts, is what the frames handled mean.  *)
(***************************************************************************)
LEMMA FinalMeans ==
    ASSUME StreamTypeOK, NEW k \in Nat, OpenAIParser(response, k, open, args, usage)
    PROVE  OpenAIMeaning(response, k) = Texts(response, Said(response, k)) \o Finalized
  <1> DEFINE r == response
             S == Said(r, k)
             told == {n \in S : r[n].kind = "usage"}
             calls == InOrder(open)
             saidOf(i) == Event("call", Heard(r, calls[i], S))
  <1>1. /\ \A i \in Indexes : (i \in open <=> Heard(r, i, S) # {}) /\ args[i] = Heard(r, i, S)
        /\ told = {} => usage = 0
        /\ told # {} => usage \in told /\ \A m \in told : m <= usage
    BY DEF OpenAIParser
  <1>2. S \subseteq 1..k /\ told \subseteq 1..k
    BY DEF Said
  <1>3. {i \in Indexes : Heard(r, i, S) # {}} = open
    BY <1>1 DEF StreamTypeOK
  <1>4. calls \in Seq(open)
    <2>1. open \in SUBSET Int /\ IsFiniteSet(open)
      BY IndexSets DEF StreamTypeOK
    <2> QED  BY <2>1, OrderFacts
  <1>5. [i \in DOMAIN calls |-> Event("call", Heard(r, calls[i], S))]
          = [i \in DOMAIN calls |-> Event("call", args[calls[i]])]
    <2> HIDE DEF calls
    <2>1. ASSUME NEW i \in DOMAIN calls
          PROVE  Heard(r, calls[i], S) = args[calls[i]]
      <3>1. calls[i] \in open
        BY <1>4
      <3>2. open \subseteq Indexes
        BY DEF StreamTypeOK
      <3> HIDE DEF r, S
      <3> QED  BY <1>1, <3>1, <3>2
    <2> HIDE DEF r, S
    <2> QED  BY <2>1
  <1> DEFINE greatest == CHOOSE n \in told : \A m \in told : m <= n
             usages == IF told = {} THEN <<>> ELSE <<Event("usage", {greatest})>>
  <1>6. usages = (IF usage = 0 THEN <<>> ELSE <<Event("usage", {usage})>>)
    <2>1. CASE told = {}
      BY <1>1, <2>1
    <2>2. CASE told # {}
      <3>1. usage \in told /\ \A m \in told : m <= usage
        BY <1>1, <2>2
      <3>2. \A m \in told : m \in Nat /\ m >= 1
        BY <1>2
      <3>3. \A n \in told : (\A m \in told : m <= n) => n = usage
        BY <3>1, <3>2
      <3> HIDE DEF told
      <3>4. greatest = usage
        BY <3>1, <3>3
      <3>5. usage # 0
        BY <3>1, <3>2
      <3> HIDE DEF greatest
      <3>6. usages = <<Event("usage", {greatest})>>
        BY <2>2, Zenon
      <3> HIDE DEF usages
      <3> QED  BY <3>4, <3>5, <3>6
    <2> QED  BY <2>1, <2>2
  <1> DEFINE Rest(c) == [i \in DOMAIN c |-> Event("call", Heard(r, c[i], S))]
                        \o usages \o <<Event("end", {})>>
  <1>7. OpenAIMeaning(r, k) = Texts(r, S) \o Rest(calls)
    <2>1. OpenAIMeaning(r, k) = Texts(r, S) \o Rest(InOrder({i \in Indexes : Heard(r, i, S) # {}}))
      BY Zenon DEF OpenAIMeaning, OpenAITold
    <2> HIDE DEF Rest
    <2> QED  BY <1>3, <2>1, Zenon
  <1>8. Finalized = Rest(calls)
    <2> DEFINE said == [i \in DOMAIN calls |-> Event("call", args[calls[i]])]
               tail == IF usage = 0 THEN <<>> ELSE <<Event("usage", {usage})>>
    <2>1. Finalized = said \o tail \o <<Event("end", {})>>
      BY Zenon DEF Finalized
    <2>2. Rest(calls) = [i \in DOMAIN calls |-> Event("call", Heard(r, calls[i], S))]
                         \o usages \o <<Event("end", {})>>
      BY Zenon
    <2> HIDE DEF said, tail, usages, Rest
    <2>3. [i \in DOMAIN calls |-> Event("call", Heard(r, calls[i], S))] = said
      BY <1>5, Zenon DEF said
    <2>4. usages = tail
      BY <1>6, Zenon DEF tail
    <2> QED  BY <2>1, <2>2, <2>3, <2>4, Zenon
  <1> QED  BY <1>7, <1>8, Zenon

(***************************************************************************)
(* How many frames the pump has handled, while the context is not done: a  *)
(* frame that the reader offers is still to be.                            *)
(***************************************************************************)
Handled == IF reader = "offer" THEN read - 1 ELSE read

\* What they have told so far, whether or not there is more to come.
Spoken(k) ==
    IF protocol = "openai" THEN Texts(response, Said(response, k))
    ELSE AnthropicMeaning(response, k)

Working == pump \in {"select", "emit"}

ParserInv ==
    ~cancelled =>
        IF protocol = "openai" THEN OpenAIParser(response, Handled, open, args, usage)
        ELSE AnthropicParser(response, Handled, open, args)

\* The consumer has, with what the pump has to tell, what the frames handled
\* mean; a consumer that failed had a part of it.
Faithful ==
    ~cancelled =>
        /\ consumer = "failed" => \E k \in 0..Handled : IsPrefix(got, Meaning(k))
        /\ consumer # "failed" /\ todo = <<Failure>> => got = Spoken(Handled)
        /\ consumer # "failed" /\ todo # <<Failure>> =>
              got \o todo = IF Working THEN Spoken(Handled) ELSE Meaning(Handled)

Lone == \A i \in DOMAIN todo : todo[i] = Failure => i = 1 /\ Len(todo) = 1

\* When the pump stops without an error, it has seen [DONE], or all of a body
\* that ended; and before that no [DONE].
Ending ==
    /\ Working /\ ~cancelled /\ protocol = "openai" =>
          \A n \in 1..Handled : response[n].kind # "end"
    /\ Working /\ ~cancelled /\ body # "broken" /\ reader \in {"ended", "closing", "gone"} =>
          body = "ended" /\ read = sent
    /\ ~Working /\ ~cancelled /\ body # "broken" /\ consumer # "failed" /\ todo # <<Failure>> =>
          \/ protocol = "openai" /\ \E n \in 1..Handled : response[n].kind = "end"
          \/ reader = "gone" /\ body = "ended" /\ read = sent
    /\ consumer = "done" => pump = "gone"

FaithInv == ParserInv /\ Faithful /\ Lone /\ Ending

LEMMA HandledFacts ==
    ASSUME StreamInv
    PROVE  /\ Handled \in Nat /\ read \in Nat /\ Handled <= read /\ read <= Len(response)
           /\ Len(response) \in Nat /\ sent \in Nat /\ read <= sent
           /\ response \in Seq(Frame)
           /\ got \in Seq(Events(read)) /\ todo \in Seq(Events(read))
           /\ pump \in {"select", "leave", "gone"} <=> todo = <<>>
  <1>1. response \in Seq(Frame)
    BY ResponseAssumption DEF StreamInv, StreamTypeOK
  <1>2. Len(response) \in Nat
    BY <1>1
  <1>3. read \in Nat /\ sent \in Nat /\ read <= sent /\ sent <= Len(response)
        /\ (reader = "offer" => read > 0)
    BY <1>2 DEF StreamInv, StreamTypeOK
  <1>4. Handled \in Nat /\ Handled <= read
    BY <1>3 DEF Handled
  <1>5. /\ got \in Seq(Events(read)) /\ todo \in Seq(Events(read))
        /\ pump \in {"select", "leave", "gone"} <=> todo = <<>>
    BY DEF StreamInv, StreamTypeOK
  <1> QED  BY <1>1, <1>2, <1>3, <1>4, <1>5

LEMMA FaithStart ==
    ASSUME StreamInit
    PROVE  FaithInv
  <1>0. StreamInv
    BY ErrorsStart
  <1>1. /\ Handled = 0 /\ response \in Seq(Frame)
    BY <1>0, HandledFacts DEF Handled, StreamInit
  <1>2. ~cancelled /\ open = {} /\ usage = 0 /\ got = <<>> /\ consumer = "recv"
        /\ args = [i \in Indexes |-> {}]
    BY DEF StreamInit
  <1>3. \A S \in SUBSET (1..0) : S = {}
    OBVIOUS
  <1>4. Said(response, 0) = {} /\ \A i : Opening(response, i, 0) = {}
    BY <1>3 DEF Said, Opening
  <1>5. AnthropicParser(response, 0, open, args)
    BY <1>2, <1>4 DEF AnthropicParser
  <1>6. OpenAIParser(response, 0, open, args, usage)
    <2>1. \A i : Heard(response, i, {}) = {}
      BY DEF Heard
    <2> QED  BY <1>2, <1>4, <2>1 DEF OpenAIParser
  <1>7. InOrder({}) = <<>>
    <2>1. {} \in SUBSET Int /\ IsFiniteSet({})
      BY FS_EmptySet
    <2>2. InOrder({}) \in Seq({})
      BY <2>1, OrderFacts
    <2> QED  BY <2>2
  <1>8. Spoken(0) = <<>>
    <2>1. {n \in Said(response, 0) : response[n].kind = "text"} = {}
      BY <1>4
    <2>2. {n \in 1..0 : AnthropicTells(response, n)} = {}
      BY <1>3
    <2>3. \A e : [i \in DOMAIN <<>> |-> e[i]] = <<>>
      OBVIOUS
    <2>4. Texts(response, Said(response, 0)) = <<>>
      <3>1. Texts(response, Said(response, 0))
              = [i \in DOMAIN InOrder({}) |-> Event("text", {InOrder({})[i]})]
        BY <2>1, Zenon DEF Texts
      <3> QED  BY <1>7, <3>1
    <2>5. AnthropicMeaning(response, 0) = <<>>
      BY <1>7, <2>2 DEF AnthropicMeaning
    <2> QED  BY <2>4, <2>5 DEF Spoken
  <1>9. ParserInv
    BY <1>1, <1>5, <1>6 DEF ParserInv
  <1>10. CASE todo = <<>> /\ pump = "select" /\ reader = "scan"
    <2>1. Faithful
      BY <1>1, <1>2, <1>8, <1>10 DEF Faithful, Working
    <2>2. Ending
      BY <1>1, <1>2, <1>3, <1>10 DEF Ending, Working
    <2>3. Lone
      BY <1>10 DEF Lone
    <2> QED  BY <1>9, <2>1, <2>2, <2>3 DEF FaithInv
  <1>11. CASE todo = <<Failure>> /\ pump = "last" /\ reader = "gone"
    <2>1. Faithful
      BY <1>1, <1>2, <1>8, <1>11 DEF Faithful
    <2>2. Ending
      BY <1>1, <1>2, <1>11 DEF Ending, Working
    <2>3. Lone
      BY <1>11 DEF Lone
    <2> QED  BY <1>9, <2>1, <2>2, <2>3 DEF FaithInv
  <1> QED  BY <1>10, <1>11 DEF StreamInit

(***************************************************************************)
(* When the context is done only the shape of what is to be told counts.   *)
(***************************************************************************)
LEMMA CancelledFaith ==
    ASSUME cancelled', Lone', consumer' = "done" => pump' = "gone"
    PROVE  FaithInv'
  BY DEF FaithInv, ParserInv, Faithful, Ending

(***************************************************************************)
(* The network and the reader handle no frame and tell nothing.            *)
(***************************************************************************)
LEMMA SourceFaith ==
    ASSUME StreamInv, FaithInv,
           \/ Arrive \/ BodyEnds \/ BodyBreaks \/ Cancel
           \/ ReaderStep
    PROVE  FaithInv'
  <1>1. UNCHANGED <<server, pump, todo, parser, sink>>
    BY DEF Arrive, BodyEnds, BodyBreaks, Cancel, ReaderStep, Scan, ScanFails, ScanEnds,
       DropFrame, CloseErrs, CloseFrames
  <1>2. Lone' /\ (consumer' = "done" => pump' = "gone")
    BY <1>1 DEF FaithInv, Lone, Ending, sink
  <1>3. CASE cancelled'
    BY <1>2, <1>3, CancelledFaith
  <1>4. CASE ~ cancelled'
    <2>1. ~ cancelled
      BY <1>4 DEF Arrive, BodyEnds, BodyBreaks, Cancel, ReaderStep, Scan, ScanFails, ScanEnds,
         DropFrame, CloseErrs, CloseFrames, wire
    <2>2. read \in Nat
      BY HandledFacts
    <2>3. Handled' = Handled
      BY <1>4, <2>1, <2>2 DEF Handled, Arrive, BodyEnds, BodyBreaks, Cancel, ReaderStep, Scan, ScanFails, ScanEnds,
         DropFrame, CloseErrs, CloseFrames, source
    <2>4. PICK h : h = Handled
      OBVIOUS
    <2>5. h = Handled'
      BY <2>3, <2>4
    <2>6. /\ protocol' = protocol /\ response' = response /\ pump' = pump /\ todo' = todo
          /\ open' = open /\ args' = args /\ usage' = usage
          /\ consumer' = consumer /\ got' = got
      BY <1>1 DEF server, parser, sink
    <2>7. ParserInv'
      BY <2>1, <2>4, <2>5, <2>6 DEF ParserInv, FaithInv
    <2>8. Faithful'
      BY <2>1, <2>4, <2>5, <2>6 DEF Faithful, FaithInv, Working, Spoken, Meaning, Failure
    <2>9. Ending'
      <3>0. Working' <=> Working
        BY <2>6 DEF Working
      <3>1. Working /\ protocol = "openai" => \A n \in 1..Handled' : response'[n].kind # "end"
        BY <2>1, <2>4, <2>5, <2>6 DEF FaithInv, Ending
      <3>2. /\ Working /\ body # "broken" /\ reader \in {"ended", "closing", "gone"} =>
                 body = "ended" /\ read = sent
            /\ ~Working /\ body # "broken" /\ consumer # "failed" /\ todo # <<Failure>> =>
                 \/ protocol = "openai" /\ \E n \in 1..Handled' : response'[n].kind = "end"
                 \/ reader = "gone" /\ body = "ended" /\ read = sent
        BY <2>1, <2>4, <2>5, <2>6 DEF FaithInv, Ending
      <3> DEFINE Shut == reader \in {"ended", "closing", "gone"}
                 All == reader = "gone" /\ body = "ended" /\ read = sent
      <3>3. /\ body' # "broken" => body # "broken"
            /\ All => All'
            /\ Working /\ Shut' /\ body' # "broken" =>
                 \/ Shut /\ (body = "ended" /\ read = sent => body' = "ended" /\ read' = sent')
                 \/ body' = "ended" /\ read' = sent'
        <4> USE DEF source, wire, Working, StreamInv, StreamTypeOK
        <4>1. CASE Arrive \/ BodyEnds \/ BodyBreaks
          BY <4>1 DEF Arrive, BodyEnds, BodyBreaks
        <4>2. CASE Cancel
          BY <1>4, <4>2 DEF Cancel
        <4>3. CASE Scan \/ DropFrame
          BY <4>3 DEF Scan, DropFrame
        <4>4. CASE ScanFails \/ ScanEnds
          BY <2>1, <4>4 DEF ScanFails, ScanEnds
        <4>5. CASE CloseErrs \/ CloseFrames
          BY <4>5 DEF CloseErrs, CloseFrames
        <4> QED  BY <4>1, <4>2, <4>3, <4>4, <4>5 DEF ReaderStep
      <3>4. Working' /\ body' # "broken" /\ Shut' => body' = "ended" /\ read' = sent'
        BY <3>0, <3>2, <3>3
      <3>5. ~Working' /\ body' # "broken" /\ consumer' # "failed" /\ todo' # <<Failure>> =>
                 \/ protocol' = "openai" /\ \E n \in 1..Handled' : response'[n].kind = "end"
                 \/ All'
        BY <2>6, <3>0, <3>2, <3>3
      <3> QED  BY <1>2, <2>6, <3>0, <3>1, <3>4, <3>5 DEF Ending, Failure
    <2> QED  BY <1>2, <2>7, <2>8, <2>9 DEF FaithInv
  <1> QED  BY <1>3, <1>4

(***************************************************************************)
(* A frame taken while the context is not done: the parser goes on, and    *)
(* what it gives the pump to tell is what the frame adds.                  *)
(***************************************************************************)
LEMMA FrameFaith ==
    ASSUME StreamInv, FaithInv, TakeFrame
    PROVE  FaithInv'
  <1> DEFINE r == response
             n == read
             f == response[read]
  <1>1. /\ UNCHANGED <<protocol, response, sent, body, cancelled, read, errs, consumer, got>>
        /\ reader = "offer" /\ reader' = "scan" /\ pump = "select"
    BY DEF TakeFrame, server, wire, sink
  <1>2. /\ r \in Seq(Frame) /\ n \in 1..Len(r) /\ Handled = n - 1 /\ Handled' = n
        /\ todo = <<>> /\ got \in Seq(Events(n)) /\ n \in Nat
    <2>1. Handled = n - 1 /\ Handled' = n
      BY <1>1 DEF Handled
    <2>2. n > 0
      BY <1>1 DEF StreamInv
    <2> QED  BY <1>1, <2>1, <2>2, HandledFacts
  <1>3. f.kind \in {"text", "usage", "end", "error", "open", "frag", "stop"}
    BY <1>2, FrameFacts
  <1>4. /\ open \in SUBSET Indexes /\ args \in [Indexes -> SUBSET (1..n)]
    BY DEF StreamInv, StreamTypeOK
  <1>5. consumer' = "done" => pump' = "gone"
    BY <1>1 DEF FaithInv, Ending
  <1>6. got \o <<>> = got
    BY <1>2
  <1>7. CASE protocol = "anthropic" /\ AnthropicFrame(f)
    <2> DEFINE events == AnthropicEvents(f)
    <2>1. /\ todo' = events /\ pump' = (IF events # <<>> THEN "emit" ELSE "select")
          /\ open' = IF f.kind = "open" THEN open \cup {f.call}
                     ELSE IF f.kind = "stop" THEN open \ {f.call} ELSE open
          /\ args' = IF f.kind = "open" THEN [args EXCEPT ![f.call] = {}]
                     ELSE IF f.kind = "frag" /\ f.call \in open
                     THEN [args EXCEPT ![f.call] = @ \cup {n}] ELSE args
      BY <1>7 DEF AnthropicFrame, Tell
    <2>2. CASE cancelled
      <3>1. Lone'
        <4>1. events = <<>> \/ \E e : events = <<e>>
          BY DEF AnthropicEvents
        <4> HIDE DEF events
        <4> QED  BY <2>1, <4>1 DEF Lone
      <3> QED  BY <1>1, <1>5, <2>2, <3>1, CancelledFaith
    <2>3. CASE ~ cancelled
      <3>1. AnthropicParser(r, n - 1, open, args)
        BY <1>2, <1>7, <2>3 DEF FaithInv, ParserInv
      <3>2. AnthropicParser(r, n, open', args')
        BY <1>2, <1>4, <2>1, <3>1, AnthropicParses
      <3>3. /\ AnthropicTells(r, n) => events = <<AnthropicTold(r, n)>>
            /\ ~ AnthropicTells(r, n) => events = <<>>
        <4>1. CASE f.kind = "stop"
          <5>1. /\ AnthropicTells(r, n) <=> f.call \in open
                /\ f.call \in open => AnthropicTold(r, n) = Event("call", args[f.call])
            BY <1>2, <3>1, <4>1, StopTold
          <5> QED  BY <4>1, <5>1 DEF AnthropicEvents
        <4>2. CASE f.kind # "stop"
          <5>1. AnthropicTells(r, n) <=> f.kind \in {"text", "usage", "end", "error"}
            BY <4>2 DEF AnthropicTells
          <5>2. AnthropicTold(r, n) = Event(f.kind, {n})
            BY <4>2 DEF AnthropicTold
          <5> QED  BY <4>2, <5>1, <5>2 DEF AnthropicEvents
        <4> QED  BY <4>1, <4>2
      <3>4. \A i \in DOMAIN events : events[i] # Failure
        <4>1. Event(f.kind, {n}) # Failure /\ Event("call", args[f.call]) # Failure
          BY DEF Event, Failure
        <4> QED  BY <4>1 DEF AnthropicEvents
      <3> HIDE DEF events
      <3>5. AnthropicMeaning(r, n) = AnthropicMeaning(r, n - 1) \o events
        <4>1. CASE AnthropicTells(r, n)
          BY <1>2, <3>3, <4>1, AnthropicGrows
        <4>2. CASE ~ AnthropicTells(r, n)
          <5>1. AnthropicMeaning(r, n) = AnthropicMeaning(r, n - 1) /\ events = <<>>
            BY <1>2, <3>3, <4>2, AnthropicGrows
          <5>2. \E V : AnthropicMeaning(r, n - 1) \in Seq(V)
            <6> DEFINE S == {m \in 1..(n - 1) : AnthropicTells(r, m)}
                       t == InOrder(S)
            <6>1. t \in Seq(S)
              <7>1. n - 1 \in Nat /\ S \in SUBSET (1..(n - 1))
                BY <1>2
              <7> QED  BY <7>1, FrameSets, OrderFacts
            <6>2. AnthropicMeaning(r, n - 1) = [i \in DOMAIN t |-> AnthropicTold(r, t[i])]
              BY DEF AnthropicMeaning
            <6> HIDE DEF t, S
            <6>3. Len(t) \in Nat /\ DOMAIN t = 1..Len(t)
              BY <6>1
            <6>4. AnthropicMeaning(r, n - 1) \in Seq({AnthropicTold(r, t[i]) : i \in 1..Len(t)})
              BY <6>2, <6>3
            <6> QED  BY <6>4
          <5>3. AnthropicMeaning(r, n - 1) \o <<>> = AnthropicMeaning(r, n - 1)
            BY <5>2
          <5> QED  BY <5>1, <5>3
        <4> QED  BY <4>1, <4>2
      <3>6. ParserInv'
        BY <1>1, <1>2, <1>7, <3>2 DEF ParserInv
      <3>7. Lone'
        BY <2>1, <3>4 DEF Lone, Failure
      <3>8. events # <<Failure>>
        <4>1. events = <<Failure>> => 1 \in DOMAIN events /\ events[1] = Failure
          OBVIOUS
        <4> QED  BY <3>4, <4>1
      <3>9. Faithful'
        <4>1. consumer = "failed" => \E k \in 0..n : IsPrefix(got, Meaning(k))
          <5>1. \A k \in 0..(n - 1) : k \in 0..n
            BY <1>2
          <5> QED  BY <1>2, <2>3, <5>1 DEF FaithInv, Faithful
        <4>2. consumer # "failed" => got \o events = AnthropicMeaning(r, n)
          <5>1. consumer # "failed" => got \o todo = AnthropicMeaning(r, n - 1)
            <6>1. todo # <<Failure>>
              BY <1>2
            <6> QED  BY <1>1, <1>2, <1>7, <2>3, <6>1 DEF FaithInv, Faithful, Working, Spoken
          <5> QED  BY <1>2, <1>6, <3>5, <5>1
        <4>3. Working' /\ Spoken(n)' = AnthropicMeaning(r, n)
          BY <1>1, <1>7, <2>1 DEF Working, Spoken
        <4>4. \A k : Meaning(k)' = Meaning(k)
          BY <1>1 DEF Meaning
        <4> QED  BY <1>1, <1>2, <2>1, <3>8, <4>1, <4>2, <4>3, <4>4 DEF Faithful, Failure, Meaning, Spoken
      <3>10. Ending'
        BY <1>1, <1>5, <1>7, <2>1 DEF Ending, Working
      <3> QED  BY <3>6, <3>7, <3>9, <3>10 DEF FaithInv
    <2> QED  BY <2>2, <2>3
  <1>8. CASE protocol = "openai" /\ OpenAIFrame(f)
    <2>1. /\ open' = IF f.kind = "frag" THEN open \cup {f.call} ELSE open
          /\ args' = IF f.kind = "frag" THEN [args EXCEPT ![f.call] = @ \cup {n}] ELSE args
          /\ usage' = IF f.kind = "usage" THEN n ELSE usage
      BY <1>8 DEF OpenAIFrame
    <2> DEFINE texts == IF f.kind = "text" THEN <<Event("text", {n})>> ELSE <<>>
    <2>2. /\ f.kind = "end" => todo' = Finalized /\ pump' = "last"
          /\ f.kind # "end" => todo' = texts /\ pump' = (IF texts # <<>> THEN "emit" ELSE "select")
      <3>1. Finalized # <<>>
        BY FinalizedTells DEF StreamInv
      <3> QED  BY <1>8, <3>1 DEF OpenAIFrame, Tell
    <2>3. \A i \in DOMAIN todo' : todo'[i] # Failure
      <3>1. CASE f.kind = "end"
        <4>1. \A i \in DOMAIN Finalized : Finalized[i].kind # "error"
          BY FinalizedTells DEF StreamInv
        <4>2. Failure.kind = "error"
          BY DEF Failure, Event
        <4> QED  BY <2>2, <3>1, <4>1, <4>2
      <3>2. CASE f.kind # "end"
        <4>1. Event("text", {n}) # Failure
          BY DEF Failure, Event
        <4>2. \A i \in DOMAIN texts : texts[i] # Failure
          BY <4>1
        <4> QED  BY <2>2, <3>2, <4>2
      <3> QED  BY <3>1, <3>2
    <2>4. Lone'
      BY <2>3 DEF Lone, Failure
    <2>5. CASE cancelled
      BY <1>1, <1>5, <2>4, <2>5, CancelledFaith
    <2>6. CASE ~ cancelled
      <3>1. OpenAIParser(r, n - 1, open, args, usage)
        BY <1>2, <1>8, <2>6 DEF FaithInv, ParserInv
      <3>2. \A m \in 1..(n - 1) : r[m].kind # "end"
        BY <1>1, <1>2, <1>8, <2>6 DEF FaithInv, Ending, Working
      <3>3. OpenAIParser(r, n, open', args', usage')
        BY <1>2, <1>4, <2>1, <3>1, <3>2, OpenAIParses
      <3>4. ParserInv'
        BY <1>1, <1>2, <1>8, <3>3 DEF ParserInv
      <3>5. consumer # "failed" => got = Texts(r, Said(r, n - 1))
        <4>1. todo # <<Failure>>
          BY <1>2
        <4> QED  BY <1>1, <1>2, <1>6, <1>8, <2>6, <4>1 DEF FaithInv, Faithful, Working, Spoken
      <3>6. todo' # <<Failure>>
        <4>1. todo' = <<Failure>> => 1 \in DOMAIN todo' /\ todo'[1] = Failure
          OBVIOUS
        <4> QED  BY <2>3, <4>1
      <3>7. consumer # "failed" =>
               got \o todo' = IF f.kind = "end" THEN Meaning(n) ELSE Texts(r, Said(r, n))
        <4>1. SUFFICES ASSUME consumer # "failed"
                       PROVE  got \o todo' = IF f.kind = "end" THEN Meaning(n) ELSE Texts(r, Said(r, n))
          OBVIOUS
        <4>2. CASE f.kind = "end"
          <5>1. OpenAIMeaning(r, n - 1) = Texts(r, Said(r, n - 1)) \o Finalized
            <6>1. StreamTypeOK /\ n - 1 \in Nat
              BY <1>2 DEF StreamInv
            <6> QED  BY <3>1, <6>1, FinalMeans
          <5>2. Said(r, n) = Said(r, n - 1)
            BY <1>2, <4>2, SaidFacts
          <5>3. Meaning(n) = OpenAIMeaning(r, n - 1)
            BY <1>8, <5>2 DEF Meaning, OpenAIMeaning
          <5> QED  BY <2>2, <3>5, <4>1, <4>2, <5>1, <5>3
        <4>3. CASE f.kind # "end"
          <5>1. \A m \in 1..n : r[m].kind # "end"
            <6>1. \A m \in 1..n : m \in 1..(n - 1) \/ m = n
              BY <1>2
            <6> QED  BY <3>2, <4>3, <6>1
          <5>2. CASE f.kind = "text"
            <6>1. Texts(r, Said(r, n)) = Texts(r, Said(r, n - 1)) \o <<Event("text", {n})>>
              BY <1>2, <5>1, <5>2, TextsGrow
            <6> QED  BY <2>2, <3>5, <4>1, <4>3, <5>2, <6>1
          <5>3. CASE f.kind # "text"
            <6>1. Texts(r, Said(r, n)) = Texts(r, Said(r, n - 1))
              BY <1>2, <5>1, <5>3, TextsGrow
            <6>2. todo' = <<>>
              BY <2>2, <4>3, <5>3
            <6> QED  BY <1>6, <3>5, <4>1, <4>3, <6>1, <6>2
          <5> QED  BY <5>2, <5>3
        <4> QED  BY <4>2, <4>3
      <3>8. Working' <=> f.kind # "end"
        BY <2>2 DEF Working
      <3>9. Faithful'
        <4>1. consumer = "failed" => \E k \in 0..n : IsPrefix(got, Meaning(k))
          <5>1. \A k \in 0..(n - 1) : k \in 0..n
            BY <1>2
          <5> QED  BY <1>2, <2>6, <5>1 DEF FaithInv, Faithful
        <4>2. \A k : Meaning(k)' = Meaning(k)
          BY <1>1 DEF Meaning
        <4>3. Spoken(n)' = Texts(r, Said(r, n))
          BY <1>1, <1>8 DEF Spoken
        <4> QED  BY <1>1, <1>2, <3>6, <3>7, <3>8, <4>1, <4>2, <4>3 DEF Faithful, Failure, Meaning, Spoken
      <3>10. Ending'
        <4>1. f.kind # "end" => \A m \in 1..n : r[m].kind # "end"
          <5>1. \A m \in 1..n : m \in 1..(n - 1) \/ m = n
            BY <1>2
          <5> QED  BY <3>2, <5>1
        <4>2. f.kind = "end" => \E m \in 1..n : r[m].kind = "end"
          BY <1>2
        <4> QED  BY <1>1, <1>2, <1>5, <1>8, <3>8, <4>1, <4>2 DEF Ending
      <3> QED  BY <2>4, <3>4, <3>9, <3>10 DEF FaithInv
    <2> QED  BY <2>5, <2>6
  <1> QED  BY <1>7, <1>8 DEF TakeFrame

(***************************************************************************)
(* The select's other cases.                                               *)
(***************************************************************************)
LEMMA SelectFaith ==
    ASSUME StreamInv, FaithInv, SeesError \/ SeesCancel \/ SeesClosed
    PROVE  FaithInv'
  <1>1. /\ UNCHANGED <<protocol, response, sent, body, cancelled, reader, read, open, args,
                       usage, consumer, got>>
        /\ pump = "select" /\ Handled' = Handled
    BY DEF SeesError, SeesCancel, SeesClosed, server, wire, source, parser, sink, Handled
  <1>2. PICK h : h = Handled
    OBVIOUS
  <1>3. h = Handled' /\ h \in Nat /\ todo = <<>> /\ got \o <<>> = got /\ <<>> # <<Failure>>
    BY <1>1, <1>2, HandledFacts
  <1>4. consumer' = "done" => pump' = "gone"
    BY <1>1 DEF FaithInv, Ending
  <1>5. /\ ParserInv'
        /\ \A k : Meaning(k)' = Meaning(k) /\ Spoken(k)' = Spoken(k)
        /\ Working /\ Failure' = Failure
    BY <1>1, <1>2, <1>3 DEF FaithInv, ParserInv, Meaning, Spoken, Working, Failure
  <1>6. ~ cancelled =>
          /\ consumer = "failed" => \E k \in 0..h : IsPrefix(got, Meaning(k))
          /\ consumer # "failed" => got = Spoken(h)
    BY <1>2, <1>3, <1>5 DEF FaithInv, Faithful
  <1>7. CASE SeesError \/ SeesCancel
    <2>1. todo' = <<Failure>> /\ pump' = "last"
      BY <1>7 DEF SeesError, SeesCancel, Tell
    <2>2. Faithful'
      BY <1>1, <1>3, <1>5, <1>6, <2>1 DEF Faithful
    <2>3. Lone'
      BY <1>5, <2>1 DEF Lone
    <2>4. Ending'
      BY <1>1, <1>4, <1>5, <2>1 DEF Ending, Working
    <2> QED  BY <1>5, <2>2, <2>3, <2>4 DEF FaithInv
  <1>8. CASE SeesClosed
    <2>1. ~ cancelled /\ body # "broken" => body = "ended" /\ read = sent
      BY <1>5, <1>8 DEF FaithInv, Ending, SeesClosed
    <2>2. reader = "gone"
      BY <1>8 DEF SeesClosed
    <2>3. CASE protocol = "openai"
      <3>1. todo' = Finalized /\ pump' = "last"
        <4>1. Finalized # <<>>
          BY FinalizedTells DEF StreamInv
        <4> QED  BY <1>8, <2>3, <4>1 DEF SeesClosed, Tell
      <3>2. \A i \in DOMAIN todo' : todo'[i] # Failure
        <4>1. \A i \in DOMAIN Finalized : Finalized[i].kind # "error"
          BY FinalizedTells DEF StreamInv
        <4>2. Failure.kind = "error"
          BY DEF Failure, Event
        <4> QED  BY <3>1, <4>1, <4>2
      <3>3. todo' # <<Failure>>
        <4>1. todo' = <<Failure>> => 1 \in DOMAIN todo' /\ todo'[1] = Failure
          OBVIOUS
        <4> QED  BY <3>2, <4>1
      <3>4. ~ cancelled /\ consumer # "failed" => got \o todo' = Meaning(h)
        <4>1. SUFFICES ASSUME ~ cancelled, consumer # "failed"
                       PROVE  got \o todo' = Meaning(h)
          OBVIOUS
        <4>2. OpenAIParser(response, h, open, args, usage)
          BY <1>2, <2>3, <4>1 DEF FaithInv, ParserInv
        <4>3. OpenAIMeaning(response, h) = Texts(response, Said(response, h)) \o Finalized
          BY <1>3, <4>2, FinalMeans DEF StreamInv
        <4> QED  BY <1>6, <2>3, <3>1, <4>1, <4>3 DEF Meaning, Spoken
      <3>5. Faithful'
        BY <1>1, <1>3, <1>5, <1>6, <3>1, <3>3, <3>4 DEF Faithful, Working
      <3>6. Lone'
        BY <1>5, <3>2 DEF Lone
      <3>7. Ending'
        BY <1>1, <1>4, <1>5, <2>1, <2>2, <3>1 DEF Ending, Working
      <3> QED  BY <1>5, <3>5, <3>6, <3>7 DEF FaithInv
    <2>4. CASE protocol # "openai"
      <3>1. todo' = <<>> /\ pump' = "leave"
        BY <1>8, <2>4 DEF SeesClosed, Tell
      <3>2. Meaning(h) = Spoken(h)
        BY <2>4 DEF Meaning, Spoken
      <3>3. Faithful'
        BY <1>1, <1>3, <1>5, <1>6, <3>1, <3>2 DEF Faithful, Working
      <3>4. Lone'
        BY <3>1 DEF Lone
      <3>5. Ending'
        BY <1>1, <1>4, <1>5, <2>1, <2>2, <3>1 DEF Ending, Working
      <3> QED  BY <1>5, <3>3, <3>4, <3>5 DEF FaithInv
    <2> QED  BY <2>3, <2>4
  <1> QED  BY <1>7, <1>8

(***************************************************************************)
(* Telling: what the consumer takes it had coming.                         *)
(***************************************************************************)
LEMMA PrefixOf ==
    ASSUME NEW V, NEW s \in Seq(V), NEW t \in Seq(V)
    PROVE  IsPrefix(s, s \o t)
  <1>1. /\ Len(s) \in Nat /\ Len(s \o t) = Len(s) + Len(t) /\ Len(t) \in Nat
        /\ \A i \in 1..Len(s) : (s \o t)[i] = s[i]
    OBVIOUS
  <1>2. SubSeq(s, 1, Len(s)) = s
    BY SubSeqFull
  <1>3. SubSeq(s \o t, 1, Len(s)) = s
    <2> DEFINE u == SubSeq(s \o t, 1, Len(s))
    <2>1. /\ u \in Seq(V)
          /\ Len(u) = IF 1 <= Len(s) THEN Len(s) - 1 + 1 ELSE 0
          /\ \A i \in 1..(Len(s) - 1 + 1) : u[i] = (s \o t)[1 + i - 1]
      <3>1. \A i \in 1..Len(s) : (s \o t)[i] \in V
        BY <1>1
      <3> QED  BY <1>1, <3>1, SubSeqProperties
    <2> HIDE DEF u
    <2>2. Len(u) = Len(s)
      BY <1>1, <2>1
    <2>3. \A i \in 1..Len(s) : u[i] = s[i]
      <3>1. \A i \in 1..Len(s) : 1 + i - 1 = i /\ i \in 1..(Len(s) - 1 + 1)
        BY <1>1
      <3> QED  BY <1>1, <2>1, <3>1
    <2>4. u = s
      BY <2>1, <2>2, <2>3, SeqEqual
    <2> QED  BY <2>4 DEF u
  <1> QED  BY <1>1, <1>2, <1>3 DEF IsPrefix

(***************************************************************************)
(* What a consumer without an error has is a prefix of what the frames     *)
(* handled mean, whether the rest is to be told, or not yet known to be.   *)
(***************************************************************************)
LEMMA GotPrefix ==
    ASSUME StreamInv, FaithInv, ~ cancelled, consumer # "failed"
    PROVE  IsPrefix(got, Meaning(Handled))
  <1>1. PICK h : h = Handled
    OBVIOUS
  <1>2. h \in Nat /\ got \in Seq(Events(read)) /\ todo \in Seq(Events(read))
    BY <1>1, HandledFacts
  <1>3. Finalized \in Seq(Events(read))
    BY FinalizedTells DEF StreamInv
  <1>4. protocol = "openai" => Meaning(h) = Spoken(h) \o Finalized
    <2>1. SUFFICES ASSUME protocol = "openai"
                   PROVE  Meaning(h) = Spoken(h) \o Finalized
      OBVIOUS
    <2>2. OpenAIParser(response, h, open, args, usage)
      BY <1>1, <2>1 DEF FaithInv, ParserInv
    <2> QED  BY <1>2, <2>1, <2>2, FinalMeans DEF StreamInv, Meaning, Spoken
  <1>5. protocol # "openai" => Meaning(h) = Spoken(h)
    BY DEF Meaning, Spoken
  <1>6. /\ todo = <<Failure>> => got = Spoken(h)
        /\ todo # <<Failure>> => got \o todo = IF Working THEN Spoken(h) ELSE Meaning(h)
    BY <1>1 DEF FaithInv, Faithful
  <1>7. CASE todo = <<Failure>>
    <2>1. CASE protocol = "openai"
      <3>1. Meaning(h) = got \o Finalized
        BY <1>4, <1>6, <1>7, <2>1
      <3> QED  BY <1>1, <1>2, <1>3, <3>1, PrefixOf
    <2>2. CASE protocol # "openai"
      <3>1. Meaning(h) = got \o <<>> /\ <<>> \in Seq(Events(read))
        BY <1>2, <1>5, <1>6, <1>7, <2>2
      <3> QED  BY <1>1, <1>2, <3>1, PrefixOf
    <2> QED  BY <1>1, <2>1, <2>2
  <1>8. CASE todo # <<Failure>>
    <2>1. CASE protocol = "openai" /\ Working
      <3>1. Meaning(h) = (got \o todo) \o Finalized
        BY <1>4, <1>6, <1>8, <2>1
      <3>2. /\ (got \o todo) \o Finalized = got \o (todo \o Finalized)
            /\ todo \o Finalized \in Seq(Events(read))
        BY <1>2, <1>3, ConcatAssociative, ConcatProperties
      <3> QED  BY <1>1, <1>2, <3>1, <3>2, PrefixOf
    <2>2. CASE ~ (protocol = "openai" /\ Working)
      <3>1. Meaning(h) = got \o todo
        BY <1>5, <1>6, <1>8, <2>2
      <3> QED  BY <1>1, <1>2, <3>1, PrefixOf
    <2> QED  BY <2>1, <2>2
  <1> QED  BY <1>7, <1>8

LEMMA TellingFaith ==
    ASSUME StreamInv, FaithInv, Receive \/ DropEvent \/ PumpLeaves \/ SeesEnd
    PROVE  FaithInv'
  <1>1. /\ UNCHANGED <<protocol, response, sent, body, cancelled, reader, read, open, args, usage>>
        /\ Handled' = Handled
    BY DEF Receive, DropEvent, PumpLeaves, SeesEnd, server, wire, source, parser, Handled
  <1>2. PICK h : h = Handled
    OBVIOUS
  <1>3. /\ h = Handled' /\ h \in Nat
        /\ got \in Seq(Events(read)) /\ todo \in Seq(Events(read))
    BY <1>1, <1>2, HandledFacts
  <1>4. /\ ParserInv'
        /\ \A k : Meaning(k)' = Meaning(k) /\ Spoken(k)' = Spoken(k)
        /\ Failure' = Failure
    BY <1>1, <1>2, <1>3 DEF FaithInv, ParserInv, Meaning, Spoken, Failure
  <1>5. CASE PumpLeaves
    <2>1. pump = "leave" /\ pump' = "gone" /\ todo' = todo /\ consumer' = consumer /\ got' = got
      BY <1>5 DEF PumpLeaves, sink
    <2>2. Lone'
      BY <1>4, <2>1 DEF FaithInv, Lone
    <2>3. ~Working /\ ~Working'
      BY <2>1 DEF Working
    <2>4. Faithful'
      BY <1>1, <1>2, <1>3, <1>4, <2>1, <2>3 DEF FaithInv, Faithful
    <2>5. Ending'
      BY <1>1, <1>2, <1>3, <1>4, <2>1, <2>3 DEF FaithInv, Ending
    <2> QED  BY <1>4, <2>2, <2>4, <2>5 DEF FaithInv
  <1>6. CASE SeesEnd
    <2>1. pump = "gone" /\ pump' = pump /\ todo' = todo /\ consumer = "recv"
          /\ consumer' = "done" /\ got' = got
      BY <1>6 DEF SeesEnd
    <2>2. Lone'
      BY <1>4, <2>1 DEF FaithInv, Lone
    <2>3. ~Working /\ ~Working'
      BY <2>1 DEF Working
    <2>4. Faithful'
      BY <1>1, <1>2, <1>3, <1>4, <2>1, <2>3 DEF FaithInv, Faithful
    <2>5. Ending'
      BY <1>1, <1>2, <1>3, <1>4, <2>1, <2>3 DEF FaithInv, Ending
    <2> QED  BY <1>4, <2>2, <2>4, <2>5 DEF FaithInv
  <1>7. CASE Receive \/ DropEvent
    <2>1. /\ todo # <<>> /\ Advance
      BY <1>7 DEF Receive, DropEvent
    <2>2. /\ todo' \in Seq(Events(read))
          /\ \A i \in DOMAIN todo' : todo'[i] = todo[i + 1] /\ i + 1 \in DOMAIN todo
          /\ Head(todo) = todo[1] /\ 1 \in DOMAIN todo /\ todo[1] \in Events(read)
      BY <2>1, AdvanceKeepsTypes
    <2>3. /\ pump \in {"emit", "last"} /\ todo' = Tail(todo)
          /\ Working' <=> Working
          /\ consumer' = "done" => consumer = "done"
      <3>1. pump \in {"emit", "last"}
        BY <2>1 DEF StreamInv, StreamTypeOK
      <3>2. Working' <=> Working
        BY <2>1, <3>1 DEF Advance, Working
      <3> QED  BY <1>7, <2>1, <3>1, <3>2 DEF Advance, Receive, DropEvent, sink
    <2>4. \A i \in DOMAIN todo' : todo'[i] # Failure
      <3>1. ASSUME NEW i \in DOMAIN todo', todo'[i] = Failure
            PROVE  FALSE
        <4>1. i \in Nat /\ i >= 1 /\ todo[i + 1] = Failure /\ i + 1 \in DOMAIN todo
          BY <2>2, <3>1
        <4>2. i + 1 = 1
          BY <4>1 DEF FaithInv, Lone
        <4> QED  BY <4>1, <4>2
      <3> QED  BY <3>1
    <2>5. Lone'
      BY <1>4, <2>4 DEF Lone
    <2>6. consumer' = "done" => pump' = "gone"
      BY <2>3 DEF FaithInv, Ending
    <2>7. CASE cancelled
      BY <1>1, <2>5, <2>6, <2>7, CancelledFaith
    <2>8. CASE ~ cancelled
      <3>1. Receive /\ consumer = "recv"
        BY <1>7, <2>8 DEF DropEvent, Receive
      <3>2. todo' # <<Failure>>
        <4>1. todo' = <<Failure>> => 1 \in DOMAIN todo' /\ todo'[1] = Failure
          OBVIOUS
        <4> QED  BY <2>4, <4>1
      <3> DEFINE All == IF Working THEN Spoken(h) ELSE Meaning(h)
      <3>3. todo # <<Failure>> => got \o todo = All
        BY <1>2, <2>8, <3>1 DEF FaithInv, Faithful
      <3>4. todo = <<Failure>> => got = Spoken(h)
        BY <1>2, <2>8, <3>1 DEF FaithInv, Faithful
      <3>5. CASE Head(todo).kind = "error"
        <4>1. consumer' = "failed" /\ got' = got
          BY <3>1, <3>5 DEF Receive
        <4>2. \E k \in 0..h : IsPrefix(got, Meaning(k))
          <5>1. h \in 0..h
            BY <1>3
          <5>2. IsPrefix(got, Meaning(h))
            BY <1>2, <2>8, <3>1, GotPrefix
          <5> QED  BY <5>1, <5>2
        <4>3. Faithful'
          BY <1>3, <1>4, <4>1, <4>2 DEF Faithful
        <4>4. Ending'
          BY <1>1, <1>2, <1>3, <2>3, <2>6, <2>8, <4>1 DEF FaithInv, Ending
        <4> QED  BY <1>4, <2>5, <4>3, <4>4 DEF FaithInv
      <3>6. CASE Head(todo).kind # "error"
        <4>1. consumer' = consumer /\ got' = Append(got, Head(todo))
          BY <3>1, <3>6 DEF Receive
        <4>2. todo # <<Failure>>
          <5>1. Failure.kind = "error"
            BY DEF Failure, Event
          <5>2. todo = <<Failure>> => todo[1] = Failure
            OBVIOUS
          <5> QED  BY <2>2, <3>6, <5>1, <5>2
        <4>3. got' \o todo' = got \o todo
          <5> DEFINE V == Events(read)
          <5>1. got \in Seq(V) /\ todo \in Seq(V) /\ todo # <<>>
            BY <1>3, <2>1
          <5> HIDE DEF V
          <5>2. Append(got, Head(todo)) \o Tail(todo) = got \o todo
            BY <5>1
          <5> QED  BY <2>3, <4>1, <5>2
        <4>4. Faithful'
          BY <1>1, <1>3, <1>4, <2>3, <3>1, <3>2, <3>3, <4>1, <4>2, <4>3 DEF Faithful
        <4>5. Ending'
          BY <1>1, <1>2, <1>3, <1>4, <2>3, <2>6, <4>1, <4>2 DEF FaithInv, Ending
        <4> QED  BY <1>4, <2>5, <4>4, <4>5 DEF FaithInv
      <3> QED  BY <3>5, <3>6
    <2> QED  BY <2>7, <2>8
  <1> QED  BY <1>5, <1>6, <1>7

LEMMA FaithStep ==
    ASSUME StreamInv, FaithInv, [StreamNext]_streamVars
    PROVE  FaithInv'
  <1>1. CASE StreamNext
    BY <1>1, SourceFaith, FrameFaith, SelectFaith, TellingFaith DEF StreamNext, PumpStep
  <1>2. CASE UNCHANGED streamVars
    <2>1. /\ UNCHANGED <<protocol, response, sent, body, cancelled, reader, read, open, args,
                         usage, pump, todo, consumer, got>>
          /\ Handled' = Handled
      BY <1>2 DEF streamVars, server, wire, source, parser, sink, Handled
    <2>2. PICK h : h = Handled
      OBVIOUS
    <2>3. h = Handled'
      BY <2>1, <2>2
    <2> QED  BY <2>1, <2>2, <2>3 DEF FaithInv, ParserInv, Faithful, Lone, Ending, Working,
         Spoken, Meaning, Failure
  <1> QED  BY <1>1, <1>2

LEMMA FaithMeans ==
    ASSUME StreamInv, FaithInv
    PROVE  Prefix /\ CleanMeansAll
  <1>1. PICK h : h = Handled
    OBVIOUS
  <1>2. /\ h \in Nat /\ h <= read /\ read <= sent /\ read \in Nat /\ sent \in Nat
        /\ sent <= Len(response) /\ Len(response) \in Nat /\ response \in Seq(Frame)
        /\ got \in Seq(Events(read)) /\ todo \in Seq(Events(read))
        /\ pump \in {"select", "leave", "gone"} <=> todo = <<>>
    <2>1. sent <= Len(response)
      BY HandledFacts DEF StreamInv, StreamTypeOK
    <2> QED  BY <1>1, <2>1, HandledFacts
  <1>3. Prefix
    <2>1. SUFFICES ASSUME ~ cancelled
                   PROVE  \E k \in 0..read : IsPrefix(got, Meaning(k))
      BY DEF Prefix
    <2>2. CASE consumer = "failed"
      <3>1. PICK k \in 0..h : IsPrefix(got, Meaning(k))
        BY <1>1, <2>1, <2>2 DEF FaithInv, Faithful
      <3>2. k \in 0..read
        BY <1>2
      <3> QED  BY <3>1, <3>2
    <2>3. CASE consumer # "failed"
      <3>1. IsPrefix(got, Meaning(h))
        BY <1>1, <2>1, <2>3, GotPrefix
      <3>2. h \in 0..read
        BY <1>2
      <3> QED  BY <3>1, <3>2
    <2> QED  BY <2>2, <2>3
  <1>4. CleanMeansAll
    <2>1. SUFFICES ASSUME consumer = "done", ~ cancelled, body # "broken"
                   PROVE  got = Meaning(sent)
      BY DEF CleanMeansAll
    <2>2. pump = "gone" /\ todo = <<>> /\ ~Working
      BY <1>2, <2>1 DEF FaithInv, Ending, Working
    <2>3. todo # <<Failure>> /\ got \o <<>> = got
      BY <1>2, <2>2
    <2>4. got = Meaning(h)
      BY <1>1, <2>1, <2>2, <2>3 DEF FaithInv, Faithful
    <2>5. \/ protocol = "openai" /\ \E n \in 1..h : response[n].kind = "end"
          \/ reader = "gone" /\ body = "ended" /\ read = sent
      BY <1>1, <2>1, <2>2, <2>3 DEF FaithInv, Ending
    <2>6. CASE protocol = "openai" /\ \E n \in 1..h : response[n].kind = "end"
      <3>1. h \in 1..Len(response) /\ sent \in h..Len(response)
        BY <1>2, <2>6
      <3>2. OpenAIMeaning(response, sent) = OpenAIMeaning(response, h)
        BY <1>2, <2>6, <3>1, TextsGrow
      <3> QED  BY <2>4, <2>6, <3>2 DEF Meaning
    <2>7. CASE reader = "gone" /\ read = sent
      BY <1>1, <2>4, <2>7 DEF Handled
    <2> QED  BY <2>5, <2>6, <2>7
  <1> QED  BY <1>3, <1>4

(***************************************************************************)
(* For every response of either protocol, and whatever breaks: while the   *)
(* context is not done, what the consumer has is a prefix of what some of  *)
(* the frames read so far mean.                                            *)
(***************************************************************************)
THEOREM Reading == StreamSpec => []Prefix
  <1>1. StreamInit => StreamInv /\ FaithInv
    BY ErrorsStart, FaithStart
  <1>2. StreamInv /\ FaithInv /\ [StreamNext]_streamVars => FaithInv'
    BY FaithStep
  <1>3. StreamInv /\ FaithInv => Prefix
    BY FaithMeans
  <1> QED  BY <1>1, <1>2, <1>3, StreamSafety, PTL DEF StreamSpec

(***************************************************************************)
(* For every response of either protocol: an answer without an error, from *)
(* a body that did not break under a context that was not done, is all     *)
(* that the frames sent mean.                                              *)
(***************************************************************************)
THEOREM Completeness == StreamSpec => []CleanMeansAll
  <1>1. StreamInit => StreamInv /\ FaithInv
    BY ErrorsStart, FaithStart
  <1>2. StreamInv /\ FaithInv /\ [StreamNext]_streamVars => FaithInv'
    BY FaithStep
  <1>3. StreamInv /\ FaithInv => CleanMeansAll
    BY FaithMeans
  <1> QED  BY <1>1, <1>2, <1>3, StreamSafety, PTL DEF StreamSpec

================================================================================
