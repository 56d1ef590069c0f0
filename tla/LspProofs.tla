-------------------------------- MODULE LspProofs --------------------------------
(***************************************************************************)
(* Proofs about Lsp, for any number of refreshes, servers, edits and       *)
(* names of the file: the state that agent, refreshes and Close share is   *)
(* coherent, and no file that was noted is forgotten.                      *)
(***************************************************************************)
EXTENDS Lsp, TLAPS

(***************************************************************************)
(* The constants, as the proofs use them.                                  *)
(***************************************************************************)
LEMMA Facts ==
    /\ None \notin Names /\ None \notin Servers /\ None \notin Texts
    /\ Agent \notin Refreshers /\ Workers = {Agent} \cup Refreshers
    /\ Servers \subseteq Nat /\ MaxEdits \in Nat /\ MaxScheduled \in Nat \ {0}
    /\ \A call \in Calls : call.path \in Names \cup {None}
  BY NameAssumption, WorkerAssumption, CallAssumption, EditAssumption,
     ScheduleAssumption DEF Texts, Workers

(***************************************************************************)
(* A refresh that was told nothing.                                        *)
(***************************************************************************)
LEMMA TellNone == <<>> \in UNION {[asked -> BOOLEAN] : asked \in SUBSET Names}
  <1>1. <<>> \in [{} -> BOOLEAN]
    OBVIOUS
  <1>2. {} \in SUBSET Names
    OBVIOUS
  <1> QED  BY <1>1, <1>2

(***************************************************************************)
(* What a refresh was told, with one more name.                            *)
(***************************************************************************)
LEMMA TellOne ==
    ASSUME NEW f, NEW A \in SUBSET Names, f \in [A -> BOOLEAN],
           NEW n \in Names, NEW b \in BOOLEAN
    PROVE  With(f, n, b) \in UNION {[asked -> BOOLEAN] : asked \in SUBSET Names}
  <1>1. With(f, n, b) \in [A \cup {n} -> BOOLEAN]
    BY DEF With
  <1> QED  BY <1>1

(***************************************************************************)
(* What a notification does to the count: didOpen adds one.                *)
(***************************************************************************)
LEMMA SendOpens ==
    ASSUME TypeOK, NEW w \in Workers, client[w] \in Servers, Send(w)
    PROVE  \/ opens' = opens
           \/ ~already[w] /\ opens' = [opens EXCEPT ![client[w]] = @ + 1]
  <1>1. CASE life[client[w]] # "up"
    BY <1>1 DEF Send
  <1>2. CASE life[client[w]] = "up" /\ already[w]
    <2>1. opens' = [opens EXCEPT ![client[w]] = @]
      BY <1>2 DEF Send
    <2> QED  BY <2>1 DEF TypeOK
  <1>3. CASE life[client[w]] = "up" /\ ~already[w]
    <2>1. opens' = [opens EXCEPT ![client[w]] = @ + 1]
      BY <1>3 DEF Send
    <2> QED  BY <1>3, <2>1
  <1> QED  BY <1>1, <1>2, <1>3

(***************************************************************************)
(* An answer keeps the types of what it sets.                              *)
(***************************************************************************)
LEMMA AnswerTypes ==
    ASSUME TypeOK, NEW w \in Workers, path[w] \in Names,
           NEW found \in BOOLEAN, Answer(w, found)
    PROVE  /\ pc' \in [Workers -> {"idle", "hook", "schedule", "next", "lookup",
                                    "init", "read", "mark", "send", "look",
                                    "store", "panic"}]
           /\ fresh' \in [Refreshers -> UNION {[asked -> BOOLEAN] : asked \in SUBSET Names}]
           /\ path' \in [Workers -> Names \cup {None}]
           /\ client' \in [Workers -> Servers \cup {None}]
           /\ text' \in [Workers -> Texts \cup {None}]
           /\ already' \in [Workers -> BOOLEAN]
           /\ paths' = paths
  <1> USE Facts DEF TypeOK, Answer, Goto
  <1>1. fresh' \in [Refreshers -> UNION {[asked -> BOOLEAN] : asked \in SUBSET Names}]
    <2>1. CASE w = Agent
      BY <2>1
    <2>2. CASE w \in Refreshers
      <3>1. PICK A \in SUBSET Names : fresh[w] \in [A -> BOOLEAN]
        BY <2>2
      <3>2. With(fresh[w], path[w], found)
              \in UNION {[asked -> BOOLEAN] : asked \in SUBSET Names}
        BY <3>1, TellOne
      <3> QED  BY <2>2, <3>2
    <2> QED  BY <2>1, <2>2
  <1> QED  BY <1>1

(***************************************************************************)
(* Every step keeps the types.                                             *)
(***************************************************************************)
LEMMA TypeStep ==
    ASSUME TypeOK, AskInv, OpenedOnce, [Next]_vars
    PROVE  TypeOK'
  <1> USE Facts
      DEF TypeOK, Texts, session, work, query, manager,
          server
  <1>1. ASSUME NEW call \in Calls, Mutate(call)
        PROVE  TypeOK'
    <2>1. edited' \in Names \cup {None} /\ disk' \in Texts
      BY <1>1 DEF Mutate, EditedPath
    <2> QED  BY <1>1, <2>1 DEF Mutate, At, Goto
  <1>2. ASSUME NEW n \in Names, Query(n)
        PROVE  TypeOK'
    BY <1>2 DEF Query, At, Goto
  <1>3. ASSUME Note
        PROVE  TypeOK'
    BY <1>3 DEF Note, At, Goto
  <1>4. ASSUME Schedule
        PROVE  TypeOK'
    BY <1>4 DEF Schedule, Scheduled, At, Goto
  <1>5. ASSUME NEW r \in Refreshers, TakeEditedFiles(r)
        PROVE  TypeOK'
    BY <1>5 DEF TakeEditedFiles, At, Goto
  <1>6. ASSUME NEW r \in Refreshers, NextPath(r)
        PROVE  TypeOK'
    BY <1>6 DEF NextPath, At, Goto
  <1>7. ASSUME NEW r \in Refreshers, Store(r)
        PROVE  TypeOK'
    <2>1. diagnostics' \in SUBSET Names
      <3>1. PICK A \in SUBSET Names : fresh[r] \in [A -> BOOLEAN]
        BY Facts
      <3> QED  BY <1>7, <3>1 DEF Store
    <2>2. fresh' \in [Refreshers -> UNION {[asked -> BOOLEAN] : asked \in SUBSET Names}]
      BY <1>7, TellNone DEF Store
    <2> QED  BY <1>7, <2>1, <2>2 DEF Store, At, Goto
  <1>8. ASSUME NEW w \in Workers, HasClient(w)
        PROVE  TypeOK'
    BY <1>8 DEF HasClient, At, Goto
  <1>9. ASSUME NEW w \in Workers, GivenUp(w)
        PROVE  TypeOK'
    <2>1. path[w] \in Names /\ FALSE \in BOOLEAN /\ Answer(w, FALSE)
      BY <1>9 DEF GivenUp, At, AskInv
    <2> QED  BY <1>9, <2>1, AnswerTypes DEF GivenUp, At
  <1>10. ASSUME NEW w \in Workers, Start(w)
         PROVE  TypeOK'
    BY <1>10 DEF Start, Unborn, At, Goto
  <1>11. ASSUME NEW w \in Workers, StartFails(w)
         PROVE  TypeOK'
    <2>1. path[w] \in Names /\ FALSE \in BOOLEAN /\ Answer(w, FALSE)
      BY <1>11 DEF StartFails, Unborn, At, AskInv
    <2> QED  BY <1>11, <2>1, AnswerTypes DEF StartFails, Unborn, At
  <1>12. ASSUME NEW w \in Workers, ReadFile(w)
         PROVE  TypeOK'
    BY <1>12 DEF ReadFile, At, Goto
  <1>13. ASSUME NEW w \in Workers, Mark(w)
         PROVE  TypeOK'
    BY <1>13 DEF Mark, At, Goto, AskInv
  <1>14. ASSUME NEW w \in Workers, Send(w)
         PROVE  TypeOK'
    <2>1. client[w] \in Servers /\ text[w] \in Texts
      BY <1>14 DEF Send, At, AskInv
    <2>2. opens' \in [Servers -> 0..2]
      <3>1. opens[client[w]] \in 0..2 /\ opens[client[w]] <= 1
        BY <2>1 DEF OpenedOnce
      <3>2. CASE opens' = opens
        BY <3>2
      <3>3. CASE opens' = [opens EXCEPT ![client[w]] = @ + 1]
        BY <2>1, <3>1, <3>3
      <3> QED  BY <1>14, <2>1, <3>2, <3>3, SendOpens
    <2>3. told' \in [Servers -> Texts \cup {None}]
      BY <1>14, <2>1 DEF Send
    <2> QED  BY <1>14, <2>2, <2>3 DEF Send, Goto
  <1>15. ASSUME NEW w \in Workers, Look(w)
         PROVE  TypeOK'
    <2>1. path[w] \in Names /\ diags[client[w]] \in BOOLEAN /\ Answer(w, diags[client[w]])
      BY <1>15 DEF Look, At, AskInv
    <2> QED  BY <1>15, <2>1, AnswerTypes DEF Look, At
  <1>16. ASSUME NEW w \in Workers, Initialized(w)
         PROVE  TypeOK'
    BY <1>16 DEF Initialized, At, Goto
  <1>17. ASSUME NEW w \in Workers, InitFails(w)
         PROVE  TypeOK'
    <2>1. path[w] \in Names /\ FALSE \in BOOLEAN /\ Answer(w, FALSE)
      BY <1>17 DEF InitFails, At, AskInv
    <2> QED  BY <1>17, <2>1, AnswerTypes DEF InitFails, At
  <1>18. ASSUME NEW s \in Servers, Publish(s)
         PROVE  TypeOK'
    BY <1>18 DEF Publish, Alive
  <1>19. ASSUME NEW s \in Servers, ServerDies(s)
         PROVE  TypeOK'
    BY <1>19 DEF ServerDies, Alive, Gone
  <1>20. ASSUME Shutdown
         PROVE  TypeOK'
    BY <1>20 DEF Shutdown
  <1>21. ASSUME Kill
         PROVE  TypeOK'
    BY <1>21 DEF Kill, Gone
  <1>22. ASSUME ForgetService
         PROVE  TypeOK'
    BY <1>22 DEF ForgetService
  <1>23. ASSUME NEW s \in Servers, StopsReading(s)
         PROVE  TypeOK'
    BY <1>23 DEF StopsReading
  <1>24. CASE UNCHANGED vars
    BY <1>24 DEF vars
  <1> QED
    BY <1>1, <1>2, <1>3, <1>4, <1>5, <1>6, <1>7, <1>8, <1>9, <1>10, <1>11,
       <1>12, <1>13, <1>14, <1>15, <1>16, <1>17, <1>18, <1>19, <1>20, <1>21,
       <1>22, <1>23,
       <1>24 DEF Next, AgentStep, HookStep, RefreshStep, AskStep, CloseStep

(***************************************************************************)
(* A worker that asks keeps its name, its server and its text.             *)
(***************************************************************************)
LEMMA AskStepOK ==
    ASSUME TypeOK, AskInv, [Next]_vars
    PROVE  AskInv'
  <1> USE Facts
      DEF TypeOK, AskInv, Texts, session, work, query,
          manager, server
  <1>1. ASSUME NEW call \in Calls, Mutate(call)
        PROVE  AskInv'
    BY <1>1 DEF Mutate, At, Goto
  <1>2. ASSUME NEW n \in Names, Query(n)
        PROVE  AskInv'
    BY <1>2 DEF Query, At, Goto
  <1>3. ASSUME Note
        PROVE  AskInv'
    BY <1>3 DEF Note, At, Goto
  <1>4. ASSUME Schedule
        PROVE  AskInv'
    BY <1>4 DEF Schedule, Scheduled, At, Goto
  <1>5. ASSUME NEW r \in Refreshers, TakeEditedFiles(r)
        PROVE  AskInv'
    BY <1>5 DEF TakeEditedFiles, At, Goto
  <1>6. ASSUME NEW r \in Refreshers, NextPath(r)
        PROVE  AskInv'
    BY <1>6 DEF NextPath, At, Goto
  <1>7. ASSUME NEW r \in Refreshers, Store(r)
        PROVE  AskInv'
    BY <1>7 DEF Store, At, Goto
  <1>8. ASSUME NEW w \in Workers, HasClient(w)
        PROVE  AskInv'
    BY <1>8 DEF HasClient, At, Goto
  <1>9. ASSUME NEW w \in Workers, GivenUp(w)
        PROVE  AskInv'
    BY <1>9 DEF GivenUp, Answer, At, Goto
  <1>10. ASSUME NEW w \in Workers, Start(w)
         PROVE  AskInv'
    BY <1>10 DEF Start, Unborn, At, Goto
  <1>11. ASSUME NEW w \in Workers, StartFails(w)
         PROVE  AskInv'
    BY <1>11 DEF StartFails, Unborn, Answer, At, Goto
  <1>12. ASSUME NEW w \in Workers, ReadFile(w)
         PROVE  AskInv'
    BY <1>12 DEF ReadFile, At, Goto
  <1>13. ASSUME NEW w \in Workers, Mark(w)
         PROVE  AskInv'
    BY <1>13 DEF Mark, At, Goto
  <1>14. ASSUME NEW w \in Workers, Send(w)
         PROVE  AskInv'
    BY <1>14 DEF Send, At, Goto
  <1>15. ASSUME NEW w \in Workers, Look(w)
         PROVE  AskInv'
    BY <1>15 DEF Look, Answer, At, Goto
  <1>16. ASSUME NEW w \in Workers, Initialized(w)
         PROVE  AskInv'
    BY <1>16 DEF Initialized, At, Goto
  <1>17. ASSUME NEW w \in Workers, InitFails(w)
         PROVE  AskInv'
    BY <1>17 DEF InitFails, Answer, At, Goto
  <1>18. ASSUME NEW s \in Servers, Publish(s)
         PROVE  AskInv'
    BY <1>18 DEF Publish, Alive
  <1>19. ASSUME NEW s \in Servers, ServerDies(s)
         PROVE  AskInv'
    BY <1>19 DEF ServerDies, Alive, Gone
  <1>20. ASSUME Shutdown
         PROVE  AskInv'
    BY <1>20 DEF Shutdown
  <1>21. ASSUME Kill
         PROVE  AskInv'
    BY <1>21 DEF Kill, Gone
  <1>22. ASSUME ForgetService
         PROVE  AskInv'
    BY <1>22 DEF ForgetService
  <1>23. ASSUME NEW s \in Servers, StopsReading(s)
         PROVE  AskInv'
    BY <1>23 DEF StopsReading
  <1>24. CASE UNCHANGED vars
    BY <1>24 DEF vars
  <1> QED
    BY <1>1, <1>2, <1>3, <1>4, <1>5, <1>6, <1>7, <1>8, <1>9, <1>10, <1>11,
       <1>12, <1>13, <1>14, <1>15, <1>16, <1>17, <1>18, <1>19, <1>20, <1>21,
       <1>22, <1>23,
       <1>24 DEF Next, AgentStep, HookStep, RefreshStep, AskStep, CloseStep

(***************************************************************************)
(* One server starts at a time, and only after no other has failed.        *)
(***************************************************************************)
LEMMA StartStep ==
    ASSUME TypeOK, AskInv, OneFork, NoOrphan, StartInv, [Next]_vars
    PROVE  StartInv'
  <1> USE Facts
      DEF TypeOK, AskInv, StartInv, OneFork, session, work,
          query, manager, server
  <1>1. ASSUME NEW call \in Calls, Mutate(call)
        PROVE  StartInv'
    BY <1>1 DEF Mutate, At, Goto
  <1>2. ASSUME NEW n \in Names, Query(n)
        PROVE  StartInv'
    BY <1>2 DEF Query, At, Goto
  <1>3. ASSUME Note
        PROVE  StartInv'
    BY <1>3 DEF Note, At, Goto
  <1>4. ASSUME Schedule
        PROVE  StartInv'
    BY <1>4 DEF Schedule, Scheduled, At, Goto
  <1>5. ASSUME NEW r \in Refreshers, TakeEditedFiles(r)
        PROVE  StartInv'
    BY <1>5 DEF TakeEditedFiles, At, Goto
  <1>6. ASSUME NEW r \in Refreshers, NextPath(r)
        PROVE  StartInv'
    BY <1>6 DEF NextPath, At, Goto
  <1>7. ASSUME NEW r \in Refreshers, Store(r)
        PROVE  StartInv'
    BY <1>7 DEF Store, At, Goto
  <1>8. ASSUME NEW w \in Workers, HasClient(w)
        PROVE  StartInv'
    BY <1>8 DEF HasClient, At, Goto
  <1>9. ASSUME NEW w \in Workers, GivenUp(w)
        PROVE  StartInv'
    BY <1>9 DEF GivenUp, Answer, At, Goto
  <1>10. ASSUME NEW w \in Workers, Start(w)
         PROVE  StartInv'
    BY <1>10 DEF Start, Unborn, At, Goto
  <1>11. ASSUME NEW w \in Workers, StartFails(w)
         PROVE  StartInv'
    <2>1. clients' = None /\ failed' /\ UNCHANGED closer
      BY <1>11 DEF StartFails
    <2>2. \A v \in Workers : pc'[v] # "init"
      BY <1>11 DEF StartFails, Answer, Goto
    <2>3. PICK s \in Servers : life[s] = "unused" /\ life' = [life EXCEPT ![s] = "failed"]
      BY <1>11 DEF StartFails, Unborn
    <2>4. closer.server # None => life'[closer.server] = life[closer.server]
      BY <2>3
    <2> QED  BY <2>1, <2>2, <2>4
  <1>12. ASSUME NEW w \in Workers, ReadFile(w)
         PROVE  StartInv'
    <2>1. UNCHANGED <<clients, failed, client, life, closer>>
      BY <1>12 DEF ReadFile
    <2>2. \A v \in Workers : pc'[v] = "init" => pc[v] = "init"
      BY <1>12 DEF ReadFile, Goto
    <2> QED  BY <2>1, <2>2
  <1>13. ASSUME NEW w \in Workers, Mark(w)
         PROVE  StartInv'
    BY <1>13 DEF Mark, At, Goto
  <1>14. ASSUME NEW w \in Workers, Send(w)
         PROVE  StartInv'
    BY <1>14 DEF Send, At, Goto
  <1>15. ASSUME NEW w \in Workers, Look(w)
         PROVE  StartInv'
    BY <1>15 DEF Look, Answer, At, Goto
  <1>16. ASSUME NEW w \in Workers, Initialized(w)
         PROVE  StartInv'
    BY <1>16 DEF Initialized, At, Goto
  <1>17. ASSUME NEW w \in Workers, InitFails(w)
         PROVE  StartInv'
    BY <1>17 DEF InitFails, Answer, At, Goto
  <1>18. ASSUME NEW s \in Servers, Publish(s)
         PROVE  StartInv'
    BY <1>18 DEF Publish, Alive
  <1>19. ASSUME NEW s \in Servers, ServerDies(s)
         PROVE  StartInv'
    BY <1>19 DEF ServerDies, Alive, Gone
  <1>20. ASSUME Shutdown
         PROVE  StartInv'
    BY <1>20 DEF Shutdown
  <1>21. ASSUME Kill
         PROVE  StartInv'
    BY <1>21 DEF Kill, Gone
  <1>22. ASSUME ForgetService
         PROVE  StartInv'
    BY <1>22 DEF ForgetService
  <1>23. ASSUME NEW s \in Servers, StopsReading(s)
         PROVE  StartInv'
    BY <1>23 DEF StopsReading
  <1>24. CASE UNCHANGED vars
    BY <1>24 DEF vars
  <1> QED
    BY <1>1, <1>2, <1>3, <1>4, <1>5, <1>6, <1>7, <1>8, <1>9, <1>10, <1>11,
       <1>12, <1>13, <1>14, <1>15, <1>16, <1>17, <1>18, <1>19, <1>20, <1>21,
       <1>22, <1>23,
       <1>24 DEF Next, AgentStep, HookStep, RefreshStep, AskStep, CloseStep

(***************************************************************************)
(* A server that failed stays the last.                                    *)
(***************************************************************************)
LEMMA ForkStep ==
    ASSUME TypeOK, AskInv, OneFork, NoOrphan, StartInv, [Next]_vars
    PROVE  OneFork'
  <1> USE Facts
      DEF TypeOK, AskInv, StartInv, OneFork, NoOrphan,
          session, work, query, manager, server
  <1>1. ASSUME NEW call \in Calls, Mutate(call)
        PROVE  OneFork'
    BY <1>1 DEF Mutate, At, Goto
  <1>2. ASSUME NEW n \in Names, Query(n)
        PROVE  OneFork'
    BY <1>2 DEF Query, At, Goto
  <1>3. ASSUME Note
        PROVE  OneFork'
    BY <1>3 DEF Note, At, Goto
  <1>4. ASSUME Schedule
        PROVE  OneFork'
    <2>1. UNCHANGED <<life, closer>>
      BY <1>4 DEF Schedule, Scheduled
    <2> QED  BY <2>1
  <1>5. ASSUME NEW r \in Refreshers, TakeEditedFiles(r)
        PROVE  OneFork'
    BY <1>5 DEF TakeEditedFiles, At, Goto
  <1>6. ASSUME NEW r \in Refreshers, NextPath(r)
        PROVE  OneFork'
    BY <1>6 DEF NextPath, At, Goto
  <1>7. ASSUME NEW r \in Refreshers, Store(r)
        PROVE  OneFork'
    BY <1>7 DEF Store, At, Goto
  <1>8. ASSUME NEW w \in Workers, HasClient(w)
        PROVE  OneFork'
    BY <1>8 DEF HasClient, At, Goto
  <1>9. ASSUME NEW w \in Workers, GivenUp(w)
        PROVE  OneFork'
    BY <1>9 DEF GivenUp, Answer, At, Goto
  <1>10. ASSUME NEW w \in Workers, Start(w)
         PROVE  OneFork'
    <2>1. \A s \in Servers : life[s] # "failed"
      BY <1>10 DEF Start
    <2>2. \A s \in Servers : life'[s] # "failed"
      BY ZenonT(60), <1>10, <2>1 DEF Start
    <2> QED  BY <2>2
  <1>11. ASSUME NEW w \in Workers, StartFails(w)
         PROVE  OneFork'
    <2>1. \A s \in Servers : life[s] # "failed"
      BY <1>11 DEF StartFails
    <2>2. \A s \in Servers :
            life[s] \in {"unused", "dead"} \/ closer.server = s
      <3>1. clients = None /\ \A v \in Workers : pc[v] # "init"
        BY <1>11 DEF StartFails
      <3>2. \A s \in Servers : s # None
        OBVIOUS
      <3>3. \A s \in Servers : life[s] \in {"starting", "up", "deaf"} => closer.server = s
        BY <3>1, <3>2
      <3>4. \A s \in Servers : life[s] \in {"unused", "starting", "up", "deaf", "failed", "dead"}
        OBVIOUS
      <3> QED  BY <2>1, <3>3, <3>4
    <2>3. PICK s \in Servers :
            Unborn(s) /\ life' = [life EXCEPT ![s] = "failed"]
      BY <1>11 DEF StartFails
    <2>4. closer' = closer /\ \A t \in Servers : life'[t] = IF t = s THEN "failed" ELSE life[t]
      BY <1>11, <2>3 DEF StartFails
    <2> QED  BY <2>1, <2>2, <2>4
  <1>12. ASSUME NEW w \in Workers, ReadFile(w)
         PROVE  OneFork'
    BY <1>12 DEF ReadFile, At, Goto
  <1>13. ASSUME NEW w \in Workers, Mark(w)
         PROVE  OneFork'
    BY <1>13 DEF Mark, At, Goto
  <1>14. ASSUME NEW w \in Workers, Send(w)
         PROVE  OneFork'
    BY <1>14 DEF Send, At, Goto
  <1>15. ASSUME NEW w \in Workers, Look(w)
         PROVE  OneFork'
    BY <1>15 DEF Look, Answer, At, Goto
  <1>16. ASSUME NEW w \in Workers, Initialized(w)
         PROVE  OneFork'
    BY <1>16 DEF Initialized, At, Goto
  <1>17. ASSUME NEW w \in Workers, InitFails(w)
         PROVE  OneFork'
    BY <1>17 DEF InitFails, Answer, At, Goto
  <1>18. ASSUME NEW s \in Servers, Publish(s)
         PROVE  OneFork'
    BY <1>18 DEF Publish, Alive
  <1>19. ASSUME NEW s \in Servers, ServerDies(s)
         PROVE  OneFork'
    BY <1>19 DEF ServerDies, Alive, Gone
  <1>20. ASSUME Shutdown
         PROVE  OneFork'
    BY <1>20 DEF Shutdown
  <1>21. ASSUME Kill
         PROVE  OneFork'
    BY <1>21 DEF Kill, Gone
  <1>22. ASSUME ForgetService
         PROVE  OneFork'
    BY <1>22 DEF ForgetService
  <1>23. ASSUME NEW s \in Servers, StopsReading(s)
         PROVE  OneFork'
    BY <1>23 DEF StopsReading
  <1>24. CASE UNCHANGED vars
    BY <1>24 DEF vars
  <1> QED
    BY <1>1, <1>2, <1>3, <1>4, <1>5, <1>6, <1>7, <1>8, <1>9, <1>10, <1>11,
       <1>12, <1>13, <1>14, <1>15, <1>16, <1>17, <1>18, <1>19, <1>20, <1>21,
       <1>22, <1>23,
       <1>24 DEF Next, AgentStep, HookStep, RefreshStep, AskStep, CloseStep

(***************************************************************************)
(* Every server that runs keeps an owner, or passes to the next one.       *)
(***************************************************************************)
LEMMA OwnerStep ==
    ASSUME TypeOK, AskInv, NoOrphan, StartInv, [Next]_vars
    PROVE  NoOrphan'
  <1> USE Facts
      DEF TypeOK, AskInv, StartInv, NoOrphan, session, work,
          query, manager, server
  <1>1. ASSUME NEW call \in Calls, Mutate(call)
        PROVE  NoOrphan'
    BY <1>1 DEF Mutate, At, Goto
  <1>2. ASSUME NEW n \in Names, Query(n)
        PROVE  NoOrphan'
    BY <1>2 DEF Query, At, Goto
  <1>3. ASSUME Note
        PROVE  NoOrphan'
    BY <1>3 DEF Note, At, Goto
  <1>4. ASSUME Schedule
        PROVE  NoOrphan'
    BY <1>4 DEF Schedule, Scheduled, At, Goto
  <1>5. ASSUME NEW r \in Refreshers, TakeEditedFiles(r)
        PROVE  NoOrphan'
    <2>1. UNCHANGED <<life, clients, closer, client>> /\ pc[r] # "init"
      BY <1>5 DEF TakeEditedFiles, At
    <2>2. \A v \in Workers : pc[v] = "init" => pc'[v] = "init"
      BY <1>5, <2>1 DEF TakeEditedFiles, Goto
    <2> HIDE DEF TypeOK, AskInv, StartInv, session, work, query, manager, server
    <2> QED  BY <2>1, <2>2
  <1>6. ASSUME NEW r \in Refreshers, NextPath(r)
        PROVE  NoOrphan'
    BY <1>6 DEF NextPath, At, Goto
  <1>7. ASSUME NEW r \in Refreshers, Store(r)
        PROVE  NoOrphan'
    BY <1>7 DEF Store, At, Goto
  <1>8. ASSUME NEW w \in Workers, HasClient(w)
        PROVE  NoOrphan'
    BY <1>8 DEF HasClient, At, Goto
  <1>9. ASSUME NEW w \in Workers, GivenUp(w)
        PROVE  NoOrphan'
    BY <1>9 DEF GivenUp, Answer, At, Goto
  <1>10. ASSUME NEW w \in Workers, Start(w)
         PROVE  NoOrphan'
    <2>1. \A v \in Workers : pc[v] # "init"
      BY <1>10 DEF Start
    <2>2. PICK s \in Servers :
            /\ Unborn(s)
            /\ life' = [life EXCEPT ![s] = "starting"]
            /\ client' = [client EXCEPT ![w] = s]
      BY <1>10 DEF Start
    <2>3. pc'[w] = "init" /\ client'[w] = s
      BY <1>10, <2>2 DEF Start, Goto
    <2>4. ASSUME NEW t \in Servers, t # s, life'[t] \in {"starting", "up", "deaf"}
          PROVE  clients = t \/ closer.server = t
      BY ZenonT(60), <2>1, <2>2, <2>4
    <2>5. UNCHANGED <<clients, closer>>
      BY <1>10 DEF Start
    <2> HIDE DEF TypeOK, AskInv, StartInv, session, work, query, server
    <2> QED  BY <2>3, <2>4, <2>5
  <1>11. ASSUME NEW w \in Workers, StartFails(w)
         PROVE  NoOrphan'
    <2>1. \A v \in Workers : pc[v] = "init" => v # w
      BY <1>11 DEF StartFails, At
    <2>2. PICK s \in Servers : life' = [life EXCEPT ![s] = "failed"]
      BY <1>11 DEF StartFails
    <2>3. \A t \in Servers :
            life'[t] \in {"starting", "up", "deaf"} => life[t] \in {"starting", "up", "deaf"}
      BY <2>2
    <2>4. \A v \in Workers : v # w => pc'[v] = pc[v] /\ client'[v] = client[v]
      BY <1>11 DEF StartFails, Answer, Goto
    <2>5. UNCHANGED <<clients, closer>>
      BY <1>11 DEF StartFails
    <2>6. ASSUME NEW t \in Servers, life'[t] \in {"starting", "up", "deaf"}
          PROVE  \/ clients' = t \/ closer'.server = t
                 \/ \E v \in Workers : pc'[v] = "init" /\ client'[v] = t
      <3>1. \/ clients = t \/ closer.server = t
            \/ \E v \in Workers : pc[v] = "init" /\ client[v] = t
        BY <2>3, <2>6
      <3> QED  BY <2>1, <2>4, <2>5, <3>1
    <2> QED  BY <2>6
  <1>12. ASSUME NEW w \in Workers, ReadFile(w)
         PROVE  NoOrphan'
    BY <1>12 DEF ReadFile, At, Goto
  <1>13. ASSUME NEW w \in Workers, Mark(w)
         PROVE  NoOrphan'
    BY <1>13 DEF Mark, At, Goto
  <1>14. ASSUME NEW w \in Workers, Send(w)
         PROVE  NoOrphan'
    BY <1>14 DEF Send, At, Goto
  <1>15. ASSUME NEW w \in Workers, Look(w)
         PROVE  NoOrphan'
    BY <1>15 DEF Look, Answer, At, Goto
  <1>16. ASSUME NEW w \in Workers, Initialized(w)
         PROVE  NoOrphan'
    BY <1>16 DEF Initialized, At, Goto
  <1>17. ASSUME NEW w \in Workers, InitFails(w)
         PROVE  NoOrphan'
    BY <1>17 DEF InitFails, Answer, At, Goto
  <1>18. ASSUME NEW s \in Servers, Publish(s)
         PROVE  NoOrphan'
    BY <1>18 DEF Publish, Alive
  <1>19. ASSUME NEW s \in Servers, ServerDies(s)
         PROVE  NoOrphan'
    BY <1>19 DEF ServerDies, Alive, Gone
  <1>20. ASSUME Shutdown
         PROVE  NoOrphan'
    BY <1>20 DEF Shutdown
  <1>21. ASSUME Kill
         PROVE  NoOrphan'
    BY <1>21 DEF Kill, Gone
  <1>22. ASSUME ForgetService
         PROVE  NoOrphan'
    BY <1>22 DEF ForgetService
  <1>23. ASSUME NEW s \in Servers, StopsReading(s)
         PROVE  NoOrphan'
    <2>1. UNCHANGED <<pc, client, clients, closer>>
      BY <1>23 DEF StopsReading
    <2>2. \A t \in Servers : life'[t] \in {"starting", "up", "deaf"} =>
                             life[t] \in {"starting", "up", "deaf"}
      BY <1>23 DEF StopsReading
    <2> HIDE DEF TypeOK, AskInv, StartInv, session, work, query, manager, server
    <2> QED  BY <2>1, <2>2
  <1>24. CASE UNCHANGED vars
    <2>1. UNCHANGED <<life, pc, client, clients, closer>>
      BY <1>24 DEF vars
    <2> HIDE DEF TypeOK, AskInv, StartInv, session, work, query, manager, server
    <2> QED  BY <2>1
  <1> HIDE DEF TypeOK, AskInv, StartInv, NoOrphan
  <1> QED
    BY <1>1, <1>2, <1>3, <1>4, <1>5, <1>6, <1>7, <1>8, <1>9, <1>10, <1>11,
       <1>12, <1>13, <1>14, <1>15, <1>16, <1>17, <1>18, <1>19, <1>20, <1>21,
       <1>22, <1>23,
       <1>24 DEF Next, AgentStep, HookStep, RefreshStep, AskStep, CloseStep

(***************************************************************************)
(* A file is opened at a server by one worker, once.                       *)
(***************************************************************************)
LEMMA OpenStep ==
    ASSUME TypeOK, AskInv, OpenedOnce, OpenInv, [Next]_vars
    PROVE  (OpenedOnce /\ OpenInv)'
  <1> USE Facts
      DEF TypeOK, AskInv, OpenedOnce, OpenInv, session, work,
          query, manager, server
  <1>1. ASSUME NEW call \in Calls, Mutate(call)
        PROVE  (OpenedOnce /\ OpenInv)'
    BY <1>1 DEF Mutate, At, Goto
  <1>2. ASSUME NEW n \in Names, Query(n)
        PROVE  (OpenedOnce /\ OpenInv)'
    BY <1>2 DEF Query, At, Goto
  <1>3. ASSUME Note
        PROVE  (OpenedOnce /\ OpenInv)'
    BY <1>3 DEF Note, At, Goto
  <1>4. ASSUME Schedule
        PROVE  (OpenedOnce /\ OpenInv)'
    BY <1>4 DEF Schedule, Scheduled, At, Goto
  <1>5. ASSUME NEW r \in Refreshers, TakeEditedFiles(r)
        PROVE  (OpenedOnce /\ OpenInv)'
    BY <1>5 DEF TakeEditedFiles, At, Goto
  <1>6. ASSUME NEW r \in Refreshers, NextPath(r)
        PROVE  (OpenedOnce /\ OpenInv)'
    BY <1>6 DEF NextPath, At, Goto
  <1>7. ASSUME NEW r \in Refreshers, Store(r)
        PROVE  (OpenedOnce /\ OpenInv)'
    BY <1>7 DEF Store, At, Goto
  <1>8. ASSUME NEW w \in Workers, HasClient(w)
        PROVE  (OpenedOnce /\ OpenInv)'
    BY <1>8 DEF HasClient, At, Goto
  <1>9. ASSUME NEW w \in Workers, GivenUp(w)
        PROVE  (OpenedOnce /\ OpenInv)'
    BY <1>9 DEF GivenUp, Answer, At, Goto
  <1>10. ASSUME NEW w \in Workers, Start(w)
         PROVE  (OpenedOnce /\ OpenInv)'
    BY <1>10 DEF Start, Unborn, At, Goto
  <1>11. ASSUME NEW w \in Workers, StartFails(w)
         PROVE  (OpenedOnce /\ OpenInv)'
    BY <1>11 DEF StartFails, Unborn, Answer, At, Goto
  <1>12. ASSUME NEW w \in Workers, ReadFile(w)
         PROVE  (OpenedOnce /\ OpenInv)'
    BY <1>12 DEF ReadFile, At, Goto
  <1>13. ASSUME NEW w \in Workers, Mark(w)
         PROVE  (OpenedOnce /\ OpenInv)'
    <2> DEFINE s == client[w]
    <2>1. s \in Servers /\ pc[w] = "mark"
      BY <1>13 DEF Mark, At
    <2>2. /\ opens' = opens /\ client' = client
          /\ opened' = [opened EXCEPT ![s] = TRUE]
          /\ pc' = [pc EXCEPT ![w] = "send"]
          /\ already' = [already EXCEPT ![w] = opened[s]]
      BY <1>13 DEF Mark, Goto
    <2> HIDE DEF s
    <2>3. OpenedOnce' /\ \A t \in Servers : ~opened'[t] => opens'[t] = 0
      BY <2>1, <2>2
    <2>4. \A v \in Workers : pc'[v] = "send" =>
            client[v] \in Servers /\ (opened[client[v]] \/ v = w)
      BY <2>1, <2>2
    <2>5. \A v \in Workers : pc'[v] = "send" => opened'[client[v]]
      BY <2>1, <2>2, <2>4 DEF s
    <2>6. ~opened[s] => opens[s] = 0 /\ \A v \in Workers :
                          pc'[v] = "send" /\ client[v] = s => v = w
      BY <2>1, <2>4
    <2>7. already'[w] = opened[s]
      BY <2>2
    <2>8. \A v \in Workers : v # w =>
            already'[v] = already[v] /\ pc'[v] = pc[v]
      BY <2>2
    <2>9. \A v \in Workers : pc'[v] = "send" /\ ~already'[v] => opens[client[v]] = 0
      BY <2>6, <2>7, <2>8 DEF s
    <2>10. \A v, u \in Workers :
             /\ pc'[v] = "send" /\ pc'[u] = "send"
             /\ ~already'[v] /\ ~already'[u] /\ client[v] = client[u]
             => v = u
      BY <2>6, <2>7, <2>8 DEF s
    <2> QED  BY <2>2, <2>3, <2>5, <2>9, <2>10
  <1>14. ASSUME NEW w \in Workers, Send(w)
         PROVE  (OpenedOnce /\ OpenInv)'
    <2> DEFINE s == client[w]
    <2>1. s \in Servers /\ pc[w] = "send" /\ opened[s] /\ opens[s] \in 0..1
      <3>1. pc[w] = "send" /\ s \in Servers
        BY <1>14 DEF Send, At
      <3>2. opens[s] \in 0..2 /\ opens[s] <= 1
        BY <3>1
      <3>3. opened[s]
        BY <3>1
      <3> QED  BY <3>1, <3>2, <3>3
    <2>2. /\ client' = client /\ opened' = opened /\ already' = already
          /\ pc' = [pc EXCEPT ![w] = "look"]
      BY <1>14 DEF Send, Goto
    <2>3. opens' = opens \/ (~already[w] /\ opens' = [opens EXCEPT ![s] = @ + 1])
      BY <1>14, <2>1, SendOpens
    <2> HIDE DEF s
    <2>4. \A v \in Workers : pc'[v] = "send" => pc[v] = "send" /\ v # w
      BY <2>2
    <2>5. CASE opens' = opens
      BY <2>2, <2>4, <2>5
    <2>6. CASE ~already[w] /\ opens' = [opens EXCEPT ![s] = @ + 1]
      <3>1. opens[s] = 0
        BY <2>1, <2>6 DEF s
      <3>2. opens'[s] = 1 /\ \A t \in Servers : t # s => opens'[t] = opens[t]
        BY <2>1, <2>6, <3>1
      <3>3. \A v \in Workers : pc'[v] = "send" /\ ~already[v] => client[v] # s
        BY <2>1, <2>4, <2>6 DEF s
      <3>4. OpenedOnce' /\ \A t \in Servers : ~opened'[t] => opens'[t] = 0
        BY <2>1, <2>2, <3>2
      <3>5. \A v \in Workers : pc'[v] = "send" => opened'[client'[v]]
        BY <2>2, <2>4
      <3>6. \A v \in Workers : pc'[v] = "send" /\ ~already'[v] => opens'[client'[v]] = 0
        <4> SUFFICES ASSUME NEW v \in Workers, pc'[v] = "send", ~already[v]
                     PROVE  opens'[client[v]] = 0
          BY <2>2
        <4>1. client[v] \in Servers /\ client[v] # s /\ opens[client[v]] = 0
          BY <2>4, <3>3
        <4> QED  BY <3>2, <4>1
      <3>7. \A v, u \in Workers :
              /\ pc'[v] = "send" /\ pc'[u] = "send"
              /\ ~already'[v] /\ ~already'[u] /\ client'[v] = client'[u]
              => v = u
        BY <2>2, <2>4
      <3> QED  BY <3>4, <3>5, <3>6, <3>7
    <2> QED  BY <2>3, <2>5, <2>6
  <1>15. ASSUME NEW w \in Workers, Look(w)
         PROVE  (OpenedOnce /\ OpenInv)'
    BY <1>15 DEF Look, Answer, At, Goto
  <1>16. ASSUME NEW w \in Workers, Initialized(w)
         PROVE  (OpenedOnce /\ OpenInv)'
    BY <1>16 DEF Initialized, At, Goto
  <1>17. ASSUME NEW w \in Workers, InitFails(w)
         PROVE  (OpenedOnce /\ OpenInv)'
    BY <1>17 DEF InitFails, Answer, At, Goto
  <1>18. ASSUME NEW s \in Servers, Publish(s)
         PROVE  (OpenedOnce /\ OpenInv)'
    BY <1>18 DEF Publish, Alive
  <1>19. ASSUME NEW s \in Servers, ServerDies(s)
         PROVE  (OpenedOnce /\ OpenInv)'
    BY <1>19 DEF ServerDies, Alive, Gone
  <1>20. ASSUME Shutdown
         PROVE  (OpenedOnce /\ OpenInv)'
    BY <1>20 DEF Shutdown
  <1>21. ASSUME Kill
         PROVE  (OpenedOnce /\ OpenInv)'
    BY <1>21 DEF Kill, Gone
  <1>22. ASSUME ForgetService
         PROVE  (OpenedOnce /\ OpenInv)'
    BY <1>22 DEF ForgetService
  <1>23. ASSUME NEW s \in Servers, StopsReading(s)
         PROVE  (OpenedOnce /\ OpenInv)'
    BY <1>23 DEF StopsReading
  <1>24. CASE UNCHANGED vars
    BY <1>24 DEF vars
  <1> QED
    BY <1>1, <1>2, <1>3, <1>4, <1>5, <1>6, <1>7, <1>8, <1>9, <1>10, <1>11,
       <1>12, <1>13, <1>14, <1>15, <1>16, <1>17, <1>18, <1>19, <1>20, <1>21,
       <1>22, <1>23,
       <1>24 DEF Next, AgentStep, HookStep, RefreshStep, AskStep, CloseStep

(***************************************************************************)
(* A file that was noted keeps a refresh that will take it.                *)
(***************************************************************************)
LEMMA NoteStep ==
    ASSUME TypeOK, NoLostNote, [Next]_vars
    PROVE  NoLostNote'
  <1> USE Facts
      DEF TypeOK, NoLostNote, Running, session, work, query,
          manager, server
  <1>1. ASSUME NEW call \in Calls, Mutate(call)
        PROVE  NoLostNote'
    BY <1>1 DEF Mutate, At, Goto
  <1>2. ASSUME NEW n \in Names, Query(n)
        PROVE  NoLostNote'
    BY <1>2 DEF Query, At, Goto
  <1>3. ASSUME Note
        PROVE  NoLostNote'
    BY <1>3 DEF Note, At, Goto
  <1>4. ASSUME Schedule
        PROVE  NoLostNote'
    <2>1. scheduled \in Nat /\ scheduled + 1 > 0
      OBVIOUS
    <2>2. CASE service /\ editedFiles # {}
      BY <1>4, <2>1, <2>2 DEF Schedule, Scheduled
    <2>3. CASE ~(service /\ editedFiles # {})
      BY <1>4, <2>3 DEF Schedule, Scheduled
    <2> QED  BY <2>2, <2>3
  <1>5. ASSUME NEW r \in Refreshers, TakeEditedFiles(r)
        PROVE  NoLostNote'
    BY <1>5 DEF TakeEditedFiles, At, Goto
  <1>6. ASSUME NEW r \in Refreshers, NextPath(r)
        PROVE  NoLostNote'
    BY <1>6 DEF NextPath, At, Goto
  <1>7. ASSUME NEW r \in Refreshers, Store(r)
        PROVE  NoLostNote'
    BY <1>7 DEF Store, At, Goto
  <1>8. ASSUME NEW w \in Workers, HasClient(w)
        PROVE  NoLostNote'
    BY <1>8 DEF HasClient, At, Goto
  <1>9. ASSUME NEW w \in Workers, GivenUp(w)
        PROVE  NoLostNote'
    BY <1>9 DEF GivenUp, Answer, At, Goto
  <1>10. ASSUME NEW w \in Workers, Start(w)
         PROVE  NoLostNote'
    BY <1>10 DEF Start, Unborn, At, Goto
  <1>11. ASSUME NEW w \in Workers, StartFails(w)
         PROVE  NoLostNote'
    BY <1>11 DEF StartFails, Unborn, Answer, At, Goto
  <1>12. ASSUME NEW w \in Workers, ReadFile(w)
         PROVE  NoLostNote'
    BY <1>12 DEF ReadFile, At, Goto
  <1>13. ASSUME NEW w \in Workers, Mark(w)
         PROVE  NoLostNote'
    BY <1>13 DEF Mark, At, Goto
  <1>14. ASSUME NEW w \in Workers, Send(w)
         PROVE  NoLostNote'
    BY <1>14 DEF Send, At, Goto
  <1>15. ASSUME NEW w \in Workers, Look(w)
         PROVE  NoLostNote'
    BY <1>15 DEF Look, Answer, At, Goto
  <1>16. ASSUME NEW w \in Workers, Initialized(w)
         PROVE  NoLostNote'
    BY <1>16 DEF Initialized, At, Goto
  <1>17. ASSUME NEW w \in Workers, InitFails(w)
         PROVE  NoLostNote'
    BY <1>17 DEF InitFails, Answer, At, Goto
  <1>18. ASSUME NEW s \in Servers, Publish(s)
         PROVE  NoLostNote'
    BY <1>18 DEF Publish, Alive
  <1>19. ASSUME NEW s \in Servers, ServerDies(s)
         PROVE  NoLostNote'
    BY <1>19 DEF ServerDies, Alive, Gone
  <1>20. ASSUME Shutdown
         PROVE  NoLostNote'
    BY <1>20 DEF Shutdown
  <1>21. ASSUME Kill
         PROVE  NoLostNote'
    BY <1>21 DEF Kill, Gone
  <1>22. ASSUME ForgetService
         PROVE  NoLostNote'
    BY <1>22 DEF ForgetService
  <1>23. ASSUME NEW s \in Servers, StopsReading(s)
         PROVE  NoLostNote'
    BY <1>23 DEF StopsReading
  <1>24. CASE UNCHANGED vars
    BY <1>24 DEF vars
  <1> QED
    BY <1>1, <1>2, <1>3, <1>4, <1>5, <1>6, <1>7, <1>8, <1>9, <1>10, <1>11,
       <1>12, <1>13, <1>14, <1>15, <1>16, <1>17, <1>18, <1>19, <1>20, <1>21,
       <1>22, <1>23,
       <1>24 DEF Next, AgentStep, HookStep, RefreshStep, AskStep, CloseStep

-----------------------------------------------------------------------------
(***************************************************************************)
(* IInv is an invariant: one server starts at a time, each that runs has   *)
(* an owner, one that failed stays the last, and no file is opened twice,  *)
(* for any number of refreshes, servers and edits.                         *)
(***************************************************************************)
THEOREM Safety == Spec => []IInv
  <1>1. Init => IInv
    <2> SUFFICES ASSUME Init
                 PROVE  IInv
      OBVIOUS
    <2>1. fresh \in [Refreshers -> UNION {[asked -> BOOLEAN] : asked \in SUBSET Names}]
      BY TellNone DEF Init
    <2>2. TypeOK
      <3>1. disk \in Texts /\ scheduled \in 0..MaxScheduled /\ edited \in Names \cup {None}
        BY Facts DEF Init, Texts
      <3>2. closer \in [at : {"open", "kill", "forget", "closed"}, server : Servers \cup {None}]
        BY DEF Init
      <3>3. /\ pc \in [Workers -> {"idle"}] /\ paths \in [Refreshers -> SUBSET Names]
            /\ path \in [Workers -> {None}] /\ client \in [Workers -> {None}]
            /\ text \in [Workers -> {None}] /\ already \in [Workers -> BOOLEAN]
        BY DEF Init
      <3>4. /\ life \in [Servers -> {"unused"}] /\ opened \in [Servers -> BOOLEAN]
            /\ opens \in [Servers -> {0}] /\ told \in [Servers -> {None}]
            /\ diags \in [Servers -> BOOLEAN]
        BY DEF Init
      <3>5. editedFiles = {} /\ diagnostics = {} /\ service = TRUE /\ clients = None /\ failed = FALSE
        BY DEF Init
      <3>6. opens \in [Servers -> 0..2]
        BY <3>4
      <3> HIDE DEF Init
      <3> QED  BY ZenonT(60), <2>1, <3>1, <3>2, <3>3, <3>4, <3>5, <3>6 DEF TypeOK
    <2>3. AskInv /\ OneFork /\ NoOrphan /\ StartInv /\ OpenedOnce /\ OpenInv
      BY Facts DEF Init, AskInv, OneFork, NoOrphan, StartInv, OpenedOnce, OpenInv
    <2> QED  BY <2>2, <2>3 DEF IInv
  <1>2. IInv /\ [Next]_vars => IInv'
    BY TypeStep, AskStepOK, StartStep, ForkStep, OwnerStep, OpenStep DEF IInv
  <1> QED  BY <1>1, <1>2, PTL DEF Spec

(***************************************************************************)
(* A file that was noted has a refresh that will take it, however many     *)
(* refreshes begin, end and take files behind the agent's back.            *)
(***************************************************************************)
THEOREM Remembered == Spec => []NoLostNote
  <1>1. Init => NoLostNote
    BY DEF Init, NoLostNote
  <1>2. IInv /\ NoLostNote /\ [Next]_vars => NoLostNote'
    BY NoteStep DEF IInv
  <1> QED  BY <1>1, <1>2, Safety, PTL DEF Spec
=================================================================================
