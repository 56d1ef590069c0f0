------------------------------ MODULE ProgramProofs ------------------------------
(***************************************************************************)
(* Proofs about Program and the compose session inside it, for any tools,  *)
(* rules, servers and set-ups and any number of turns, calls, versions and *)
(* findings: a composition keeps its house rules whatever runs beside it,  *)
(* a stuck command holds up no turn, text stays with its turn, every       *)
(* server has an owner and is greeted before it is asked.                  *)
(***************************************************************************)
EXTENDS Program, PositionsProofs

(***************************************************************************)
(* Every command keeps the types.                                          *)
(***************************************************************************)
LEMMA TypeStep ==
    ASSUME ComposeTypeOK, [ComposeNext]_composeVars
    PROVE  ComposeTypeOK'
  <1> USE ComposeAssumption
      DEF ComposeTypeOK, NoSession, Grill, Spec_,
          Implement, Verify, Review, Finish, specVars, taskVars, reviewVars
  <1>1. ASSUME StartCompose
        PROVE  ComposeTypeOK'
    BY <1>1 DEF StartCompose
  <1>2. ASSUME CompleteGrill
        PROVE  ComposeTypeOK'
    BY <1>2 DEF CompleteGrill
  <1>3. ASSUME WriteSpec
        PROVE  ComposeTypeOK'
    <2>1. versions \in 0..MaxVersions /\ versions < MaxVersions /\ doc \in -1..MaxVersions
      BY <1>3 DEF WriteSpec
    <2>2. versions' = versions + 1 /\ doc' \in {versions + 1, doc, -1}
      BY <1>3 DEF WriteSpec
    <2>3. versions' \in 0..MaxVersions /\ doc' \in -1..MaxVersions
      BY <2>1, <2>2
    <2>4. written' \in BOOLEAN
      BY <1>3 DEF WriteSpec
    <2> QED  BY <1>3, <2>3, <2>4 DEF WriteSpec
  <1>4. ASSUME ApproveSpec
        PROVE  ComposeTypeOK'
    BY <1>4 DEF ApproveSpec
  <1>5. ASSUME NEW id \in TaskIds, AddTask(id)
        PROVE  ComposeTypeOK'
    BY <1>5 DEF AddTask
  <1>6. ASSUME NEW id \in TaskIds, RecordFailingTest(id)
        PROVE  ComposeTypeOK'
    BY <1>6 DEF RecordFailingTest
  <1>7. ASSUME NEW id \in TaskIds, MarkGreen(id)
        PROVE  ComposeTypeOK'
    BY <1>7 DEF MarkGreen
  <1>8. ASSUME RecordVerifyPass
        PROVE  ComposeTypeOK'
    BY <1>8 DEF RecordVerifyPass
  <1>9. ASSUME RecordAdvisorRun
        PROVE  ComposeTypeOK'
    BY <1>9 DEF RecordAdvisorRun
  <1>10. ASSUME NEW id \in FindingIds, AddFinding(id)
         PROVE  ComposeTypeOK'
    <2>1. [id |-> id, resolved |-> FALSE] \in Finding
      BY DEF Finding
    <2>2. findings' \in Seq(Finding)
      BY <1>10, <2>1 DEF AddFinding
    <2> QED  BY <1>10, <2>2 DEF AddFinding
  <1>11. ASSUME NEW id \in FindingIds, ResolveFinding(id)
         PROVE  ComposeTypeOK'
    <2>1. PICK i \in DOMAIN findings :
            findings' = [findings EXCEPT ![i].resolved = TRUE]
      BY <1>11 DEF ResolveFinding
    <2>2. findings[i] \in Finding
      BY <2>1
    <2>3. [findings[i] EXCEPT !.resolved = TRUE] \in Finding
      BY <2>2 DEF Finding
    <2>4. findings' = [findings EXCEPT ![i] = [findings[i] EXCEPT !.resolved = TRUE]]
      BY <2>1
    <2>5. findings' \in Seq(Finding)
      BY <2>1, <2>3, <2>4
    <2> QED  BY <1>11, <2>5 DEF ResolveFinding
  <1>12. ASSUME Advance
         PROVE  ComposeTypeOK'
    BY <1>12 DEF Advance
  <1>13. CASE UNCHANGED composeVars
    BY <1>13 DEF composeVars
  <1> QED
    BY <1>1, <1>2, <1>3, <1>4, <1>5, <1>6, <1>7, <1>8, <1>9, <1>10, <1>11,
       <1>12, <1>13 DEF ComposeNext

(***************************************************************************)
(* Every command keeps the house rules.                                    *)
(***************************************************************************)
LEMMA RulesStep ==
    ASSUME ComposeTypeOK, HouseRules, [ComposeNext]_composeVars
    PROVE  HouseRules'
  <1> USE DEF HouseRules, ComposeTypeOK, NoSession, Grill, Spec_, Implement,
          Verify, Review, Finish, specVars, taskVars, reviewVars
  <1>1. ASSUME StartCompose
        PROVE  HouseRules'
    BY <1>1 DEF StartCompose
  <1>2. ASSUME CompleteGrill
        PROVE  HouseRules'
    BY <1>2 DEF CompleteGrill
  <1>3. ASSUME WriteSpec
        PROVE  HouseRules'
    BY <1>3 DEF WriteSpec
  <1>4. ASSUME ApproveSpec
        PROVE  HouseRules'
    BY <1>4 DEF ApproveSpec
  <1>5. ASSUME NEW id \in TaskIds, AddTask(id)
        PROVE  HouseRules'
    BY <1>5 DEF AddTask
  <1>6. ASSUME NEW id \in TaskIds, RecordFailingTest(id)
        PROVE  HouseRules'
    BY <1>6 DEF RecordFailingTest
  <1>7. ASSUME NEW id \in TaskIds, MarkGreen(id)
        PROVE  HouseRules'
    BY <1>7 DEF MarkGreen
  <1>8. ASSUME RecordVerifyPass
        PROVE  HouseRules'
    BY <1>8 DEF RecordVerifyPass
  <1>9. ASSUME RecordAdvisorRun
        PROVE  HouseRules'
    BY <1>9 DEF RecordAdvisorRun
  <1>10. ASSUME NEW id \in FindingIds, AddFinding(id)
         PROVE  HouseRules'
    BY <1>10 DEF AddFinding
  <1>11. ASSUME NEW id \in FindingIds, ResolveFinding(id)
         PROVE  HouseRules'
    BY <1>11 DEF ResolveFinding
  <1>12. ASSUME Advance
         PROVE  HouseRules'
    <2>1. phase' = phase + 1 /\ phase \in 1..5 /\ UNCHANGED <<written, approved, tasks, red, coded, green, verified, advised>>
      BY <1>12 DEF Advance
    <2>2. phase = Spec_ => written /\ approved
      BY <1>12 DEF Advance, Gate
    <2>3. phase = Implement => tasks # {} /\ tasks = green
      <3>1. phase = Implement => tasks # {} /\ tasks \subseteq green
        BY <1>12 DEF Advance, Gate
      <3>2. green \subseteq tasks
        OBVIOUS
      <3> QED  BY <3>1, <3>2
    <2>4. (phase = Verify => verified) /\ (phase = Review => advised)
      BY <1>12 DEF Advance, Gate
    <2> QED  BY <2>1, <2>2, <2>3, <2>4
  <1>13. CASE UNCHANGED composeVars
    BY <1>13 DEF composeVars
  <1> QED
    BY <1>1, <1>2, <1>3, <1>4, <1>5, <1>6, <1>7, <1>8, <1>9, <1>10, <1>11,
       <1>12, <1>13 DEF ComposeNext

(***************************************************************************)
(* Every command leaves open a finding whose id was used before.           *)
(***************************************************************************)
LEMMA TwinStep ==
    ASSUME ComposeTypeOK, TwinStaysOpen, [ComposeNext]_composeVars
    PROVE  TwinStaysOpen'
  <1> USE DEF TwinStaysOpen, specVars, taskVars, reviewVars
  <1>1. ASSUME StartCompose
        PROVE  TwinStaysOpen'
    BY <1>1 DEF StartCompose
  <1>2. ASSUME CompleteGrill
        PROVE  TwinStaysOpen'
    BY <1>2 DEF CompleteGrill
  <1>3. ASSUME WriteSpec
        PROVE  TwinStaysOpen'
    BY <1>3 DEF WriteSpec
  <1>4. ASSUME ApproveSpec
        PROVE  TwinStaysOpen'
    BY <1>4 DEF ApproveSpec
  <1>5. ASSUME NEW id \in TaskIds, AddTask(id)
        PROVE  TwinStaysOpen'
    BY <1>5 DEF AddTask
  <1>6. ASSUME NEW id \in TaskIds, RecordFailingTest(id)
        PROVE  TwinStaysOpen'
    BY <1>6 DEF RecordFailingTest
  <1>7. ASSUME NEW id \in TaskIds, MarkGreen(id)
        PROVE  TwinStaysOpen'
    BY <1>7 DEF MarkGreen
  <1>8. ASSUME RecordVerifyPass
        PROVE  TwinStaysOpen'
    BY <1>8 DEF RecordVerifyPass
  <1>9. ASSUME RecordAdvisorRun
        PROVE  TwinStaysOpen'
    BY <1>9 DEF RecordAdvisorRun
  <1>10. ASSUME NEW id \in FindingIds, AddFinding(id)
         PROVE  TwinStaysOpen'
    <2> DEFINE new == [id |-> id, resolved |-> FALSE]
    <2>1. findings' = Append(findings, new) /\ findings \in Seq(Finding)
      BY <1>10 DEF AddFinding, ComposeTypeOK
    <2>2. new.resolved = FALSE
      OBVIOUS
    <2> HIDE DEF new
    <2>3. /\ Len(findings') = Len(findings) + 1
          /\ findings'[Len(findings) + 1] = new
          /\ \A i \in DOMAIN findings : findings'[i] = findings[i]
          /\ DOMAIN findings = 1..Len(findings)
          /\ DOMAIN findings' = 1..(Len(findings) + 1)
          /\ Len(findings) \in Nat
      BY <2>1
    <2>4. ASSUME NEW i \in DOMAIN findings', NEW j \in DOMAIN findings',
                 i < j, findings'[i].id = findings'[j].id
          PROVE  ~findings'[j].resolved
      <3>1. CASE j = Len(findings) + 1
        BY <2>2, <2>3, <3>1
      <3>2. CASE j # Len(findings) + 1
        <4>1. i \in DOMAIN findings /\ j \in DOMAIN findings
          BY <2>3, <2>4, <3>2
        <4> QED  BY <2>3, <2>4, <4>1
      <3> QED  BY <3>1, <3>2
    <2> QED  BY <2>4
  <1>11. ASSUME NEW id \in FindingIds, ResolveFinding(id)
         PROVE  TwinStaysOpen'
    <2>1. PICK k \in DOMAIN findings :
            /\ findings[k].id = id
            /\ \A j \in 1..(k - 1) : findings[j].id # id
            /\ findings' = [findings EXCEPT ![k].resolved = TRUE]
      BY <1>11 DEF ResolveFinding
    <2>2. /\ findings \in Seq(Finding) /\ DOMAIN findings = 1..Len(findings)
          /\ Len(findings) \in Nat
      BY DEF ComposeTypeOK
    <2>3. \A i \in DOMAIN findings : findings[i] \in Finding
      BY <2>2
    <2>4. findings' = [findings EXCEPT ![k] = [findings[k] EXCEPT !.resolved = TRUE]]
      BY <2>1
    <2>5. [findings[k] EXCEPT !.resolved = TRUE].id = findings[k].id
      BY <2>1, <2>3 DEF Finding
    <2>6. /\ DOMAIN findings' = DOMAIN findings
          /\ \A i \in DOMAIN findings : i # k => findings'[i] = findings[i]
          /\ findings'[k].id = findings[k].id
      BY <2>1, <2>4, <2>5
    <2>7. ASSUME NEW i \in DOMAIN findings', NEW j \in DOMAIN findings',
                 i < j, findings'[i].id = findings'[j].id
          PROVE  ~findings'[j].resolved
      <3>1. i \in DOMAIN findings /\ j \in DOMAIN findings
        BY <2>6
      <3>2. findings[i].id = findings[j].id
        BY <2>6, <2>7, <3>1
      <3>3. j # k
        <4> SUFFICES ASSUME j = k
                     PROVE  FALSE
          OBVIOUS
        <4>1. i \in 1..(k - 1)
          BY <2>2, <2>7, <3>1
        <4> QED  BY <2>1, <3>2, <4>1
      <3> QED  BY <2>6, <2>7, <3>1, <3>2, <3>3
    <2> QED  BY <2>7
  <1>12. ASSUME Advance
         PROVE  TwinStaysOpen'
    BY <1>12 DEF Advance
  <1>13. CASE UNCHANGED composeVars
    BY <1>13 DEF composeVars
  <1> QED
    BY <1>1, <1>2, <1>3, <1>4, <1>5, <1>6, <1>7, <1>8, <1>9, <1>10, <1>11,
       <1>12, <1>13 DEF ComposeNext

-----------------------------------------------------------------------------
(***************************************************************************)
(* The types, after any sequence of commands.                              *)
(***************************************************************************)
THEOREM Typing == ComposeSpec => []ComposeTypeOK
  <1>1. ComposeInit => ComposeTypeOK
    <2> SUFFICES ASSUME ComposeInit
                 PROVE  ComposeTypeOK
      OBVIOUS
    <2>1. doc \in -1..MaxVersions /\ versions \in 0..MaxVersions
      BY ComposeAssumption DEF ComposeInit
    <2>2. findings \in Seq(Finding)
      BY DEF ComposeInit
    <2>3. phase \in 0..6
      BY DEF ComposeInit, NoSession
    <2>4. /\ grilled \in BOOLEAN /\ written \in BOOLEAN /\ approved \in BOOLEAN
          /\ verified \in BOOLEAN /\ advised \in BOOLEAN
      BY DEF ComposeInit
    <2>5. tasks = {} /\ red = {} /\ coded = {} /\ green = {}
      BY DEF ComposeInit
    <2> QED  BY <2>1, <2>2, <2>3, <2>4, <2>5 DEF ComposeTypeOK
  <1>2. ComposeTypeOK /\ [ComposeNext]_composeVars => ComposeTypeOK'
    BY TypeStep
  <1> QED  BY <1>1, <1>2, PTL DEF ComposeSpec

(***************************************************************************)
(* The house rules of the compose phases hold after any sequence of        *)
(* commands, for any ids and any number of versions and findings.          *)
(***************************************************************************)
THEOREM Rules == ComposeSpec => []HouseRules
  <1>1. ComposeInit => HouseRules
    BY DEF ComposeInit, HouseRules, NoSession, Grill, Spec_, Implement, Verify, Review
  <1>2. ComposeTypeOK /\ HouseRules /\ [ComposeNext]_composeVars => HouseRules'
    BY RulesStep
  <1> QED  BY <1>1, <1>2, Typing, PTL DEF ComposeSpec

(***************************************************************************)
(* /resolve never reaches the second of two findings with one id, so a     *)
(* review with such a pair cannot be left by any sequence of commands.     *)
(***************************************************************************)
THEOREM Twins == ComposeSpec => []TwinStaysOpen
  <1>1. ComposeInit => TwinStaysOpen
    BY DEF ComposeInit, TwinStaysOpen
  <1>2. ComposeTypeOK /\ TwinStaysOpen /\ [ComposeNext]_composeVars => TwinStaysOpen'
    BY TwinStep
  <1> QED  BY <1>1, <1>2, Typing, PTL DEF ComposeSpec

(***************************************************************************)
(* The approved spec is left alone from the implement phase on and the     *)
(* tasks from verify on, and no phase is skipped or gone back to.          *)
(***************************************************************************)
THEOREM Settling == ComposeSpec => Settled
  <1>1. ASSUME ComposeTypeOK, [ComposeNext]_composeVars
        PROVE  [Keeps]_composeVars
    <2> USE DEF ComposeTypeOK, Keeps, specVars, taskVars, reviewVars, NoSession, Grill,
        Spec_, Implement, Verify, Review, Finish
    <2>1. ASSUME StartCompose
          PROVE  Keeps
      BY <1>1, <2>1 DEF StartCompose
    <2>2. ASSUME CompleteGrill
          PROVE  Keeps
      BY <1>1, <2>2 DEF CompleteGrill
    <2>3. ASSUME WriteSpec
          PROVE  Keeps
      BY <1>1, <2>3 DEF WriteSpec
    <2>4. ASSUME ApproveSpec
          PROVE  Keeps
      BY <1>1, <2>4 DEF ApproveSpec
    <2>5. ASSUME NEW id \in TaskIds, AddTask(id)
          PROVE  Keeps
      BY <1>1, <2>5 DEF AddTask
    <2>6. ASSUME NEW id \in TaskIds, RecordFailingTest(id)
          PROVE  Keeps
      BY <1>1, <2>6 DEF RecordFailingTest
    <2>7. ASSUME NEW id \in TaskIds, MarkGreen(id)
          PROVE  Keeps
      BY <1>1, <2>7 DEF MarkGreen
    <2>8. ASSUME RecordVerifyPass
          PROVE  Keeps
      BY <1>1, <2>8 DEF RecordVerifyPass
    <2>9. ASSUME RecordAdvisorRun
          PROVE  Keeps
      BY <1>1, <2>9 DEF RecordAdvisorRun
    <2>10. ASSUME NEW id \in FindingIds, AddFinding(id)
           PROVE  Keeps
      BY <1>1, <2>10 DEF AddFinding
    <2>11. ASSUME NEW id \in FindingIds, ResolveFinding(id)
           PROVE  Keeps
      BY <1>1, <2>11 DEF ResolveFinding
    <2>12. ASSUME Advance
           PROVE  Keeps
      BY <1>1, <2>12 DEF Advance
    <2> QED
      BY <1>1, <2>1, <2>2, <2>3, <2>4, <2>5, <2>6, <2>7, <2>8, <2>9, <2>10,
         <2>11, <2>12 DEF ComposeNext
  <1>2. ComposeTypeOK /\ [ComposeNext]_composeVars => [Keeps]_composeVars
    BY <1>1
  <1> QED  BY <1>2, Typing, PTL DEF ComposeSpec, Settled

-----------------------------------------------------------------------------
(***************************************************************************)
(* What a step of the program does to the composition, to the front-end    *)
(* and to the servers.                                                     *)
(***************************************************************************)
LEMMA ComposeMoves == [Next]_vars => [ComposeNext]_composeVars
  <1> SUFFICES ASSUME Next \/ UNCHANGED vars
               PROVE  ComposeNext \/ UNCHANGED composeVars
    OBVIOUS
  <1>1. CASE ComposeCommand
    BY <1>1 DEF ComposeCommand
  <1>2. CASE UNCHANGED vars
    BY <1>2 DEF vars
  <1>3. CASE Assemble \/ Gate_ \/ Begin \/ Turn \/ Loop \/ Return \/ Close \/ Environment
    BY <1>3 DEF Assemble, Gate_, Begin, Turn, Run, Loop, Return, Close, Environment
  <1> QED  BY <1>1, <1>2, <1>3 DEF Next

LEMMA FrontMoves ==
    ASSUME [Next]_vars
    PROVE  FrontNext \/ UNCHANGED <<mode, loopVars, turnVars, out>>
  <1>1. CASE Turn
    BY <1>1 DEF Turn, Run, FrontNext, TurnNext
  <1>2. CASE Loop \/ Begin
    BY <1>2 DEF Loop, Begin, FrontNext
  <1>3. CASE Gate_
    BY <1>3 DEF Gate_
  <1>4. CASE Assemble \/ ComposeCommand \/ Return \/ Close \/ Environment
    <2>1. UNCHANGED frontVars
      BY <1>4 DEF Assemble, ComposeCommand, Return, Close, Environment
    <2> QED  BY <2>1 DEF frontVars, setup
  <1>5. CASE UNCHANGED vars
    <2>1. UNCHANGED frontVars
      BY <1>5 DEF vars
    <2> QED  BY <2>1 DEF frontVars, setup
  <1> QED  BY <1>1, <1>2, <1>3, <1>4, <1>5 DEF Next

(***************************************************************************)
(* Whatever else a process does, its compose session is a compose session: *)
(* the program implements Compose.                                         *)
(***************************************************************************)
THEOREM Composes == Spec => ComposeSpec
  <1>1. Init => ComposeInit
    BY DEF Init
  <1> QED  BY <1>1, ComposeMoves, PTL DEF Spec, ComposeSpec

(***************************************************************************)
(* No turn, prompt, server or end of the process gets a composition past   *)
(* a phase that has not earned it, or touches what was approved.           *)
(***************************************************************************)
THEOREM ProgramRules == Spec => []HouseRules /\ []TwinStaysOpen /\ Settled
  BY Composes, Rules, Twins, Settling, PTL

-----------------------------------------------------------------------------
(***************************************************************************)
(* Who is at work.  While the loop is free, a turn or its message means a  *)
(* busy model; before the terminal opens and in a run without one the loop *)
(* does nothing; and the last message of a turn is its last act.           *)
(***************************************************************************)
AloneInv ==
    /\ mode \in {"tui", "once"}
    /\ mode = "once" => loop = "off" /\ out = "none"
    /\ mode = "tui" /\ loop = "off" => turn = "none" /\ out = "none"
    /\ loop = "free" /\ (turn # "none" \/ out # "none") => busy
    /\ out = "done" => turn = "none"
    /\ CommandsRunAlone

LEMMA AloneStep ==
    ASSUME AloneInv, [Next]_vars
    PROVE  AloneInv'
  <1> USE DEF AloneInv, CommandsRunAlone
  <1>1. ASSUME TurnNext
        PROVE  AloneInv'
    <2> USE DEF AtWork, Send, loopVars, turnVars, setup
    <2>1. ASSUME StreamText \/ StreamThinking
          PROVE  AloneInv'
      BY <2>1 DEF StreamText, StreamThinking
    <2>2. ASSUME NEW call \in Calls, StreamCall(call)
          PROVE  AloneInv'
      BY <2>2 DEF StreamCall
    <2>3. ASSUME StreamEnds
          PROVE  AloneInv'
      BY <2>3 DEF StreamEnds
    <2>4. ASSUME StreamFails
          PROVE  AloneInv'
      BY <2>4 DEF StreamFails
    <2>5. ASSUME AskGate
          PROVE  AloneInv'
      <3>1. /\ AtWork("gate") /\ UNCHANGED <<mode, loop, busy, pending>>
            /\ turn' # "none" /\ out' # "done"
            /\ mode = "once" => out' = "none"
        BY <2>5 DEF AskGate, Report, Prompting, GateSays
      <3> QED  BY <3>1
    <2>6. ASSUME AskReturns
          PROVE  AloneInv'
      BY <2>6 DEF AskReturns, Report
    <2>7. ASSUME RunTool
          PROVE  AloneInv'
      BY <2>7 DEF RunTool, Report
    <2>8. ASSUME Notify \/ EndTurn
          PROVE  AloneInv'
      BY <2>8 DEF Notify, EndTurn
    <2> QED  BY <1>1, <2>1, <2>2, <2>3, <2>4, <2>5, <2>6, <2>7, <2>8 DEF TurnNext
  <1>2. ASSUME LoopNext
        PROVE  AloneInv'
    <2> USE DEF loopVars, turnVars, setup
    <2>1. ASSUME TakeMessage
          PROVE  AloneInv'
      BY <2>1 DEF TakeMessage
    <2>2. ASSUME NEW yes \in BOOLEAN, AnswerPrompt(yes)
          PROVE  AloneInv'
      BY <2>2 DEF AnswerPrompt
    <2>3. ASSUME SubmitTurn
          PROVE  AloneInv'
      BY <2>3 DEF SubmitTurn, Listening, BeginTurn
    <2>4. ASSUME SubmitCommand \/ SubmitSender
          PROVE  AloneInv'
      BY <2>4 DEF SubmitCommand, SubmitSender, Listening
    <2>5. ASSUME CommandEnds \/ Quit \/ SendToNobody
          PROVE  AloneInv'
      BY <2>5 DEF CommandEnds, Quit, SendToNobody
    <2> QED  BY <1>2, <2>1, <2>2, <2>3, <2>4, <2>5 DEF LoopNext
  <1>3. ASSUME OpenTerminal \/ RunOnce
        PROVE  AloneInv'
    BY <1>3 DEF OpenTerminal, RunOnce, BeginTurn, loopVars, turnVars, setup
  <1>4. ASSUME UNCHANGED <<mode, loopVars, turnVars, out>>
        PROVE  AloneInv'
    BY <1>4 DEF loopVars, turnVars
  <1> QED  BY FrontMoves, <1>1, <1>2, <1>3, <1>4 DEF FrontNext

LEMMA Aloneness == Spec => []AloneInv
  <1>1. Init => AloneInv
    BY DEF Init, FrontInit, AloneInv, CommandsRunAlone
  <1>2. AloneInv /\ [Next]_vars => AloneInv'
    BY AloneStep
  <1> QED  BY <1>1, <1>2, PTL DEF Spec

(***************************************************************************)
(* Neither a long command nor one that never ends holds up a turn or a     *)
(* prompt, for any number of turns and calls: none is under way.           *)
(***************************************************************************)
THEOREM Alone == Spec => []CommandsRunAlone
  <1>1. AloneInv => CommandsRunAlone
    BY DEF AloneInv
  <1> QED  BY <1>1, Aloneness, PTL

-----------------------------------------------------------------------------
(***************************************************************************)
(* Whose text is shown.  Once a turn's last reply is over and was flushed, *)
(* only text of broken streams is left.                                    *)
(***************************************************************************)
TextInv ==
    /\ OwnText
    /\ loop = "off" => cur = {}
    /\ out = "text" => turn = "stream"
    /\ loop # "quit" /\ turn # "stream" /\ out # "turnend" => cur \subseteq cut

LEMMA TextStep ==
    ASSUME AloneInv, TextInv, [Next]_vars
    PROVE  TextInv'
  <1> USE DEF TextInv, OwnText
  <1>1. ASSUME TurnNext
        PROVE  TextInv'
    <2> USE DEF AtWork, Send, loopVars, turnVars, setup
    <2>1. ASSUME StreamText \/ StreamThinking
          PROVE  TextInv'
      BY <2>1 DEF StreamText, StreamThinking
    <2>2. ASSUME NEW call \in Calls, StreamCall(call)
          PROVE  TextInv'
      BY <2>2 DEF StreamCall
    <2>3. ASSUME StreamEnds
          PROVE  TextInv'
      <3>1. /\ UNCHANGED <<loop, busy, cur, turnNo>> /\ turn = "stream"
            /\ out' # "text" /\ turn' # "stream"
            /\ cut' = cut \/ cut' = cut \cup {turnNo}
        BY <2>3 DEF StreamEnds
      <3>2. loop' # "quit" /\ out' # "turnend" => cur \subseteq cut'
        <4>1. CASE cut' = cut \cup {turnNo}
          BY <4>1
        <4>2. CASE mode = "once"
          BY <4>2, <3>1 DEF AloneInv
        <4>3. CASE mode = "tui" /\ cut' = cut
          BY <2>3, <4>3, <4>1 DEF StreamEnds
        <4> QED  BY <3>1, <4>1, <4>2, <4>3 DEF AloneInv
      <3> QED  BY <3>1, <3>2
    <2>4. ASSUME StreamFails
          PROVE  TextInv'
      BY <2>4 DEF StreamFails
    <2>5. ASSUME AskGate
          PROVE  TextInv'
      <3>1. /\ AtWork("gate") /\ UNCHANGED <<loop, busy, cur, turnNo, cut>>
            /\ out' \notin {"text", "turnend"}
        BY <2>5 DEF AskGate, Report
      <3> QED  BY <3>1
    <2>6. ASSUME AskReturns
          PROVE  TextInv'
      BY <2>6 DEF AskReturns, Report
    <2>7. ASSUME RunTool
          PROVE  TextInv'
      BY <2>7 DEF RunTool, Report
    <2>8. ASSUME Notify \/ EndTurn
          PROVE  TextInv'
      BY <2>8 DEF Notify, EndTurn
    <2> QED  BY <1>1, <2>1, <2>2, <2>3, <2>4, <2>5, <2>6, <2>7, <2>8 DEF TurnNext
  <1>2. ASSUME TakeMessage
        PROVE  TextInv'
    <2>1. /\ loop = "free" /\ out # "none" /\ out' = "none" /\ busy
          /\ UNCHANGED <<loop, turn, turnNo, cut>>
          /\ busy' = IF out = "done" THEN FALSE ELSE busy
          /\ cur' = IF out = "text" THEN cur \cup {turnNo}
                    ELSE IF out \in FlushedBy THEN {} ELSE cur
      BY <1>2 DEF TakeMessage, AloneInv, turnVars
    <2>2. CASE out = "text"
      BY <2>1, <2>2
    <2>3. CASE out = "done"
      BY <2>1, <2>3 DEF AloneInv, FlushedBy
    <2>4. CASE out \notin {"text", "done"}
      BY <2>1, <2>4 DEF FlushedBy
    <2> QED  BY <2>2, <2>3, <2>4
  <1>3. ASSUME SubmitTurn \/ RunOnce
        PROVE  TextInv'
    BY <1>3 DEF SubmitTurn, RunOnce, Listening, BeginTurn, AloneInv, loopVars
  <1>4. ASSUME LoopNext \/ OpenTerminal, ~TakeMessage, ~SubmitTurn
        PROVE  TextInv'
    <2>1. /\ UNCHANGED <<busy, cur, turn, turnNo, cut>>
          /\ out' = out \/ (out' = "none" /\ loop' = "quit")
          /\ loop' # "off"
          /\ loop = "quit" => loop' = "quit"
      <3>1. CASE OpenTerminal
        BY <3>1 DEF OpenTerminal, turnVars
      <3>2. ASSUME NEW yes \in BOOLEAN, AnswerPrompt(yes)
            PROVE  /\ UNCHANGED <<busy, cur, turn, turnNo, cut>>
                   /\ out' = out \/ (out' = "none" /\ loop' = "quit")
                   /\ loop' # "off"
                   /\ loop = "quit" => loop' = "quit"
        BY <3>2 DEF AnswerPrompt, turnVars
      <3>3. CASE SubmitCommand \/ SubmitSender \/ CommandEnds \/ Quit \/ SendToNobody
        BY <3>3 DEF SubmitCommand, SubmitSender, CommandEnds, Quit, SendToNobody,
                    Listening, loopVars, turnVars
      <3> QED  BY <1>4, <3>1, <3>2, <3>3 DEF LoopNext
    <2> QED  BY <2>1
  <1>5. ASSUME UNCHANGED <<mode, loopVars, turnVars, out>>
        PROVE  TextInv'
    BY <1>5 DEF loopVars, turnVars
  <1> QED  BY FrontMoves, <1>1, <1>2, <1>3, <1>4, <1>5 DEF FrontNext

LEMMA Texting == Spec => []TextInv
  <1>1. Init => TextInv
    BY DEF Init, FrontInit, TextInv, OwnText
  <1>2. AloneInv /\ TextInv /\ [Next]_vars => TextInv'
    BY TextStep
  <1> QED  BY <1>1, <1>2, Aloneness, PTL DEF Spec

(***************************************************************************)
(* Text of a turn is shown with that turn, whatever is quit, refused or    *)
(* cut off, unless a stream of it broke off.                               *)
(***************************************************************************)
THEOREM Text == Spec => []OwnText
  <1>1. TextInv => OwnText
    BY DEF TextInv
  <1> QED  BY <1>1, Texting, PTL

-----------------------------------------------------------------------------
(***************************************************************************)
(* What a step does to the servers: one operation of the MCP client on one *)
(* server, or the command of a server that cannot be started.              *)
(***************************************************************************)
Operation(n) ==
    \/ Dial(n) \/ Greet(n) \/ Announce(n) \/ ListTools(n) \/ CallTool(n)
    \/ CloseClient(n) \/ Die(n) \/ Hang(n) \/ Restart(n)
    \/ /\ client' = [client EXCEPT ![n] = "closed"]
       /\ UNCHANGED <<running, hung, heard, session, life, early>>

ListTyped == clients \in Seq(Servers)

LEMMA McpMoves ==
    ASSUME ListTyped, [Next]_vars
    PROVE  (\E n \in Servers : Operation(n)) \/ UNCHANGED mcpVars
  <1>1. CASE Assemble
    BY <1>1 DEF Assemble, AssembleNext, Load, Connect, Keep, CannotDial, GiveUp,
                Connected, ChooseProvider, OpenMemory, DiscoverSkills, Operation
  <1>2. CASE Gate_
    BY <1>2 DEF Gate_, BuildGate
  <1>3. CASE Turn
    <2>1. CASE UNCHANGED sessionVars
      BY <2>1 DEF sessionVars
    <2>2. ASSUME Reaches(Head(todo)), CallTool(ServerOf[Head(todo).tool])
          PROVE  \E n \in Servers : Operation(n)
      BY <2>2, ProgramAssumption DEF Reaches, Operation
    <2> QED  BY <1>3, <2>1, <2>2 DEF Turn, Run
  <1>4. CASE Begin \/ Loop \/ ComposeCommand
    <2>1. UNCHANGED sessionVars
      BY <1>4 DEF Begin, Loop, ComposeCommand
    <2> QED  BY <2>1 DEF sessionVars
  <1>5. CASE Return
    BY <1>5 DEF Return
  <1>6. CASE Close
    <2>1. CASE CloseServer
      <3>1. Head(clients) \in Servers
        BY <2>1 DEF CloseServer, ListTyped
      <3> QED  BY <2>1, <3>1 DEF CloseServer, Operation
    <2> QED  BY <1>6, <2>1 DEF Close, CloseNext, CloseMemory, Leave
  <1>7. CASE Environment
    BY <1>7 DEF Environment, Kill, ServerMoves, Operation
  <1>8. CASE UNCHANGED vars
    <2>1. UNCHANGED sessionVars
      BY <1>8 DEF vars
    <2> QED  BY <2>1 DEF sessionVars
  <1> QED  BY <1>1, <1>2, <1>3, <1>4, <1>5, <1>6, <1>7, <1>8 DEF Next

(***************************************************************************)
(* What a step does to the list of clients, and to what it is made of.     *)
(***************************************************************************)
LEMMA ListMoves ==
    ASSUME [Next]_vars
    PROVE  \/ \E n \in Servers : Keep(n)
           \/ CloseServer
           \/ clients' = clients
  <1>1. CASE Assemble
    BY <1>1 DEF Assemble, AssembleNext, Load, Connect, CannotDial, GiveUp,
                Connected, ChooseProvider, OpenMemory, DiscoverSkills
  <1>2. CASE Gate_ \/ Return \/ Close \/ Environment
    BY <1>2 DEF Gate_, BuildGate, Return, Close, CloseNext, CloseMemory, Leave,
                Environment, Kill, ServerMoves
  <1>3. CASE Turn
    BY <1>3 DEF Turn, Run, sessionVars
  <1>4. CASE Begin \/ Loop \/ ComposeCommand \/ UNCHANGED vars
    <2>1. UNCHANGED sessionVars
      BY <1>4 DEF Begin, Loop, ComposeCommand, vars
    <2> QED  BY <2>1 DEF sessionVars
  <1> QED  BY <1>1, <1>2, <1>3, <1>4 DEF Next

LEMMA ListTyping == Spec => []ListTyped
  <1>1. Init => ListTyped
    BY DEF Init, SessionInit, ListTyped
  <1>2. ASSUME ListTyped, [Next]_vars
        PROVE  ListTyped'
    <2>1. ASSUME NEW n \in Servers, Keep(n)
          PROVE  ListTyped'
      BY <1>2, <2>1 DEF Keep, ListTyped
    <2>2. CASE CloseServer
      BY <1>2, <2>2 DEF CloseServer, ListTyped
    <2>3. CASE clients' = clients
      BY <1>2, <2>3 DEF ListTyped
    <2> QED  BY <1>2, <2>1, <2>2, <2>3, ListMoves
  <1> QED  BY <1>1, <1>2, PTL DEF Spec

-----------------------------------------------------------------------------
(***************************************************************************)
(* Who has been greeted.  A client that is ready told this incarnation of  *)
(* its server that the handshake is over, or the server restarted.         *)
(***************************************************************************)
HandInv ==
    /\ client \in [Servers -> Stages]
    /\ heard \in [Servers -> {"nothing", "initialize", "initialized"}]
    /\ life \in [Servers -> Nat \ {0}]
    /\ early \subseteq Servers
    /\ \A n \in Servers :
         client[n] \in {"ready", "kept"} => heard[n] = "initialized" \/ life[n] > 1
    /\ Handshake

LEMMA HandStep ==
    ASSUME HandInv, NEW n \in Servers, Operation(n)
    PROVE  HandInv'
  <1> USE DEF HandInv, Handshake, Stages
  <1>1. CASE Dial(n)
    BY <1>1 DEF Dial
  <1>2. CASE Greet(n)
    BY <1>2 DEF Greet
  <1>3. CASE Announce(n)
    BY <1>3 DEF Announce
  <1>4. CASE ListTools(n) \/ CallTool(n)
    <2>1. /\ client[n] \in {"ready", "kept"}
          /\ client' = [client EXCEPT ![n] = "kept"] \/ client' = client
          /\ UNCHANGED <<heard, life>>
          /\ early' = IF heard[n] # "initialized" THEN early \cup {n} ELSE early
      BY <1>4 DEF ListTools, CallTool, Ask
    <2> QED  BY <2>1
  <1>5. CASE CloseClient(n)
    BY <1>5 DEF CloseClient
  <1>6. CASE Die(n) \/ Hang(n)
    BY <1>6 DEF Die, Hang
  <1>7. CASE Restart(n)
    BY <1>7 DEF Restart
  <1>8. CASE /\ client' = [client EXCEPT ![n] = "closed"]
             /\ UNCHANGED <<running, hung, heard, session, life, early>>
    BY <1>8
  <1> QED  BY <1>1, <1>2, <1>3, <1>4, <1>5, <1>6, <1>7, <1>8 DEF Operation

LEMMA Handing == Spec => []HandInv
  <1>1. Init => HandInv
    BY DEF Init, SessionInit, McpInit, HandInv, Handshake, Stages
  <1>2. ASSUME ListTyped, HandInv, [Next]_vars
        PROVE  HandInv'
    <2>1. CASE UNCHANGED mcpVars
      BY <1>2, <2>1 DEF HandInv, Handshake, mcpVars
    <2> QED  BY <1>2, <2>1, McpMoves, HandStep
  <1> QED  BY <1>1, <1>2, ListTyping, PTL DEF Spec

(***************************************************************************)
(* No server that did not restart is asked for its tools, or to run one,   *)
(* before its handshake is over: for any servers, and any restarts.        *)
(***************************************************************************)
THEOREM Greeting == Spec => []Handshake
  <1>1. HandInv => Handshake
    BY DEF HandInv
  <1> QED  BY <1>1, Handing, PTL

-----------------------------------------------------------------------------
(***************************************************************************)
(* What is left of a list of clients, and what is new in it.               *)
(***************************************************************************)
LEMMA AppendedTo ==
    ASSUME NEW s \in Seq(Servers), NEW n \in Servers
    PROVE  ToSet(s) \cup {n} \subseteq ToSet(Append(s, n))
  <1>1. DOMAIN s = 1..Len(s) /\ Len(s) \in Nat
    OBVIOUS
  <1>2. /\ DOMAIN Append(s, n) = 1..(Len(s) + 1)
        /\ \A i \in DOMAIN s : Append(s, n)[i] = s[i]
        /\ Append(s, n)[Len(s) + 1] = n
    BY <1>1
  <1> QED  BY <1>1, <1>2 DEF ToSet

LEMMA WithoutHead ==
    ASSUME NEW s \in Seq(Servers), s # <<>>
    PROVE  ToSet(s) \subseteq ToSet(Tail(s)) \cup {Head(s)}
  <1>1. DOMAIN s = 1..Len(s) /\ Len(s) \in Nat /\ Len(s) # 0
    OBVIOUS
  <1>2. /\ DOMAIN Tail(s) = 1..(Len(s) - 1)
        /\ \A i \in 1..(Len(s) - 1) : Tail(s)[i] = s[i + 1]
        /\ Head(s) = s[1]
    BY <1>1
  <1>3. ASSUME NEW i \in DOMAIN s
        PROVE  s[i] \in ToSet(Tail(s)) \cup {Head(s)}
    <2>1. CASE i = 1
      BY <1>2, <2>1
    <2>2. CASE i # 1
      <3>1. i - 1 \in 1..(Len(s) - 1) /\ (i - 1) + 1 = i
        BY <1>1, <1>3, <2>2
      <3>2. Tail(s)[i - 1] = s[i]
        BY <1>2, <3>1
      <3> QED  BY <1>2, <3>1, <3>2 DEF ToSet
    <2> QED  BY <2>1, <2>2
  <1> QED  BY <1>3 DEF ToSet

(***************************************************************************)
(* Who owns a subprocess.  One whose client was never dialled does not     *)
(* run; none runs before the assembly connects it; and from the provider   *)
(* on, nothing is left to be connected.                                    *)
(***************************************************************************)
Settled_ == {"provider", "gate", "memory", "skills", "front", "close", "gone"}

OwnInv ==
    /\ EveryServerOwned
    /\ \A n \in Servers : client[n] = "none" => n \notin running
    /\ stage = "load" => running = {}
    /\ stage \in Settled_ => waiting = {}

LEMMA OwnStep ==
    ASSUME ListTyped, HandInv, OwnInv, [Next]_vars
    PROVE  OwnInv'
  <1> USE DEF OwnInv, EveryServerOwned, Settled_
  <1> DEFINE owned == ToSet(clients) \cup waiting
  <1>1. client \in [Servers -> Stages]
    BY DEF HandInv
  <1>2. ASSUME UNCHANGED client, running' \subseteq running, UNCHANGED clients,
               \/ UNCHANGED <<stage, waiting, memory>>
               \/ stage' = "killed" /\ UNCHANGED waiting
        PROVE  OwnInv'
    BY <1>2
  <1>3. ASSUME NEW n \in Servers, Connect(n)
        PROVE  OwnInv'
    <2>1. /\ stage = "servers" /\ n \in waiting
          /\ UNCHANGED <<stage, waiting, clients, memory>>
      BY <1>3 DEF Connect, Connecting
    <2>2. running' = running \/ running' = running \cup ({n} \cap Stdio)
      BY <1>3 DEF Connect, Dial, Greet, Announce
    <2>3. \E c \in {"dialled", "greeted", "ready"} : client' = [client EXCEPT ![n] = c]
      BY <1>3 DEF Connect, Dial, Greet, Announce
    <2> QED  BY <1>1, <2>1, <2>2, <2>3
  <1>4. ASSUME NEW n \in Servers, Keep(n)
        PROVE  OwnInv'
    <2>1. /\ stage = "servers" /\ UNCHANGED <<stage, memory, running>>
          /\ waiting' = waiting \ {n} /\ clients' = Append(clients, n)
          /\ client' = [client EXCEPT ![n] = "kept"]
      BY <1>4 DEF Keep, Connecting, ListTools, Ask
    <2>2. ToSet(clients) \cup {n} \subseteq ToSet(clients')
      BY <2>1, AppendedTo DEF ListTyped
    <2> QED  BY <1>1, <2>1, <2>2
  <1>5. ASSUME NEW n \in Servers, CannotDial(n) \/ GiveUp(n)
        PROVE  OwnInv'
    <2>1. /\ stage = "servers" /\ UNCHANGED <<stage, memory, clients>>
          /\ waiting' = waiting \ {n} /\ client' = [client EXCEPT ![n] = "closed"]
      BY <1>5 DEF CannotDial, GiveUp, Connecting, CloseClient
    <2>2. running' \subseteq running /\ n \notin running'
      BY <1>5 DEF CannotDial, GiveUp, CloseClient
    <2> QED  BY <1>1, <2>1, <2>2
  <1>6. ASSUME Load \/ Connected \/ ChooseProvider \/ OpenMemory \/ DiscoverSkills
               \/ (\E bad \in BOOLEAN : BuildGate(bad))
        PROVE  OwnInv'
    BY <1>6 DEF Load, Connected, ChooseProvider, OpenMemory, DiscoverSkills,
                BuildGate, Abort, mcpVars
  <1>7. ASSUME CloseServer
        PROVE  OwnInv'
    <2>1. /\ stage = "close" /\ clients # <<>> /\ clients' = Tail(clients)
          /\ UNCHANGED <<stage, waiting, memory>>
          /\ running' = running \ {Head(clients)}
          /\ client' = [client EXCEPT ![Head(clients)] = "closed"]
      BY <1>7 DEF CloseServer, CloseClient
    <2>2. ToSet(clients) \subseteq ToSet(clients') \cup {Head(clients)}
      BY <2>1, WithoutHead DEF ListTyped
    <2>3. Head(clients) \in Servers
      BY <2>1 DEF ListTyped
    <2> QED  BY <1>1, <2>1, <2>2, <2>3
  <1>8. ASSUME Leave
        PROVE  OwnInv'
    <2>1. /\ stage = "close" /\ clients = <<>> /\ memory # "open"
          /\ UNCHANGED <<waiting, clients, memory, client, running>>
          /\ stage' = "gone"
      BY <1>8 DEF Leave, mcpVars
    <2>2. ToSet(clients) = {}
      BY <2>1 DEF ToSet
    <2> QED  BY <2>1, <2>2
  <1>9. ASSUME CloseMemory \/ Return
        PROVE  OwnInv'
    BY <1>9 DEF CloseMemory, Return, mcpVars
  <1> QED
    <2>1. CASE Assemble
      BY <1>3, <1>4, <1>5, <1>6, <2>1 DEF Assemble, AssembleNext
    <2>2. CASE Gate_
      <3>1. \E bad \in BOOLEAN : BuildGate(bad)
        BY <2>2 DEF Gate_, BuildGate
      <3> QED  BY <1>6, <3>1
    <2>3. CASE Turn
      BY <1>2, <2>3 DEF Turn, Run, CallTool, Ask, sessionVars, mcpVars
    <2>4. CASE Begin \/ Loop \/ ComposeCommand \/ UNCHANGED vars
      <3>1. UNCHANGED sessionVars
        BY <2>4 DEF Begin, Loop, ComposeCommand, vars
      <3> QED  BY <1>2, <3>1 DEF sessionVars, mcpVars
    <2>5. CASE Return \/ Close
      BY <1>7, <1>8, <1>9, <2>5 DEF Close, CloseNext
    <2>6. CASE Environment
      BY <1>2, <2>6 DEF Environment, Kill, ServerMoves, Die, Hang, Restart, mcpVars
    <2> QED  BY <2>1, <2>2, <2>3, <2>4, <2>5, <2>6 DEF Next

(***************************************************************************)
(* Whatever dies, fails or restarts, every subprocess that runs has an     *)
(* owner until the process is killed, and a closed session leaves none.    *)
(***************************************************************************)
THEOREM Owned == Spec => []EveryServerOwned
  <1>1. Init => OwnInv
    BY DEF Init, SessionInit, McpInit, OwnInv, EveryServerOwned, Settled_
  <1>2. ListTyped /\ HandInv /\ OwnInv /\ [Next]_vars => OwnInv'
    BY OwnStep
  <1>3. OwnInv => EveryServerOwned
    BY DEF OwnInv
  <1> QED  BY <1>1, <1>2, <1>3, ListTyping, Handing, PTL DEF Spec

-----------------------------------------------------------------------------
(***************************************************************************)
(* A turn runs only when one was begun.                                    *)
(***************************************************************************)
Counted == turnNo \in Nat /\ (turnNo = 0 => turn = "none")

LEMMA Counting == Spec => []Counted
  <1> USE DEF Counted
  <1>1. Init => Counted
    BY DEF Init, FrontInit
  <1>2. ASSUME Counted, [Next]_vars
        PROVE  Counted'
    <2>1. ASSUME TurnNext
          PROVE  turnNo' = turnNo /\ turn # "none"
      BY <2>1 DEF TurnNext, StreamText, StreamThinking, StreamCall, StreamEnds, StreamFails,
                  AskGate, AskReturns, RunTool, Notify, EndTurn, AtWork, turnVars
    <2>2. CASE SubmitTurn \/ RunOnce
      BY <1>2, <2>2 DEF SubmitTurn, RunOnce, BeginTurn
    <2>3. CASE UNCHANGED turnVars
      BY <1>2, <2>3 DEF turnVars
    <2>4. FrontNext => TurnNext \/ SubmitTurn \/ RunOnce \/ UNCHANGED turnVars
      BY DEF FrontNext, LoopNext, TakeMessage, AnswerPrompt, SubmitCommand, CommandEnds,
             SubmitSender, Quit, SendToNobody, OpenTerminal
    <2> QED  BY <1>2, <2>1, <2>2, <2>3, <2>4, FrontMoves
  <1> QED  BY <1>1, <1>2, PTL DEF Spec

(***************************************************************************)
(* Nothing is asked before there is a session to ask in.                   *)
(***************************************************************************)
Assembling == {"load", "servers", "provider", "gate", "memory", "skills"}

Quiet == stage \in Assembling => turn = "none"

LEMMA Quietness == Spec => []Quiet
  <1> USE DEF Quiet, Assembling
  <1>1. Init => Quiet
    BY DEF Init, FrontInit
  <1>2. ASSUME Quiet, [Next]_vars
        PROVE  Quiet'
    <2>1. CASE Assemble \/ Gate_ \/ Return \/ Close \/ Environment
      <3>1. turn' = turn
        BY <2>1 DEF Assemble, Gate_, Return, Close, Environment, frontVars, turnVars
      <3>2. stage' \in Assembling => stage \in Assembling
        <4>1. CASE Assemble
          BY <4>1 DEF Assemble, AssembleNext, Load, Connect, Keep, CannotDial, GiveUp,
                      Connecting, Connected, ChooseProvider, OpenMemory, DiscoverSkills,
                      Abort
        <4>2. CASE Gate_ \/ Return \/ Close \/ Environment
          BY <4>2 DEF Gate_, BuildGate, Abort, Return, Close, CloseNext, CloseMemory,
                      CloseServer, Leave, Environment, Kill, ServerMoves
        <4> QED  BY <2>1, <4>1, <4>2
      <3> QED  BY <1>2, <3>1, <3>2
    <2>2. CASE Begin \/ Turn \/ Loop
      BY <2>2 DEF Begin, Turn, Run, Loop, sessionVars
    <2>3. CASE ComposeCommand \/ UNCHANGED vars
      BY <1>2, <2>3 DEF ComposeCommand, vars, sessionVars, frontVars, turnVars
    <2> QED  BY <1>2, <2>1, <2>2, <2>3 DEF Next
  <1> QED  BY <1>1, <1>2, PTL DEF Spec

(***************************************************************************)
(* What the gate says of the call that is up, while the rules stand.       *)
(***************************************************************************)
Says == GateSays(skip, Prompting, rules, Head(todo))

(***************************************************************************)
(* A tool that runs is one the gate allows, or asks about: then the user's *)
(* last yes was given while this very call was shown (prompt.go:27-35,     *)
(* model.go:167-210).                                                      *)
(***************************************************************************)
Asked ==
    turn = "run" => Says = "allow" \/ (Says = "ask" /\ granted = callNo)

(***************************************************************************)
(* Of a question to the user there is one trace at a time: the message,    *)
(* the prompt that is shown, or the reply; each is about the call that is  *)
(* up, and the turn waits.                                                 *)
(***************************************************************************)
AskInv ==
    /\ Asked
    /\ turn = "ask" => Says = "ask"
    /\ out = "prompt" => turn = "ask" /\ answer = <<>> /\ pending = 0
    /\ pending # 0 =>
         turn = "ask" /\ out = "none" /\ answer = <<>> /\ pending = callNo
    /\ answer # <<>> =>
         /\ turn = "ask" /\ out = "none"
         /\ answer \in {<<TRUE>>, <<FALSE>>}
         /\ answer = <<TRUE>> => granted = callNo

LEMMA OneReply ==
    ASSUME NEW b
    PROVE  Head(<<b>>) = b
  OBVIOUS

LEMMA AskStep ==
    ASSUME AloneInv, Counted, AskInv, FrontNext
    PROVE  AskInv'
  <1> USE DEF AskInv, Asked
  <1>1. ASSUME turn \notin {"ask", "run"}, turn' \notin {"ask", "run"}, out # "prompt",
               out' # "prompt", UNCHANGED <<pending, answer>>
        PROVE  AskInv'
    BY <1>1
  <1>2. ASSUME TurnNext
        PROVE  AskInv'
    <2> USE DEF AtWork, Send, loopVars, turnVars, setup
    <2>1. ASSUME StreamText \/ StreamThinking \/ StreamEnds \/ StreamFails
          PROVE  AskInv'
      BY <1>1, <2>1 DEF StreamText, StreamThinking, StreamEnds, StreamFails
    <2>2. ASSUME NEW call \in Calls, StreamCall(call)
          PROVE  AskInv'
      BY <1>1, <2>2 DEF StreamCall
    <2>3. ASSUME AskGate
          PROVE  AskInv'
      <3>1. /\ turn = "gate" /\ out = "none" /\ pending = 0 /\ answer = <<>>
            /\ UNCHANGED <<mode, skip, rules, pending, answer>>
        BY <2>3 DEF AskGate
      <3>2. CASE Says = "deny" /\ Report
        BY <1>1, <3>1, <3>2 DEF Report
      <3>3. CASE Says = "allow" /\ turn' = "run" /\ UNCHANGED <<todo, out>>
        BY <3>1, <3>3 DEF Says, Prompting
      <3>4. CASE Says = "ask" /\ turn' = "ask" /\ Send("prompt") /\ todo' = todo
        BY <3>1, <3>4 DEF Says, Prompting
      <3> QED  BY <2>3, <3>2, <3>3, <3>4 DEF AskGate, Says
    <2>4. ASSUME AskReturns
          PROVE  AskInv'
      <3>1. /\ turn = "ask" /\ out = "none" /\ pending = 0 /\ answer' = <<>>
            /\ answer \in {<<TRUE>>, <<FALSE>>}
            /\ UNCHANGED <<mode, skip, rules, pending, granted, callNo>>
        BY <2>4 DEF AskReturns
      <3> DEFINE yes == Head(answer)
      <3>2. IF yes THEN turn' = "run" /\ todo' = todo /\ out' = out ELSE Report
        BY <2>4 DEF AskReturns
      <3>3. CASE answer = <<TRUE>>
        <4>1. yes = TRUE
          BY <3>3, OneReply, Zenon
        <4> HIDE DEF yes
        <4>2. turn' = "run" /\ todo' = todo /\ out' = out
          BY <3>2, <4>1, Zenon
        <4> QED  BY <3>1, <3>3, <4>2 DEF Says, Prompting
      <3>4. CASE answer = <<FALSE>>
        <4>1. yes = FALSE
          BY <3>4, OneReply, Zenon
        <4> HIDE DEF yes
        <4>2. Report
          BY <3>2, <4>1, Zenon
        <4> QED  BY <3>1, <4>2 DEF Report
      <3> QED  BY <3>1, <3>3, <3>4
    <2>5. ASSUME RunTool
          PROVE  AskInv'
      BY <2>5 DEF RunTool, Report
    <2>6. ASSUME Notify \/ EndTurn
          PROVE  AskInv'
      BY <1>1, <2>6 DEF Notify, EndTurn
    <2> QED  BY <1>2, <2>1, <2>2, <2>3, <2>4, <2>5, <2>6 DEF TurnNext
  <1>3. ASSUME UNCHANGED <<setup, turn, todo, callNo, granted, answer, pending>>,
               out' = out \/ out' = "none"
        PROVE  AskInv'
    BY <1>3 DEF setup, Says, Prompting
  <1>4. ASSUME TakeMessage
        PROVE  AskInv'
    <2>1. CASE out = "prompt"
      BY <1>4, <2>1 DEF TakeMessage, setup, turnVars, Says, Prompting
    <2>2. CASE out # "prompt"
      BY <1>3, <1>4, <2>2 DEF TakeMessage, turnVars
    <2> QED  BY <2>1, <2>2
  <1>5. ASSUME NEW yes \in BOOLEAN, AnswerPrompt(yes)
        PROVE  AskInv'
    <2>1. /\ turn = "ask" /\ out = "none" /\ answer' = <<yes>> /\ pending = callNo
          /\ pending' = 0 /\ granted' = IF yes THEN pending ELSE granted
          /\ UNCHANGED <<mode, skip, rules, turn, todo, callNo, out>>
      BY <1>5 DEF AnswerPrompt, setup, turnVars
    <2>2. yes = TRUE \/ yes = FALSE
      OBVIOUS
    <2>3. <<yes>> # <<>> /\ <<FALSE>> # <<TRUE>>
      OBVIOUS
    <2> QED  BY <2>1, <2>2, <2>3 DEF Says, Prompting
  <1>6. ASSUME SubmitTurn \/ RunOnce
        PROVE  AskInv'
    <2>1. turn = "none" /\ out # "prompt"
      BY <1>6 DEF SubmitTurn, RunOnce, Listening, AloneInv, Counted
    <2> QED  BY <1>1, <1>6, <2>1 DEF SubmitTurn, RunOnce, BeginTurn, loopVars
  <1>7. ASSUME SubmitCommand \/ CommandEnds \/ SubmitSender \/ Quit \/ SendToNobody
               \/ OpenTerminal
        PROVE  AskInv'
    BY <1>3, <1>7 DEF SubmitCommand, CommandEnds, SubmitSender, Quit, SendToNobody,
                      OpenTerminal, turnVars, loopVars
  <1> QED  BY <1>2, <1>4, <1>5, <1>6, <1>7 DEF FrontNext, LoopNext

LEMMA Asking == Spec => []AskInv
  <1>1. Init => AskInv
    BY DEF Init, FrontInit, AskInv, Asked
  <1>2. ASSUME AloneInv, Counted, Quiet, AskInv, [Next]_vars
        PROVE  AskInv'
    <2>1. CASE FrontNext
      BY <1>2, <2>1, AskStep
    <2>2. CASE Gate_
      <3>1. turn = "none" /\ UNCHANGED <<turn, out, pending, answer>>
        BY <1>2, <2>2 DEF Gate_, BuildGate, Quiet, Assembling, loopVars, turnVars
      <3> QED  BY <1>2, <3>1 DEF AskInv, Asked
    <2>3. CASE UNCHANGED frontVars
      BY <1>2, <2>3 DEF AskInv, Asked, Says, Prompting, frontVars, setup, loopVars, turnVars
    <2>4. FrontNext \/ Gate_ \/ UNCHANGED frontVars
      BY <1>2 DEF Next, Assemble, Begin, Turn, Run, Loop, ComposeCommand, Return, Close,
                  Environment, FrontNext, TurnNext, vars
    <2> QED  BY <2>1, <2>2, <2>3, <2>4
  <1> QED  BY <1>1, <1>2, Aloneness, Counting, Quietness, PTL DEF Spec

(***************************************************************************)
(* No reply is kept for a later call: a tool runs that the gate allows, or *)
(* that the user allowed when this call was shown; for any rules.          *)
(***************************************************************************)
THEOREM Consent == Spec => []Asked
  <1>1. AskInv => Asked
    BY DEF AskInv
  <1> QED  BY <1>1, Asking, PTL

-----------------------------------------------------------------------------
(***************************************************************************)
(* The types, and what keeps the number of calls in its bound: a call that *)
(* is up is numbered and still listed.                                     *)
(***************************************************************************)
LoopTyped ==
    /\ loop \in {"off", "free", "command", "stuck", "quit"}
    /\ busy \in BOOLEAN
    /\ pending \in 0..MaxCalls
    /\ answer \in {<<>>, <<TRUE>>, <<FALSE>>}
    /\ cur \subseteq 1..MaxTurns
    /\ granted \in 0..MaxCalls

Message == {"none", "text", "thinking", "call", "turnend", "error", "prompt",
            "result", "notice", "done"}

WorkTyped ==
    /\ turn \in {"none", "stream", "gate", "ask", "run", "end", "over"}
    /\ todo \in Seq(Calls)
    /\ out \in Message
    /\ turnNo \in 0..MaxTurns
    /\ callNo \in Nat
    /\ cut \subseteq 1..MaxTurns
    /\ turn \in {"gate", "ask", "run"} => Len(todo) > 0
    /\ callNo + Len(todo) <= MaxCalls + (IF turn \in {"ask", "run"} THEN 1 ELSE 0)

LEMMA CallsBound ==
    ASSUME WorkTyped
    PROVE  callNo \in 0..MaxCalls
  <1>1. Len(todo) \in Nat
    BY DEF WorkTyped
  <1> QED  BY <1>1, FrontAssumption DEF WorkTyped

LEMMA ReportTyped ==
    ASSUME WorkTyped, Report, turn \in {"gate", "ask", "run"},
           UNCHANGED <<turnNo, cut>>,
           callNo' = IF turn = "gate" THEN callNo + 1 ELSE callNo
    PROVE  WorkTyped'
  <1>1. Len(todo) \in Nat /\ Len(todo) > 0 /\ todo \in Seq(Calls) /\ todo # <<>>
    BY DEF WorkTyped
  <1>2. todo' \in Seq(Calls) /\ Len(todo') = Len(todo) - 1
    BY <1>1 DEF Report
  <1>3. turn' = IF Len(todo) = 1 THEN "stream" ELSE "gate"
    BY DEF Report
  <1>4. out' \in Message
    BY DEF Report, Send, Message
  <1>5. callNo' \in Nat /\ callNo' + Len(todo') <= MaxCalls
    BY <1>1, <1>2, FrontAssumption DEF WorkTyped
  <1> QED  BY <1>1, <1>2, <1>3, <1>4, <1>5, FrontAssumption DEF WorkTyped

LEMMA WorkStep ==
    ASSUME Counted, WorkTyped, TurnNext
    PROVE  WorkTyped' /\ (LoopTyped => LoopTyped')
  <1>1. turn # "none" => turnNo \in 1..MaxTurns
    BY DEF Counted, WorkTyped
  <1>2. ASSUME UNCHANGED loopVars
        PROVE  LoopTyped => LoopTyped'
    BY <1>2 DEF LoopTyped, loopVars
  <1>3. Len(todo) \in Nat /\ todo \in Seq(Calls)
    BY DEF WorkTyped
  <1> USE FrontAssumption DEF AtWork, turnVars
  <1>4. CASE StreamText \/ StreamThinking
    BY <1>2, <1>4 DEF StreamText, StreamThinking, WorkTyped, Send, Message
  <1>5. ASSUME NEW call \in Calls, StreamCall(call)
        PROVE  WorkTyped' /\ (LoopTyped => LoopTyped')
    <2>1. todo' \in Seq(Calls) /\ Len(todo') = Len(todo) + 1
      BY <1>3, <1>5 DEF StreamCall
    <2>2. out' \in Message
      BY <1>5 DEF StreamCall, Send, Message
    <2>3. turn' = "stream" /\ UNCHANGED <<turnNo, callNo, cut>>
      BY <1>5 DEF StreamCall
    <2>4. callNo + Len(todo') <= MaxCalls
      BY <1>3, <1>5, <2>1 DEF StreamCall, WorkTyped
    <2>5. WorkTyped'
      BY <2>1, <2>2, <2>3, <2>4 DEF WorkTyped
    <2> QED  BY <1>2, <1>5, <2>5 DEF StreamCall
  <1>6. CASE StreamEnds
    <2>1. /\ turn = "stream" /\ turn' = IF todo = <<>> THEN "end" ELSE "gate"
          /\ UNCHANGED <<todo, turnNo, callNo>>
      BY <1>6 DEF StreamEnds
    <2>2. todo # <<>> => Len(todo) > 0
      BY <1>3
    <2>3. cut' \subseteq 1..MaxTurns /\ out' \in Message
      BY <1>1, <1>6 DEF StreamEnds, Send, Message, WorkTyped
    <2>4. WorkTyped'
      BY <2>1, <2>2, <2>3 DEF WorkTyped
    <2> QED  BY <1>2, <1>6, <2>4 DEF StreamEnds
  <1>7. CASE StreamFails
    <2>1. turn' = "end" /\ todo' = <<>> /\ turn = "stream" /\ UNCHANGED <<turnNo, callNo>>
      BY <1>7 DEF StreamFails
    <2>2. todo' \in Seq(Calls) /\ Len(todo') = 0
      BY <2>1
    <2>3. cut' \subseteq 1..MaxTurns /\ out' \in Message
      BY <1>1, <1>7 DEF StreamFails, Send, Message, WorkTyped
    <2>4. callNo' + 0 <= MaxCalls
      BY <1>3, <2>1 DEF WorkTyped
    <2>5. WorkTyped'
      BY <2>1, <2>2, <2>3, <2>4 DEF WorkTyped
    <2> QED  BY <1>2, <1>7, <2>5 DEF StreamFails
  <1>8. CASE AskGate
    <2>1. turn = "gate" /\ callNo' = callNo + 1 /\ UNCHANGED <<turnNo, cut>>
      BY <1>8 DEF AskGate
    <2>2. ASSUME Report
          PROVE  WorkTyped'
      BY <2>1, <2>2, ReportTyped
    <2>3. ASSUME turn' \in {"ask", "run"}, out' \in Message, todo' = todo
          PROVE  WorkTyped'
      BY <1>3, <2>1, <2>3 DEF WorkTyped
    <2>4. Report \/ (turn' \in {"ask", "run"} /\ out' \in Message /\ todo' = todo)
      BY <1>8 DEF AskGate, Send, Message
    <2> QED  BY <1>2, <1>8, <2>2, <2>3, <2>4 DEF AskGate
  <1>9. CASE AskReturns
    <2>1. /\ turn = "ask" /\ out = "none" /\ answer' = <<>>
          /\ UNCHANGED <<loop, busy, pending, cur, granted, turnNo, callNo, cut>>
      BY <1>9 DEF AskReturns
    <2>2. ASSUME Report
          PROVE  WorkTyped'
      BY <2>1, <2>2, ReportTyped
    <2>3. ASSUME turn' = "run", UNCHANGED <<todo, out>>
          PROVE  WorkTyped'
      BY <1>3, <2>1, <2>3 DEF WorkTyped
    <2>4. Report \/ (turn' = "run" /\ UNCHANGED <<todo, out>>)
      BY <1>9, Zenon DEF AskReturns
    <2>5. LoopTyped => LoopTyped'
      BY <2>1 DEF LoopTyped
    <2> QED  BY <2>2, <2>3, <2>4, <2>5
  <1>10. CASE RunTool
    BY <1>2, <1>10, ReportTyped DEF RunTool
  <1>11. CASE Notify \/ EndTurn
    BY <1>2, <1>3, <1>11 DEF Notify, EndTurn, WorkTyped, Send, Message
  <1> QED
    BY <1>4, <1>5, <1>6, <1>7, <1>8, <1>9, <1>10, <1>11 DEF TurnNext

LEMMA LoopStep ==
    ASSUME AloneInv, Counted, TextInv, LoopTyped, WorkTyped,
           LoopNext \/ OpenTerminal \/ RunOnce
    PROVE  LoopTyped' /\ WorkTyped'
  <1> USE FrontAssumption
  <1>1. Len(todo) \in Nat
    BY DEF WorkTyped
  <1>2. ASSUME UNCHANGED turnVars, out' = out \/ out' = "none"
        PROVE  WorkTyped'
    BY <1>1, <1>2 DEF WorkTyped, turnVars, Message
  <1>3. CASE TakeMessage
    <2>1. out = "text" => turnNo \in 1..MaxTurns
      BY DEF TextInv, Counted, WorkTyped
    <2>2. cur' \subseteq 1..MaxTurns
      BY <1>3, <2>1 DEF TakeMessage, LoopTyped
    <2>3. pending' \in 0..MaxCalls
      BY <1>3, CallsBound DEF TakeMessage, LoopTyped
    <2>4. busy' \in BOOLEAN
      BY <1>3 DEF TakeMessage, LoopTyped
    <2> QED  BY <1>2, <1>3, <2>2, <2>3, <2>4 DEF TakeMessage, LoopTyped
  <1>4. ASSUME NEW yes \in BOOLEAN, AnswerPrompt(yes)
        PROVE  LoopTyped' /\ WorkTyped'
    <2>1. answer' = answer \/ answer' = <<yes>>
      BY <1>4 DEF AnswerPrompt
    <2>2. yes = TRUE \/ yes = FALSE
      OBVIOUS
    <2>3. answer \in {<<>>, <<TRUE>>, <<FALSE>>}
      BY DEF LoopTyped
    <2>4. answer' \in {<<>>, <<TRUE>>, <<FALSE>>}
      BY <2>1, <2>2, <2>3, Zenon
    <2>5. /\ UNCHANGED <<loop, busy, cur>>
          /\ granted' \in 0..MaxCalls /\ pending' \in 0..MaxCalls
      BY <1>4 DEF AnswerPrompt, LoopTyped
    <2>6. LoopTyped'
      BY <2>4, <2>5 DEF LoopTyped
    <2> QED  BY <1>2, <1>4, <2>6 DEF AnswerPrompt
  <1>5. CASE SubmitTurn \/ RunOnce
    <2>1. /\ turn' = "stream" /\ turnNo' \in 0..MaxTurns
          /\ UNCHANGED <<todo, callNo, cut, out, loop, pending, answer, cur, granted>>
          /\ busy' = busy \/ busy' = TRUE
      BY <1>5 DEF SubmitTurn, RunOnce, BeginTurn, loopVars, WorkTyped
    <2>2. LoopTyped'
      BY <2>1 DEF LoopTyped
    <2>3. turn = "none"
      BY <1>5 DEF SubmitTurn, RunOnce, Listening, AloneInv, Counted
    <2> QED  BY <1>1, <2>1, <2>2, <2>3 DEF WorkTyped
  <1>6. CASE \/ SubmitCommand \/ CommandEnds \/ SubmitSender \/ Quit \/ SendToNobody
             \/ OpenTerminal
    <2>1. /\ loop' \in {"free", "command", "stuck", "quit"}
          /\ UNCHANGED <<busy, pending, answer, cur, granted>>
      BY <1>6 DEF SubmitCommand, CommandEnds, SubmitSender, Quit, SendToNobody,
                  OpenTerminal, loopVars
    <2>2. LoopTyped'
      BY <2>1 DEF LoopTyped
    <2>3. UNCHANGED turnVars /\ (out' = out \/ out' = "none")
      BY <1>6 DEF SubmitCommand, CommandEnds, SubmitSender, Quit, SendToNobody, OpenTerminal
    <2> QED  BY <1>2, <2>2, <2>3
  <1> QED  BY <1>3, <1>4, <1>5, <1>6 DEF LoopNext

LEMMA FrontTyping == Spec => [](LoopTyped /\ WorkTyped)
  <1>1. Init => LoopTyped /\ WorkTyped
    <2> SUFFICES ASSUME Init
                 PROVE  LoopTyped /\ WorkTyped
      OBVIOUS
    <2>1. LoopTyped
      <3>1. /\ loop = "off" /\ busy = FALSE /\ pending = 0 /\ answer = <<>> /\ cur = {}
            /\ granted = 0
        BY DEF Init, FrontInit
      <3>2. answer \in {<<>>, <<TRUE>>, <<FALSE>>}
        BY <3>1, Zenon
      <3>3. pending \in 0..MaxCalls /\ granted \in 0..MaxCalls
        BY <3>1, FrontAssumption
      <3>4. busy \in BOOLEAN /\ cur \subseteq 1..MaxTurns
        BY <3>1
      <3>5. loop \in {"off", "free", "command", "stuck", "quit"}
        BY <3>1
      <3> QED  BY <3>2, <3>3, <3>4, <3>5, Zenon DEF LoopTyped
    <2>2. todo = <<>> /\ callNo = 0 /\ turn = "none"
      BY DEF Init, FrontInit
    <2>3. todo \in Seq(Calls) /\ Len(todo) = 0
      BY <2>2
    <2>4. out \in Message /\ turnNo \in 0..MaxTurns /\ cut = {}
      BY FrontAssumption DEF Init, FrontInit, Message
    <2> QED  BY <2>1, <2>2, <2>3, <2>4, FrontAssumption DEF WorkTyped
  <1>2. ASSUME AloneInv, Counted, TextInv, LoopTyped, WorkTyped, [Next]_vars
        PROVE  LoopTyped' /\ WorkTyped'
    <2>1. CASE UNCHANGED <<mode, loopVars, turnVars, out>>
      BY <1>2, <2>1 DEF LoopTyped, WorkTyped, loopVars, turnVars
    <2> QED  BY <1>2, <2>1, FrontMoves, WorkStep, LoopStep DEF FrontNext
  <1> QED  BY <1>1, <1>2, Aloneness, Counting, Texting, PTL DEF Spec

(***************************************************************************)
(* The servers' types, after any operation on any of them.                 *)
(***************************************************************************)
LEMMA McpTypeStep ==
    ASSUME McpTypeOK, NEW n \in Servers, Operation(n)
    PROVE  McpTypeOK'
  <1> USE McpClientAssumption DEF McpTypeOK, Stages
  <1>1. ASSUME Remember(n)
        PROVE  session' \in [Servers -> 0..MaxLives]
    BY <1>1 DEF Remember
  <1>2. CASE Dial(n)
    BY <1>2 DEF Dial
  <1>3. CASE Greet(n)
    BY <1>1, <1>3 DEF Greet
  <1>4. CASE Announce(n)
    BY <1>1, <1>4 DEF Announce
  <1>5. CASE ListTools(n) \/ CallTool(n)
    BY <1>1, <1>5 DEF ListTools, CallTool, Ask
  <1>6. CASE CloseClient(n)
    BY <1>6 DEF CloseClient
  <1>7. CASE Die(n) \/ Hang(n)
    BY <1>7 DEF Die, Hang
  <1>8. CASE Restart(n)
    BY <1>8 DEF Restart
  <1>9. CASE /\ client' = [client EXCEPT ![n] = "closed"]
             /\ UNCHANGED <<running, hung, heard, session, life, early>>
    BY <1>9
  <1> QED
    BY <1>2, <1>3, <1>4, <1>5, <1>6, <1>7, <1>8, <1>9 DEF Operation

LEMMA SessionTyping == Spec => []SessionTypeOK
  <1>1. Init => SessionTypeOK
    <2> SUFFICES ASSUME Init
                 PROVE  SessionTypeOK
      OBVIOUS
    <2>1. McpTypeOK
      BY McpClientAssumption DEF Init, SessionInit, McpInit, McpTypeOK, Stages
    <2>2. clients \in Seq(Servers)
      BY DEF Init, SessionInit
    <2> QED  BY <2>1, <2>2 DEF Init, SessionInit, SessionTypeOK
  <1>2. ASSUME SessionTypeOK, ListTyped', [Next]_vars
        PROVE  SessionTypeOK'
    <2>1. McpTypeOK'
      <3>1. CASE UNCHANGED mcpVars
        BY <1>2, <3>1 DEF SessionTypeOK, McpTypeOK, mcpVars
      <3> QED  BY <1>2, <3>1, McpMoves, McpTypeStep DEF SessionTypeOK, ListTyped
    <2> USE DEF SessionTypeOK
    <2>2. setUp' \in Setups /\ waiting' \subseteq Servers
      <3>1. Declared(setUp) \subseteq Servers
        BY <1>2, SessionAssumption DEF Declared, Configured
      <3>2. setUp' = setUp /\ waiting' \subseteq waiting \cup Declared(setUp)
        <4>1. CASE Assemble
          BY <4>1 DEF Assemble, AssembleNext, Load, Connect, Keep, CannotDial, GiveUp,
                      Connected, ChooseProvider, OpenMemory, DiscoverSkills
        <4>2. CASE Gate_ \/ Return \/ Close \/ Environment
          BY <4>2 DEF Gate_, BuildGate, Return, Close, CloseNext, CloseMemory,
                      CloseServer, Leave, Environment, Kill, ServerMoves
        <4>3. CASE Turn
          BY <4>3 DEF Turn, Run, sessionVars
        <4>4. CASE Begin \/ Loop \/ ComposeCommand \/ UNCHANGED vars
          BY <4>4 DEF Begin, Loop, ComposeCommand, sessionVars, vars
        <4> QED  BY <1>2, <4>1, <4>2, <4>3, <4>4 DEF Next
      <3> QED  BY <1>2, <3>1, <3>2
    <2>3. /\ stage' \in {"load", "servers", "provider", "gate", "memory", "skills",
                        "front", "close", "gone", "aborted", "killed"}
          /\ memory' \in {"none", "open", "closed"}
          /\ code' \in 0..2
      <3>1. ProviderFailure(setUp) \in 0..2
        BY DEF ProviderFailure
      <3>2. CASE Assemble
        <4>1. ASSUME NEW n \in Servers, Connect(n) \/ Keep(n) \/ CannotDial(n) \/ GiveUp(n)
              PROVE  UNCHANGED <<stage, memory, code>>
          BY <4>1 DEF Connect, Keep, CannotDial, GiveUp
        <4>2. ASSUME Load \/ Connected \/ DiscoverSkills
              PROVE  stage' \in {"servers", "provider", "front", "aborted"}
                     /\ code' \in {code, 1} /\ memory' = memory
          BY <4>2 DEF Load, Connected, DiscoverSkills, Abort
        <4>3. ASSUME ChooseProvider
              PROVE  stage' \in {"gate", "aborted"} /\ memory' = memory
                     /\ code' \in {code, ProviderFailure(setUp)}
          BY <4>3 DEF ChooseProvider, Abort
        <4>4. ASSUME OpenMemory
              PROVE  stage' \in {"skills", "aborted"} /\ code' \in {code, 1}
                     /\ memory' \in {memory, "open", "none"}
          BY <4>4 DEF OpenMemory, Abort
        <4> QED
          BY <1>2, <3>1, <3>2, <4>1, <4>2, <4>3, <4>4 DEF Assemble, AssembleNext
      <3>3. CASE Gate_ \/ Return \/ Close \/ Environment
        BY <1>2, <3>3 DEF Gate_, BuildGate, Abort, Return, Close, CloseNext, CloseMemory,
                    CloseServer, Leave, Environment, Kill, ServerMoves
      <3>4. CASE Turn
        BY <1>2, <3>4 DEF Turn, Run, sessionVars
      <3>5. CASE Begin \/ Loop \/ ComposeCommand \/ UNCHANGED vars
        BY <1>2, <3>5 DEF Begin, Loop, ComposeCommand, sessionVars, vars
      <3> QED  BY <1>2, <3>2, <3>3, <3>4, <3>5 DEF Next
    <2>4. clients' \in Seq(Servers)
      BY <1>2 DEF ListTyped
    <2> QED  BY <2>1, <2>2, <2>3, <2>4
  <1> QED  BY <1>1, <1>2, ListTyping, PTL DEF Spec

(***************************************************************************)
(* The types of the whole program, whatever is configured: among them the  *)
(* bounds of turns and calls, which the text and the prompts refer to.     *)
(***************************************************************************)
THEOREM ProgramTyping == Spec => []TypeOK
  <1>1. LoopTyped /\ WorkTyped => FrontTypeOK
    BY CallsBound DEF LoopTyped, WorkTyped, Message, FrontTypeOK
  <1>2. LoopTyped /\ WorkTyped /\ SessionTypeOK /\ ComposeTypeOK => TypeOK
    BY <1>1 DEF TypeOK
  <1> QED  BY <1>2, FrontTyping, SessionTyping, Composes, Typing, PTL

-----------------------------------------------------------------------------
(***************************************************************************)
(* The rules, as maps and as a list.  The greatest number is the one that  *)
(* no other exceeds.                                                       *)
(***************************************************************************)
LEMMA MaxIs ==
    ASSUME NEW S, S \subseteq Nat, NEW x \in S, \A y \in S : y <= x
    PROVE  Max(S) = x
  <1>1. Max(S) \in S /\ \A y \in S : y <= Max(S)
    BY MaxFacts
  <1>2. Max(S) \in Nat /\ x \in Nat /\ Max(S) <= x /\ x <= Max(S)
    BY <1>1
  <1> QED  BY <1>2

\* One list after another.
LEMMA Joined ==
    ASSUME NEW a \in Nat, NEW b \in Nat, NEW f, NEW g,
           f = [i \in 1..a |-> f[i]], g = [j \in 1..b |-> g[j]]
    PROVE  /\ DOMAIN (f \o g) = 1..(a + b)
           /\ \A i \in 1..a : (f \o g)[i] = f[i]
           /\ \A j \in 1..b : (f \o g)[a + j] = g[j]
  <1> DEFINE S == {f[i] : i \in 1..a} \cup {g[j] : j \in 1..b}
  <1>1. \A i \in 1..a : f[i] \in S
    OBVIOUS
  <1>2. \A j \in 1..b : g[j] \in S
    OBVIOUS
  <1> HIDE DEF S
  <1>3. f \in [1..a -> S] /\ g \in [1..b -> S]
    BY <1>1, <1>2
  <1>4. f \in Seq(S) /\ g \in Seq(S) /\ Len(f) = a /\ Len(g) = b
    BY <1>3
  <1> QED  BY <1>4

(***************************************************************************)
(* The numbers of globs, in order, have no more than the globs.            *)
(***************************************************************************)
LEMMA KeyFacts ==
    ASSUME NEW n \in Nat, NEW K, K \subseteq 1..n
    PROVE  /\ K \in SUBSET Int /\ K \subseteq Nat /\ IsFiniteSet(K)
           /\ Cardinality(K) \in Nat
           /\ \A i \in 1..Cardinality(K) : Nth(K, i) \in K /\ Rank(K, Nth(K, i)) = i
           /\ \A k \in K : Rank(K, k) \in 1..Cardinality(K) /\ Nth(K, Rank(K, k)) = k
           /\ \A k, l \in K : k <= l => Rank(K, k) <= Rank(K, l)
  <1>1. IsFiniteSet(K)
    <2>1. IsFiniteSet(1..n)
      BY FS_Interval
    <2> QED  BY <2>1, FS_Subset
  <1>2. K \in SUBSET Int /\ K \subseteq Nat
    OBVIOUS
  <1>3. /\ Cardinality(K) \in Nat
        /\ \A i \in K : Rank(K, i) \in 1..Cardinality(K)
        /\ \A i, j \in K : i < j => Rank(K, i) < Rank(K, j)
    BY <1>1, <1>2, RankFacts
  <1>4. \A k, l \in K : k <= l => Rank(K, k) <= Rank(K, l)
    <2> SUFFICES ASSUME NEW k \in K, NEW l \in K, k <= l
                 PROVE  Rank(K, k) <= Rank(K, l)
      OBVIOUS
    <2>1. Rank(K, k) \in Nat /\ Rank(K, l) \in Nat
      BY <1>3
    <2> QED  BY <1>2, <1>3, <2>1
  <1> QED  BY <1>1, <1>2, <1>3, <1>4, NthFacts

\* Some of the first numbers.
Numbers(K) == \E n \in Nat : K \subseteq 1..n

\* The positions in the list of the globs On of the first run K and At of the
\* second run J.
Listed(K, On, J, At) ==
    {i \in 1..Cardinality(K) : Nth(K, i) \in On}
    \cup {Cardinality(K) + i : i \in {j \in 1..Cardinality(J) : Nth(J, j) \in At}}

\* The last of the listed positions M: of the greatest of At, or else of On.
Lasts(K, On, J, At, M) ==
    /\ At # {} => /\ M # {} /\ Max(At) \in J
                  /\ Rank(J, Max(At)) \in 1..Cardinality(J)
                  /\ Nth(J, Rank(J, Max(At))) = Max(At)
                  /\ Max(M) = Cardinality(K) + Rank(J, Max(At))
    /\ At = {} /\ On # {} => /\ M # {} /\ Max(On) \in K
                             /\ Rank(K, Max(On)) \in 1..Cardinality(K)
                             /\ Nth(K, Rank(K, Max(On))) = Max(On)
                             /\ Max(M) = Rank(K, Max(On))
    /\ At = {} /\ On = {} => M = {}

(***************************************************************************)
(* What rules say that are listed in two runs: the greatest glob of the    *)
(* second that covers the call, or else the greatest of the first.         *)
(***************************************************************************)
LEMMA LastOfTwo ==
    ASSUME NEW K, Numbers(K), NEW On, On \subseteq K,
           NEW J, Numbers(J), NEW At, At \subseteq J,
           NEW M, M = Listed(K, On, J, At)
    PROVE  Lasts(K, On, J, At, M)
  <1> DEFINE a == Cardinality(K)
             b == Cardinality(J)
  <1>0. PICK n \in Nat, m \in Nat : K \subseteq 1..n /\ J \subseteq 1..m
    BY DEF Numbers
  <1>1. /\ K \subseteq Nat /\ a \in Nat
        /\ \A i \in 1..a : Nth(K, i) \in K /\ Rank(K, Nth(K, i)) = i
        /\ \A k \in K : Rank(K, k) \in 1..a /\ Nth(K, Rank(K, k)) = k
        /\ \A k, l \in K : k <= l => Rank(K, k) <= Rank(K, l)
    BY <1>0, KeyFacts
  <1>2. /\ J \subseteq Nat /\ b \in Nat
        /\ \A i \in 1..b : Nth(J, i) \in J /\ Rank(J, Nth(J, i)) = i
        /\ \A k \in J : Rank(J, k) \in 1..b /\ Nth(J, Rank(J, k)) = k
        /\ \A k, l \in J : k <= l => Rank(J, k) <= Rank(J, l)
    BY <1>0, KeyFacts
  <1>3. M = {i \in 1..a : Nth(K, i) \in On} \cup {a + i : i \in {j \in 1..b : Nth(J, j) \in At}}
    BY DEF Listed
  <1> HIDE DEF a, b
  <1>4. M \subseteq Nat
    BY <1>1, <1>2, <1>3
  <1>5. ASSUME At # {}
        PROVE  M # {} /\ Max(At) \in J /\ Rank(J, Max(At)) \in 1..b
               /\ Nth(J, Rank(J, Max(At))) = Max(At) /\ Max(M) = a + Rank(J, Max(At))
    <2>1. At \subseteq Nat /\ \A x \in At : x <= m
      BY <1>0, <1>2
    <2>2. Max(At) \in At /\ \A x \in At : x <= Max(At)
      BY <1>5, <2>1, MaxFacts
    <2> DEFINE r == Rank(J, Max(At))
    <2>3. Max(At) \in J /\ r \in 1..b /\ Nth(J, r) = Max(At)
      BY <1>2, <2>2
    <2>4. a + r \in M
      BY <1>3, <2>2, <2>3
    <2>5. ASSUME NEW y \in M
          PROVE  y <= a + r
      <3>1. CASE y \in 1..a
        BY <1>1, <2>3, <3>1
      <3>2. CASE \E j \in 1..b : Nth(J, j) \in At /\ y = a + j
        <4>1. PICK j \in 1..b : Nth(J, j) \in At /\ y = a + j
          BY <3>2
        <4>2. Rank(J, Nth(J, j)) = j /\ Nth(J, j) \in J /\ Nth(J, j) <= Max(At)
          BY <1>2, <2>2, <4>1
        <4>3. j <= r
          BY <1>2, <2>3, <4>2
        <4> QED  BY <1>1, <2>3, <4>1, <4>3
      <3> QED  BY <1>3, <2>5, <3>1, <3>2
    <2> HIDE DEF r
    <2>6. Max(M) = a + r
      BY <1>4, <2>4, <2>5, MaxIs
    <2> QED  BY <2>3, <2>4, <2>6 DEF r
  <1>6. ASSUME At = {}, On # {}
        PROVE  M # {} /\ Max(On) \in K /\ Rank(K, Max(On)) \in 1..a
               /\ Nth(K, Rank(K, Max(On))) = Max(On) /\ Max(M) = Rank(K, Max(On))
    <2>1. On \subseteq Nat /\ \A x \in On : x <= n
      BY <1>0, <1>1
    <2>2. Max(On) \in On /\ \A x \in On : x <= Max(On)
      BY <1>6, <2>1, MaxFacts
    <2> DEFINE r == Rank(K, Max(On))
    <2>3. Max(On) \in K /\ r \in 1..a /\ Nth(K, r) = Max(On)
      BY <1>1, <2>2
    <2>4. r \in M
      BY <1>3, <2>2, <2>3
    <2>5. ASSUME NEW y \in M
          PROVE  y <= r
      <3>1. y \in 1..a /\ Nth(K, y) \in On
        BY <1>3, <1>6, <2>5
      <3>2. Rank(K, Nth(K, y)) = y /\ Nth(K, y) \in K /\ Nth(K, y) <= Max(On)
        BY <1>1, <2>2, <3>1
      <3> QED  BY <1>1, <2>3, <3>2
    <2> HIDE DEF r
    <2>6. Max(M) = r
      BY <1>4, <2>4, <2>5, MaxIs
    <2> QED  BY <2>3, <2>4, <2>6 DEF r
  <1>7. At = {} /\ On = {} => M = {}
    BY <1>3
  <1> QED  BY <1>5, <1>6, <1>7 DEF a, b, Lasts

(***************************************************************************)
(* The list of rules that is made of two maps: the rule at each position.  *)
(***************************************************************************)
LEMMA ListFacts ==
    ASSUME NEW tools, DOMAIN tools \subseteq DOMAIN ToolGlobs,
           NEW paths, DOMAIN paths \subseteq DOMAIN PathGlobs,
           NEW call \in Calls, NEW R, R = NewRules("allow", tools, paths),
           NEW a, a = Cardinality(DOMAIN tools), NEW b, b = Cardinality(DOMAIN paths)
    PROVE  /\ R.default = "allow" /\ DOMAIN R.list = 1..(a + b)
           /\ \A i \in 1..a :
                /\ R.list[i].says = tools[Nth(DOMAIN tools, i)]
                /\ RuleMatches(R.list[i], call)
                     <=> call.tool \in ToolGlobs[Nth(DOMAIN tools, i)]
           /\ \A j \in 1..b :
                /\ R.list[a + j].says = paths[Nth(DOMAIN paths, j)]
                /\ RuleMatches(R.list[a + j], call)
                     <=> call.path \in PathGlobs[Nth(DOMAIN paths, j)]
  <1> DEFINE T == DOMAIN tools
             P == DOMAIN paths
             f == [i \in 1..a |-> [tools |-> ToolGlobs[Nth(T, i)], paths |-> Paths \cup {NoPath},
                                   says |-> tools[Nth(T, i)]]]
             g == [j \in 1..b |-> [tools |-> Tools, paths |-> PathGlobs[Nth(P, j)],
                                   says |-> paths[Nth(P, j)]]]
  <1>1. DOMAIN ToolGlobs = 1..Len(ToolGlobs) /\ Len(ToolGlobs) \in Nat
        /\ DOMAIN PathGlobs = 1..Len(PathGlobs) /\ Len(PathGlobs) \in Nat
    BY PolicyAssumption
  <1>2. a \in Nat /\ b \in Nat
    BY <1>1, KeyFacts
  <1>3. /\ InOrder(T) = [i \in 1..a |-> Nth(T, i)]
        /\ InOrder(P) = [j \in 1..b |-> Nth(P, j)]
    BY DEF InOrder
  <1>4. R.default = "allow" /\ R.list = f \o g
    BY <1>3, Zenon DEF NewRules, SortedKeys
  <1>5. /\ DOMAIN (f \o g) = 1..(a + b)
        /\ \A i \in 1..a : (f \o g)[i] = f[i]
        /\ \A j \in 1..b : (f \o g)[a + j] = g[j]
    <2>1. f = [i \in 1..a |-> f[i]] /\ g = [j \in 1..b |-> g[j]]
      OBVIOUS
    <2> HIDE DEF f, g
    <2> QED  BY <1>2, <2>1, Joined
  <1>6. call.tool \in Tools /\ call.path \in Paths \cup {NoPath}
    BY DEF Calls
  <1>7. ASSUME NEW i \in 1..a
        PROVE  /\ f[i].says = tools[Nth(T, i)]
               /\ RuleMatches(f[i], call) <=> call.tool \in ToolGlobs[Nth(T, i)]
    BY <1>6, <1>7 DEF RuleMatches
  <1>8. ASSUME NEW j \in 1..b
        PROVE  /\ g[j].says = paths[Nth(P, j)]
               /\ RuleMatches(g[j], call) <=> call.path \in PathGlobs[Nth(P, j)]
    BY <1>6, <1>8 DEF RuleMatches
  <1> HIDE DEF f, g
  <1>9. \A i \in 1..a : R.list[i] = f[i]
    BY <1>4, <1>5
  <1>10. \A j \in 1..b : R.list[a + j] = g[j]
    BY <1>4, <1>5
  <1> QED  BY <1>4, <1>5, <1>7, <1>8, <1>9, <1>10

(***************************************************************************)
(* The rules as listed say of a call what the rules as written say.        *)
(***************************************************************************)
LEMMA Verdicts ==
    ASSUME NEW tools, DOMAIN tools \subseteq DOMAIN ToolGlobs,
           NEW paths, DOMAIN paths \subseteq DOMAIN PathGlobs,
           NEW call \in Calls
    PROVE  Permit(NewRules("allow", tools, paths), call) = Verdict(tools, paths, call)
  <1> DEFINE T == DOMAIN tools
             P == DOMAIN paths
             a == Cardinality(T)
             b == Cardinality(P)
             R == NewRules("allow", tools, paths)
             M == Matching(R, call)
             On == {k \in T : call.tool \in ToolGlobs[k]}
             At == {k \in P : call.path \in PathGlobs[k]}
  <1>1. /\ R.default = "allow" /\ DOMAIN R.list = 1..(a + b)
        /\ \A i \in 1..a :
             /\ R.list[i].says = tools[Nth(T, i)]
             /\ RuleMatches(R.list[i], call) <=> call.tool \in ToolGlobs[Nth(T, i)]
        /\ \A j \in 1..b :
             /\ R.list[a + j].says = paths[Nth(P, j)]
             /\ RuleMatches(R.list[a + j], call) <=> call.path \in PathGlobs[Nth(P, j)]
    BY ListFacts, ZenonT(60)
  <1>2. /\ DOMAIN ToolGlobs = 1..Len(ToolGlobs) /\ Len(ToolGlobs) \in Nat
        /\ DOMAIN PathGlobs = 1..Len(PathGlobs) /\ Len(PathGlobs) \in Nat
    BY PolicyAssumption
  <1>3. a \in Nat /\ \A i \in 1..a : Nth(T, i) \in T
    BY <1>2, KeyFacts
  <1>4. b \in Nat /\ \A j \in 1..b : Nth(P, j) \in P
    BY <1>2, KeyFacts
  <1>5. Permit(R, call) = IF M = {} THEN R.default ELSE R.list[Max(M)].says
    BY DEF Permit
  <1>6. Verdict(tools, paths, call) = IF At # {} THEN paths[Max(At)]
                                      ELSE IF On # {} THEN tools[Max(On)] ELSE "allow"
    BY DEF Verdict
  <1>7. M = {i \in 1..(a + b) : RuleMatches(R.list[i], call)}
    BY <1>1 DEF Matching
  <1> HIDE DEF R, M, a, b
  <1>8. M = Listed(T, On, P, At)
    <2>1. \A i \in 1..(a + b) : i \in 1..a \/ \E j \in 1..b : i = a + j
      <3> SUFFICES ASSUME NEW i \in 1..(a + b), i \notin 1..a
                   PROVE  \E j \in 1..b : i = a + j
        OBVIOUS
      <3>1. i - a \in 1..b /\ i = a + (i - a)
        BY <1>3, <1>4
      <3> QED  BY <3>1
    <2>2. 1..a \subseteq 1..(a + b) /\ \A j \in 1..b : a + j \in 1..(a + b)
      BY <1>3, <1>4
    <2>3. \A i \in 1..a : RuleMatches(R.list[i], call) <=> Nth(T, i) \in On
      BY <1>1, <1>3
    <2>4. \A j \in 1..b : RuleMatches(R.list[a + j], call) <=> Nth(P, j) \in At
      BY <1>1, <1>4
    <2> HIDE DEF On, At, T, P
    <2>5. M = {i \in 1..a : Nth(T, i) \in On}
              \cup {a + i : i \in {j \in 1..b : Nth(P, j) \in At}}
      BY <1>7, <2>1, <2>2, <2>3, <2>4
    <2> QED  BY <2>5 DEF Listed, a, b
  <1>9. /\ At # {} => M # {} /\ Max(At) \in P /\ Rank(P, Max(At)) \in 1..b
                      /\ Nth(P, Rank(P, Max(At))) = Max(At)
                      /\ Max(M) = a + Rank(P, Max(At))
        /\ At = {} /\ On # {} => M # {} /\ Max(On) \in T /\ Rank(T, Max(On)) \in 1..a
                                 /\ Nth(T, Rank(T, Max(On))) = Max(On)
                                 /\ Max(M) = Rank(T, Max(On))
        /\ At = {} /\ On = {} => M = {}
    <2>1. Numbers(T) /\ Numbers(P)
      BY <1>2 DEF Numbers
    <2>2. On \subseteq T /\ At \subseteq P
      OBVIOUS
    <2> HIDE DEF On, At, T, P
    <2>3. Lasts(T, On, P, At, M)
      BY <1>8, <2>1, <2>2, LastOfTwo
    <2> QED  BY <2>3 DEF Lasts, a, b
  <1> HIDE DEF On, At, T, P
  <1>10. CASE At # {}
    <2>1. Permit(R, call) = R.list[a + Rank(P, Max(At))].says
      BY <1>5, <1>9, <1>10
    <2>2. R.list[a + Rank(P, Max(At))].says = paths[Max(At)]
      BY <1>1, <1>9, <1>10
    <2> QED  BY <1>6, <1>10, <2>1, <2>2 DEF R
  <1>11. CASE At = {} /\ On # {}
    <2>1. Permit(R, call) = R.list[Rank(T, Max(On))].says
      BY <1>5, <1>9, <1>11
    <2>2. R.list[Rank(T, Max(On))].says = tools[Max(On)]
      BY <1>1, <1>9, <1>11
    <2> QED  BY <1>6, <1>11, <2>1, <2>2 DEF R
  <1>12. CASE At = {} /\ On = {}
    BY <1>1, <1>5, <1>6, <1>9, <1>12 DEF R
  <1> QED  BY <1>10, <1>11, <1>12

(***************************************************************************)
(* The rules of a session are those of the user's file, read in one of the *)
(* orders they may be read in, from the gate on; before it no turn runs,   *)
(* nor when the process ended before it.                                   *)
(***************************************************************************)
RulesRead(s, r) ==
    \E paths \in Readings(Configured(s, "pathRules", {})) :
        r = NewRules("allow", Configured(s, "toolRules", <<>>), paths)

RulesInv ==
    \/ RulesRead(setUp, rules)
    \/ stage \notin {"memory", "skills", "front", "close"} /\ turn = "none"

LEMMA RulesStand == Spec => []RulesInv
  <1>1. Init => RulesInv
    BY DEF Init, SessionInit, FrontInit, RulesInv
  <1>2. ASSUME Quiet, RulesInv, [Next]_vars
        PROVE  RulesInv'
    <2>1. CASE Gate_
      <3>1. PICK paths \in Readings(Configured(setUp, "pathRules", {})) :
              LET tools == Configured(setUp, "toolRules", <<>>)
                  bad == Unknown(tools, paths)
              IN  /\ BuildGate(bad)
                  /\ rules' = IF bad THEN rules ELSE NewRules("allow", tools, paths)
        BY <2>1 DEF Gate_
      <3>2. setUp' = setUp /\ turn' = turn /\ turn = "none" /\ stage = "gate"
        BY <1>2, <2>1, <3>1 DEF Gate_, BuildGate, Quiet, Assembling, turnVars
      <3>3. CASE Unknown(Configured(setUp, "toolRules", <<>>), paths)
        BY <3>1, <3>2, <3>3 DEF BuildGate, Abort, RulesInv
      <3>4. CASE ~ Unknown(Configured(setUp, "toolRules", <<>>), paths)
        <4>1. rules' = NewRules("allow", Configured(setUp, "toolRules", <<>>), paths)
          BY <3>1, <3>4
        <4>2. RulesRead(setUp, rules')
          BY <4>1 DEF RulesRead
        <4>3. RulesRead(setUp, rules)'
          BY <3>2, <4>2
        <4> QED  BY <4>3 DEF RulesInv
      <3> QED  BY <3>3, <3>4
    <2>2. CASE ~ Gate_
      <3>1. setUp' = setUp /\ rules' = rules
        <4>1. CASE Assemble
          BY <4>1 DEF Assemble, AssembleNext, Load, Connect, Keep, CannotDial, GiveUp,
                      Connected, ChooseProvider, OpenMemory, DiscoverSkills, frontVars, setup
        <4>2. CASE Return \/ Close \/ Environment
          BY <4>2 DEF Return, Close, CloseNext, CloseMemory, CloseServer, Leave, Environment,
                      Kill, ServerMoves, frontVars, setup
        <4>3. CASE Turn
          BY <4>3 DEF Turn, Run, TurnNext, StreamText, StreamThinking, StreamCall, StreamEnds,
                      StreamFails, AskGate, AskReturns, RunTool, Notify, EndTurn, setup,
                      sessionVars
        <4>4. CASE Begin \/ Loop
          BY <4>4 DEF Begin, Loop, LoopNext, OpenTerminal, RunOnce, TakeMessage, AnswerPrompt,
                      SubmitTurn, SubmitCommand, CommandEnds, SubmitSender, Quit,
                      SendToNobody, setup, sessionVars
        <4>5. CASE ComposeCommand \/ UNCHANGED vars
          BY <4>5 DEF ComposeCommand, frontVars, sessionVars, setup, vars
        <4> QED  BY <1>2, <2>2, <4>1, <4>2, <4>3, <4>4, <4>5 DEF Next
      <3>2. stage \notin {"memory", "skills", "front", "close"} /\ turn = "none" =>
              stage' \notin {"memory", "skills", "front", "close"} /\ turn' = "none"
        <4>1. CASE Assemble
          BY <4>1 DEF Assemble, AssembleNext, Load, Connect, Keep, CannotDial, GiveUp,
                      Connecting, Connected, ChooseProvider, OpenMemory, DiscoverSkills, Abort,
                      frontVars, turnVars
        <4>2. CASE Return \/ Close \/ Environment
          BY <4>2 DEF Return, Close, CloseNext, CloseMemory, CloseServer, Leave, Environment,
                      Kill, ServerMoves, frontVars, turnVars
        <4>3. CASE Turn \/ Begin \/ Loop \/ ComposeCommand
          BY <4>3 DEF Turn, Begin, Loop, ComposeCommand
        <4>4. CASE UNCHANGED vars
          BY <4>4 DEF vars, sessionVars, frontVars, turnVars
        <4> QED  BY <1>2, <2>2, <4>1, <4>2, <4>3, <4>4 DEF Next
      <3> QED  BY <1>2, <3>1, <3>2 DEF RulesInv
    <2> QED  BY <2>1, <2>2
  <1> QED  BY <1>1, <1>2, Quietness, PTL DEF Spec

(***************************************************************************)
(* A tool runs only if the rules the user wrote, in whatever order they    *)
(* were read, allow the call, or leave it to the user and the user said    *)
(* yes to this very call or waived the questions (policy.go:74-83 and      *)
(* 202-242, prompt.go:27-35): for any globs and any set-ups.               *)
(***************************************************************************)
THEOREM Permission == Spec => []Permitted
  <1>1. ASSUME RulesInv, Asked, WorkTyped, SessionTypeOK
        PROVE  Permitted
    <2> SUFFICES ASSUME turn = "run"
                 PROVE  \E d \in {"allow", "ask"} :
                          /\ Decided(Head(todo), d)
                          /\ d = "ask" => skip \/ granted = callNo
      BY DEF Permitted
    <2> DEFINE tools == Configured(setUp, "toolRules", <<>>)
               call == Head(todo)
    <2>1. PICK paths \in Readings(Configured(setUp, "pathRules", {})) :
            rules = NewRules("allow", tools, paths)
      BY <1>1 DEF RulesInv, RulesRead
    <2>2. call \in Calls
      BY <1>1 DEF WorkTyped
    <2>3. DOMAIN tools \subseteq DOMAIN ToolGlobs
      BY <1>1, ProgramAssumption DEF Configured, SessionTypeOK
    <2>4. DOMAIN paths \subseteq DOMAIN PathGlobs
      <3>1. DOMAIN paths = {r.key : r \in Configured(setUp, "pathRules", {})}
        BY <2>1 DEF Readings
      <3> QED  BY <1>1, <3>1, ProgramAssumption DEF Configured, SessionTypeOK
    <2>5. Permit(rules, call) = Verdict(tools, paths, call)
      <3> HIDE DEF tools, call
      <3> QED  BY <2>1, <2>2, <2>3, <2>4, Verdicts
    <2>6. Decided(call, Permit(rules, call))
      BY <2>1, <2>5, Zenon DEF Decided
    <2>7. /\ Permit(rules, call) \in {"allow", "ask"}
          /\ Permit(rules, call) = "ask" => skip \/ granted = callNo
      BY <1>1 DEF Asked, Says, GateSays
    <2> QED  BY <2>6, <2>7
  <1> QED  BY <1>1, RulesStand, Consent, FrontTyping, SessionTyping, PTL
=================================================================================
