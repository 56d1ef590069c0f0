---------------------------------- MODULE Turn ----------------------------------
(***************************************************************************)
(* One turn after another of a session: Session.Run of runtime/turn.go     *)
(* with the agent loop (agent/loop.go), the context budgeter and the       *)
(* checkpoint (contextmgr), and the goal judge (orchestrate/goal.go).      *)
(*                                                                         *)
(* A turn budgets the history the front-end keeps and the user's message,  *)
(* lets the agent call tools until it only talks, asks the judge, goes     *)
(* round again with its feedback while the goal is unmet, records the      *)
(* outcome, and past the high-water mark writes a checkpoint and then cuts *)
(* the history down.  A message is a number, a kind and a token cost; what *)
(* it says is left out.                                                    *)
(***************************************************************************)
EXTENDS Positions

CONSTANTS
    HasGoal,        \* Session.Goal and Session.Judge are set
    MaxRounds,      \* Session.MaxJudgeIterations
    Budget,         \* Budgeter.Budget in tokens; 0 is no limit
    SystemCost,     \* the tokens of the system prompt
    TaskCost,       \* of the checkpoint's active task,
    ProgressCost,   \* of its task tree,
    SummaryCost,    \* and of its summary
    Retrievals,     \* the sequences of token costs memory and skills may add
    Mark,           \* the tokens from which to checkpoint; 0 is no window
    KeepRecent,     \* Session.KeepRecent: how many messages survive a cut
    Costs,          \* the token costs of a message
    MaxMessages     \* bound: how many messages all the turns make

ASSUME TurnAssumption ==
    /\ HasGoal \in BOOLEAN
    /\ MaxRounds \in Nat \ {0}
    /\ KeepRecent \in Nat \ {0}
    /\ Budget \in Nat /\ Mark \in Nat
    /\ SystemCost \in Nat /\ TaskCost \in Nat /\ ProgressCost \in Nat /\ SummaryCost \in Nat
    /\ Retrievals \subseteq Seq(Nat)
    /\ Costs \subseteq Nat
    /\ MaxMessages \in Nat

VARIABLES
    pc,         \* what Run is doing
    caller,     \* the history the front-end keeps (tui.Model.history)
    session,    \* Session.History
    runs,       \* Session.Runs: the tool calls of each turn
    msg,        \* the user's message of the current turn
    used,       \* Turn.Used
    base,       \* currentHistory: what the agent starts a round with
    hist,       \* the history the agent is at work on, then "final"
    round,      \* the judge's round, from 1
    verdict,    \* the judge's last word in this turn
    file,       \* the messages that checkpoint.md tells
    last,       \* how the last turn ended
    made        \* how many messages there have been

context == <<msg, used, base>>
vars == <<pc, caller, session, runs, context, hist, round, verdict, file, last,
          made>>

Kinds == {"user", "call", "result", "reply", "feedback", "marker"}
Message == [id : 1..MaxMessages, kind : Kinds, cost : Costs \cup {1}]

Ids(h) == {h[i].id : i \in DOMAIN h}

TypeOK ==
    /\ pc \in {"idle", "assemble", "ask", "tools", "judge", "record", "save",
               "write", "compact"}
    /\ caller \in Seq(Message)
    /\ session \in Seq(Message)
    /\ runs \in Seq(Seq(1..MaxMessages))
    /\ msg \in Message \cup {<<>>}
    /\ used \in Nat
    /\ base \in Seq(Message)
    /\ hist \in Seq(Message)
    /\ round \in 0..MaxRounds
    /\ verdict \in {"none", "met", "unmet"}
    /\ file \in SUBSET (1..MaxMessages)
    /\ last \in {"none", "done", "failed"}
    /\ made \in 0..MaxMessages

Init ==
    /\ pc = "idle"
    /\ caller = <<>> /\ session = <<>> /\ runs = <<>>
    /\ msg = <<>> /\ used = 0 /\ base = <<>> /\ hist = <<>>
    /\ round = 0
    /\ verdict = "none"
    /\ file = {}
    /\ last = "none"
    /\ made = 0

-----------------------------------------------------------------------------
\* The budgeter.

CostsOf(h) == [i \in DOMAIN h |-> h[i].cost]

Newest1st(h) == [i \in DOMAIN h |-> h[Len(h) + 1 - i]]

\* What is left of room after each of the costs, admitted in order: one that
\* does not fit is left out, and a later one may still fit.
RoomAfter(costs, room) ==
    LET left[i \in 0..Len(costs)] ==
          IF i = 0 THEN room
          ELSE IF costs[i] <= left[i - 1] THEN left[i - 1] - costs[i]
          ELSE left[i - 1]
    IN  left

\* The sections of the system prompt: the task goes with its progress.
SectionRoom(hasCheckpoint, memory) ==
    LET room == Budget - SystemCost
        base3 == IF ~hasCheckpoint THEN <<>>
                 ELSE IF TaskCost <= room
                 THEN <<TaskCost, ProgressCost, SummaryCost>>
                 ELSE <<SummaryCost>>
        costs == base3 \o memory
    IN  RoomAfter(costs, room)[Len(costs)]

\* Mutant of Recent: the oldest messages are admitted first.
RecentOldestFirst(h, room) ==
    LET left == RoomAfter(CostsOf(h), room)
    IN  Pick(h, {i \in DOMAIN h : h[i].cost <= left[i - 1]})

\* The messages that fit, admitted newest first, in their order.
Recent(h, room) ==
    LET left == RoomAfter(CostsOf(Newest1st(h)), room)
    IN  Pick(h, {i \in DOMAIN h : h[i].cost <= left[Len(h) - i]})

-----------------------------------------------------------------------------
\* Run, up to the agent loop.

New(kind, cost) == [id |-> made + 1, kind |-> kind, cost |-> cost]

Submit(cost) ==
    /\ pc = "idle"
    /\ made < MaxMessages
    /\ msg' = New("user", cost)
    /\ made' = made + 1
    /\ verdict' = "none"
    /\ last' = "none"
    /\ pc' = "assemble"
    /\ UNCHANGED <<caller, session, runs, used, base, hist, round, file>>

AssembleContext(memory) ==
    LET offered == Append(caller, msg)
        sections == SystemCost + Total(memory)
                    + IF file = {} THEN 0
                      ELSE TaskCost + ProgressCost + SummaryCost
        room == SectionRoom(file # {}, memory)
    IN  /\ pc = "assemble"
        /\ base' = IF Budget = 0 THEN offered ELSE Recent(offered, room)
        /\ used' = IF Budget = 0
                   THEN sections + Total(CostsOf(offered))
                   ELSE Budget - room + Total(CostsOf(base'))
        /\ hist' = base'
        /\ round' = 1
        /\ pc' = "ask"
        /\ UNCHANGED <<caller, session, runs, msg, verdict, file, last, made>>

\* Run returns an error and the history it got to.
Fail ==
    /\ caller' = hist
    /\ last' = "failed"
    /\ pc' = "idle"

-----------------------------------------------------------------------------
\* The agent loop: stream, append, execute, append, until there is no call.

Say(kind, cost, next) ==
    /\ made < MaxMessages
    /\ hist' = Append(hist, New(kind, cost))
    /\ made' = made + 1
    /\ pc' = next
    /\ UNCHANGED <<caller, session, runs, context, round, verdict, file, last>>

ModelCalls(cost) == pc = "ask" /\ Say("call", cost, "tools")

\* Allowed, denied, unknown or failed: a call always gets a result.
ToolsReturn(cost) == pc = "tools" /\ Say("result", cost, "ask")

ModelReplies(cost) ==
    pc = "ask" /\ Say("reply", cost, IF HasGoal THEN "judge" ELSE "record")

ProviderFails ==
    /\ pc = "ask"
    /\ Fail
    /\ UNCHANGED <<session, runs, context, hist, round, verdict, file, made>>

-----------------------------------------------------------------------------
\* The judge.

\* Only an explicit MET is one.
Parsed(answer) == IF answer = "met" THEN "met" ELSE "unmet"

JudgeFails ==
    /\ pc = "judge"
    /\ Fail
    /\ UNCHANGED <<session, runs, context, hist, round, verdict, file, made>>

JudgeMet(answer) ==
    /\ pc = "judge"
    /\ Parsed(answer) = "met"
    /\ verdict' = "met"
    /\ pc' = "record"
    /\ UNCHANGED <<caller, session, runs, context, hist, round, file, last, made>>

\* Mutant of JudgeExhausted: the loop just ends after its last round.
JudgeExhaustedSilently(answer) ==
    /\ pc = "judge"
    /\ Parsed(answer) = "unmet"
    /\ round = MaxRounds
    /\ verdict' = "unmet"
    /\ pc' = "record"
    /\ UNCHANGED <<caller, session, runs, context, hist, round, file, last, made>>

\* The last allowed round is unmet as well: an error.
JudgeExhausted(answer) ==
    /\ pc = "judge"
    /\ Parsed(answer) = "unmet"
    /\ round = MaxRounds
    /\ verdict' = "unmet"
    /\ Fail
    /\ UNCHANGED <<session, runs, context, hist, round, file, made>>

\* Mutant of JudgeUnmet: one round too many.
JudgeUnmetOnceMore(answer) ==
    /\ pc = "judge"
    /\ Parsed(answer) = "unmet"
    /\ round <= MaxRounds
    /\ made < MaxMessages
    /\ verdict' = "unmet"
    /\ base' = Append(base, New("feedback", 1))
    /\ hist' = base'
    /\ made' = made + 1
    /\ round' = round + 1
    /\ pc' = "ask"
    /\ UNCHANGED <<caller, session, runs, msg, used, file, last>>

\* Unmet: the feedback goes behind what this round started with, and the next
\* round starts with that.
JudgeUnmet(answer) ==
    /\ pc = "judge"
    /\ Parsed(answer) = "unmet"
    /\ round < MaxRounds
    /\ made < MaxMessages
    /\ verdict' = "unmet"
    /\ base' = Append(base, New("feedback", 1))
    /\ hist' = base'
    /\ made' = made + 1
    /\ round' = round + 1
    /\ pc' = "ask"
    /\ UNCHANGED <<caller, session, runs, msg, used, file, last>>

-----------------------------------------------------------------------------
\* After the loop: persist, record, checkpoint, compact.

Return ==
    /\ last' = "done"
    /\ pc' = "idle"

\* record logs the tool calls of all of the history, when there are any.  (What
\* persist writes to the memory store is left out.)
Record ==
    LET calls == Pick(hist, {i \in DOMAIN hist : hist[i].kind = "call"})
    IN  /\ pc = "record"
        /\ session' = hist
        /\ runs' = IF calls = <<>> THEN runs
                   ELSE Append(runs, [i \in DOMAIN calls |-> calls[i].id])
        /\ pc' = "save"
        /\ UNCHANGED <<caller, context, hist, round, verdict, file, last, made>>

ShouldCheckpoint == Mark > 0 /\ used >= Mark

NoCheckpoint ==
    /\ pc = "save"
    /\ ~ShouldCheckpoint
    /\ caller' = hist
    /\ Return
    /\ UNCHANGED <<session, runs, context, hist, round, verdict, file, made>>

\* os.WriteFile truncates checkpoint.md before it writes it.
BeginWrite ==
    /\ pc = "save"
    /\ ShouldCheckpoint
    /\ file' = {}
    /\ pc' = "write"
    /\ UNCHANGED <<caller, session, runs, context, hist, round, verdict, last, made>>

\* Mutant of WriteFails: compaction does not ask whether the write succeeded.
WriteFailsCompacts ==
    /\ pc = "write" \/ (pc = "save" /\ ShouldCheckpoint)
    /\ pc' = "compact"
    /\ UNCHANGED <<caller, session, runs, context, hist, round, verdict, file,
                   last, made>>

\* The file cannot be opened, or not be written: the history stays as it is.
WriteFails ==
    /\ pc = "write" \/ (pc = "save" /\ ShouldCheckpoint)
    /\ caller' = hist
    /\ Return
    /\ UNCHANGED <<session, runs, context, hist, round, verdict, file, made>>

\* The summary and the recent digest of the whole history.
EndWrite ==
    /\ pc = "write"
    /\ file' = Ids(hist)
    /\ pc' = "compact"
    /\ UNCHANGED <<caller, session, runs, context, hist, round, verdict, last, made>>

Marker == [id |-> made + 1, kind |-> "marker", cost |-> 1]

Compacted(h) ==
    <<Marker>> \o SubSeq(h, Len(h) - KeepRecent + 1, Len(h))

\* A marker takes the place of all but the KeepRecent newest.
Compact ==
    /\ pc = "compact"
    /\ Len(hist) > KeepRecent + 1 /\ made < MaxMessages
    /\ caller' = Compacted(hist)
    /\ session' = caller'
    /\ made' = made + 1
    /\ Return
    /\ UNCHANGED <<runs, context, hist, round, verdict, file>>

\* There is nothing to drop, or only as much as the marker adds.
CompactNothing ==
    /\ pc = "compact"
    /\ Len(hist) <= KeepRecent + 1
    /\ caller' = hist
    /\ Return
    /\ UNCHANGED <<session, runs, context, hist, round, verdict, file, made>>

-----------------------------------------------------------------------------
\* The process ends, at any point, and another one starts: what is left is the
\* checkpoint, if no write was under way.
Crash ==
    /\ pc' = "idle"
    /\ caller' = <<>> /\ session' = <<>> /\ runs' = <<>>
    /\ msg' = <<>> /\ used' = 0 /\ base' = <<>> /\ hist' = <<>>
    /\ round' = 0
    /\ verdict' = "none"
    /\ last' = "none"
    /\ UNCHANGED <<file, made>>

AgentStep ==
    \/ \E cost \in Costs :
         ModelCalls(cost) \/ ToolsReturn(cost) \/ ModelReplies(cost)
    \/ ProviderFails

JudgeStep ==
    \/ JudgeFails
    \/ \E answer \in {"met", "unmet", "garbled"} :
         JudgeMet(answer) \/ JudgeExhausted(answer) \/ JudgeUnmet(answer)

FinishStep ==
    Record \/ NoCheckpoint \/ BeginWrite \/ WriteFails \/ EndWrite
        \/ Compact \/ CompactNothing

Next ==
    \/ \E cost \in Costs : Submit(cost)
    \/ \E memory \in Retrievals : AssembleContext(memory)
    \/ AgentStep
    \/ JudgeStep
    \/ FinishStep
    \/ Crash

Spec == Init /\ [][Next]_vars

-----------------------------------------------------------------------------
\* What the agent is sent never costs more than the budget, unless the system
\* prompt alone does; and of the messages it takes what reading from the newest
\* back would: no other choice that fits has a message this one lacks and all
\* the newer ones this one has (contextmgr/budget.go:127-141).
FitsBest ==
    LET offered == Append(caller, msg)
        room == Budget - (used - Total(CostsOf(base)))
        chosen == {i \in DOMAIN offered : offered[i].id \in Ids(base)}
        Cost(P) == TotalAt(CostsOf(offered), P)
        NewerIn(P, i) == {j \in P : j > i}
    IN  (pc = "ask" /\ round = 1 /\ hist = base /\ Budget > 0) =>
            /\ used <= Max({Budget, SystemCost})
            /\ \A P \in SUBSET DOMAIN offered : Cost(P) <= room =>
                 \A i \in P \ chosen : NewerIn(P, i) # NewerIn(chosen, i)

\* With a goal, a turn is recorded, saved and handed back as done only when the
\* judge has said MET in this turn, in the last allowed round too
\* (runtime/turn.go:146-157).
GoalGate ==
    HasGoal /\ (pc \in {"record", "save", "write", "compact"} \/ last = "done")
        => verdict = "met"

\* Between turns, after one that succeeded, the session's own record is what the
\* caller was given, compacted or not (runtime/turn.go:182-184).
InStep == pc = "idle" /\ last = "done" => session = caller

\* What the budgeter chooses from, and the positions of what the turn was given
\* of it.
Offered == Append(caller, msg)
Kept == {i \in DOMAIN Offered : Offered[i].id \in Ids(base)}

\* With the newer messages that were kept, the i-th costs more than the room
\* that the sections had left.
NoRoomFor(i) ==
    LET Cost(P) == TotalAt(CostsOf(Offered), P)
    IN  Budget > 0 /\ Cost({j \in Kept : j > i} \cup {i}) > Budget - (used - Cost(Kept))

(***************************************************************************)
(* Why a message may be gone from the history the caller gets back, when a *)
(* turn has ended, well or not: checkpoint.md tells it at that moment, for *)
(* durability precedes forgetting (runtime/turn.go:174-186), or there was  *)
(* no room for it in the budget, whose cut is told nowhere and is for good *)
(* (turn.go:65, 130, 187).  So it is with what the caller gave, the user's *)
(* message among it, and with what the agent's last round made.            *)
(***************************************************************************)
DurableFirst ==
    [][pc # "idle" /\ last' # "none" =>
         LET gone(id) == id \notin Ids(caller') \cup file
         IN  /\ \A i \in DOMAIN Offered : gone(Offered[i].id) => NoRoomFor(i)
             /\ \A id \in Ids(hist) : ~gone(id)]_vars

\* The judge sees all that this turn did: every message made since the user's
\* is in the transcript it is given (runtime/turn.go:140-163: the full history
\* goes round the loop, with the feedback appended).
WorkJudged == pc = "judge" => (msg.id + 1)..made \subseteq Ids(hist)

\* The inductive invariant: GoalGate and InStep, that a turn's outcome is for
\* the next one to reset, that the record is made before a checkpoint is
\* considered (turn.go:172), and that only a written history is cut (turn.go:176).
IInv ==
    /\ GoalGate
    /\ InStep
    /\ pc # "idle" => last = "none"
    /\ pc \in {"save", "write", "compact"} => session = hist
    /\ pc = "compact" => Ids(hist) \subseteq file
===============================================================================
