--------------------------------- MODULE Front ---------------------------------
(***************************************************************************)
(* The front-ends of cmd/openplus/main.go and the turn they drive: the     *)
(* event loop of tui/model.go, the permission prompt of tui/prompt.go and  *)
(* the goroutine in which the agent loop of agent/loop.go streams a reply, *)
(* has calls permitted and runs them.                                      *)
(*                                                                         *)
(* The goroutine hands each message to the loop and waits until the loop   *)
(* has taken it.  The loop takes messages and keys one at a time, and runs *)
(* a slash command to its end before it takes the next.                    *)
(***************************************************************************)
EXTENDS Policy, Compose

CONSTANTS
    MaxTurns,   \* bound: how many turns the user submits
    MaxCalls    \* bound: how many tool calls the model makes in all

ASSUME FrontAssumption == MaxTurns \in Nat /\ MaxCalls \in Nat

VARIABLES
    mode,       \* "tui", or "once" for a single turn without a terminal
    skip,       \* --dangerously-skip-permissions: the gate is policy.Skip
    rules,      \* Session.Rules
    loop,       \* what the program's event loop does
    busy,       \* Model.busy
    pending,    \* Model.pending: the number of the call shown, or 0
    answer,     \* the replies in Model.answer, which holds one
    cur,        \* the turns whose text is in Model.cur
    turn,       \* where the goroutine of the turn is
    todo,       \* the calls of this round it has yet to deal with
    out,        \* the message it is handing to the loop, or "none"
    turnNo,     \* how many turns there have been
    callNo,     \* how many calls it has taken up
    granted,    \* the number of the call that the user granted last
    cut         \* the turns of which a stream broke off

setup == <<mode, skip, rules>>
loopVars == <<loop, busy, pending, answer, cur, granted>>
turnVars == <<turn, todo, turnNo, callNo, cut>>
frontVars == <<setup, loopVars, turnVars, out>>

FrontTypeOK ==
    /\ loop \in {"off", "free", "command", "stuck", "quit"}
    /\ busy \in BOOLEAN
    /\ pending \in 0..MaxCalls
    /\ answer \in {<<>>, <<TRUE>>, <<FALSE>>}
    /\ cur \subseteq 1..MaxTurns
    /\ turn \in {"none", "stream", "gate", "ask", "run", "end", "over"}
    /\ todo \in Seq(Calls)
    /\ out \in {"none", "text", "thinking", "call", "turnend", "error", "prompt",
                "result", "notice", "done"}
    /\ turnNo \in 0..MaxTurns
    /\ callNo \in 0..MaxCalls
    /\ granted \in 0..MaxCalls
    /\ cut \subseteq 1..MaxTurns

FrontInit ==
    /\ loop = "off" /\ busy = FALSE /\ pending = 0 /\ answer = <<>> /\ cur = {}
    /\ turn = "none" /\ todo = <<>> /\ out = "none"
    /\ turnNo = 0 /\ callNo = 0 /\ granted = 0 /\ cut = {}

\* runTUI: the program starts to take keys and messages.
OpenTerminal ==
    /\ mode = "tui" /\ loop = "off"
    /\ loop' = "free"
    /\ UNCHANGED <<setup, busy, pending, answer, cur, granted, turnVars, out>>

BeginTurn ==
    /\ turnNo < MaxTurns
    /\ turnNo' = turnNo + 1
    /\ turn' = "stream"
    /\ UNCHANGED <<todo, callNo, cut>>

-----------------------------------------------------------------------------
\* The goroutine of a turn.

\* Without a terminal the hooks print and return.
Send(message) == out' = IF mode = "tui" THEN message ELSE "none"

AtWork(place) == turn = place /\ out = "none"

StreamText ==
    /\ AtWork("stream")
    /\ Send("text")
    /\ UNCHANGED <<setup, loopVars, turnVars>>

StreamThinking ==
    /\ AtWork("stream")
    /\ Send("thinking")
    /\ UNCHANGED <<setup, loopVars, turnVars>>

StreamCall(call) ==
    /\ AtWork("stream")
    /\ callNo + Len(todo) < MaxCalls
    /\ todo' = Append(todo, call)
    /\ Send("call")
    /\ UNCHANGED <<setup, loopVars, turn, turnNo, callNo, cut>>

\* The reply is complete, or breaks off without anyone noticing; the calls it
\* held are dealt with.
StreamEnds ==
    /\ AtWork("stream")
    /\ \/ Send("turnend") /\ cut' = cut
       \/ out' = "none" /\ cut' = cut \cup {turnNo}
    /\ turn' = IF todo = <<>> THEN "end" ELSE "gate"
    /\ UNCHANGED <<setup, loopVars, todo, turnNo, callNo>>

\* The request is refused, or the stream carries an error, which it shows; the
\* calls are dropped.
StreamFails ==
    /\ AtWork("stream")
    /\ out' = "none" \/ Send("error")
    /\ cut' = cut \cup {turnNo}
    /\ todo' = <<>>
    /\ turn' = "end"
    /\ UNCHANGED <<setup, loopVars, turnNo, callNo>>

\* The call has its result; the results of a round go back to the model.
Report ==
    /\ todo' = Tail(todo)
    /\ Send("result")
    /\ turn' = IF Len(todo) = 1 THEN "stream" ELSE "gate"

Prompting == mode = "tui"

\* executeOne asks the gate; a call is numbered when it comes up.
AskGate ==
    /\ AtWork("gate")
    /\ callNo' = callNo + 1
    /\ LET says == GateSays(skip, Prompting, rules, Head(todo))
       IN  \/ says = "deny" /\ Report
           \/ says = "allow" /\ turn' = "run" /\ UNCHANGED <<todo, out>>
           \/ says = "ask" /\ turn' = "ask" /\ Send("prompt") /\ todo' = todo
    /\ UNCHANGED <<setup, loopVars, turnNo, cut>>

\* Prompter.Ask takes a reply, under a context that nothing ends.
AskReturns ==
    /\ AtWork("ask")
    /\ answer # <<>>
    /\ answer' = <<>>
    /\ IF Head(answer) THEN turn' = "run" /\ UNCHANGED <<todo, out>> ELSE Report
    /\ UNCHANGED <<setup, loop, busy, pending, cur, granted, turnNo, callNo, cut>>

\* The tool runs, or fails, or is unknown: there is a result.
RunTool ==
    /\ AtWork("run")
    /\ Report
    /\ UNCHANGED <<setup, loopVars, turnNo, callNo, cut>>

\* The context was cut, or the checkpoint could not be written.
Notify ==
    /\ AtWork("end")
    /\ Send("notice")
    /\ turn' = "over"
    /\ UNCHANGED <<setup, loopVars, todo, turnNo, callNo, cut>>

EndTurn ==
    /\ turn \in {"end", "over"} /\ out = "none"
    /\ turn' = "none"
    /\ Send("done")
    /\ UNCHANGED <<setup, loopVars, todo, turnNo, callNo, cut>>

TurnNext ==
    \/ StreamText
    \/ StreamThinking
    \/ \E call \in Calls : StreamCall(call)
    \/ StreamEnds
    \/ StreamFails
    \/ AskGate
    \/ AskReturns
    \/ RunTool
    \/ Notify
    \/ EndTurn

-----------------------------------------------------------------------------
\* The event loop.

\* Mutant of FlushedBy: the end of a reply does not flush its text.
FlushedAtBreaks == {"thinking", "call", "result", "notice"}

\* What ends the text that is being shown: not an error, and not the end of
\* the turn.
FlushedBy == {"thinking", "call", "turnend", "result", "notice"}

\* Mutant of TakeMessage: a turn that failed is not seen to be over.
TakeMessageUnlessCut ==
    /\ loop = "free"
    /\ out # "none"
    /\ out' = "none"
    /\ busy' = IF out = "done" /\ turnNo \notin cut THEN FALSE ELSE busy
    /\ UNCHANGED <<setup, loop, pending, answer, cur, granted, turnVars>>

\* Update takes what the goroutine hands it.
TakeMessage ==
    /\ loop = "free"
    /\ out # "none"
    /\ out' = "none"
    /\ cur' = IF out = "text" THEN cur \cup {turnNo}
              ELSE IF out \in FlushedBy THEN {} ELSE cur
    /\ pending' = IF out = "prompt" THEN callNo ELSE pending
    /\ busy' = IF out = "done" THEN FALSE ELSE busy
    /\ UNCHANGED <<setup, loop, answer, granted, turnVars>>

\* y or n while a prompt is shown; any other key is swallowed.
AnswerPrompt(yes) ==
    /\ loop = "free"
    /\ pending # 0
    /\ answer' = IF answer = <<>> THEN <<yes>> ELSE answer
    /\ granted' = IF yes THEN pending ELSE granted
    /\ pending' = 0
    /\ UNCHANGED <<setup, loop, busy, cur, turnVars, out>>

\* Mutant of Listening: enter is not held back while a turn runs.
ListeningAlways == loop = "free" /\ pending = 0

\* Enter with some input, when no turn runs.
Listening == loop = "free" /\ pending = 0 /\ ~busy

SubmitTurn ==
    /\ Listening
    /\ BeginTurn
    /\ busy' = TRUE
    /\ UNCHANGED <<setup, loop, pending, answer, cur, granted, out>>

\* A command that sends nothing: Update runs it to its end.
SubmitCommand ==
    /\ Listening
    /\ loop' = "command"
    /\ UNCHANGED <<setup, busy, pending, answer, cur, granted, turnVars, out>>

CommandEnds ==
    /\ loop = "command"
    /\ loop' = "free"
    /\ UNCHANGED <<setup, busy, pending, answer, cur, granted, turnVars, out>>

\* /theme with a theme's name, or a /workflow whose first event arrives: the
\* command hands a message to the loop that is running it.
SubmitSender ==
    /\ Listening
    /\ loop' = "stuck"
    /\ UNCHANGED <<setup, busy, pending, answer, cur, granted, turnVars, out>>

Quit ==
    /\ loop = "free"
    /\ pending = 0
    /\ loop' = "quit"
    /\ UNCHANGED <<setup, busy, pending, answer, cur, granted, turnVars, out>>

\* A send to a program that has quit returns at once.
SendToNobody ==
    /\ loop = "quit"
    /\ out # "none"
    /\ out' = "none"
    /\ UNCHANGED <<setup, loopVars, turnVars>>

\* runOnce: one turn, and nobody to ask.
RunOnce ==
    /\ mode = "once" /\ turnNo = 0
    /\ BeginTurn
    /\ UNCHANGED <<setup, loopVars, out>>

LoopNext ==
    \/ TakeMessage
    \/ \E yes \in BOOLEAN : AnswerPrompt(yes)
    \/ SubmitTurn
    \/ SubmitCommand
    \/ CommandEnds
    \/ SubmitSender
    \/ Quit
    \/ SendToNobody

FrontNext == TurnNext \/ LoopNext \/ OpenTerminal \/ RunOnce
===============================================================================
