-------------------------------- MODULE Program --------------------------------
(***************************************************************************)
(* The program: a session is assembled (Session, over McpClient), drives   *)
(* one of the front-ends (Front, over Policy) with its turns and its       *)
(* compose commands (Compose), and is closed.  A turn's calls of MCP tools *)
(* reach the servers; when the user quits during a turn its goroutine      *)
(* goes on while the session is closed.                                    *)
(***************************************************************************)
EXTENDS Front, Session

CONSTANT
    ServerOf    \* the MCP tools, each with its server

ASSUME ProgramAssumption ==
    /\ DOMAIN ServerOf \subseteq Tools
    /\ \A t \in DOMAIN ServerOf : ServerOf[t] \in Servers
    /\ \A s \in Setups :
         /\ DOMAIN s.toolRules \subseteq DOMAIN ToolGlobs
         /\ {r.key : r \in s.pathRules} \subseteq DOMAIN PathGlobs

vars == <<sessionVars, frontVars, composeVars>>

Init ==
    /\ SessionInit
    /\ FrontInit
    /\ ComposeInit
    /\ mode = IF setUp.once THEN "once" ELSE "tui"
    /\ skip = setUp.skip
    /\ rules = [default |-> "allow", list |-> <<>>]

Assemble ==
    /\ AssembleNext
    /\ UNCHANGED <<frontVars, composeVars>>

\* buildGate reads the permissions of the file, over an allow-all base.
Gate_ ==
    /\ \E paths \in Readings(Configured(setUp, "pathRules", {})) :
         LET tools == Configured(setUp, "toolRules", <<>>)
             bad == Unknown(tools, paths)
         IN  /\ BuildGate(bad)
             /\ rules' = IF bad THEN rules ELSE NewRules("allow", tools, paths)
    /\ UNCHANGED <<mode, skip, loopVars, turnVars, out, composeVars>>

\* A tool that a server offers, when the client of that server was kept.
Reaches(call) ==
    /\ call.tool \in DOMAIN ServerOf
    /\ client[ServerOf[call.tool]] = "kept"

\* The call that is run is one of a tool whose server never answers; nothing
\* ends its context.
Unanswered == Reaches(Head(todo)) /\ Silent(ServerOf[Head(todo).tool])

\* A call of an MCP tool reaches its server, or does not and is an error.
Run ==
    /\ RunTool
    /\ \/ ~Unanswered /\ UNCHANGED sessionVars
       \/ /\ Reaches(Head(todo))
          /\ CallTool(ServerOf[Head(todo).tool])
          /\ UNCHANGED <<setUp, stage, waiting, clients, memory, code>>
    /\ UNCHANGED composeVars

\* The goroutine of a turn, which lives as long as the process.
Turn ==
    /\ stage \in {"front", "close"}
    /\ \/ TurnNext /\ turn # "run" /\ UNCHANGED <<sessionVars, composeVars>>
       \/ Run

Loop ==
    /\ stage \in {"front", "close"}
    /\ LoopNext
    /\ turnNo' <= setUp.turns
    /\ UNCHANGED <<sessionVars, composeVars>>

Begin ==
    /\ stage = "front"
    /\ OpenTerminal \/ RunOnce
    /\ UNCHANGED <<sessionVars, composeVars>>

\* A compose command runs inside Update.
ComposeCommand ==
    /\ stage = "front"
    /\ setUp.composes
    /\ Listening
    /\ ComposeNext
    /\ UNCHANGED <<sessionVars, frontVars>>

\* The front-end returns, and the session is closed.
Return ==
    /\ stage = "front"
    /\ loop = "quit" \/ (mode = "once" /\ turnNo = 1 /\ turn = "none")
    /\ stage' = "close"
    /\ code' \in {0} \cup {1 : t \in IF mode = "once" THEN cut ELSE {}}
    /\ UNCHANGED <<setUp, waiting, clients, memory, mcpVars, frontVars, composeVars>>

Close ==
    /\ CloseNext
    /\ UNCHANGED <<frontVars, composeVars>>

Environment ==
    /\ Kill \/ \E n \in Servers : ServerMoves(n)
    /\ UNCHANGED <<frontVars, composeVars>>

Next ==
    \/ Assemble
    \/ Gate_
    \/ Begin
    \/ Turn
    \/ Loop
    \/ ComposeCommand
    \/ Return
    \/ Close
    \/ Environment

\* The program goes on; a reply ends if the model is asked again and again,
\* and the user answers a prompt that is shown.
Fairness ==
    /\ WF_vars(Assemble \/ Gate_)
    /\ WF_vars(Begin)
    /\ WF_vars(Turn)
    /\ SF_vars(Turn /\ (StreamEnds \/ StreamFails))
    /\ WF_vars(Loop /\ TakeMessage)
    /\ WF_vars(Loop /\ \E yes \in BOOLEAN : AnswerPrompt(yes))
    /\ WF_vars(Return \/ Close)

Spec == Init /\ [][Next]_vars /\ Fairness

-----------------------------------------------------------------------------

TypeOK == SessionTypeOK /\ FrontTypeOK /\ ComposeTypeOK

\* What the user's rules say of a call: the greatest path glob that covers it,
\* or else the greatest tool glob.
Verdict(tools, paths, call) ==
    LET onPath == {k \in DOMAIN paths : call.path \in PathGlobs[k]}
        onTool == {k \in DOMAIN tools : call.tool \in ToolGlobs[k]}
    IN  IF onPath # {} THEN paths[Max(onPath)]
        ELSE IF onTool # {} THEN tools[Max(onTool)]
        ELSE "allow"

\* The same, whatever the order the rules were read in.
Decided(call, d) ==
    \E paths \in Readings(Configured(setUp, "pathRules", {})) :
        d = Verdict(Configured(setUp, "toolRules", <<>>), paths, call)

(***************************************************************************)
(* A tool runs only if the user's rules allow the call, or leave it to the *)
(* user and the user said yes while this call was the one shown, or said   *)
(* beforehand that nothing is to be asked (policy.go:74-83 and 202-242,    *)
(* prompt.go:27-35, model.go:167-210): no reply is kept for a later call.  *)
(***************************************************************************)
Permitted ==
    turn = "run" =>
        \E d \in {"allow", "ask"} :
            /\ Decided(Head(todo), d)
            /\ d = "ask" => skip \/ granted = callNo

(***************************************************************************)
(* The text being shown belongs to the turn that runs; text of an earlier  *)
(* turn is mixed into it only when a stream of that turn broke off, since  *)
(* neither an error nor the end of a turn flushes it (model.go:157-165 and *)
(* 270-288).                                                               *)
(***************************************************************************)
OwnText ==
    /\ \A t \in cur : t = turnNo \/ t \in cut
    /\ ~busy => cur \subseteq cut

(***************************************************************************)
(* A command runs to its end inside Update, and one that sends to the loop *)
(* it occupies never ends (theme.go:188, workflow.go:50): neither ever     *)
(* holds up a turn or a prompt, for enter is held back while one is under  *)
(* way (model.go:177-192, 233-238).                                        *)
(***************************************************************************)
CommandsRunAlone ==
    loop \in {"command", "stuck"} =>
        turn = "none" /\ out = "none" /\ pending = 0 /\ ~busy

(***************************************************************************)
(* Every subprocess that runs has an owner that will stop it: the list of  *)
(* clients, or the assembly that is connecting it; and a session that was  *)
(* closed leaves no subprocess and no open store, whatever died or failed  *)
(* meanwhile (mcp.go:95-118, assemble.go:495-515).  Only an assembly that  *)
(* aborts leaves what it had connected (assemble.go:315-335).              *)
(***************************************************************************)
EveryServerOwned ==
    /\ stage \notin {"killed"} => running \subseteq ToSet(clients) \cup waiting
    /\ stage = "gone" => running = {} /\ memory # "open"

(***************************************************************************)
(* A server is asked for its tools or to run one only when it has been     *)
(* told that the handshake is over (client.go:57-97, 116-140), unless it   *)
(* restarted: a client never repeats the handshake.                        *)
(***************************************************************************)
Handshake == \A n \in early : life[n] > 1

(***************************************************************************)
(* An assembly ends, unless it waits for a subprocess that has stopped     *)
(* answering, be it initialize or tools/list (mcp.go:103 and 108, under a  *)
(* context without an end); a turn ends, once its calls are decided and    *)
(* its streams have ended, unless the tool it runs is of such a server     *)
(* (model.go:225); and a session that is closed is gone, whatever hangs.   *)
(***************************************************************************)
NobodyWaitsForEver ==
    /\ <>(stage \in {"front", "close", "gone", "aborted", "killed"}
          \/ \E n \in Stdio : [](Connecting(n) /\ Silent(n)))
    /\ busy ~> (~busy \/ loop = "quit" \/ ~Running
                \/ [](turn = "run" /\ Unanswered))
    /\ stage = "close" ~> ~Running
===============================================================================
