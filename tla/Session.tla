-------------------------------- MODULE Session --------------------------------
(***************************************************************************)
(* The life of one process: run of cmd/openplus/main.go, Assemble and      *)
(* Close of runtime/assemble.go, the start of the MCP servers in           *)
(* runtime/mcp.go and the configuration they read (config/config.go,       *)
(* config/agents.go).                                                      *)
(*                                                                         *)
(* What the user has set up is a record; a module that composes this one   *)
(* with the front-ends says what happens at stage "front".                 *)
(***************************************************************************)
EXTENDS McpClient, Sequences, SequencesExt

CONSTANTS
    Order,      \* the servers' names in the order of their bytes
    Context7,   \* the docs server that is declared when no other is
    Adapters,   \* the providers for which there is an adapter
    Setups      \* what the user may have set up

ASSUME SessionAssumption ==
    /\ Servers = ToSet(Order) /\ IsInjective(Order)
    /\ Context7 \in Servers \ Stdio
    /\ \A s \in Setups : s.servers \subseteq Servers

VARIABLES
    setUp,      \* what the user has set up, of Setups
    stage,      \* how far the process has come
    waiting,    \* the declared servers that are yet to be connected
    clients,    \* Session.mcpClients
    memory,     \* Session.Memory: "none", "open" or "closed"
    code        \* the exit code, 0 while the process runs

sessionVars == <<setUp, stage, waiting, clients, memory, code, mcpVars>>

SessionTypeOK ==
    /\ McpTypeOK
    /\ setUp \in Setups
    /\ stage \in {"load", "servers", "provider", "gate", "memory", "skills",
                  "front", "close", "gone", "aborted", "killed"}
    /\ waiting \subseteq Servers
    /\ clients \in Seq(Servers)
    /\ memory \in {"none", "open", "closed"}
    /\ code \in 0..2

SessionInit ==
    /\ McpInit
    /\ setUp \in Setups
    /\ stage = "load"
    /\ waiting = {} /\ clients = <<>>
    /\ memory = "none"
    /\ code = 0

-----------------------------------------------------------------------------
\* What the configuration says.

\* Without the default file every setting is empty; the file named by --config
\* has to be there.
FileIsBad(s) == s.file = "malformed" \/ (s.file = "absent" /\ s.explicit)

LoadFails(s) == FileIsBad(s) \/ s.instructionsEscape

Configured(s, field, empty) == IF s.file = "absent" THEN empty ELSE s[field]

\* The environment outranks the flag, and the flag the file.
ModelOf(s) ==
    IF s.envModel # "" THEN s.envModel
    ELSE IF s.flagModel # "" THEN s.flagModel
    ELSE Configured(s, "model", "")

\* Why there is no provider, as an exit code: 2 where the user has to name a
\* model or a key.
ProviderFailure(s) ==
    LET m == ModelOf(s)
        providers == Configured(s, "providers", <<>>)
    IN  IF s.fake THEN 0
        ELSE IF m = "" THEN 2
        ELSE IF m \notin DOMAIN providers THEN 1
        ELSE IF ~providers[m].key /\ ~providers[m].url THEN 2
        ELSE IF m \notin Adapters THEN 1
        ELSE 0

Declared(s) ==
    LET servers == Configured(s, "servers", {})
    IN  IF servers = {} /\ ~s.fake /\ s.docs THEN {Context7} ELSE servers

-----------------------------------------------------------------------------
\* Assemble.

\* Nobody closes what an assembly that fails has opened.
Abort(status) ==
    /\ stage' = "aborted"
    /\ code' = status

Load ==
    /\ stage = "load"
    /\ IF LoadFails(setUp) THEN Abort(1) /\ waiting' = waiting
       ELSE /\ stage' = "servers" /\ code' = code
            /\ waiting' = Declared(setUp)
    /\ UNCHANGED <<setUp, clients, memory, mcpVars>>

\* The servers are connected one after the other, in the order of their names.
Connecting(n) ==
    /\ stage = "servers"
    /\ n \in waiting
    /\ \E i \in DOMAIN Order :
         Order[i] = n /\ \A j \in 1..(i - 1) : Order[j] \notin waiting

Connect(n) ==
    /\ Connecting(n)
    /\ Dial(n) \/ Greet(n) \/ Announce(n)
    /\ UNCHANGED <<setUp, stage, waiting, clients, memory, code>>

Keep(n) ==
    /\ Connecting(n)
    /\ ListTools(n)
    /\ clients' = Append(clients, n)
    /\ waiting' = waiting \ {n}
    /\ UNCHANGED <<setUp, stage, memory, code>>

\* A command that cannot be started.
CannotDial(n) ==
    /\ Connecting(n)
    /\ n \in Stdio
    /\ client[n] = "none"
    /\ client' = [client EXCEPT ![n] = "closed"]
    /\ waiting' = waiting \ {n}
    /\ UNCHANGED <<setUp, stage, clients, memory, code, running, hung, heard,
                   session, life, early>>

\* Mutant of GiveUp: the client is dropped and not closed.
GiveUpOnly(n) ==
    /\ Connecting(n)
    /\ client[n] \in {"dialled", "greeted", "ready"}
    /\ ~Silent(n)
    /\ CloseClientOnly(n)
    /\ waiting' = waiting \ {n}
    /\ UNCHANGED <<setUp, stage, clients, memory, code>>

\* An error of any of the three requests, a death, a schema that cannot be
\* expressed or, over HTTP, a timeout.  None of the requests to a subprocess
\* has an end: one that does not answer is waited for.
GiveUp(n) ==
    /\ Connecting(n)
    /\ client[n] \in {"dialled", "greeted", "ready"}
    /\ ~Silent(n)
    /\ CloseClient(n)
    /\ waiting' = waiting \ {n}
    /\ UNCHANGED <<setUp, stage, clients, memory, code>>

Connected ==
    /\ stage = "servers" /\ waiting = {}
    /\ stage' = "provider"
    /\ UNCHANGED <<setUp, waiting, clients, memory, code, mcpVars>>

ChooseProvider ==
    /\ stage = "provider"
    /\ IF ProviderFailure(setUp) # 0 THEN Abort(ProviderFailure(setUp))
       ELSE stage' = "gate" /\ code' = code
    /\ UNCHANGED <<setUp, waiting, clients, memory, mcpVars>>

BuildGate(badRule) ==
    /\ stage = "gate"
    /\ IF badRule THEN Abort(1) ELSE stage' = "memory" /\ code' = code
    /\ UNCHANGED <<setUp, waiting, clients, memory, mcpVars>>

\* Memory needs an embedder, and a store that is there unless it may be made,
\* and that can be made and opened.
OpenMemory ==
    /\ stage = "memory"
    /\ LET wanted == Configured(setUp, "embedder", FALSE)
           missing == ~setUp.autoOpen /\ ~setUp.storeThere
       IN  IF wanted /\ (missing \/ setUp.storeBroken) THEN Abort(1) /\ memory' = memory
           ELSE /\ stage' = "skills" /\ code' = code
                /\ memory' = IF wanted THEN "open" ELSE "none"
    /\ UNCHANGED <<setUp, waiting, clients, mcpVars>>

DiscoverSkills ==
    /\ stage = "skills"
    /\ IF setUp.skillsBroken THEN Abort(1) ELSE stage' = "front" /\ code' = code
    /\ UNCHANGED <<setUp, waiting, clients, memory, mcpVars>>

-----------------------------------------------------------------------------
\* Close, and the end of the process.

CloseMemory ==
    /\ stage = "close" /\ memory = "open"
    /\ memory' = "closed"
    /\ UNCHANGED <<setUp, stage, waiting, clients, code, mcpVars>>

\* Each server is stopped, also after one that could not be.
CloseServer ==
    /\ stage = "close" /\ memory # "open"
    /\ clients # <<>>
    /\ CloseClient(Head(clients))
    /\ clients' = Tail(clients)
    /\ UNCHANGED <<setUp, stage, waiting, memory, code>>

Leave ==
    /\ stage = "close" /\ memory # "open" /\ clients = <<>>
    /\ stage' = "gone"
    /\ UNCHANGED <<setUp, waiting, clients, memory, code, mcpVars>>

Running == stage \notin {"gone", "aborted", "killed"}

\* The process is killed.
Kill ==
    /\ Running
    /\ stage' = "killed"
    /\ UNCHANGED <<setUp, waiting, clients, memory, code, mcpVars>>

\* What the servers do by themselves; setUp.hangs bounds which of them hang.
ServerMoves(n) ==
    /\ Running
    /\ Die(n) \/ Restart(n) \/ (n \in setUp.hangs /\ Hang(n))
    /\ UNCHANGED <<setUp, stage, waiting, clients, memory, code>>

AssembleNext ==
    \/ Load
    \/ \E n \in Servers : Connect(n) \/ Keep(n) \/ CannotDial(n) \/ GiveUp(n)
    \/ Connected
    \/ ChooseProvider
    \/ OpenMemory
    \/ DiscoverSkills

CloseNext == CloseMemory \/ CloseServer \/ Leave
===============================================================================
