------------------------------- MODULE McpClient -------------------------------
(***************************************************************************)
(* The conversations of a session with its MCP servers: mcp/client.go over *)
(* a subprocess or over streamable HTTP (mcp/http.go).  What a subprocess  *)
(* does with bytes is McpStdio; here a request and its answer are a step.  *)
(*                                                                         *)
(* A session id is the number of the server's incarnation that gave it.    *)
(***************************************************************************)
EXTENDS Integers

CONSTANTS
    Servers,        \* the names of servers
    Stdio,          \* those that are subprocesses; the others are reached by HTTP
    MaxLives        \* bound: how many incarnations an HTTP server has

ASSUME McpClientAssumption == Stdio \subseteq Servers /\ MaxLives \in Nat \ {0}

VARIABLES
    client,     \* how far each server's client has come
    running,    \* the subprocesses that run
    hung,       \* those that have stopped answering, for good
    heard,      \* what each server's incarnation heard last of the handshake
    session,    \* httpTransport.sessionID, 0 before one is given
    life,       \* the number of each HTTP server's incarnation, from 1
    early       \* the servers asked for tools before the handshake was over

mcpVars == <<client, running, hung, heard, session, life, early>>

Stages == {"none", "dialled", "greeted", "ready", "kept", "closed"}

McpTypeOK ==
    /\ client \in [Servers -> Stages]
    /\ running \subseteq Stdio
    /\ hung \subseteq Stdio
    /\ heard \in [Servers -> {"nothing", "initialize", "initialized"}]
    /\ session \in [Servers -> 0..MaxLives]
    /\ life \in [Servers -> 1..MaxLives]
    /\ early \subseteq Servers

McpInit ==
    /\ client = [n \in Servers |-> "none"]
    /\ running = {} /\ hung = {}
    /\ heard = [n \in Servers |-> "nothing"]
    /\ session = [n \in Servers |-> 0]
    /\ life = [n \in Servers |-> 1]
    /\ early = {}

\* A subprocess is started, an HTTP server only noted.
Dial(n) ==
    /\ client[n] = "none"
    /\ client' = [client EXCEPT ![n] = "dialled"]
    /\ running' = running \cup ({n} \cap Stdio)
    /\ UNCHANGED <<hung, heard, session, life, early>>

Alive(n) == n \in Stdio => n \in running

\* A subprocess that runs and never answers: whoever asks it waits.
Silent(n) == n \in running \cap hung

\* An HTTP server takes a request that carries its session id, or none.
Accepts(n) == Alive(n) /\ ~Silent(n) /\ session[n] \in {0, life[n]}

\* The id of any response is kept for the requests that follow.
Remember(n) ==
    \/ session' = session
    \/ n \notin Stdio /\ session' = [session EXCEPT ![n] = life[n]]

\* The initialize request is answered.
Greet(n) ==
    /\ client[n] = "dialled"
    /\ Accepts(n)
    /\ Remember(n)
    /\ heard' = [heard EXCEPT ![n] = "initialize"]
    /\ client' = [client EXCEPT ![n] = "greeted"]
    /\ UNCHANGED <<running, hung, life, early>>

\* Mutant of Announce: the client is ready without telling the server.
AnnounceNothing(n) ==
    /\ client[n] = "greeted"
    /\ client' = [client EXCEPT ![n] = "ready"]
    /\ UNCHANGED <<running, hung, heard, session, life, early>>

\* The initialized notification; only then is the client ready.
Announce(n) ==
    /\ client[n] = "greeted"
    /\ Accepts(n)
    /\ Remember(n)
    /\ heard' = [heard EXCEPT ![n] = "initialized"]
    /\ client' = [client EXCEPT ![n] = "ready"]
    /\ UNCHANGED <<running, hung, life, early>>

\* The server answers a request that needs the handshake; one without session
\* ids cannot tell that it has restarted.
Ask(n) ==
    /\ Accepts(n)
    /\ Remember(n)
    /\ early' = IF heard[n] # "initialized" THEN early \cup {n} ELSE early
    /\ UNCHANGED <<running, hung, heard, life>>

\* Its tools are listed, and every schema can be expressed.
ListTools(n) ==
    /\ client[n] = "ready"
    /\ client' = [client EXCEPT ![n] = "kept"]
    /\ Ask(n)

\* A call of one of its tools that reaches the server.
CallTool(n) ==
    /\ client[n] = "kept"
    /\ UNCHANGED client
    /\ Ask(n)

\* Mutant of CloseClient: the subprocess is left.
CloseClientOnly(n) ==
    /\ client[n] \notin {"none", "closed"}
    /\ client' = [client EXCEPT ![n] = "closed"]
    /\ UNCHANGED <<running, hung, heard, session, life, early>>

\* A subprocess is stopped; an HTTP server is told nothing.
CloseClient(n) ==
    /\ client[n] \notin {"none", "closed"}
    /\ client' = [client EXCEPT ![n] = "closed"]
    /\ running' = running \ {n}
    /\ UNCHANGED <<hung, heard, session, life, early>>

\* A subprocess ends by itself.
Die(n) ==
    /\ n \in running
    /\ running' = running \ {n}
    /\ UNCHANGED <<client, hung, heard, session, life, early>>

\* A subprocess stops answering, and maybe reading, and does not end.
Hang(n) ==
    /\ n \in running \ hung
    /\ hung' = hung \cup {n}
    /\ UNCHANGED <<client, running, heard, session, life, early>>

\* An HTTP server restarts and forgets the session.
Restart(n) ==
    /\ n \notin Stdio
    /\ client[n] # "none"
    /\ life[n] < MaxLives
    /\ life' = [life EXCEPT ![n] = @ + 1]
    /\ heard' = [heard EXCEPT ![n] = "nothing"]
    /\ UNCHANGED <<client, running, hung, session, early>>
===============================================================================
