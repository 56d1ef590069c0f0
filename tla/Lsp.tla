----------------------------------- MODULE Lsp -----------------------------------
(***************************************************************************)
(* Language servers and the diagnostics that follow an edit:               *)
(* runtime/diagnostics.go, lsp/manager.go and lsp/client.go.               *)
(*                                                                         *)
(* The agent's goroutine runs tools; after a tool that changes files the   *)
(* hook notes the file and starts a refresh in a goroutine of its own,     *)
(* which asks the language server through the manager and stores what it   *)
(* is told for the next prompt.  The agent's own lsp tools go through the  *)
(* same manager.  One file, of one extension, which calls may name in      *)
(* several ways; its texts are numbered by the edits that made them.       *)
(***************************************************************************)
EXTENDS Naturals, FiniteSets

CONSTANTS
    Names,      \* what the file is called: relative, absolute
    Agent, Refreshers,  \* the agent's goroutine, and those of refreshes
    Servers,    \* the processes that may be started, numbered as they are
    None,
    Calls,      \* of write, edit and bash: their fields file_path and path
    Broken,     \* the texts a server finds problems in
    MaxEdits,
    MaxScheduled,   \* how many refreshes may wait to begin
    Faults      \* "start", "init", "read", "deaf", "die", "close"

Workers == {Agent} \cup Refreshers

ASSUME NameAssumption == None \notin Names \cup Servers /\ Servers \subseteq Nat
ASSUME WorkerAssumption == Agent \notin Refreshers
ASSUME CallAssumption == Calls \subseteq [file_path : Names \cup {None}, path : Names \cup {None}]
ASSUME EditAssumption == MaxEdits \in Nat /\ None \notin Nat
ASSUME ScheduleAssumption == MaxScheduled \in Nat \ {0}

Texts == 0..MaxEdits

VARIABLES
    disk,       \* the file's text
    editedFiles, diagnostics,   \* of the session, under diagMu: the names to ask
                                \* for, and those that are reported in the prompt
    service,    \* whether Session.LanguageService is set
    edited,     \* what editedPath makes of the call the hook is given
    scheduled,  \* goroutines of refreshDiagnosticsAsync that have yet to begin
    pc,         \* of every worker
    paths,      \* the names a refresh has yet to ask for
    fresh,      \* what it was told: whether the name has problems
    path,       \* the name a worker asks for now,
    client,     \*   through which server,
    text,       \*   with which text read,
    already,    \*   and whether the server knew the file
    clients, failed,    \* of the manager: the server, or None
    life,       \* of every server; a "deaf" one has stopped reading
    opened,     \* its client has sent didOpen, or is about to
    opens,      \* how many of them the server was sent,
    told,       \* and the text it was sent last
    diags,      \* whether its client holds problems of the file
    closer      \* Session.Close: what it is about to do, and to which server

session == <<disk, editedFiles, diagnostics, service, edited, scheduled>>
work == <<paths, fresh>>
query == <<path, client, text, already>>
manager == <<clients, failed>>
server == <<life, opened, opens, told, diags>>
vars == <<session, pc, work, query, manager, server, closer>>

TypeOK ==
    /\ disk \in Texts
    /\ editedFiles \in SUBSET Names
    /\ diagnostics \in SUBSET Names
    /\ service \in BOOLEAN
    /\ edited \in Names \cup {None} /\ scheduled \in 0..MaxScheduled
    /\ pc \in [Workers -> {"idle", "hook", "schedule", "next", "lookup",
                           "init", "read", "mark", "send", "look", "store",
                           "panic"}]
    /\ paths \in [Refreshers -> SUBSET Names]
    /\ fresh \in [Refreshers -> UNION {[asked -> BOOLEAN] : asked \in SUBSET Names}]
    /\ path \in [Workers -> Names \cup {None}]
    /\ client \in [Workers -> Servers \cup {None}]
    /\ text \in [Workers -> Texts \cup {None}]
    /\ already \in [Workers -> BOOLEAN]
    /\ clients \in Servers \cup {None} /\ failed \in BOOLEAN
    /\ life \in [Servers -> {"unused", "starting", "up", "deaf", "failed", "dead"}]
    /\ opened \in [Servers -> BOOLEAN] /\ opens \in [Servers -> 0..2]
    /\ told \in [Servers -> Texts \cup {None}]
    /\ diags \in [Servers -> BOOLEAN]
    /\ closer \in [at : {"open", "kill", "forget", "closed"}, server : Servers \cup {None}]

Init ==
    /\ disk = 0 /\ editedFiles = {} /\ diagnostics = {}
    /\ service = TRUE /\ edited = None /\ scheduled = 0
    /\ pc = [w \in Workers |-> "idle"]
    /\ paths = [r \in Refreshers |-> {}]
    /\ fresh = [r \in Refreshers |-> <<>>]
    /\ path = [w \in Workers |-> None] /\ client = [w \in Workers |-> None]
    /\ text = [w \in Workers |-> None] /\ already = [w \in Workers |-> FALSE]
    /\ clients = None /\ failed = FALSE
    /\ life = [s \in Servers |-> "unused"]
    /\ opened = [s \in Servers |-> FALSE] /\ opens = [s \in Servers |-> 0]
    /\ told = [s \in Servers |-> None]
    /\ diags = [s \in Servers |-> FALSE]
    /\ closer = [at |-> "open", server |-> None]

\* A goroutine that panics takes the process with it.
Running == \A w \in Workers : pc[w] # "panic"

At(w, here) == Running /\ pc[w] = here
Goto(w, there) == pc' = [pc EXCEPT ![w] = there]

-----------------------------------------------------------------------------
\* The agent's goroutine: tools, and the hook that follows each.

\* editedPath: the field path of the call's input.
EditedPath(call) == call.path

\* A tool that changes files, or fails: the hook is called all the same.
Mutate(call) ==
    /\ At(Agent, "idle")
    /\ disk' \in {disk, disk + 1} \cap Texts
    /\ edited' = EditedPath(call)
    /\ Goto(Agent, "hook")
    /\ UNCHANGED <<editedFiles, diagnostics, service, scheduled, work, query, manager, server, closer>>

\* An lsp tool asks the manager itself.
Query(n) ==
    /\ At(Agent, "idle")
    /\ path' = [path EXCEPT ![Agent] = n]
    /\ Goto(Agent, "lookup")
    /\ UNCHANGED <<session, work, client, text, already, manager, server, closer>>

\* noteEditedFile
Note ==
    /\ At(Agent, "hook")
    /\ editedFiles' = editedFiles \cup ({edited} \ {None})
    /\ edited' = None
    /\ Goto(Agent, "schedule")
    /\ UNCHANGED <<disk, diagnostics, service, scheduled, work, query, manager, server, closer>>

Scheduled(n) ==
    /\ scheduled' = n
    /\ Goto(Agent, "idle")
    /\ UNCHANGED <<disk, editedFiles, diagnostics, service, edited, work, query, manager,
                   server, closer>>

\* Mutant of Schedule: no second refresh while one is at work.
ScheduleSingly ==
    /\ At(Agent, "schedule")
    /\ IF service /\ editedFiles # {} /\ \A r \in Refreshers : pc[r] = "idle"
       THEN Scheduled(scheduled + 1) ELSE Scheduled(scheduled)

\* refreshDiagnosticsAsync.  (At MaxScheduled the model waits.)
Schedule ==
    /\ At(Agent, "schedule")
    /\ IF service /\ editedFiles # {}
       THEN scheduled < MaxScheduled /\ Scheduled(scheduled + 1)
       ELSE Scheduled(scheduled)

-----------------------------------------------------------------------------
\* refreshDiagnostics.

\* One of the goroutines begins: it takes what is pending, if there is anything.
TakeEditedFiles(r) ==
    /\ At(r, "idle") /\ scheduled > 0
    /\ scheduled' = scheduled - 1
    /\ IF service
       THEN /\ paths' = [paths EXCEPT ![r] = editedFiles]
            /\ editedFiles' = {}
            /\ Goto(r, IF editedFiles = {} THEN "idle" ELSE "next")
       ELSE UNCHANGED <<paths, editedFiles, pc>>
    /\ UNCHANGED <<disk, diagnostics, service, edited, fresh, query, manager, server, closer>>

\* The next name.  A service that Close has taken away meanwhile is a nil
\* pointer here.
NextPath(r) ==
    /\ At(r, "next")
    /\ IF service
       THEN \E n \in paths[r] :
              /\ path' = [path EXCEPT ![r] = n]
              /\ paths' = [paths EXCEPT ![r] = @ \ {n}]
              /\ Goto(r, "lookup")
       ELSE Goto(r, "panic") /\ UNCHANGED <<path, paths>>
    /\ UNCHANGED <<session, fresh, client, text, already, manager, server, closer>>

\* What is known of the names in f, and of n.
With(f, n, found) == [m \in DOMAIN f \cup {n} |-> IF m = n THEN found ELSE f[m]]

\* What the manager's Diagnostics returns: to the tool, or to the refresh.
Answer(w, found) ==
    /\ fresh' = IF w = Agent THEN fresh
                ELSE [fresh EXCEPT ![w] = With(@, path[w], found)]
    /\ Goto(w, IF w = Agent THEN "idle" ELSE IF paths[w] = {} THEN "store" ELSE "next")
    /\ path' = [path EXCEPT ![w] = None] /\ client' = [client EXCEPT ![w] = None]
    /\ text' = [text EXCEPT ![w] = None]
    /\ already' = [already EXCEPT ![w] = FALSE]
    /\ UNCHANGED paths

\* A name without problems is no longer reported.
Store(r) ==
    /\ At(r, "store")
    /\ diagnostics' = {n \in diagnostics : n \notin DOMAIN fresh[r]}
                        \cup {n \in DOMAIN fresh[r] : fresh[r][n]}
    /\ fresh' = [fresh EXCEPT ![r] = <<>>]
    /\ Goto(r, "idle")
    /\ UNCHANGED <<disk, editedFiles, service, edited, scheduled, paths, query, manager, server, closer>>

-----------------------------------------------------------------------------
\* The manager: the client for a name, the text sent to it, what it knows.

HasClient(w) ==
    /\ At(w, "lookup") /\ clients # None
    /\ client' = [client EXCEPT ![w] = clients]
    /\ Goto(w, "read")
    /\ UNCHANGED <<session, work, path, text, already, manager, server, closer>>

\* Mutant of GivenUp: the others wait until the server has started.
GivenUpWaits(w) ==
    /\ At(w, "lookup") /\ clients = None /\ failed
    /\ \A v \in Workers : pc[v] # "init"
    /\ Answer(w, FALSE)
    /\ UNCHANGED <<session, manager, server, closer>>

\* The extension is given up, or somebody else is starting its server.
GivenUp(w) ==
    /\ At(w, "lookup") /\ clients = None /\ failed
    /\ Answer(w, FALSE)
    /\ UNCHANGED <<session, manager, server, closer>>

\* The process that a start is about to create.
Unborn(s) == life[s] = "unused" /\ \A t \in Servers : t < s => life[t] # "unused"

\* Mutant of Start: the extension is not marked while its server starts.
StartUnmarked(w) ==
    /\ At(w, "lookup") /\ clients = None /\ ~failed
    /\ \E s \in Servers :
         /\ Unborn(s)
         /\ life' = [life EXCEPT ![s] = "starting"]
         /\ client' = [client EXCEPT ![w] = s]
    /\ Goto(w, "init")
    /\ UNCHANGED <<session, work, path, text, already, manager, opened, opens, told, diags, closer>>

\* The extension counts as failed until the server has answered.
Start(w) ==
    /\ At(w, "lookup") /\ clients = None /\ ~failed
    /\ failed' = TRUE
    /\ \E s \in Servers :
         /\ Unborn(s)
         /\ life' = [life EXCEPT ![s] = "starting"]
         /\ client' = [client EXCEPT ![w] = s]
    /\ Goto(w, "init")
    /\ UNCHANGED <<session, work, path, text, already, clients, opened, opens, told, diags, closer>>

StartFails(w) ==
    /\ "start" \in Faults
    /\ At(w, "lookup") /\ clients = None /\ ~failed
    /\ failed' = TRUE
    /\ \E s \in Servers :
         Unborn(s) /\ life' = [life EXCEPT ![s] = "failed"]
    /\ Answer(w, FALSE)
    /\ UNCHANGED <<session, clients, opened, opens, told, diags, closer>>

\* The server has answered initialize; the manager takes the client in.
Initialized(w) ==
    /\ At(w, "init")
    /\ life' = [life EXCEPT ![client[w]] = "up"]
    /\ clients' = client[w] /\ failed' = FALSE
    /\ Goto(w, "read")
    /\ UNCHANGED <<session, work, query, opened, opens, told, diags, closer>>

\* It died, answered with an error, or its caller gave up: NewClient closes it.
InitFails(w) ==
    /\ "init" \in Faults
    /\ At(w, "init")
    /\ life' = [life EXCEPT ![client[w]] = "failed"]
    /\ Answer(w, FALSE)
    /\ UNCHANGED <<session, manager, opened, opens, told, diags, closer>>

\* sync reads the file; one that cannot be read is not sent.
ReadFile(w) ==
    /\ At(w, "read")
    /\ \/ text' = [text EXCEPT ![w] = disk] /\ Goto(w, "mark")
       \/ "read" \in Faults /\ Goto(w, "look") /\ UNCHANGED text
    /\ UNCHANGED <<session, work, path, client, already, manager, server, closer>>

\* DidOpen, under the client's lock.
Mark(w) ==
    /\ At(w, "mark")
    /\ already' = [already EXCEPT ![w] = opened[client[w]]]
    /\ opened' = [opened EXCEPT ![client[w]] = TRUE]
    /\ Goto(w, "send")
    /\ UNCHANGED <<session, work, path, client, text, manager, life, opens, told, diags, closer>>

\* Mutant of Send: a file that the server knows is not sent again.
SendOnce(w) ==
    LET s == client[w] IN
    /\ At(w, "send") /\ life[s] # "deaf"
    /\ IF life[s] = "up" /\ ~already[w]
       THEN /\ opens' = [opens EXCEPT ![s] = @ + 1]
            /\ told' = [told EXCEPT ![s] = text[w]]
       ELSE UNCHANGED <<opens, told>>
    /\ Goto(w, "look")
    /\ UNCHANGED <<session, work, query, manager, life, opened, diags, closer>>

\* The notification, didOpen or didChange.  That a server is gone costs the
\* caller nothing; on one that does not read, the write waits, and with it
\* every other, since the connection writes one message at a time.
Send(w) ==
    LET s == client[w] IN
    /\ At(w, "send") /\ life[s] # "deaf"
    /\ IF life[s] = "up"
       THEN /\ opens' = [opens EXCEPT ![s] = IF already[w] THEN @ ELSE @ + 1]
            /\ told' = [told EXCEPT ![s] = text[w]]
       ELSE UNCHANGED <<opens, told>>
    /\ Goto(w, "look")
    /\ UNCHANGED <<session, work, query, manager, life, opened, diags, closer>>

\* Client.Diagnostics: whatever was published last.
Look(w) ==
    /\ At(w, "look")
    /\ Answer(w, diags[client[w]])
    /\ UNCHANGED <<session, manager, server, closer>>

-----------------------------------------------------------------------------
\* A server reads or does not, publishes what it finds, or dies.

Alive(s) == life[s] \in {"up", "deaf"}

\* Its input is full, and it takes nothing out of it any more.  (One that reads
\* again later only delays the write that waits for it.)
StopsReading(s) ==
    /\ "deaf" \in Faults /\ Running
    /\ life[s] = "up"
    /\ life' = [life EXCEPT ![s] = "deaf"]
    /\ UNCHANGED <<session, pc, work, query, manager, opened, opens, told, diags, closer>>

\* storeDiagnostics: the latest publication replaces the one before.  It may be
\* about any text that the file has had.
Publish(s) ==
    /\ Running
    /\ Alive(s) /\ opens[s] > 0
    /\ \E t \in 0..disk : diags' = [diags EXCEPT ![s] = t \in Broken]
    /\ UNCHANGED <<session, pc, work, query, manager, life, opened, opens, told, closer>>

\* What a process knew is gone with it; what its client knows is not.
Gone(dead) ==
    /\ life' = [s \in Servers |-> IF s \in dead THEN "dead" ELSE life[s]]
    /\ opens' = [s \in Servers |-> IF s \in dead THEN 0 ELSE opens[s]]
    /\ told' = [s \in Servers |-> IF s \in dead THEN None ELSE told[s]]

ServerDies(s) ==
    /\ "die" \in Faults /\ Running
    /\ Alive(s)
    /\ Gone({s})
    /\ UNCHANGED <<session, pc, work, query, manager, opened, diags, closer>>

-----------------------------------------------------------------------------
\* Session.Close: Shutdown takes the clients out of the manager and closes them.

Shutdown ==
    /\ "close" \in Faults /\ Running
    /\ closer.at = "open"
    /\ closer' = [at |-> "kill", server |-> clients]
    /\ clients' = None
    /\ UNCHANGED <<session, pc, work, query, failed, server>>

Kill ==
    /\ Running /\ closer.at = "kill"
    /\ Gone({closer.server})
    /\ closer' = [at |-> "forget", server |-> None]
    /\ UNCHANGED <<session, pc, work, query, manager, opened, diags>>

ForgetService ==
    /\ Running /\ closer.at = "forget"
    /\ service' = FALSE
    /\ closer' = [closer EXCEPT !.at = "closed"]
    /\ UNCHANGED <<disk, editedFiles, diagnostics, edited, scheduled, pc, work, query, manager, server>>

-----------------------------------------------------------------------------
AgentStep ==
    \/ \E call \in Calls : Mutate(call)
    \/ \E n \in Names : Query(n)

HookStep == Note \/ Schedule

RefreshStep(r) == TakeEditedFiles(r) \/ NextPath(r) \/ Store(r)

\* What a worker does by itself; that a server answers is not up to it.
AskStep(w) ==
    \/ HasClient(w) \/ GivenUp(w) \/ Start(w) \/ StartFails(w)
    \/ ReadFile(w) \/ Mark(w) \/ Send(w) \/ Look(w)

CloseStep == Shutdown \/ Kill \/ ForgetService

Next ==
    \/ AgentStep \/ HookStep
    \/ \E r \in Refreshers : RefreshStep(r)
    \/ \E w \in Workers : AskStep(w) \/ Initialized(w) \/ InitFails(w)
    \/ \E s \in Servers : StopsReading(s) \/ Publish(s) \/ ServerDies(s)
    \/ CloseStep

Spec == Init /\ [][Next]_vars

\* The hook and a refresh go on.  Nothing is assumed of the model that calls tools, of a server (the
\* agent's own question may wait for its answer for ever), or of the user who
\* quits.
FairSpec ==
    /\ Spec
    /\ WF_vars(HookStep)
    /\ \A r \in Refreshers : WF_vars(RefreshStep(r) \/ AskStep(r))

-----------------------------------------------------------------------------
(***************************************************************************)
(* A file that was noted has a refresh that will take it: one that has not *)
(* begun yet, or the one the hook is about to start.  (Unless the session  *)
(* is being closed.)                                                       *)
(***************************************************************************)
NoLostNote ==
    Running /\ service /\ editedFiles # {} =>
        pc[Agent] = "schedule" \/ scheduled > 0

(***************************************************************************)
(* lsp/manager.go:90-91: "This is what makes a missing binary cost exactly *)
(* one fork+exec."  A server that could not be started is the last one,    *)
(* whoever asks and however the callers interleave, and none runs beside   *)
(* it but one that is being closed.                                        *)
(***************************************************************************)
OneFork ==
    \A s, t \in Servers :
        life[s] = "failed" /\ s # t =>
            life[t] \in {"unused", "dead"} \/ closer.server = t

(***************************************************************************)
(* Every server that runs has one who answers for it: the manager, the     *)
(* goroutine that starts it, or the Close that is about to kill it.  So    *)
(* there is never a second one of a kind, and a start that fails leaves    *)
(* none behind.                                                            *)
(***************************************************************************)
NoOrphan ==
    \A s \in Servers : life[s] \in {"starting", "up", "deaf"} =>
        \/ clients = s
        \/ closer.server = s
        \/ \E w \in Workers : pc[w] = "init" /\ client[w] = s

(***************************************************************************)
(* lsp/client.go:205: "servers reject a second didOpen for one URI".  No   *)
(* server is sent two.                                                     *)
(***************************************************************************)
OpenedOnce == \A s \in Servers : opens[s] <= 1

-----------------------------------------------------------------------------
\* The inductive invariant.

\* A worker that asks has a name to ask for, and from then on a server to ask.
AskInv ==
    \A w \in Workers :
        /\ pc[w] \in {"lookup", "init", "read", "mark", "send", "look"} =>
             path[w] \in Names
        /\ pc[w] \in {"init", "read", "mark", "send", "look"} => client[w] \in Servers
        /\ pc[w] \in {"mark", "send"} => text[w] \in Texts

\* The mark "failed" is what keeps a second caller out: it stands while a server
\* starts, and after a start that failed for good.
StartInv ==
    /\ \A w \in Workers : pc[w] = "init" =>
         clients = None /\ failed /\ life[client[w]] = "starting"
    /\ \A v, w \in Workers : pc[v] = "init" /\ pc[w] = "init" => v = w
    /\ clients # None => ~failed /\ life[clients] \in {"up", "deaf", "dead"}
    /\ \A s \in Servers : life[s] = "failed" => failed
    /\ closer.server # None => life[closer.server] \in {"up", "deaf", "dead"}
    /\ closer.at # "kill" => closer.server = None

\* Who marked the file is the one who sends didOpen, and nobody did before.
OpenInv ==
    /\ \A s \in Servers : ~opened[s] => opens[s] = 0
    /\ \A w \in Workers : pc[w] = "send" => opened[client[w]]
    /\ \A w \in Workers : pc[w] = "send" /\ ~already[w] => opens[client[w]] = 0
    /\ \A v, w \in Workers :
         /\ pc[v] = "send" /\ pc[w] = "send"
         /\ ~already[v] /\ ~already[w] /\ client[v] = client[w]
         => v = w

(***************************************************************************)
(* The state that the goroutines share through the manager and the client  *)
(* is coherent: one server starts at a time, each that runs has an owner,  *)
(* one that failed stays the last, and a file is opened once.              *)
(***************************************************************************)
IInv ==
    /\ TypeOK
    /\ AskInv
    /\ OneFork
    /\ NoOrphan
    /\ StartInv
    /\ OpenedOnce
    /\ OpenInv

\* A server has been sent the text, or a later one; or it could not be read.
Told(t) ==
    \/ \E s \in Servers : told[s] # None /\ told[s] >= t
    \/ \E w \in Workers : pc[w] = "look" /\ text[w] = None

\* What may come in between: no server for the extension, one that died, the end.
Unavailable ==
    \/ failed \/ closer.at # "open" \/ ~Running
    \/ \E s \in Servers : life[s] = "dead"

\* A refresh waits for a server that does not read (client.go:211, 218: the
\* notification has the context of the refresh, which has no end).
Blocked(r) == pc[r] = "send" /\ life[client[r]] = "deaf"

(***************************************************************************)
(* runtime/diagnostics.go:19-21: a server is sent the text that a noted    *)
(* file has, or a later one; or a refresh waits for ever for a server that *)
(* has stopped reading.                                                    *)
(***************************************************************************)
NotedIsTold ==
    \A t \in Texts :
        (editedFiles # {} /\ disk = t) ~>
            (Told(t) \/ Unavailable \/ \E r \in Refreshers : []Blocked(r))

(***************************************************************************)
(* A refresh ends, unless a server that it started does not answer, or the *)
(* server that it writes to never reads again: it waits for nobody else.   *)
(***************************************************************************)
RefreshEnds ==
    \A r \in Refreshers :
        pc[r] # "idle" ~> (pc[r] \in {"idle", "init"} \/ ~Running \/ []Blocked(r))
================================================================================
