-------------------------------- MODULE McpStdio --------------------------------
(***************************************************************************)
(* A subprocess MCP server and the goroutines that share its transport:    *)
(* internal/mcp/stdio.go.                                                  *)
(*                                                                         *)
(* Callers register a channel under their request's id, write the request  *)
(* to the server's stdin and wait.  One reader takes responses from the    *)
(* server's stdout and hands each to the caller registered under its id.   *)
(* When the stream ends, or the transport is closed, whoever is still      *)
(* registered is released by closing its channel.  A section under t.mu is *)
(* one step; blocking operations (the write lock, the write, the wait, the *)
(* reaping of the child) are steps of their own.                           *)
(*                                                                         *)
(* A request is its caller, a response the caller it is for.  Requests and *)
(* responses in the two pipes are sets: the server handles and answers in  *)
(* any order, twice, late or never.                                        *)
(***************************************************************************)
EXTENDS Naturals, FiniteSets

CONSTANTS
    Calls,      \* the goroutines that Call, once each
    Notes,      \* the goroutines that Notify, once each
    Closers,    \* the goroutines that Close: a session's end, its context's end
    PipeSize,   \* how many unread requests the server's stdin holds
    Quirks,     \* what the server may do: "ask" (send requests of its own),
                \* "garble" (print a line that is not JSON), "child" (leave a
                \* process behind that keeps its pipes open)
    NoOne

Senders == Calls \cup Notes
Threads == Senders \cup Closers
Reader == "reader"
Releasers == Closers \cup {Reader}

ASSUME ThreadsAssumption ==
    /\ Calls \cap Notes = {}
    /\ Calls \cap Closers = {}
    /\ Notes \cap Closers = {}
    /\ Reader \notin Threads
    /\ NoOne \notin Threads
    /\ PipeSize \in Nat \ {0}

VARIABLES
    pc,         \* what each goroutine is doing
    expired,    \* the calls whose context is done
    answer,     \* how each call ended
    pending,    \* t.pending: the calls registered for a response
    chan,       \* chan[c]: what is in the channel of call c, which holds one
    writer,     \* who holds t.writing
    closed,     \* t.closed
    exited,     \* t.exited is closed: the child is reaped
    reader,     \* what the reader is doing
    hand,       \* the response the reader is about to hand over
    release,    \* release[t]: the channels that t took and still has to close
    server,     \* "orphan": the child is dead but its own child is not
    inOpen,     \* our end of the server's stdin is open
    outOpen,    \* our end of its stdout is open
    inbox,      \* the requests in the server's stdin
    served,     \* the requests the server has read
    outbox      \* the messages in the server's stdout

callers == <<pc, expired, answer>>
table == <<pending, chan, release>>
streams == <<inOpen, outOpen, inbox, outbox>>
vars == <<callers, table, writer, closed, exited, reader, hand, server,
          served, streams>>

Messages == [kind : {"reply", "ask"}, id : Calls]
Garbage == [kind |-> "garbage"]

TypeOK ==
    /\ pc \in [Threads -> {"idle", "write", "send", "wait", "forget",
                           "shut", "kill", "reap", "fail", "release",
                           "await", "done"}]
    /\ expired \in SUBSET Calls
    /\ answer \in [Calls -> {"none", "reply", "ask", "closed", "unsent", "expired"}]
    /\ pending \in SUBSET Calls
    /\ chan \in [Calls -> {"empty", "reply", "ask", "closed"}]
    /\ writer \in Senders \cup {NoOne}
    /\ closed \in BOOLEAN /\ exited \in BOOLEAN
    /\ reader \in {"read", "deliver", "fail", "release", "stopped"}
    /\ hand \in Messages \cup {Garbage}
    /\ release \in [Releasers -> SUBSET Calls]
    /\ server \in {"up", "orphan", "dead"}
    /\ inOpen \in BOOLEAN /\ outOpen \in BOOLEAN
    /\ inbox \in SUBSET Senders
    /\ served \in SUBSET Calls
    /\ outbox \in SUBSET (Messages \cup {Garbage})

Init ==
    /\ pc = [t \in Threads |-> "idle"]
    /\ expired = {}
    /\ answer = [c \in Calls |-> "none"]
    /\ pending = {}
    /\ chan = [c \in Calls |-> "empty"]
    /\ writer = NoOne
    /\ closed = FALSE /\ exited = FALSE
    /\ reader = "read"
    /\ hand = Garbage
    /\ release = [t \in Releasers |-> {}]
    /\ server = "up"
    /\ inOpen = TRUE /\ outOpen = TRUE
    /\ inbox = {} /\ served = {} /\ outbox = {}

-----------------------------------------------------------------------------
\* Callers.

Goto(t, where) == pc' = [pc EXCEPT ![t] = where]

EndCall(c, how, where) ==
    /\ answer' = [answer EXCEPT ![c] = how]
    /\ Goto(c, where)

\* Call registers the call, unless the transport is closed.
Call(c) ==
    /\ pc[c] = "idle"
    /\ IF closed
       THEN EndCall(c, "closed", "done") /\ UNCHANGED pending
       ELSE /\ pending' = pending \cup {c}
            /\ Goto(c, "write")
            /\ UNCHANGED answer
    /\ UNCHANGED <<expired, chan, release, writer, closed, exited, reader, hand,
                   server, served, streams>>

\* Notify only looks whether the transport is closed.
Notify(n) ==
    /\ pc[n] = "idle"
    /\ Goto(n, IF closed THEN "done" ELSE "write")
    /\ UNCHANGED <<expired, answer, table, writer, closed, exited, reader, hand,
                   server, served, streams>>

LockWriting(t) ==
    /\ pc[t] = "write"
    /\ writer = NoOne
    /\ writer' = t
    /\ Goto(t, "send")
    /\ UNCHANGED <<expired, answer, table, closed, exited, reader, hand, server,
                   served, streams>>

\* The server, or something that outlives it, can still read its stdin.
Writable == inOpen /\ server # "dead"

\* A write goes through when there is room in the pipe, and blocks when not.
Send(t) ==
    /\ pc[t] = "send"
    /\ Writable
    /\ Cardinality(inbox) < PipeSize
    /\ inbox' = inbox \cup {t}
    /\ writer' = NoOne
    /\ Goto(t, IF t \in Calls THEN "wait" ELSE "done")
    /\ UNCHANGED <<expired, answer, table, closed, exited, reader, hand, server,
                   served, inOpen, outOpen, outbox>>

\* A write to a dead server or a closed stdin fails, blocked or not.
SendFails(t) ==
    /\ pc[t] = "send"
    /\ ~Writable
    /\ writer' = NoOne
    /\ IF t \in Calls
       THEN EndCall(t, "unsent", "forget")
       ELSE Goto(t, "done") /\ UNCHANGED answer
    /\ UNCHANGED <<expired, table, closed, exited, reader, hand, server, served,
                   streams>>

\* The caller's channel has its response, or was closed.
Receive(c) ==
    /\ pc[c] = "wait"
    /\ chan[c] # "empty"
    /\ EndCall(c, chan[c], "done")
    /\ UNCHANGED <<expired, table, writer, closed, exited, reader, hand, server,
                   served, streams>>

\* The caller's context is done; select may prefer it to a response.
GiveUp(c) ==
    /\ pc[c] = "wait"
    /\ c \in expired
    /\ EndCall(c, "expired", "forget")
    /\ UNCHANGED <<expired, table, writer, closed, exited, reader, hand, server,
                   served, streams>>

Forget(c) ==
    /\ pc[c] = "forget"
    /\ pending' = pending \ {c}
    /\ Goto(c, "done")
    /\ UNCHANGED <<expired, answer, chan, release, writer, closed, exited,
                   reader, hand, server, served, streams>>

-----------------------------------------------------------------------------
\* The reader.

\* Mutant of Take: the call stays registered while its response is delivered.
TakeKeepsPending(m) ==
    /\ reader = "read"
    /\ outOpen
    /\ m \in outbox
    /\ outbox' = outbox \ {m}
    /\ IF m = Garbage
       THEN reader' = "fail" /\ UNCHANGED <<hand, pending>>
       ELSE IF m.id \in pending
       THEN reader' = "deliver" /\ hand' = m /\ UNCHANGED pending
       ELSE UNCHANGED <<reader, hand, pending>>
    /\ UNCHANGED <<callers, chan, release, writer, closed, exited, server, served,
                   inOpen, outOpen, inbox>>

\* One frame: garbage ends the reader; a message whose id is a registered call
\* unregisters it and is going to be delivered; any other is dropped.
Take(m) ==
    /\ reader = "read"
    /\ outOpen
    /\ m \in outbox
    /\ outbox' = outbox \ {m}
    /\ IF m = Garbage
       THEN reader' = "fail" /\ UNCHANGED <<hand, pending>>
       ELSE IF m.id \in pending
       THEN reader' = "deliver" /\ hand' = m /\ pending' = pending \ {m.id}
       ELSE UNCHANGED <<reader, hand, pending>>
    /\ UNCHANGED <<callers, chan, release, writer, closed, exited, server, served,
                   inOpen, outOpen, inbox>>

\* The send on the channel of one place.
Deliver ==
    /\ reader = "deliver"
    /\ chan[hand.id] = "empty"
    /\ chan' = [chan EXCEPT ![hand.id] = hand.kind]
    /\ reader' = "read"
    /\ UNCHANGED <<callers, pending, release, writer, closed, exited, hand, server,
                   served, streams>>

\* The stream ends: the server is gone and all it said is read, or Wait closed
\* our end.
EndOfStream ==
    /\ reader = "read"
    /\ ~outOpen \/ (server = "dead" /\ outbox = {})
    /\ reader' = "fail"
    /\ UNCHANGED <<callers, table, writer, closed, exited, hand, server, served,
                   streams>>

\* Mutant of ReaderFails: the reader stops without a word.
ReaderFailsSilently ==
    /\ reader = "fail"
    /\ reader' = "release"
    /\ UNCHANGED <<callers, table, writer, closed, exited, hand, server, served,
                   streams>>

\* fail takes every registered call, and then closes their channels one by one.
ReaderFails ==
    /\ reader = "fail"
    /\ release' = [release EXCEPT ![Reader] = pending]
    /\ pending' = {}
    /\ reader' = "release"
    /\ UNCHANGED <<callers, chan, writer, closed, exited, hand, server, served,
                   streams>>

CloseChannel(t, c) ==
    /\ c \in release[t]
    /\ chan' = [chan EXCEPT ![c] = "closed"]
    /\ release' = [release EXCEPT ![t] = @ \ {c}]

ReaderReleases(c) ==
    /\ reader = "release"
    /\ CloseChannel(Reader, c)
    /\ UNCHANGED <<callers, pending, writer, closed, exited, reader, hand, server,
                   served, streams>>

ReaderStops ==
    /\ reader = "release"
    /\ release[Reader] = {}
    /\ reader' = "stopped"
    /\ UNCHANGED <<callers, table, writer, closed, exited, hand, server, served,
                   streams>>

-----------------------------------------------------------------------------
\* Close.

Close(k) ==
    /\ pc[k] = "idle"
    /\ closed' = TRUE
    /\ Goto(k, IF closed THEN "await" ELSE "shut")
    /\ UNCHANGED <<expired, answer, table, writer, exited, reader, hand, server,
                   served, streams>>

\* A Close that is not the first waits until the child is reaped.
AwaitExit(k) ==
    /\ pc[k] = "await"
    /\ exited
    /\ Goto(k, "done")
    /\ UNCHANGED <<expired, answer, table, writer, closed, exited, reader, hand,
                   server, served, streams>>

CloseStdin(k) ==
    /\ pc[k] = "shut"
    /\ inOpen' = FALSE
    /\ Goto(k, "kill")
    /\ UNCHANGED <<expired, answer, table, writer, closed, exited, reader, hand,
                   server, served, outOpen, inbox, outbox>>

\* What is left of the server when its process ends.
Ends == IF "child" \in Quirks THEN {"dead", "orphan"} ELSE {"dead"}

Kill(k) ==
    /\ pc[k] = "kill"
    /\ IF server = "up" THEN server' \in Ends ELSE UNCHANGED server
    /\ Goto(k, "reap")
    /\ UNCHANGED <<expired, answer, table, writer, closed, exited, reader, hand,
                   served, streams>>

\* cmd.Wait: cmd.Stderr is a Writer and no file, so Wait also waits until
\* nobody has the server's stderr open.  Then it closes our end of stdout.
Reap(k) ==
    /\ pc[k] = "reap"
    /\ server = "dead"
    /\ outOpen' = FALSE
    /\ exited' = TRUE
    /\ Goto(k, "fail")
    /\ UNCHANGED <<expired, answer, table, writer, closed, reader, hand, server,
                   served, inOpen, inbox, outbox>>

\* Mutant of CloserFails: Close reaps the child and leaves the waiters to the
\* reader.
CloserFailsNobody(k) ==
    /\ pc[k] = "fail"
    /\ pending' = {}
    /\ Goto(k, "release")
    /\ UNCHANGED <<expired, answer, chan, release, writer, closed, exited, reader,
                   hand, server, served, streams>>

\* Mutant of CloserFails: Close releases the calls and leaves them in the table.
CloserFailsKeepsTable(k) ==
    /\ pc[k] = "fail"
    /\ release' = [release EXCEPT ![k] = pending]
    /\ Goto(k, "release")
    /\ UNCHANGED <<expired, answer, pending, chan, writer, closed, exited, reader,
                   hand, server, served, streams>>

CloserFails(k) ==
    /\ pc[k] = "fail"
    /\ release' = [release EXCEPT ![k] = pending]
    /\ pending' = {}
    /\ Goto(k, "release")
    /\ UNCHANGED <<expired, answer, chan, writer, closed, exited, reader, hand,
                   server, served, streams>>

CloserReleases(k, c) ==
    /\ pc[k] = "release"
    /\ CloseChannel(k, c)
    /\ UNCHANGED <<callers, pending, writer, closed, exited, reader, hand, server,
                   served, streams>>

CloserReturns(k) ==
    /\ pc[k] = "release"
    /\ release[k] = {}
    /\ Goto(k, "done")
    /\ UNCHANGED <<expired, answer, table, writer, closed, exited, reader, hand,
                   server, served, streams>>

-----------------------------------------------------------------------------
\* The world: contexts, and a server that owes nothing.

Expire(c) ==
    /\ pc[c] # "done"
    /\ expired' = expired \cup {c}
    /\ UNCHANGED <<pc, answer, table, writer, closed, exited, reader, hand, server,
                   served, streams>>

ServerReads(t) ==
    /\ server # "dead"
    /\ t \in inbox
    /\ inbox' = inbox \ {t}
    /\ served' = served \cup ({t} \cap Calls)
    /\ UNCHANGED <<callers, table, writer, closed, exited, reader, hand, server,
                   inOpen, outOpen, outbox>>

\* A response, in any order and as often as the server likes; a request of the
\* server's own, whose number may be that of a call; or garbage.
ServerPrints(m) ==
    /\ server # "dead"
    /\ \/ m \in Messages /\ m.kind = "reply" /\ m.id \in served
       \/ m \in Messages /\ m.kind = "ask" /\ "ask" \in Quirks
       \/ m = Garbage /\ "garble" \in Quirks
    /\ outbox' = outbox \cup {m}
    /\ UNCHANGED <<callers, table, writer, closed, exited, reader, hand, server,
                   served, inOpen, outOpen, inbox>>

ServerExits ==
    /\ server # "dead"
    /\ server' \in IF server = "up" THEN Ends ELSE {"dead"}
    /\ UNCHANGED <<callers, table, writer, closed, exited, reader, hand, served,
                   streams>>

-----------------------------------------------------------------------------
SenderStep(t) ==
    \/ t \in Calls /\ (Receive(t) \/ GiveUp(t) \/ Forget(t))
    \/ LockWriting(t) \/ Send(t) \/ SendFails(t)

ReaderStep ==
    \/ \E m \in Messages \cup {Garbage} : Take(m)
    \/ Deliver \/ EndOfStream \/ ReaderFails \/ ReaderStops
    \/ \E c \in Calls : ReaderReleases(c)

CloserStep(k) ==
    \/ AwaitExit(k) \/ CloseStdin(k) \/ Kill(k) \/ Reap(k)
    \/ CloserFails(k) \/ CloserReturns(k)
    \/ \E c \in Calls : CloserReleases(k, c)

Next ==
    \/ \E c \in Calls : Call(c) \/ Expire(c)
    \/ \E n \in Notes : Notify(n)
    \/ \E t \in Senders : SenderStep(t)
    \/ ReaderStep
    \/ \E k \in Closers : Close(k) \/ CloserStep(k)
    \/ \E t \in Senders : ServerReads(t)
    \/ \E m \in Messages \cup {Garbage} : ServerPrints(m)
    \/ ServerExits

Spec == Init /\ [][Next]_vars

\* The scheduler runs every goroutine that can move, and hands the write lock
\* to each that waits for it.  Nothing is assumed of the server, nor that
\* anybody calls, closes or cancels.
Fairness ==
    /\ \A t \in Senders : WF_vars(SenderStep(t)) /\ SF_vars(LockWriting(t))
    /\ WF_vars(ReaderStep)
    /\ \A k \in Closers : WF_vars(CloserStep(k))

FairSpec == Spec /\ Fairness

-----------------------------------------------------------------------------
(***************************************************************************)
(* The reader's send never meets a closed or a full channel, and no        *)
(* channel is closed twice: either would end the program or block the      *)
(* reader for good.  It rests on whoever takes a call out of pending being *)
(* the only one to touch its channel.                                      *)
(***************************************************************************)
ChannelsSafe ==
    /\ reader = "deliver" => chan[hand.id] = "empty"
    /\ \A t \in Releasers : \A c \in release[t] : chan[c] = "empty"
    /\ \A t, u \in Releasers : t # u => release[t] \cap release[u] = {}

(***************************************************************************)
(* A call that has returned is not registered: an answer that comes late   *)
(* finds nobody, and the table does not grow with every timeout.           *)
(***************************************************************************)
NoLeak == \A c \in pending : pc[c] \notin {"idle", "done"}

(***************************************************************************)
(* Once the reader has stopped, nobody waits for it: a waiting call has    *)
(* its response, or its channel is closed or about to be.  (A server that  *)
(* prints garbage stops the reader and lives on: see CallsEnd.)      *)
(***************************************************************************)
NobodyForgotten ==
    reader = "stopped" =>
        \A c \in Calls : pc[c] = "wait" =>
            \/ chan[c] # "empty"
            \/ \E k \in Closers : c \in release[k]

-----------------------------------------------------------------------------
\* The inductive invariant.

InHand(c) == reader = "deliver" /\ hand.id = c

Released(c) == \E t \in Releasers : c \in release[t]

\* Whose turn it is to touch the channel of a call: while the call is in
\* pending nobody's, and then that of the one who took it out, once.
OwnersInv ==
    /\ reader = "deliver" => hand \in Messages /\ hand.id \notin pending
    /\ \A c \in Calls :
        chan[c] # "empty" => c \notin pending /\ ~InHand(c) /\ ~Released(c)
    /\ \A c \in Calls : Released(c) => c \notin pending /\ ~InHand(c)
    /\ \A t, u \in Releasers : t # u => release[t] \cap release[u] = {}
    /\ \A c \in Calls : pc[c] = "idle" =>
        chan[c] = "empty" /\ c \notin pending /\ ~InHand(c) /\ ~Released(c)

\* Channels are taken to be closed only while their taker is at it.
ReleaseInv ==
    /\ reader # "release" => release[Reader] = {}
    /\ \A k \in Closers : pc[k] # "release" => release[k] = {}

\* The reader only stops when nothing can be written any more, but for garbage.
StreamInv ==
    /\ \A k \in Closers : pc[k] \in {"kill", "reap"} => ~inOpen
    /\ ~outOpen => ~inOpen
    /\ Garbage \in outbox => "garble" \in Quirks
    /\ reader \in {"fail", "release", "stopped"} =>
        ~Writable \/ "garble" \in Quirks

\* A call under way is registered, or its channel has an owner or a content;
\* and nobody starts to wait once the reader has failed.
WaitInv ==
    /\ \A c \in Calls : pc[c] \in {"write", "send", "wait"} =>
        c \in pending \/ InHand(c) \/ Released(c) \/ chan[c] # "empty"
    /\ "garble" \notin Quirks /\ reader \in {"release", "stopped"} =>
        \A c \in pending : pc[c] # "wait"

IInv ==
    /\ TypeOK
    /\ NoLeak
    /\ OwnersInv
    /\ ReleaseInv
    /\ StreamInv
    /\ WaitInv

(***************************************************************************)
(* Close returns, and it ends every call and notification, wherever they   *)
(* are: "Close stops the subprocess and releases every waiting call"       *)
(* (stdio.go:236-261).  The server's death ends them as well: "a call      *)
(* whose server died must not wait for its context to expire".             *)
(***************************************************************************)
CallsEnd ==
    \A t \in Threads :
        ((closed \/ (server = "dead" /\ t \in Senders)) /\ pc[t] # "idle")
            ~> (pc[t] = "done")
===============================================================================
