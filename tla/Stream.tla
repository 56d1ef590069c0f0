--------------------------------- MODULE Stream ---------------------------------
(***************************************************************************)
(* One streamed response of a model provider, from the body of the HTTP    *)
(* response to the code that waits for the answer: provider/sse.go, the    *)
(* pumps of provider/anthropic and provider/openaicompat, and the loops    *)
(* that drain them (agent/loop.go, orchestrate/maxmode.go).                *)
(*                                                                         *)
(* Three goroutines: the reader cuts the body into frames, the pump turns  *)
(* frames into events, the consumer collects events.  The channel between  *)
(* reader and pump and the one between pump and consumer are unbuffered:   *)
(* a send and its receive are one step.  The channel for the reader's      *)
(* error holds one.  Of a frame the model keeps what it does to the pump,  *)
(* and of an event which frames it was made of.                            *)
(***************************************************************************)
EXTENDS Positions, SequencesExt

CONSTANTS
    Protocols,  \* "anthropic", "openai"
    Responses,  \* the sequences of frames a server may answer with
    Indexes,    \* the numbers of the tool calls of a response
    Faults      \* "refuse" (another status than 200), "cut" (an early end of
                \* the body), "break" (an error in it), "cancel" (the context)

ASSUME IndexAssumption == Indexes \subseteq Nat \ {0} /\ IsFiniteSet(Indexes)

Frame == [kind : {"text", "usage", "end", "error"}, call : {0}]
             \cup [kind : {"open", "frag", "stop"}, call : Indexes]

ASSUME ResponseAssumption == Responses \subseteq Seq(Frame)

VARIABLES
    protocol, response,     \* what is spoken, and what the server means to say
    sent,       \* how many of its frames have arrived
    body,       \* whether more may come
    cancelled,  \* the context is done
    reader,     \* "ended": about to close errs; "closing": about to close
                \* frames; "gone": both are closed
    read,       \* how many frames the reader has scanned
    errs,       \* what is in the reader's error channel
    pump,       \* "emit": has events for the consumer; "last": and leaves then
    todo,       \* those events
    open, args, \* the tool calls under way, and the frames of their arguments
    usage,      \* the frame that told the usage (openaicompat); 0 before
    consumer,   \* it receives, has seen the end, or has an error
    got         \* the events it has

server == <<protocol, response>>
wire == <<sent, body, cancelled>>
source == <<reader, read, errs>>
parser == <<open, args, usage>>
sink == <<consumer, got>>
streamVars == <<server, wire, source, pump, todo, parser, sink>>

Event(kind, frames) == [kind |-> kind, of |-> frames]
Failure == Event("error", {})

\* The events that frames 1..n can give rise to.
Events(n) == [kind : {"text", "call", "usage", "end", "error"}, of : SUBSET (1..n)]

StreamTypeOK ==
    /\ protocol \in Protocols /\ response \in Responses
    /\ sent \in 0..Len(response) /\ read \in 0..sent
    /\ body \in {"open", "ended", "broken"}
    /\ cancelled \in BOOLEAN
    /\ reader \in {"scan", "offer", "ended", "closing", "gone"}
    /\ errs \in {"empty", "error"}
    /\ pump \in {"select", "emit", "last", "leave", "gone"}
    /\ todo \in Seq(Events(read)) /\ got \in Seq(Events(read))
    /\ pump \in {"emit", "last"} <=> todo # <<>>
    /\ open \in SUBSET Indexes
    /\ args \in [Indexes -> SUBSET (1..read)]
    /\ usage \in 0..read
    /\ consumer \in {"recv", "done", "failed"}

\* With a status other than 200 there is no reader: the pump has an error to
\* tell, and leaves.
StreamInit ==
    /\ protocol \in Protocols /\ response \in Responses
    /\ sent = 0 /\ read = 0
    /\ body = "open"
    /\ cancelled = FALSE
    /\ errs = "empty"
    /\ \/ reader = "scan" /\ pump = "select" /\ todo = <<>>
       \/ "refuse" \in Faults /\ reader = "gone" /\ pump = "last" /\ todo = <<Failure>>
    /\ open = {} /\ args = [i \in Indexes |-> {}] /\ usage = 0
    /\ consumer = "recv" /\ got = <<>>

-----------------------------------------------------------------------------
\* The network and the context.

Arrive ==
    /\ body = "open" /\ sent < Len(response)
    /\ sent' = sent + 1
    /\ UNCHANGED <<server, body, cancelled, source, pump, todo, parser, sink>>

BodyEnds ==
    /\ body = "open"
    /\ sent = Len(response) \/ "cut" \in Faults
    /\ body' = "ended"
    /\ UNCHANGED <<server, sent, cancelled, source, pump, todo, parser, sink>>

BodyBreaks ==
    /\ body = "open" /\ "break" \in Faults
    /\ body' = "broken"
    /\ UNCHANGED <<server, sent, cancelled, source, pump, todo, parser, sink>>

Cancel ==
    /\ "cancel" \in Faults /\ ~cancelled
    /\ cancelled' = TRUE
    /\ UNCHANGED <<server, sent, body, source, pump, todo, parser, sink>>

-----------------------------------------------------------------------------
\* ReadSSE.

Scan ==
    /\ reader = "scan" /\ read < sent /\ ~cancelled
    /\ read' = read + 1
    /\ reader' = "offer"
    /\ UNCHANGED <<server, wire, errs, pump, todo, parser, sink>>

\* Mutant of ScanFails: errs has no room, so the reader waits for the pump.
ScanFailsUnbuffered ==
    /\ reader = "scan"
    /\ (body = "broken" /\ read = sent) \/ cancelled \/ pump = "gone"
    /\ pump = "select"
    /\ errs' = "error"
    /\ reader' = "ended"
    /\ UNCHANGED <<server, wire, read, pump, todo, parser, sink>>

\* The body cannot be read on, the context is done, or the pump has left and
\* closed the body.
ScanFails ==
    /\ reader = "scan"
    /\ (body = "broken" /\ read = sent) \/ cancelled \/ pump = "gone"
    /\ errs' = "error"
    /\ reader' = "ended"
    /\ UNCHANGED <<server, wire, read, pump, todo, parser, sink>>

ScanEnds ==
    /\ reader = "scan" /\ body = "ended" /\ read = sent
    /\ reader' = "ended"
    /\ UNCHANGED <<server, wire, read, errs, pump, todo, parser, sink>>

\* flush looks at the context as well, and drops the frame.
DropFrame ==
    /\ reader = "offer" /\ cancelled
    /\ reader' = "scan"
    /\ UNCHANGED <<server, wire, read, errs, pump, todo, parser, sink>>

\* The deferred closes, last in first out: errs, then frames.
CloseErrs ==
    /\ reader = "ended"
    /\ reader' = "closing"
    /\ UNCHANGED <<server, wire, read, errs, pump, todo, parser, sink>>

CloseFrames ==
    /\ reader = "closing"
    /\ reader' = "gone"
    /\ UNCHANGED <<server, wire, read, errs, pump, todo, parser, sink>>

-----------------------------------------------------------------------------
\* The pump.

\* What it has to tell, and what it does when that is told.
Tell(events, more) ==
    /\ todo' = events
    /\ pump' = IF events # <<>> THEN (IF more THEN "emit" ELSE "last")
               ELSE IF more THEN "select" ELSE "leave"

\* The calls in the order of their numbers, the usage if it was told, the end.
\* (finalize of openaicompat)
Finalized ==
    LET order == InOrder(open)
    IN  [i \in DOMAIN order |-> Event("call", args[order[i]])]
        \o (IF usage = 0 THEN <<>> ELSE <<Event("usage", {usage})>>)
        \o <<Event("end", {})>>

\* Mutant of AnthropicEvents: a call is told as soon as it is opened.
AnthropicEventsEarly(f) ==
    IF f.kind \in {"text", "usage", "end", "error"} THEN <<Event(f.kind, {read})>>
    ELSE IF f.kind = "open" THEN <<Event("call", {})>>
    ELSE <<>>

\* handleFrame of anthropic: text and the rest at once, a call when it is
\* complete.  An error frame is told like any other.  (A text frame is a delta
\* of a block that was opened; one of another tells nothing, as a frag of a call
\* that was not opened does.)
AnthropicEvents(f) ==
    IF f.kind \in {"text", "usage", "end", "error"} THEN <<Event(f.kind, {read})>>
    ELSE IF f.kind = "stop" /\ f.call \in open THEN <<Event("call", args[f.call])>>
    ELSE <<>>

AnthropicFrame(f) ==
    /\ Tell(AnthropicEvents(f), TRUE)
    /\ open' = IF f.kind = "open" THEN open \cup {f.call}
               ELSE IF f.kind = "stop" THEN open \ {f.call} ELSE open
    /\ args' = IF f.kind = "open" THEN [args EXCEPT ![f.call] = {}]
               ELSE IF f.kind = "frag" /\ f.call \in open
               THEN [args EXCEPT ![f.call] = @ \cup {read}] ELSE args
    /\ UNCHANGED usage

\* handleChunk of openaicompat: calls and the usage wait for the end.  A frame
\* that has neither, an error among them, is ignored.
OpenAIFrame(f) ==
    /\ IF f.kind = "end"
       THEN Tell(Finalized, FALSE)
       ELSE Tell(IF f.kind = "text" THEN <<Event("text", {read})>> ELSE <<>>, TRUE)
    /\ open' = IF f.kind = "frag" THEN open \cup {f.call} ELSE open
    /\ args' = IF f.kind = "frag" THEN [args EXCEPT ![f.call] = @ \cup {read}]
               ELSE args
    /\ usage' = IF f.kind = "usage" THEN read ELSE usage

TakeFrame ==
    /\ reader = "offer" /\ pump = "select"
    /\ reader' = "scan"
    /\ \/ protocol = "anthropic" /\ AnthropicFrame(response[read])
       \/ protocol = "openai" /\ OpenAIFrame(response[read])
    /\ UNCHANGED <<server, wire, read, errs, sink>>

\* Mutant of SeesError: a closed errs is taken for an error.
SeesErrorClosed ==
    /\ pump = "select"
    /\ errs = "error" \/ reader = "gone"
    /\ errs' = "empty"
    /\ Tell(<<Failure>>, FALSE)
    /\ UNCHANGED <<server, wire, reader, read, parser, sink>>

SeesError ==
    /\ pump = "select" /\ errs = "error"
    /\ errs' = "empty"
    /\ Tell(<<Failure>>, FALSE)
    /\ UNCHANGED <<server, wire, reader, read, parser, sink>>

SeesCancel ==
    /\ pump = "select" /\ cancelled
    /\ Tell(<<Failure>>, FALSE)
    /\ UNCHANGED <<server, wire, source, parser, sink>>

\* Mutant of SeesClosed: without [DONE] the calls are not told.
SeesClosedUnfinished ==
    /\ pump = "select" /\ reader = "gone"
    /\ Tell(<<>>, FALSE)
    /\ UNCHANGED <<server, wire, source, parser, sink>>

\* The frames are over.  The select may see that before the error that was put
\* into errs first.  (When errs is closed and empty it is always ready as well,
\* and the pump goes round without effect.)
SeesClosed ==
    /\ pump = "select" /\ reader = "gone"
    /\ IF protocol = "openai"
       THEN Tell(Finalized, FALSE)
       ELSE Tell(<<>>, FALSE)
    /\ UNCHANGED <<server, wire, source, parser, sink>>

Advance ==
    /\ todo' = Tail(todo)
    /\ pump' = IF Tail(todo) # <<>> THEN pump
               ELSE IF pump = "emit" THEN "select" ELSE "leave"

\* The consumer takes an event; an error makes it return.
Receive ==
    /\ todo # <<>> /\ consumer = "recv"
    /\ Advance
    /\ IF Head(todo).kind = "error"
       THEN consumer' = "failed" /\ UNCHANGED got
       ELSE got' = Append(got, Head(todo)) /\ UNCHANGED consumer
    /\ UNCHANGED <<server, wire, source, parser>>

\* send gives up when the context is done, even if the consumer is waiting.
DropEvent ==
    /\ todo # <<>> /\ cancelled
    /\ Advance
    /\ UNCHANGED <<server, wire, source, parser, sink>>

\* The deferred close of the body and of the consumer's channel.
PumpLeaves ==
    /\ pump = "leave"
    /\ pump' = "gone"
    /\ UNCHANGED <<server, wire, source, todo, parser, sink>>

\* The channel is closed: what the consumer has is its answer.
SeesEnd ==
    /\ consumer = "recv" /\ pump = "gone"
    /\ consumer' = "done"
    /\ UNCHANGED <<server, wire, source, pump, todo, parser, got>>

-----------------------------------------------------------------------------
ReaderStep ==
    Scan \/ ScanFails \/ ScanEnds \/ DropFrame \/ CloseErrs \/ CloseFrames

PumpStep ==
    TakeFrame \/ SeesError \/ SeesCancel \/ SeesClosed \/ Receive \/ DropEvent
        \/ PumpLeaves

StreamNext ==
    \/ Arrive \/ BodyEnds \/ BodyBreaks \/ Cancel
    \/ ReaderStep \/ PumpStep
    \/ SeesEnd

StreamSpec == StreamInit /\ [][StreamNext]_streamVars

\* Goroutines that can move do; nothing is assumed of the network.
FairStreamSpec == StreamSpec /\ WF_streamVars(ReaderStep) /\ WF_streamVars(PumpStep) /\ WF_streamVars(SeesEnd)

-----------------------------------------------------------------------------
\* What a response means, by the documents of the two protocols and without a
\* parser: the events of its first k frames.

IsFrame(r, j, kind, i) == r[j].kind = kind /\ r[j].call = i

\* The frames of call i between two others of the response r.
Frags(r, i, m, n) == {j \in m..n : IsFrame(r, j, "frag", i)}

\* Where call i was last opened, if the first n frames leave it open: one
\* place, or none.
Opening(r, i, n) ==
    {m \in 1..n :
        /\ IsFrame(r, m, "open", i)
        /\ \A j \in (m + 1)..n : ~IsFrame(r, j, "open", i) /\ ~IsFrame(r, j, "stop", i)}

\* What frame n tells, and whether it tells anything.
AnthropicTells(r, n) ==
    \/ r[n].kind \in {"text", "usage", "end", "error"}
    \/ r[n].kind = "stop" /\ Opening(r, r[n].call, n - 1) # {}

AnthropicTold(r, n) ==
    LET i == r[n].call
    IN  IF r[n].kind = "stop"
        THEN Event("call", UNION {Frags(r, i, m, n) : m \in Opening(r, i, n - 1)})
        ELSE Event(r[n].kind, {n})

AnthropicMeaning(r, k) ==
    LET order == InOrder({n \in 1..k : AnthropicTells(r, n)})
    IN  [i \in DOMAIN order |-> AnthropicTold(r, order[i])]

\* The frames up to [DONE].
Said(r, k) == {n \in 1..k : \A m \in 1..n : r[m].kind # "end"}

\* What some frames say of a call, and the texts among them.
Heard(r, i, frames) == {n \in frames : IsFrame(r, n, "frag", i)}

Texts(r, frames) ==
    LET order == InOrder({n \in frames : r[n].kind = "text"})
    IN  [i \in DOMAIN order |-> Event("text", {order[i]})]

OpenAITold(r, frames) ==
    LET calls == InOrder({i \in Indexes : Heard(r, i, frames) # {}})
        told == {n \in frames : r[n].kind = "usage"}
    IN  Texts(r, frames)
        \o ([i \in DOMAIN calls |-> Event("call", Heard(r, calls[i], frames))]
            \o (IF told = {} THEN <<>>
                ELSE <<Event("usage", {CHOOSE n \in told : \A m \in told : m <= n})>>)
            \o <<Event("end", {})>>)

OpenAIMeaning(r, k) == OpenAITold(r, Said(r, k))

Meaning(k) ==
    IF protocol = "openai" THEN OpenAIMeaning(response, k)
    ELSE AnthropicMeaning(response, k)

(***************************************************************************)
(* What the consumer has is a prefix of what the frames read so far mean:  *)
(* nothing is lost, doubled, out of order or cut short, whatever breaks    *)
(* (but a context that ends drops events from the middle).                 *)
(***************************************************************************)
Prefix ==
    ~cancelled => \E k \in 0..read : IsPrefix(got, Meaning(k))

(***************************************************************************)
(* An answer without an error, from a body that did not break, is all that *)
(* was sent, also when the pump saw frames closed before anything else.    *)
(***************************************************************************)
CleanMeansAll ==
    consumer = "done" /\ ~cancelled /\ body # "broken" => got = Meaning(sent)

(***************************************************************************)
(* The consumer fails only for a reason: not because channels close in one *)
(* order or another at the end of a good response.                         *)
(***************************************************************************)
FailsForAReason ==
    consumer = "failed" =>
        \/ cancelled
        \/ body = "broken"
        \/ "refuse" \in Faults /\ read = 0
        \/ protocol = "anthropic" /\ \E n \in 1..read : response[n].kind = "error"

\* Why a stream may fail, said so that it stays true.
Reason ==
    \/ cancelled
    \/ body = "broken"
    \/ "refuse" \in Faults /\ read = 0 /\ reader = "gone"
    \/ protocol = "anthropic" /\ \E n \in 1..read : response[n].kind = "error"

(***************************************************************************)
(* The inductive invariant behind FailsForAReason: whoever holds an error, *)
(* the reader's channel, the pump or the consumer, has a reason for it.    *)
(***************************************************************************)
StreamInv ==
    /\ StreamTypeOK
    /\ reader = "offer" => read > 0
    /\ errs = "error" /\ pump # "gone" => cancelled \/ body = "broken"
    /\ (\E i \in DOMAIN todo : todo[i].kind = "error") => Reason
    /\ consumer = "failed" => Reason

\* A server that tells no error in the stream and says nothing after [DONE].
Polite ==
    \A n \in DOMAIN response :
        IF protocol = "openai"
        THEN response[n].kind = "end" => n = Len(response)
        ELSE response[n].kind # "error"

(***************************************************************************)
(* The consumer returns once the body ends or breaks or the context does;  *)
(* and when it has, the reader and the pump end too, with any server if    *)
(* the context is done and with a polite one if it is not.  (A consumer    *)
(* leaves at the first error event: whoever has more to tell it then waits *)
(* for a context that may never be done.)                                  *)
(***************************************************************************)
EverybodyEnds ==
    /\ (body # "open" \/ cancelled) ~> consumer # "recv"
    /\ (consumer # "recv" /\ (cancelled \/ (body # "open" /\ Polite)))
            ~> (reader = "gone" /\ pump = "gone")
===============================================================================
