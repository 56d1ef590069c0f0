-------------------------------- MODULE Workflow --------------------------------
(***************************************************************************)
(* Workflows: the engine of orchestrate/workflow.go, the built-in review   *)
(* and the registry of runtime/workflow.go, and the JavaScript workflows   *)
(* of orchestrate/jsworkflow.                                              *)
(*                                                                         *)
(* The phases of a JavaScript workflow share one runtime.  Each call of a  *)
(* phase starts a goroutine that interrupts the runtime when the context   *)
(* of the run ends, and that may be slow to notice that the call is over:  *)
(* a runtime interrupted between calls interrupts its next one.            *)
(***************************************************************************)
EXTENDS Integers, Sequences

CONSTANTS
    Scripts,    \* what the files that the user loads hold
    MaxRuns     \* bound: how many runs there are

ASSUME WorkflowAssumption ==
    /\ \A script \in Scripts : script.phases \in Int /\ script.retries \in Int
    /\ MaxRuns \in Nat

VARIABLES
    registered, \* Session.Workflows
    flow,       \* "idle", or "next", "try" or "run" in a phase
    name,       \* the workflow that runs, or ran last
    k,          \* the number of its phase
    tries,      \* PhaseReport.Attempts of that phase
    last,       \* State.Last: the phase whose output it is, or 0
    report,     \* Report.Phases
    ok,         \* Report.OK
    run,        \* the number of the run
    ended,      \* the runs whose context has ended
    slow,       \* the goroutines that have yet to see that their call is over
    struck,     \* the workflows whose runtime is interrupted
    spoiled     \* the runs that were interrupted though their context goes on

flowVars == <<registered, flow, name, k, tries, last, report, ok, run, ended, slow,
              struck, spoiled>>

Entry == [tries : Nat, failed : BOOLEAN]

FlowTypeOK ==
    /\ \A n \in DOMAIN registered :
         registered[n] \in [phases : Nat, retries : Nat, js : BOOLEAN]
    /\ flow \in {"idle", "next", "try", "run"}
    /\ name \in DOMAIN registered
    /\ k \in Nat /\ tries \in Nat /\ last \in Nat
    /\ report \in Seq(Entry)
    /\ ok \in BOOLEAN
    /\ run \in 0..MaxRuns
    /\ ended \subseteq 1..MaxRuns
    /\ slow \subseteq (1..MaxRuns) \X DOMAIN registered
    /\ struck \subseteq DOMAIN registered
    /\ spoiled \subseteq 1..MaxRuns

Review == [phases |-> 2, retries |-> 1, js |-> FALSE]

FlowInit ==
    /\ registered = [n \in {"review"} |-> Review]
    /\ flow = "idle" /\ name = "review"
    /\ k = 0 /\ tries = 0 /\ last = 0 /\ report = <<>> /\ ok = TRUE
    /\ run = 0 /\ ended = {} /\ slow = {} /\ struck = {} /\ spoiled = {}

\* A script runs to its end, exports a name and phases, and each of them has a
\* name and a function; a length below zero is not taken for an empty list.
Compiles(script) == ~script.defect /\ script.name # "" /\ script.phases # 0

NoLess(n) == IF n < 0 THEN 0 ELSE n

\* /workflow load: a name that is taken is refused.
Load(script) ==
    /\ flow = "idle"
    /\ Compiles(script)
    /\ script.name \notin DOMAIN registered
    /\ registered' =
         [n \in DOMAIN registered \cup {script.name} |->
            IF n = script.name
            THEN [phases |-> NoLess(script.phases), retries |-> NoLess(script.retries),
                  js |-> TRUE]
            ELSE registered[n]]
    /\ UNCHANGED <<flow, name, k, tries, last, report, ok, run, ended, slow, struck, spoiled>>

StartFlow(n) ==
    /\ flow = "idle"
    /\ n \in DOMAIN registered
    /\ run < MaxRuns
    /\ run' = run + 1
    /\ name' = n
    /\ flow' = "next"
    /\ k' = 1 /\ tries' = 0 /\ last' = 0 /\ report' = <<>> /\ ok' = TRUE
    /\ UNCHANGED <<registered, ended, slow, struck, spoiled>>

Over == run \in ended
Workflow_ == registered[name]

\* The workflow stops at this phase.
Fail == flow' = "idle" /\ ok' = FALSE

\* Before each phase the context is looked at.
NextPhase ==
    /\ flow = "next"
    /\ \/ k > Workflow_.phases /\ flow' = "idle" /\ ok' = ok
       \/ k <= Workflow_.phases /\ Over /\ Fail
       \/ k <= Workflow_.phases /\ ~Over /\ flow' = "try" /\ ok' = ok
    /\ tries' = 0
    /\ UNCHANGED <<registered, name, k, last, report, run, ended, slow, struck, spoiled>>

\* And before each attempt.
Try ==
    /\ flow = "try"
    /\ IF Over
       THEN Fail /\ report' = Append(report, [tries |-> tries, failed |-> TRUE])
                 /\ tries' = tries
       ELSE flow' = "run" /\ tries' = tries + 1 /\ UNCHANGED <<ok, report>>
    /\ UNCHANGED <<registered, name, k, last, run, ended, slow, struck, spoiled>>

\* The goroutine of a call that ended notices, or not yet.
Detach == slow' = slow \/ (Workflow_.js /\ slow' = slow \cup {<<run, name>>})

\* A phase of Go ends well also when the context has ended; a script that does
\* is overruled, and one in an interrupted runtime does not end well.
Succeeds ==
    /\ flow = "run"
    /\ Workflow_.js => ~Over /\ name \notin struck
    /\ Detach
    /\ report' = Append(report, [tries |-> tries, failed |-> FALSE])
    /\ last' = k
    /\ k' = k + 1
    /\ flow' = "next"
    /\ UNCHANGED <<registered, name, tries, ok, run, ended, struck, spoiled>>

\* Mutant of Retry: the budget is counted in attempts.
RetryLess ==
    IF tries < Workflow_.retries
    THEN flow' = "try" /\ UNCHANGED <<ok, report>>
    ELSE Fail /\ report' = Append(report, [tries |-> tries, failed |-> TRUE])

\* The first attempt and MaxRetries more.
Retry ==
    IF tries <= Workflow_.retries
    THEN flow' = "try" /\ UNCHANGED <<ok, report>>
    ELSE Fail /\ report' = Append(report, [tries |-> tries, failed |-> TRUE])

\* An error, or what a script throws; or the end of the context after a script
\* that returned, which may leave its runtime interrupted.
Fails ==
    /\ flow = "run"
    /\ Workflow_.js => name \notin struck
    /\ Detach
    /\ Retry
    /\ UNCHANGED <<registered, name, k, tries, last, run, ended, struck, spoiled>>

\* A script is interrupted, or does not notice before it returns.
Interrupted ==
    /\ flow = "run"
    /\ Workflow_.js /\ name \in struck
    /\ Detach
    /\ \/ /\ struck' = struck \ {name}
          /\ spoiled' = IF Over THEN spoiled ELSE spoiled \cup {run}
          /\ Retry
          /\ UNCHANGED <<k, last>>
       \/ /\ Over
          /\ UNCHANGED <<struck, spoiled, k, last>>
          /\ Retry
    /\ UNCHANGED <<registered, name, tries, run, ended>>

\* The goroutine of the call that runs sees that the context has ended.
Interrupt ==
    /\ flow = "run" /\ Workflow_.js
    /\ Over
    /\ name \notin struck
    /\ struck' = struck \cup {name}
    /\ UNCHANGED <<registered, flow, name, k, tries, last, report, ok, run, ended, slow,
                   spoiled>>

\* Mutant of StrikeLate: the end of the call is taken for that of the context.
StrikeAnyway(g) ==
    /\ g \in slow
    /\ slow' = slow \ {g}
    /\ struck' = struck \cup {g[2]}
    /\ UNCHANGED <<registered, flow, name, k, tries, last, report, ok, run, ended, spoiled>>

\* So does one whose call is over: both its channels are closed by then, and it
\* takes either.
StrikeLate(g) ==
    /\ g \in slow
    /\ slow' = slow \ {g}
    /\ struck' = IF g[1] \in ended THEN struck \cup {g[2]} ELSE struck
    /\ UNCHANGED <<registered, flow, name, k, tries, last, report, ok, run, ended, spoiled>>

Notice(g) ==
    /\ g \in slow
    /\ slow' = slow \ {g}
    /\ UNCHANGED <<registered, flow, name, k, tries, last, report, ok, run, ended, struck,
                   spoiled>>

\* The caller ends the context of a run, also of one that is over.
EndContext(r) ==
    /\ r \in 1..run
    /\ r \notin ended
    /\ ended' = ended \cup {r}
    /\ UNCHANGED <<registered, flow, name, k, tries, last, report, ok, run, slow, struck,
                   spoiled>>

PhaseStep == NextPhase \/ Try \/ Succeeds \/ Fails \/ Interrupted

FlowNext ==
    \/ \E script \in Scripts : Load(script)
    \/ \E n \in DOMAIN registered : StartFlow(n)
    \/ PhaseStep
    \/ Interrupt
    \/ \E g \in slow : StrikeLate(g) \/ Notice(g)
    \/ \E r \in 1..run : EndContext(r)

-----------------------------------------------------------------------------

(***************************************************************************)
(* The report tells how far a workflow got (workflow.go:83-138): it is OK  *)
(* exactly if every phase ended well; otherwise every phase before the one *)
(* it stopped at did, and that one used up its attempts, unless the        *)
(* context ended.  A phase is handed the output of the one before it.      *)
(***************************************************************************)
ReportTells ==
    LET n == Len(report)
        good(i) == ~report[i].failed /\ report[i].tries \in 1..(Workflow_.retries + 1)
    IN  /\ \A i \in 1..(n - 1) : good(i)
        /\ n <= Workflow_.phases
        /\ flow # "idle" => k = n + 1 /\ last = n
        /\ flow = "idle" /\ run > 0 =>
             IF ok THEN n = Workflow_.phases /\ (n > 0 => good(n))
             ELSE \/ Over
                  \/ n > 0 /\ report[n].failed /\ report[n].tries = Workflow_.retries + 1

(***************************************************************************)
(* A script is interrupted in a run whose context goes on only where the   *)
(* context of an earlier run of the same workflow has ended                *)
(* (jsworkflow.go:94-113): the interrupt of a call that is over strikes    *)
(* the runtime that the next run uses.                                     *)
(***************************************************************************)
OnlyEndsSpoil == \A r \in spoiled : \E q \in ended : q < r
===============================================================================
