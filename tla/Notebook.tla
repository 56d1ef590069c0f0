--------------------------------- MODULE Notebook ---------------------------------
(***************************************************************************)
(* What a session writes for later ones into files of the project that the *)
(* user edits too: /dream appends facts to MEMORY.md (memo/memo.go,        *)
(* improve/dream.go), and /distill makes a scaffold of the tool sequence   *)
(* its runs repeat (improve/distill.go).                                   *)
(*                                                                         *)
(* A fact, and a version of a scaffold, is the number of its author's      *)
(* edit.  Reading a file and writing it are steps of their own.            *)
(***************************************************************************)
EXTENDS Processes, Integers, FiniteSets, Sequences, SequencesExt

CONSTANTS
    Names,          \* the names of scaffolds
    Mutating,       \* the tools that change the workspace
    RunSets,        \* what Session.Runs may be when /distill is given
    MaxEdits,       \* bound: how many facts and versions there are
    MaxFaults       \* bound: how many reads and writes fail or are cut off

ASSUME NotebookAssumption == MaxEdits \in Nat /\ MaxFaults \in Nat

VARIABLES
    memo,       \* the facts in MEMORY.md
    doing,      \* where each process is
    facts,      \* those it has yet to append
    copy,       \* what it read of MEMORY.md
    target,     \* the scaffold it is making
    files,      \* the scaffolds: 0 for none, or the version
    edits,      \* how many edits there have been
    kept,       \* the facts that were appended, or written by the user
    owned,      \* the scaffolds' versions that the user wrote
    crossed,    \* two had a file in hand at once
    faults      \* how many reads and writes were cut off

bookVars == <<memo, doing, facts, copy, target, files, edits, kept, owned, crossed, faults>>

NoTarget == <<>>

BookTypeOK ==
    /\ memo \subseteq 1..MaxEdits
    /\ doing \in [Procs -> {"idle", "append", "write", "fill", "make"}]
    /\ facts \in [Procs -> SUBSET (1..MaxEdits)]
    /\ copy \in [Procs -> SUBSET (1..MaxEdits)]
    /\ target \in [Procs -> Names \cup {NoTarget}]
    /\ files \in [Names -> 0..MaxEdits]
    /\ edits \in 0..MaxEdits
    /\ kept \subseteq 1..MaxEdits /\ owned \subseteq 1..MaxEdits
    /\ crossed \in BOOLEAN
    /\ faults \in 0..MaxFaults

BookInit ==
    /\ memo = {} /\ kept = {} /\ owned = {}
    /\ doing = [p \in Procs |-> "idle"]
    /\ facts = [p \in Procs |-> {}] /\ copy = [p \in Procs |-> {}]
    /\ target = [p \in Procs |-> NoTarget]
    /\ files = [n \in Names |-> 0]
    /\ edits = 0 /\ crossed = FALSE /\ faults = 0

At(p, place) == doing' = [doing EXCEPT ![p] = place]

\* Somebody else has read MEMORY.md and not yet written it back.
OthersHold(p) == \E q \in Procs \ {p} : doing[q] \in {"write", "fill"}

\* Somebody else is about to make the scaffold of that name.
OthersMake(p, name) == \E q \in Procs \ {p} : doing[q] = "make" /\ target[q] = name

-----------------------------------------------------------------------------
\* /dream.

\* The model names some facts; none leave the file as it is.
Dream(p, n) ==
    /\ doing[p] = "idle"
    /\ n > 0 /\ edits + n <= MaxEdits
    /\ edits' = edits + n
    /\ facts' = [facts EXCEPT ![p] = (edits + 1)..(edits + n)]
    /\ At(p, "append")
    /\ UNCHANGED <<memo, copy, target, files, kept, owned, crossed, faults>>

\* AppendMemory reads the whole file; one that cannot be read is taken for one
\* that is not there.
ReadMemory(p) ==
    /\ doing[p] = "append"
    /\ \/ copy' = [copy EXCEPT ![p] = memo] /\ faults' = faults
       \/ /\ faults < MaxFaults /\ faults' = faults + 1
          /\ copy' = [copy EXCEPT ![p] = {}]
    /\ crossed' = (crossed \/ OthersHold(p))
    /\ At(p, "write")
    /\ UNCHANGED <<memo, facts, target, files, edits, kept, owned>>

\* Writing it back empties it first,
Truncate(p) ==
    /\ doing[p] = "write"
    /\ memo' = {}
    /\ crossed' = (crossed \/ OthersHold(p))
    /\ At(p, "fill")
    /\ UNCHANGED <<facts, copy, target, files, edits, kept, owned, faults>>

\* and then the facts are appended one after the other.
Fill(p) ==
    /\ doing[p] = "fill"
    /\ LET f == CHOOSE x \in facts[p] : \A y \in facts[p] : x <= y
       IN  /\ memo' = copy[p] \cup {f}
           /\ kept' = kept \cup {f}
           /\ facts' = [facts EXCEPT ![p] = @ \ {f}]
           /\ At(p, IF facts[p] = {f} THEN "idle" ELSE "append")
    /\ crossed' = (crossed \/ OthersHold(p))
    /\ copy' = [copy EXCEPT ![p] = {}]
    /\ UNCHANGED <<target, files, edits, owned, faults>>

\* The write fails in the middle, or the process dies.
Break(p) ==
    /\ doing[p] # "idle"
    /\ faults < MaxFaults /\ faults' = faults + 1
    /\ memo' \in IF doing[p] = "fill" THEN SUBSET copy[p] ELSE {memo}
    /\ At(p, "idle")
    /\ facts' = [facts EXCEPT ![p] = {}] /\ copy' = [copy EXCEPT ![p] = {}]
    /\ target' = [target EXCEPT ![p] = NoTarget]
    /\ UNCHANGED <<files, edits, kept, owned, crossed>>

-----------------------------------------------------------------------------
\* /distill.

Sequences_(tools) ==
    {SubSeq(tools, x[1], x[2]) : x \in
        {y \in (1..Len(tools)) \X (1..Len(tools)) : y[1] < y[2] /\ y[2] - y[1] < 8}}

Runs(runs, s) == {i \in DOMAIN runs : s \in Sequences_(runs[i])}

\* What occurs in two runs or more, each counted once.
Patterns(runs) ==
    {s \in UNION {Sequences_(runs[i]) : i \in DOMAIN runs} :
        Cardinality(Runs(runs, s)) >= 2}

\* The longest, then the one that more runs hold; the names decide the rest.
Top(runs) ==
    {s \in Patterns(runs) : \A t \in Patterns(runs) :
        \/ Len(s) > Len(t)
        \/ /\ Len(s) = Len(t)
           /\ Cardinality(Runs(runs, s)) >= Cardinality(Runs(runs, t))}

\* Short and frequent, or changing the workspace, or neither.
SuggestKind(s, n) ==
    IF Len(s) <= 2 /\ n >= 5 THEN "command"
    ELSE IF ToSet(s) \cap Mutating # {} THEN "skill"
    ELSE "subagent"

\* Mutant of Distill: a scaffold that is there is made again.
DistillAgain(p, runs, name) ==
    /\ doing[p] = "idle"
    /\ Top(runs) # {}
    /\ target' = [target EXCEPT ![p] = name]
    /\ At(p, "make")
    /\ UNCHANGED <<memo, facts, copy, files, edits, kept, owned, crossed, faults>>

\* There is a pattern, and no scaffold under the name: each kind has a place of
\* its own.
Distill(p, runs, name) ==
    /\ doing[p] = "idle"
    /\ \E s \in Top(runs) : name[1] = SuggestKind(s, Cardinality(Runs(runs, s)))
    /\ files[name] = 0
    /\ target' = [target EXCEPT ![p] = name]
    /\ At(p, "make")
    /\ UNCHANGED <<memo, facts, copy, files, edits, kept, owned, crossed, faults>>

Make(p) ==
    /\ doing[p] = "make"
    /\ edits < MaxEdits
    /\ edits' = edits + 1
    /\ files' = [files EXCEPT ![target[p]] = edits + 1]
    /\ crossed' = (crossed \/ OthersMake(p, target[p]))
    /\ target' = [target EXCEPT ![p] = NoTarget]
    /\ At(p, "idle")
    /\ UNCHANGED <<memo, facts, copy, kept, owned, faults>>

-----------------------------------------------------------------------------
\* The user.

NoteFact ==
    /\ edits < MaxEdits
    /\ edits' = edits + 1
    /\ memo' = memo \cup {edits + 1}
    /\ kept' = kept \cup {edits + 1}
    /\ crossed' = (crossed \/ \E p \in Procs : doing[p] \in {"write", "fill"})
    /\ UNCHANGED <<doing, facts, copy, target, files, owned, faults>>

EditScaffold(name) ==
    /\ edits < MaxEdits
    /\ edits' = edits + 1
    /\ files' = [files EXCEPT ![name] = edits + 1]
    /\ owned' = (owned \ {files[name]}) \cup {edits + 1}
    /\ crossed' = (crossed \/ \E p \in Procs : doing[p] = "make" /\ target[p] = name)
    /\ UNCHANGED <<memo, doing, facts, copy, target, kept, faults>>

BookStep(p) == ReadMemory(p) \/ Truncate(p) \/ Fill(p) \/ Make(p)

BookNext ==
    \/ \E p \in Procs :
         \/ \E n \in 0..2 : Dream(p, n)
         \/ BookStep(p)
         \/ Break(p)
         \/ \E runs \in RunSets, name \in Names : Distill(p, runs, name)
    \/ NoteFact
    \/ \E name \in Names : EditScaffold(name)

-----------------------------------------------------------------------------

(***************************************************************************)
(* A fact that was appended to MEMORY.md, or that the user wrote there, is *)
(* still there, or in the hands of a process that is writing it back; and  *)
(* a scaffold that the user has edited is as it was left.  Unless a read   *)
(* or a write was cut off, or somebody else wrote between a process's look *)
(* at a file and its write (memo.go:58-77, distill.go:268-281).            *)
(***************************************************************************)
NothingForgotten ==
    crossed \/ faults > 0 \/
        /\ kept \subseteq memo \cup UNION {copy[p] : p \in {q \in Procs : doing[q] = "fill"}}
        /\ owned \subseteq {files[n] : n \in Names}
===============================================================================
