-------------------------------- MODULE Compose --------------------------------
(***************************************************************************)
(* One compose session: the phases of compose/compose.go, driven by the    *)
(* slash commands of runtime/commands_builtin.go.  Each action is a        *)
(* command that succeeds, or one whose failure leaves something changed;   *)
(* a command that is refused changes nothing.                              *)
(*                                                                         *)
(* Tasks and findings are known by their ids, the text of the spec by a    *)
(* version: 0 where there is no file and -1 where a write broke off.       *)
(***************************************************************************)
EXTENDS Integers, Sequences

CONSTANTS
    TaskIds,        \* the ids the user gives to tasks
    FindingIds,     \* and to findings
    MaxVersions,    \* bound: how many versions of the spec are written
    MaxFindings     \* bound: how many findings are recorded

ASSUME ComposeAssumption == MaxVersions \in Nat /\ MaxFindings \in Nat

VARIABLES
    phase,          \* Session.phase, from iota; 0 without a session
    grilled,        \* Session.grillNotes is not blank
    written,        \* Session.specWritten
    approved,       \* Session.specApproved
    tasks,          \* the ids of Session.tasks,
    red,            \* of those with FailingTest,
    coded,          \* ProductionCode
    green,          \* and Green
    verified,       \* Session.verifyPassed
    advised,        \* Session.advisorRan
    findings,       \* Session.findings
    doc,            \* the version in the spec document
    versions        \* how many versions /spec has tried to write

specVars == <<written, approved, doc, versions>>
taskVars == <<tasks, red, coded, green>>
reviewVars == <<verified, advised, findings>>
composeVars == <<phase, grilled, specVars, taskVars, reviewVars>>

NoSession == 0
Grill == 1
Spec_ == 2
Implement == 3
Verify == 4
Review == 5
Finish == 6

Finding == [id : FindingIds, resolved : BOOLEAN]

ComposeTypeOK ==
    /\ phase \in 0..6
    /\ grilled \in BOOLEAN
    /\ written \in BOOLEAN
    /\ approved \in BOOLEAN
    /\ tasks \subseteq TaskIds
    /\ red \subseteq TaskIds
    /\ coded \subseteq TaskIds
    /\ green \subseteq TaskIds
    /\ verified \in BOOLEAN
    /\ advised \in BOOLEAN
    /\ findings \in Seq(Finding)
    /\ doc \in -1..MaxVersions
    /\ versions \in 0..MaxVersions

ComposeInit ==
    /\ phase = NoSession
    /\ grilled = FALSE
    /\ written = FALSE /\ approved = FALSE /\ doc = 0 /\ versions = 0
    /\ tasks = {} /\ red = {} /\ coded = {} /\ green = {}
    /\ verified = FALSE /\ advised = FALSE /\ findings = <<>>

\* Refused while there is a session, also one that is finished.
StartCompose ==
    /\ phase = NoSession
    /\ phase' = Grill
    /\ UNCHANGED <<grilled, specVars, taskVars, reviewVars>>

CompleteGrill ==
    /\ phase = Grill
    /\ grilled' = TRUE
    /\ phase' = Spec_
    /\ UNCHANGED <<specVars, taskVars, reviewVars>>

\* Writing truncates the document first, so a write that fails may leave it
\* broken; what was written and approved before stays so.
WriteSpec ==
    /\ phase = Spec_
    /\ versions < MaxVersions
    /\ versions' = versions + 1
    /\ \/ doc' = versions + 1 /\ written' = TRUE
       \/ doc' \in {doc, -1} /\ written' = written
    /\ UNCHANGED <<phase, grilled, approved, taskVars, reviewVars>>

ApproveSpec ==
    /\ phase = Spec_
    /\ written
    /\ approved' = TRUE
    /\ UNCHANGED <<phase, grilled, written, doc, versions, taskVars, reviewVars>>

AddTask(id) ==
    /\ phase = Implement
    /\ id \notin tasks
    /\ tasks' = tasks \cup {id}
    /\ UNCHANGED <<phase, grilled, specVars, red, coded, green, reviewVars>>

RecordFailingTest(id) ==
    /\ phase = Implement
    /\ id \in tasks
    /\ red' = red \cup {id}
    /\ UNCHANGED <<phase, grilled, specVars, tasks, coded, green, reviewVars>>

\* /green records the production code and the passing tests in one go.
MarkGreen(id) ==
    /\ phase = Implement
    /\ id \in tasks \cap red
    /\ coded' = coded \cup {id}
    /\ green' = green \cup {id}
    /\ UNCHANGED <<phase, grilled, specVars, tasks, red, reviewVars>>

RecordVerifyPass ==
    /\ phase = Verify
    /\ verified' = TRUE
    /\ UNCHANGED <<phase, grilled, specVars, taskVars, advised, findings>>

RecordAdvisorRun ==
    /\ phase = Review
    /\ advised' = TRUE
    /\ UNCHANGED <<phase, grilled, specVars, taskVars, verified, findings>>

\* In any phase, and also twice with one id.
AddFinding(id) ==
    /\ phase # NoSession
    /\ Len(findings) < MaxFindings
    /\ findings' = Append(findings, [id |-> id, resolved |-> FALSE])
    /\ UNCHANGED <<phase, grilled, specVars, taskVars, verified, advised>>

\* The first finding with the id, resolved or not.
ResolveFinding(id) ==
    /\ phase # NoSession
    /\ \E i \in DOMAIN findings :
         /\ findings[i].id = id
         /\ \A j \in 1..(i - 1) : findings[j].id # id
         /\ findings' = [findings EXCEPT ![i].resolved = TRUE]
    /\ UNCHANGED <<phase, grilled, specVars, taskVars, verified, advised>>

\* Mutant of Gate: the implement phase does not wait for every task.
GateOneGreen ==
    /\ phase = Grill => grilled
    /\ phase = Spec_ => written /\ approved
    /\ phase = Implement => green # {}
    /\ phase = Verify => verified
    /\ phase = Review => advised /\ \A i \in DOMAIN findings : findings[i].resolved

\* Whether the phase may be left.
Gate ==
    /\ phase = Grill => grilled
    /\ phase = Spec_ => written /\ approved
    /\ phase = Implement => tasks # {} /\ tasks \subseteq green
    /\ phase = Verify => verified
    /\ phase = Review => advised /\ \A i \in DOMAIN findings : findings[i].resolved

Advance ==
    /\ phase \in Grill..Review
    /\ Gate
    /\ phase' = phase + 1
    /\ UNCHANGED <<grilled, specVars, taskVars, reviewVars>>

ComposeNext ==
    \/ StartCompose
    \/ CompleteGrill
    \/ WriteSpec
    \/ ApproveSpec
    \/ \E id \in TaskIds : AddTask(id) \/ RecordFailingTest(id) \/ MarkGreen(id)
    \/ RecordVerifyPass
    \/ RecordAdvisorRun
    \/ \E id \in FindingIds : AddFinding(id) \/ ResolveFinding(id)
    \/ Advance

ComposeSpec == ComposeInit /\ [][ComposeNext]_composeVars

-----------------------------------------------------------------------------

(***************************************************************************)
(* No phase is reached before what the earlier ones demand was done, and   *)
(* what was done stays done: past the spec phase a spec was written and    *)
(* approved, past implement there are tasks, each with a failing test      *)
(* first, then code, then green, past verify a pass is recorded, and past  *)
(* review the Advisor ran.  The gates of compose.go:278-327 and the task   *)
(* checks of 191-228, whatever the order of the commands.                  *)
(***************************************************************************)
HouseRules ==
    /\ green \subseteq coded /\ coded \subseteq red /\ red \subseteq tasks
    /\ phase > Spec_ => written /\ approved
    /\ phase > Implement => tasks # {} /\ tasks = green
    /\ phase > Verify => verified
    /\ phase > Review => advised

(***************************************************************************)
(* A finding whose id was used before stays open: /resolve goes to the     *)
(* first with that id (compose.go:255-263).  A review with such a finding  *)
(* is never left, since its gate wants every finding resolved (317-324).   *)
(***************************************************************************)
TwinStaysOpen ==
    \A i, j \in DOMAIN findings :
        i < j /\ findings[i].id = findings[j].id => ~findings[j].resolved

\* What a step may not touch any more.
Keeps ==
    /\ phase > Spec_ => UNCHANGED specVars
    /\ phase > Implement => UNCHANGED taskVars
    /\ phase' \in {phase, phase + 1}

(***************************************************************************)
(* Once tasks may be added the spec document is left alone, and the tasks  *)
(* once verify is reached: what was approved can be replaced before the    *)
(* spec phase is left (compose.go:139-165), and not after.                 *)
(***************************************************************************)
Settled == [][Keeps]_composeVars
===============================================================================
