------------------------------- MODULE LockStore -------------------------------
(***************************************************************************)
(* The file-backed lock table of internal/coordinate/store.go.             *)
(*                                                                         *)
(* One file per symbol under .openplus/locks, shared by every OpenPlus     *)
(* process that runs in the repository.  Each process has one Store, whose *)
(* methods run under the mutex s.mu; nothing but the files is shared       *)
(* between processes.  A worker is one subagent of one process: the code   *)
(* names the subagents of a fan-out sub-1, sub-2, ..., in every process.   *)
(*                                                                         *)
(* One action is one step that another process can observe: a read of a    *)
(* lock file, the truncation and the writing that os.WriteFile is made of, *)
(* a removal.  Acquire checks and takes the symbols in the order of the    *)
(* caller's list; here the order is arbitrary.                             *)
(***************************************************************************)
EXTENDS Integers

CONSTANTS
    Procs,      \* the OpenPlus processes
    Agents,     \* the agent names they use
    Workers,    \* <<process, agent>>: who may call the store
    Symbols,    \* the code symbols that can be locked
    Expiry,     \* Store.Expiry in ticks of the clock; 0 means never
    Nobody      \* no agent, no worker

ASSUME WorkersAssumption == Workers \subseteq Procs \X Agents
ASSUME ExpiryAssumption == Expiry \in Nat
ASSUME NobodyAssumption == Nobody \notin Agents /\ Nobody \notin Workers

VARIABLES
    holder,     \* holder[s]: the agent named in s's lock file; Nobody when
                \* there is no file or it is empty (readRecord fails on both)
    age,        \* age[s]: how long ago that file was stamped
    mu,         \* mu[p]: the worker inside process p's s.mu
    pc,         \* what each worker is doing
    want,       \* want[w]: the symbols of w's claim
    todo,       \* todo[w]: those the running pass has not reached
    taken,      \* taken[w]: those the second pass has written; in a sweep, the
                \* file found to be w's own and about to be removed
    reclaimed,  \* reclaimed[w]: <<symbol, holder>> the first pass found expired
    clock,      \* clock[w]: how long ago w began to write its locks (ghost)
    orphaned    \* the workers that went away without a release, or whose release or
                \* rollback left a file (ghost)

vars == <<holder, age, mu, pc, want, todo, taken, reclaimed, clock, orphaned>>

Proc(w) == w[1]
Agent(w) == w[2]

\* Ages saturate just past the expiry: older makes no difference.
Ages == 0..(Expiry + 1)
Older(t) == IF t > Expiry THEN t ELSE t + 1

\* Store.isStale: never with a zero Expiry.
IsStale(t) == Expiry > 0 /\ t > Expiry

\* What a worker inside the mutex is doing.
Inside == {"check", "open", "fill", "sweep"}
\* ... and outside it: before a call, queued for the mutex, or in between.
Outside == {"idle", "claiming", "held", "releasing"}

TypeOK ==
    /\ holder \in [Symbols -> Agents \cup {Nobody}]
    /\ age \in [Symbols -> Ages]
    /\ mu \in [Procs -> Workers \cup {Nobody}]
    /\ pc \in [Workers -> Inside \cup Outside]
    /\ want \in [Workers -> SUBSET Symbols]
    /\ todo \in [Workers -> SUBSET Symbols]
    /\ taken \in [Workers -> SUBSET Symbols]
    /\ reclaimed \in [Workers -> SUBSET (Symbols \X Agents)]
    /\ clock \in [Workers -> Ages]
    /\ orphaned \in SUBSET Workers

Init ==
    /\ holder = [s \in Symbols |-> Nobody]
    /\ age = [s \in Symbols |-> 0]
    /\ mu = [p \in Procs |-> Nobody]
    /\ pc = [w \in Workers |-> "idle"]
    /\ want = [w \in Workers |-> {}]
    /\ todo = [w \in Workers |-> {}]
    /\ taken = [w \in Workers |-> {}]
    /\ reclaimed = [w \in Workers |-> {}]
    /\ clock = [w \in Workers |-> 0]
    /\ orphaned = {}

--------------------------------------------------------------------------------
\* Worker w takes its process's mutex, or gives it back.
Lock(w) == mu[Proc(w)] = Nobody /\ mu' = [mu EXCEPT ![Proc(w)] = w]
Unlock(w) == mu' = [mu EXCEPT ![Proc(w)] = Nobody]
Goto(w, label) == pc' = [pc EXCEPT ![w] = label]

files == <<holder, age>>
SetFile(s, a) ==
    /\ holder' = [holder EXCEPT ![s] = a]
    /\ age' = [age EXCEPT ![s] = 0]

\* A call returns to a worker that is left with nothing.
Finish(W) ==
    /\ pc' = [w \in Workers |-> IF w \in W THEN "idle" ELSE pc[w]]
    /\ want' = [w \in Workers |-> IF w \in W THEN {} ELSE want[w]]
    /\ todo' = [w \in Workers |-> IF w \in W THEN {} ELSE todo[w]]
    /\ taken' = [w \in Workers |-> IF w \in W THEN {} ELSE taken[w]]
    /\ reclaimed' = [w \in Workers |-> IF w \in W THEN {} ELSE reclaimed[w]]
    /\ clock' = [w \in Workers |-> IF w \in W THEN 0 ELSE clock[w]]

\* Acquire is called.  A claim of zero symbols is an error and does nothing.
Call(w, S) ==
    /\ pc[w] = "idle"
    /\ S # {}
    /\ Goto(w, "claiming")
    /\ want' = [want EXCEPT ![w] = S]
    /\ UNCHANGED <<files, mu, todo, taken, reclaimed, clock, orphaned>>

\* Mutant of Enter: s.mu is not taken.
EnterUnlocked(w) ==
    /\ pc[w] = "claiming"
    /\ Goto(w, "check")
    /\ todo' = [todo EXCEPT ![w] = want[w]]
    /\ UNCHANGED <<files, mu, want, taken, reclaimed, clock, orphaned>>

\* Acquire gets the mutex and starts its first pass.
Enter(w) ==
    /\ pc[w] = "claiming"
    /\ Lock(w)
    /\ Goto(w, "check")
    /\ todo' = [todo EXCEPT ![w] = want[w]]
    /\ UNCHANGED <<files, want, taken, reclaimed, clock, orphaned>>

\* The first pass goes on to the next symbol, or to the second pass.
Checked(w, s) ==
    /\ IF todo[w] = {s}
         THEN /\ Goto(w, "open")
              /\ todo' = [todo EXCEPT ![w] = want[w]]
         ELSE /\ todo' = [todo EXCEPT ![w] = @ \ {s}]
              /\ UNCHANGED pc
    /\ UNCHANGED <<files, mu, want, taken, clock, orphaned>>

\* The symbol's file is absent or unreadable, or it is already w's.
CheckFree(w, s) ==
    /\ pc[w] = "check"
    /\ s \in todo[w]
    /\ holder[s] \in {Nobody, Agent(w)}
    /\ Checked(w, s)
    /\ UNCHANGED reclaimed

\* Mutant of HeldAgainst: the expiry is compared with >= (an off-by-one).
HeldBelowExpiry(w, s) ==
    /\ holder[s] \notin {Nobody, Agent(w)}
    /\ Expiry = 0 \/ age[s] < Expiry

\* Another agent's lock is on the symbol, by the store's rules a live one.
HeldAgainst(w, s) ==
    /\ holder[s] \notin {Nobody, Agent(w)}
    /\ ~ IsStale(age[s])

\* The symbol's lock has expired: note whom it is taken from.
CheckStale(w, s) ==
    /\ pc[w] = "check"
    /\ s \in todo[w]
    /\ holder[s] \notin {Nobody, Agent(w)}
    /\ ~ HeldAgainst(w, s)
    /\ Checked(w, s)
    /\ reclaimed' = [reclaimed EXCEPT ![w] = @ \cup {<<s, holder[s]>>}]

\* The symbol is held: the claim is refused.
Refuse(w, s) ==
    /\ pc[w] = "check"
    /\ s \in todo[w]
    /\ HeldAgainst(w, s)
    /\ Unlock(w)
    /\ Finish({w})
    /\ UNCHANGED <<files, orphaned>>

\* os.WriteFile opens the symbol's file with O_TRUNC: what it said is gone.
Open(w, s) ==
    /\ pc[w] = "open"
    /\ s \in todo[w]
    /\ SetFile(s, Nobody)
    /\ Goto(w, "fill")
    /\ todo' = [todo EXCEPT ![w] = @ \ {s}]
    /\ UNCHANGED <<mu, want, taken, reclaimed, clock, orphaned>>

\* The file that worker w has opened and not yet written.
Opened(w) == want[w] \ (todo[w] \cup taken[w])

\* ... and writes the record, stamped with the time.  After the last symbol
\* Acquire returns Granted, and reports the first of the expired locks.
Fill(w, s) ==
    /\ pc[w] = "fill"
    /\ s \in Opened(w)
    /\ SetFile(s, Agent(w))
    /\ IF todo[w] = {}
         THEN /\ Unlock(w)
              /\ Goto(w, "held")
              /\ taken' = [taken EXCEPT ![w] = {}]
         ELSE /\ Goto(w, "open")
              /\ taken' = [taken EXCEPT ![w] = @ \cup {s}]
              /\ UNCHANGED mu
    /\ UNCHANGED <<want, todo, reclaimed, clock, orphaned>>

\* Mutant of RollbackSet: the symbols not yet written are rolled back instead.
RollbackRest(w) == todo[w]

\* The files the rollback of a failed second pass goes through: those written.
RollbackSet(w) == taken[w]

\* The file cannot be opened, or cannot be written (and stays empty): roll back.
WriteFails(w) ==
    /\ pc[w] \in {"open", "fill"}
    /\ Goto(w, "sweep")
    /\ todo' = [todo EXCEPT ![w] = RollbackSet(w)]
    /\ taken' = [taken EXCEPT ![w] = {}]
    /\ UNCHANGED <<files, mu, want, reclaimed, clock, orphaned>>

\* ReleaseAgent is called by a worker that has done its work, or failed at it.
Release(w) ==
    /\ pc[w] = "held"
    /\ Goto(w, "releasing")
    /\ UNCHANGED <<files, mu, want, todo, taken, reclaimed, clock, orphaned>>

\* ReleaseAgent gets the mutex and lists the directory.
List(w) ==
    /\ pc[w] = "releasing"
    /\ Lock(w)
    /\ Goto(w, "sweep")
    /\ todo' = [todo EXCEPT ![w] = {s \in Symbols : holder[s] # Nobody}]
    /\ orphaned' = orphaned \ {w}
    /\ UNCHANGED <<files, want, taken, reclaimed, clock>>

\* ReleaseAgent cannot read the directory, and leaves every lock.
ListFails(w) ==
    /\ pc[w] = "releasing"
    /\ mu[Proc(w)] = Nobody
    /\ Finish({w})
    /\ orphaned' = orphaned \cup {w}
    /\ UNCHANGED <<files, mu>>

\* Mutant of Look: every lock that is found is removed, whoever holds it.
LookAtNothing(w, s) ==
    /\ pc[w] = "sweep"
    /\ s \in todo[w]
    /\ taken[w] = {}
    /\ todo' = [todo EXCEPT ![w] = @ \ {s}]
    /\ taken' = [taken EXCEPT ![w] = {s}]
    /\ UNCHANGED <<files, mu, pc, want, reclaimed, clock, orphaned>>

\* One entry of a sweep, a rollback's or a release's: is this lock the agent's?
Look(w, s) ==
    /\ pc[w] = "sweep"
    /\ s \in todo[w]
    /\ taken[w] = {}
    /\ todo' = [todo EXCEPT ![w] = @ \ {s}]
    /\ taken' = [taken EXCEPT ![w] = IF holder[s] = Agent(w) THEN {s} ELSE {}]
    /\ UNCHANGED <<files, mu, pc, want, reclaimed, clock, orphaned>>

\* It is: os.Remove, whatever the file says by now.
Remove(w, s) ==
    /\ pc[w] = "sweep"
    /\ s \in taken[w]
    /\ SetFile(s, Nobody)
    /\ taken' = [taken EXCEPT ![w] = {}]
    /\ UNCHANGED <<mu, pc, want, todo, reclaimed, clock, orphaned>>

\* The removal fails, and nobody is told.
RemoveFails(w, s) ==
    /\ pc[w] = "sweep"
    /\ s \in taken[w]
    /\ taken' = [taken EXCEPT ![w] = {}]
    /\ orphaned' = orphaned \cup {w}
    /\ UNCHANGED <<files, mu, pc, want, todo, reclaimed, clock>>

\* The sweep is over, and with it the call.
Swept(w) ==
    /\ pc[w] = "sweep"
    /\ todo[w] = {}
    /\ taken[w] = {}
    /\ Unlock(w)
    /\ Finish({w})
    /\ UNCHANGED <<files, orphaned>>

\* The worker goes away without calling ReleaseAgent: Done does this when git
\* cannot add or commit the work.
Abandon(w) ==
    /\ pc[w] = "held"
    /\ Finish({w})
    /\ orphaned' = orphaned \cup {w}
    /\ UNCHANGED <<files, mu>>

\* Process p dies between two steps and starts again: the files stay.
Crash(p) ==
    /\ LET W == {w \in Workers : Proc(w) = p} IN
         /\ Finish(W)
         /\ orphaned' = orphaned \cup
              {w \in W : pc[w] \in {"open", "fill", "sweep", "held", "releasing"}}
    /\ mu' = [mu EXCEPT ![p] = Nobody]
    /\ UNCHANGED files

\* Time passes: every lock ages, and so does every claim since its first write.
Tick ==
    /\ age' = [s \in Symbols |-> IF holder[s] = Nobody THEN 0 ELSE Older(age[s])]
    /\ clock' = [w \in Workers |->
                   IF pc[w] \in {"open", "fill", "held"} THEN Older(clock[w])
                                                         ELSE clock[w]]
    /\ UNCHANGED <<holder, mu, pc, want, todo, taken, reclaimed, orphaned>>

\* What a worker does by itself once it has called the store.
Proceed(w) ==
    \/ Enter(w)
    \/ List(w)
    \/ ListFails(w)
    \/ WriteFails(w)
    \/ Swept(w)
    \/ \E s \in Symbols :
         \/ CheckFree(w, s)
         \/ CheckStale(w, s)
         \/ Refuse(w, s)
         \/ Open(w, s)
         \/ Fill(w, s)
         \/ Look(w, s)
         \/ Remove(w, s)
         \/ RemoveFails(w, s)

Next ==
    \/ \E w \in Workers :
         \/ \E S \in SUBSET Symbols : Call(w, S)
         \/ Release(w)
         \/ Abandon(w)
         \/ Proceed(w)
    \/ \E p \in Procs : Crash(p)
    \/ Tick

Spec == Init /\ [][Next]_vars

--------------------------------------------------------------------------------
\* Worker w's claim has outlived the expiry: others may reclaim its locks.
Lapsed(w) == IsStale(clock[w])

(***************************************************************************)
(* Two granted claims never share a symbol unless one of them has outlived *)
(* the expiry: what the checks and the writes of Acquire are there for,    *)
(* against every interleaving, failed write, crash and late release.       *)
(***************************************************************************)
Exclusive ==
    \A v, w \in Workers :
        v # w /\ pc[v] = "held" /\ pc[w] = "held" /\ want[v] \cap want[w] # {}
            => Lapsed(v) \/ Lapsed(w)

(***************************************************************************)
(* A lock names an agent that is taking, holding or releasing it, or one   *)
(* that went away without a release, or whose lock could not be removed.   *)
(* A claim that was refused, or whose writes failed half way, leaves       *)
(* nothing else behind.                                                    *)
(***************************************************************************)
NoLeak ==
    \A w \in Workers, s \in Symbols :
        holder[s] = Agent(w) =>
            \/ pc[w] \in {"open", "fill", "sweep", "held", "releasing"}
            \/ w \in orphaned

(***************************************************************************)
(* A lock disappears by the hand of its own agent, or expired, by that of  *)
(* a claim that noted from whom it is reclaimed: a live lock is never      *)
(* stolen and a takeover is never silent.  This needs the answer of the    *)
(* first pass to be still right when the second pass opens the file.       *)
(***************************************************************************)
Displaced(w, s) ==
    \/ Agent(w) = holder[s]
    \/ IsStale(age[s]) /\ <<s, holder[s]>> \in reclaimed[w]

NoTheft ==
    [][\A s \in Symbols :
         holder[s] # Nobody /\ holder'[s] # holder[s] =>
            \E w \in Workers : mu[Proc(w)] = w /\ Displaced(w, s)]_vars

--------------------------------------------------------------------------------
(***************************************************************************)
(* The refinement: a worker between the return of Acquire and the call of  *)
(* ReleaseAgent holds its claim.                                           *)
(***************************************************************************)
HeldClaim == [w \in Workers |-> IF pc[w] = "held" THEN want[w] ELSE {}]
HeldLapsed == {w \in Workers : pc[w] = "held" /\ IsStale(clock[w])}

Promise == INSTANCE SymbolLock WITH claim <- HeldClaim, lapsed <- HeldLapsed

\* The store keeps the promise of SymbolLock.
KeepsPromise == Promise!Spec

--------------------------------------------------------------------------------
(***************************************************************************)
(* The inductive invariant.  It holds when one store serves all workers:   *)
(* the files of several processes are not protected by a common mutex.     *)
(***************************************************************************)
OneStore == \A v, w \in Workers : Proc(v) = Proc(w)

\* The mutex is held by exactly the worker that is inside.
MutexInv ==
    \A w \in Workers : pc[w] \in Inside <=> mu[Proc(w)] = w

\* The symbols that worker w has found free, or expired, in its first pass.
Cleared(w) ==
    IF pc[w] = "check" THEN want[w] \ todo[w]
    ELSE IF pc[w] \in {"open", "fill"} THEN want[w]
    ELSE {}

\* Nobody else has a claim in force on a symbol once it has been cleared.
ClearedInv ==
    \A v, w \in Workers :
        v # w /\ pc[v] = "held" /\ want[v] \cap Cleared(w) # {} => Lapsed(v)

\* The lock of s is worker w's and no older than w's claim.
Owns(w, s) == holder[s] = Agent(w) /\ age[s] <= clock[w]

\* What the second pass has written stands until it returns; it has at most
\* one file open.  What a sweep is about to remove is the worker's own.
TakenInv ==
    \A w \in Workers :
        /\ pc[w] \notin {"open", "fill", "sweep"} => taken[w] = {}
        /\ pc[w] \in {"open", "fill"} =>
             /\ todo[w] \subseteq want[w]
             /\ taken[w] \subseteq want[w] \ todo[w]
             /\ \A s \in taken[w] : Owns(w, s)
        /\ pc[w] = "open" => Opened(w) = {}
        /\ pc[w] = "fill" => \A r, s \in Opened(w) : r = s
        /\ pc[w] = "sweep" => \A s \in taken[w] : holder[s] = Agent(w)

\* The locks of a claim stand as long as the claim is in force.
HeldInv ==
    \A w \in Workers :
        pc[w] = "held" => Lapsed(w) \/ \A s \in want[w] : Owns(w, s)

\* A lock names an agent that holds it, is still to release it, or will never do
\* so; or one whose claim has written it, or whose sweep is still to reach it.
LeakInv ==
    \A w \in Workers, s \in Symbols :
        holder[s] = Agent(w) =>
            \/ w \in orphaned
            \/ pc[w] \in {"held", "releasing"}
            \/ pc[w] \in {"open", "fill"} /\ s \in taken[w]
            \/ pc[w] = "sweep" /\ s \in todo[w] \cup taken[w]

\* A sweep has at most one lock in hand.
SweepInv ==
    \A w \in Workers : pc[w] = "sweep" => \A r, s \in taken[w] : r = s

\* What a claim found free, or expired and noted, is so until it is written.
NotedInv ==
    \A w \in Workers :
        /\ pc[w] = "check" =>
             \A s \in want[w] \ todo[w] : holder[s] = Nobody \/ Displaced(w, s)
        /\ pc[w] \in {"open", "fill"} =>
             \A s \in todo[w] : holder[s] = Nobody \/ Displaced(w, s)
        /\ pc[w] = "fill" => \A s \in Opened(w) : holder[s] = Nobody

IInv ==
    /\ TypeOK /\ MutexInv /\ ClearedInv /\ TakenInv /\ HeldInv
    /\ LeakInv /\ SweepInv /\ NotedInv
================================================================================
