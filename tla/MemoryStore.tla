------------------------------- MODULE MemoryStore -------------------------------
(***************************************************************************)
(* The memory that the sessions of one project share: the table of chunks  *)
(* and the lexical index beside it (memory/store.go, fts.go, search.go),   *)
(* and the embedders of a session (embed/embed.go).                        *)
(*                                                                         *)
(* Every statement is a step, so that processes interleave between them.   *)
(* A chunk is its row id and the number of the write that stored it; a     *)
(* vector is its dimension.  How near a text is to a query is any order.   *)
(***************************************************************************)
EXTENDS Processes, Integers, FiniteSets, FiniteSetsExt

CONSTANTS
    MaxEntries,     \* Store.maxEntries, 0 for no cap
    TopK,           \* MemoryTopK
    Dims,           \* the dimensions of vectors
    Served,         \* the dimensions that each process's two endpoints may return
    MaxWrites,      \* bound: how many chunks are written in all
    MaxDeaths       \* bound: how many processes die

Endpoints == {"primary", "fallback"}

ASSUME MemoryStoreAssumption ==
    /\ MaxEntries \in Nat
    /\ TopK \in Nat \ {0}
    /\ Dims \subseteq Nat \ {0}
    /\ Served \in [Procs -> [Endpoints -> SUBSET Dims]]
    /\ MaxWrites \in Nat /\ MaxDeaths \in Nat

VARIABLES
    lexical,    \* whether the store has the lexical index, fts # nil
    rows,       \* the chunks table
    shadow,     \* chunks_fts: the row ids it holds
    at,         \* where each process is in Write, Search or RebuildFTS
    fresh,      \* the id or the dimension it works with
    excess,     \* pruneToMaxEntries: how many rows are to go
    chosen,     \* the ids a prune, a search or a rebuild works with
    migrated,   \* Store.migrated
    pins,       \* Local.dim of the primary and of the fallback embedder
    writes,     \* how many chunks were written
    wrote,      \* the processes that have written since they started
    disturbed,  \* the processes under whose search rows were deleted
    overfull,   \* a prune failed or was cut short, and the cap has not been met since
    raced,      \* one prune counted the rows that another was about to delete
    deaths      \* how many processes have died

storeVars == <<rows, shadow>>
opVars == <<at, fresh, excess, chosen>>
knowVars == <<wrote, disturbed, overfull, raced>>
memoryVars == <<lexical, storeVars, opVars, migrated, pins, writes, knowVars, deaths>>

Places == {"idle", "insert", "index", "count", "select", "delete", "unindex",
           "match", "fetch", "refill"}

MemoryTypeOK ==
    /\ lexical \in BOOLEAN
    /\ rows \subseteq [id : 1..MaxWrites, text : 1..MaxWrites, dim : Dims]
    /\ shadow \subseteq 1..MaxWrites
    /\ at \in [Procs -> Places]
    /\ fresh \in [Procs -> Nat]
    /\ excess \in [Procs -> Nat]
    /\ chosen \in [Procs -> SUBSET (1..MaxWrites)]
    /\ migrated \subseteq Procs
    /\ pins \in [Procs -> [Endpoints -> Dims \cup {0}]]
    /\ writes \in 0..MaxWrites
    /\ wrote \subseteq Procs
    /\ disturbed \subseteq Procs
    /\ overfull \in BOOLEAN /\ raced \in BOOLEAN
    /\ deaths \in 0..MaxDeaths

NoPins == [which \in Endpoints |-> 0]

MemoryInit ==
    /\ lexical \in BOOLEAN
    /\ rows = {} /\ shadow = {}
    /\ at = [p \in Procs |-> "idle"] /\ fresh = [p \in Procs |-> 0]
    /\ excess = [p \in Procs |-> 0] /\ chosen = [p \in Procs |-> {}]
    /\ migrated = {} /\ pins = [p \in Procs |-> NoPins]
    /\ writes = 0 /\ wrote = {}
    /\ disturbed = {} /\ overfull = FALSE /\ raced = FALSE /\ deaths = 0

Ids == {r.id : r \in rows}
Go(p, place) == at' = [at EXCEPT ![p] = place]

\* An operation of p that is over leaves nothing in its variables.
Finish(p) ==
    /\ Go(p, "idle")
    /\ fresh' = [fresh EXCEPT ![p] = 0]
    /\ excess' = [excess EXCEPT ![p] = 0]
    /\ chosen' = [chosen EXCEPT ![p] = {}]

-----------------------------------------------------------------------------
\* Embedding.

\* An endpoint's vectors pin its dimension, and others are refused after that.
Endpoint(p, which, d) ==
    /\ d \in Served[p][which]
    /\ pins[p][which] \in {0, d}
    /\ pins' = [pins EXCEPT ![p][which] = d]

\* The primary endpoint answers; or it cannot be reached, or fails, and the
\* fallback answers, which has a dimension of its own.
Embeds(p, d) == Endpoint(p, "primary", d) \/ Endpoint(p, "fallback", d)

\* Neither answers, or the primary answers with a refusal or another dimension:
\* then the fallback is not asked.
EmbedFails(p) == pins' = pins

-----------------------------------------------------------------------------
\* Write.

StartWrite(p) ==
    /\ at[p] = "idle"
    /\ writes < MaxWrites
    /\ \E d \in Dims : Embeds(p, d) /\ fresh' = [fresh EXCEPT ![p] = d]
    /\ Go(p, "insert")
    /\ UNCHANGED <<lexical, storeVars, excess, chosen, migrated, writes, knowVars, deaths>>

\* After the commit comes what the store is configured for.
AfterCommit == IF lexical THEN "index" ELSE IF MaxEntries > 0 THEN "count" ELSE "idle"
AfterIndex == IF MaxEntries > 0 THEN "count" ELSE "idle"

\* An id is one more than the greatest in the table, also one used before.
NextId == IF rows = {} THEN 1 ELSE Max(Ids) + 1

\* Mutant of Insert: a process that has written still takes the store for new.
InsertUnmigrated(p) ==
    /\ at[p] = "insert"
    /\ writes' = writes + 1
    /\ rows' = rows \cup {[id |-> NextId, text |-> writes + 1, dim |-> fresh[p]]}
    /\ wrote' = wrote \cup {p}
    /\ IF AfterCommit = "idle" THEN Finish(p)
       ELSE /\ Go(p, AfterCommit)
            /\ fresh' = [fresh EXCEPT ![p] = NextId]
            /\ UNCHANGED <<excess, chosen>>
    /\ UNCHANGED <<lexical, shadow, migrated, pins, disturbed, overfull, raced, deaths>>

\* The schema is made on the first write of a process, and the row committed.
Insert(p) ==
    /\ at[p] = "insert"
    /\ writes < MaxWrites
    /\ migrated' = migrated \cup {p}
    /\ writes' = writes + 1
    /\ rows' = rows \cup {[id |-> NextId, text |-> writes + 1, dim |-> fresh[p]]}
    /\ wrote' = wrote \cup {p}
    /\ IF AfterCommit = "idle" THEN Finish(p)
       ELSE /\ Go(p, AfterCommit)
            /\ fresh' = [fresh EXCEPT ![p] = NextId]
            /\ UNCHANGED <<excess, chosen>>
    /\ UNCHANGED <<lexical, shadow, pins, disturbed, overfull, raced, deaths>>

InsertFails(p) ==
    /\ at[p] = "insert"
    /\ migrated' \in {migrated, migrated \cup {p}}
    /\ Finish(p)
    /\ UNCHANGED <<lexical, storeVars, pins, writes, knowVars, deaths>>

\* The old entry is deleted and the new one inserted; either may fail, and
\* nobody is told.
Index(p) ==
    /\ at[p] = "index"
    /\ shadow' \in {shadow, shadow \ {fresh[p]}, shadow \cup {fresh[p]}}
    /\ IF AfterIndex = "idle" THEN Finish(p)
       ELSE Go(p, AfterIndex) /\ UNCHANGED <<fresh, excess, chosen>>
    /\ UNCHANGED <<lexical, rows, migrated, pins, writes, knowVars, deaths>>

Racing(p) == \E q \in Procs \ {p} : at[q] \in {"select", "delete"}

\* Mutant of Count: one row too many is to go.
CountMore(p) ==
    /\ at[p] = "count"
    /\ IF Cardinality(rows) > MaxEntries
       THEN /\ excess' = [excess EXCEPT ![p] = Cardinality(rows) - MaxEntries + 1]
            /\ raced' = (raced \/ Racing(p))
            /\ Go(p, "select")
            /\ UNCHANGED <<fresh, chosen, overfull>>
       ELSE Finish(p) /\ overfull' = FALSE /\ raced' = raced
    /\ UNCHANGED <<lexical, storeVars, migrated, pins, writes, wrote, disturbed, deaths>>

\* pruneToMaxEntries counts the rows,
Count(p) ==
    /\ at[p] = "count"
    /\ IF Cardinality(rows) > MaxEntries
       THEN /\ excess' = [excess EXCEPT ![p] = Cardinality(rows) - MaxEntries]
            /\ raced' = (raced \/ Racing(p))
            /\ Go(p, "select")
            /\ UNCHANGED <<fresh, chosen, overfull>>
       ELSE Finish(p) /\ overfull' = FALSE /\ raced' = raced
    /\ UNCHANGED <<lexical, storeVars, migrated, pins, writes, wrote, disturbed, deaths>>

\* selects the excess from the oldest,
Select(p) ==
    /\ at[p] = "select"
    /\ \E old \in SUBSET Ids :
         /\ Cardinality(old) = IF excess[p] < Cardinality(rows) THEN excess[p]
                               ELSE Cardinality(rows)
         /\ \A i \in old : \A j \in Ids \ old : i < j
         /\ IF old = {} THEN Finish(p)
            ELSE /\ chosen' = [chosen EXCEPT ![p] = old]
                 /\ Go(p, "delete")
                 /\ UNCHANGED <<fresh, excess>>
    /\ UNCHANGED <<lexical, storeVars, migrated, pins, writes, knowVars, deaths>>

\* and deletes them,
Delete(p) ==
    /\ at[p] = "delete"
    /\ rows' = {r \in rows : r.id \notin chosen[p]}
    /\ disturbed' = disturbed \cup {q \in Procs : at[q] \in {"match", "fetch"}}
    /\ overfull' = (overfull /\ Cardinality(rows') > MaxEntries)
    /\ IF lexical THEN Go(p, "unindex") /\ UNCHANGED <<fresh, excess, chosen>>
       ELSE Finish(p)
    /\ UNCHANGED <<lexical, shadow, migrated, pins, writes, wrote, raced, deaths>>

\* from the lexical index as well, as far as that can be done.
Unindex(p) ==
    /\ at[p] = "unindex"
    /\ shadow' \in {shadow, shadow \ chosen[p]}
    /\ Finish(p)
    /\ UNCHANGED <<lexical, rows, migrated, pins, writes, knowVars, deaths>>

\* A prune that fails is given up without a word.
PruneFails(p) ==
    /\ at[p] \in {"count", "select", "delete"}
    /\ overfull' = TRUE
    /\ Finish(p)
    /\ UNCHANGED <<lexical, storeVars, migrated, pins, writes, wrote, disturbed,
                   raced, deaths>>

-----------------------------------------------------------------------------
\* Search.

\* A search of p is over.
Ends(p) == Finish(p) /\ disturbed' = disturbed \ {p}

\* A store that this process has not written to is taken for an empty one, and
\* the query is not even embedded.
SearchBlind(p) ==
    /\ at[p] = "idle"
    /\ p \notin migrated
    /\ Ends(p)
    /\ UNCHANGED <<lexical, storeVars, migrated, pins, writes, wrote, overfull, raced,
                   deaths>>

Best(set) == {s \in SUBSET set : Cardinality(s) =
                IF Cardinality(set) < TopK THEN Cardinality(set) ELSE TopK}

\* The nearest rows; vectors of another dimension fail the query.
SearchVectors(p) ==
    /\ at[p] = "idle"
    /\ p \in migrated
    /\ \E d \in Dims :
         /\ Embeds(p, d)
         /\ IF \E r \in rows : r.dim # d
            THEN Ends(p)
            ELSE /\ \E ids \in Best(Ids) : chosen' = [chosen EXCEPT ![p] = ids]
                 /\ Go(p, IF lexical THEN "match" ELSE "fetch")
                 /\ disturbed' = disturbed \ {p}
                 /\ UNCHANGED <<fresh, excess>>
    /\ UNCHANGED <<lexical, storeVars, migrated, writes, wrote, overfull, raced, deaths>>

SearchFails(p) ==
    /\ at[p] \in {"match", "fetch"} \/ (at[p] = "idle" /\ p \in migrated)
    /\ EmbedFails(p)
    /\ Ends(p)
    /\ UNCHANGED <<lexical, storeVars, migrated, writes, wrote, overfull, raced, deaths>>

\* The rows whose text matches, then the best of both.
Match(p) ==
    /\ at[p] = "match"
    /\ \E matching \in SUBSET shadow :
         \E ids \in Best(chosen[p] \cup matching) :
           chosen' = [chosen EXCEPT ![p] = ids]
    /\ Go(p, "fetch")
    /\ UNCHANGED <<lexical, storeVars, fresh, excess, migrated, pins, writes, knowVars, deaths>>

\* The texts of those that are still there.
Fetch(p) ==
    /\ at[p] = "fetch"
    /\ Ends(p)
    /\ UNCHANGED <<lexical, storeVars, migrated, pins, writes, wrote, overfull, raced,
                   deaths>>

-----------------------------------------------------------------------------

\* RebuildFTS clears the index,
Clear(p) ==
    /\ at[p] = "idle" /\ lexical
    /\ shadow' = {}
    /\ Go(p, "refill")
    /\ chosen' = [chosen EXCEPT ![p] = Ids]
    /\ UNCHANGED <<lexical, rows, fresh, excess, migrated, pins, writes, knowVars, deaths>>

\* and enters the rows that there were, as far as it comes.
Refill(p) ==
    /\ at[p] = "refill"
    /\ \E ids \in SUBSET chosen[p] : shadow' = shadow \cup ids
    /\ Finish(p)
    /\ UNCHANGED <<lexical, rows, migrated, pins, writes, knowVars, deaths>>

\* A process dies, and another takes its place.
Die(p) ==
    /\ deaths < MaxDeaths
    /\ deaths' = deaths + 1
    /\ Finish(p)
    /\ overfull' = (overfull \/ at[p] \in {"index", "count", "select", "delete"})
    /\ migrated' = migrated \ {p}
    /\ wrote' = wrote \ {p}
    /\ pins' = [pins EXCEPT ![p] = NoPins]
    /\ disturbed' = disturbed \ {p}
    /\ UNCHANGED <<lexical, storeVars, writes, raced>>

WriteNext(p) ==
    \/ StartWrite(p) \/ Insert(p) \/ InsertFails(p) \/ Index(p)
    \/ Count(p) \/ Select(p) \/ Delete(p) \/ Unindex(p) \/ PruneFails(p)

SearchNext(p) ==
    SearchBlind(p) \/ SearchVectors(p) \/ SearchFails(p) \/ Match(p) \/ Fetch(p)

MemoryNext == \E p \in Procs :
    WriteNext(p) \/ SearchNext(p) \/ Clear(p) \/ Refill(p) \/ Die(p)

-----------------------------------------------------------------------------

(***************************************************************************)
(* The store holds as many of the newest chunks as its cap allows          *)
(* (store.go:276-330): never more, but for the writes that are under way,  *)
(* until a prune fails; and never fewer, until two prunes overlap, of      *)
(* which the second counts rows the first is about to delete.              *)
(***************************************************************************)
CapKept ==
    MaxEntries > 0 =>
        LET writing == {p \in Procs : at[p] \in {"index", "count", "select", "delete"}}
            newest == {i \in 1..writes : i > writes - MaxEntries}
        IN  /\ overfull \/ Cardinality(rows) <= MaxEntries + Cardinality(writing)
            /\ raced \/ newest \subseteq {r.text : r \in rows}

(***************************************************************************)
(* A search of a process that has written finds something, unless it fails *)
(* for all to see, rows were deleted under it, or the lexical index names  *)
(* rows that are gone, which take the place of those that are there        *)
(* (search.go:38-131).  Before its first write it is blind, whatever is    *)
(* stored (search.go:39).                                                  *)
(***************************************************************************)
SearchFinds ==
    \A p \in Procs :
        /\ p \in wrote => p \in migrated
        /\ at[p] = "fetch" /\ p \notin disturbed /\ rows # {} =>
             chosen[p] = {} \/ chosen[p] \cap Ids # {} \/ lexical
===============================================================================
