-------------------------------- MODULE Positions --------------------------------
(***************************************************************************)
(* The numbers of a finite set in ascending order: the positions of some   *)
(* elements of a sequence, the indexes of tool calls, the keys of rules.   *)
(* (SetToSortSeq and SelectSeq do the same by recursion, of which nothing  *)
(* can be proved here.)                                                    *)
(***************************************************************************)
EXTENDS Integers, FiniteSets, Sequences, FiniteSetsExt

\* How many numbers of S are no greater than i.
Rank(S, i) == Cardinality({j \in S : j <= i})

\* The k-th number of S.
Nth(S, k) == CHOOSE i \in S : Rank(S, i) = k

InOrder(S) == [k \in 1..Cardinality(S) |-> Nth(S, k)]

\* What the sequence s has at the positions in S.
Pick(s, S) == [k \in 1..Cardinality(S) |-> s[Nth(S, k)]]

\* The sum of a sequence of numbers.
Total(numbers) ==
    LET sum[i \in 0..Len(numbers)] == IF i = 0 THEN 0 ELSE sum[i - 1] + numbers[i]
    IN  sum[Len(numbers)]

\* The sum of those at the positions in S.
TotalAt(numbers, S) ==
    Total([i \in 1..Len(numbers) |-> IF i \in S THEN numbers[i] ELSE 0])
===============================================================================
