----------------------------- MODULE PositionsProofs -----------------------------
(***************************************************************************)
(* Facts about finite sets of numbers, their order and sums, which the     *)
(* proofs about the other modules need.                                    *)
(***************************************************************************)
EXTENDS Positions, FiniteSetTheorems, FunctionTheorems, SequenceTheorems, TLAPS

(***************************************************************************)
(* A set of natural numbers that is not empty has a least one; and if it   *)
(* is bounded, a greatest, which is Max of it.                             *)
(***************************************************************************)
LEMMA LeastFacts ==
    ASSUME NEW S, S \subseteq Nat, S # {}
    PROVE  \E x \in S : \A y \in S : x <= y
  <1>1. PICK x \in S : \A y \in S : <<y, x>> \notin OpToRel(<, Nat)
    BY NatLessThanWellFounded, WFMin, Zenon
  <1>2. \A y \in S : ~ (y < x)
    BY <1>1 DEF OpToRel
  <1> QED  BY <1>2

LEMMA MaxFacts ==
    ASSUME NEW S, S \subseteq Nat, S # {}, NEW n \in Nat, \A x \in S : x <= n
    PROVE  Max(S) \in S /\ \A x \in S : x <= Max(S)
  <1> DEFINE T == {m \in Nat : \A x \in S : x <= m}
  <1>1. PICK m \in T : \A y \in T : m <= y
    <2>1. T \subseteq Nat /\ n \in T
      OBVIOUS
    <2> QED  BY <2>1, LeastFacts, Zenon
  <1>2. m \in S
    <2> SUFFICES ASSUME m \notin S
                 PROVE  FALSE
      OBVIOUS
    <2>1. \A x \in S : x < m
      OBVIOUS
    <2>2. m \in Nat /\ m # 0
      <3>1. PICK x \in S : TRUE
        OBVIOUS
      <3> QED  BY <2>1, <3>1
    <2>3. m - 1 \in Nat /\ \A x \in S : x <= m - 1
      BY <2>1, <2>2
    <2>4. m - 1 \in T
      BY <2>3
    <2> QED  BY <1>1, <2>2, <2>4
  <1>3. \E x \in S : \A y \in S : x >= y
    BY <1>1, <1>2
  <1> QED  BY <1>3 DEF Max

------------------------------------------------------------------------

(***************************************************************************)
(* Ranks number a finite set of numbers without gaps.                      *)
(***************************************************************************)
LEMMA RankFacts ==
    ASSUME NEW S \in SUBSET Int, IsFiniteSet(S)
    PROVE  /\ Cardinality(S) \in Nat
           /\ \A i \in S : Rank(S, i) \in 1..Cardinality(S)
           /\ \A i, j \in S : i < j => Rank(S, i) < Rank(S, j)
           /\ \A k \in 1..Cardinality(S) : \E i \in S : Rank(S, i) = k
  <1> DEFINE n == Cardinality(S)
             Below(i) == {j \in S : j <= i}
  <1>1. n \in Nat
    BY FS_CardinalityType
  <1>2. ASSUME NEW i \in S
        PROVE  IsFiniteSet(Below(i)) /\ Rank(S, i) \in 1..n
    <2>1. Below(i) \subseteq S /\ i \in Below(i)
      OBVIOUS
    <2>2. IsFiniteSet(Below(i)) /\ Cardinality(Below(i)) <= n
      BY <2>1, FS_Subset
    <2>3. Cardinality(Below(i)) \in Nat /\ Cardinality(Below(i)) # 0
      BY <2>1, <2>2, FS_CardinalityType, FS_EmptySet
    <2> QED  BY <1>1, <2>2, <2>3 DEF Rank
  <1>3. ASSUME NEW i \in S, NEW j \in S, i < j
        PROVE  Rank(S, i) < Rank(S, j)
    <2>1. Below(i) \cup {j} \subseteq Below(j) /\ j \notin Below(i)
      <3>1. S \subseteq Int /\ i \in Int /\ j \in Int /\ i < j
        BY <1>3
      <3>2. ASSUME NEW x \in Below(i)
            PROVE  x \in Below(j) /\ x # j
        <4>1. x \in S /\ x \in Int /\ x <= i
          OBVIOUS
        <4> QED  BY <3>1, <4>1
      <3>3. j \in Below(j)
        BY <3>1
      <3> HIDE DEF Below
      <3> QED  BY <3>2, <3>3
    <2>2. IsFiniteSet(Below(i)) /\ IsFiniteSet(Below(j))
      BY <1>2
    <2>3. Cardinality(Below(i) \cup {j}) = Cardinality(Below(i)) + 1
      BY <2>1, <2>2, FS_AddElement
    <2>4. Cardinality(Below(i) \cup {j}) <= Cardinality(Below(j))
      BY <2>1, <2>2, FS_Subset
    <2>5. Cardinality(Below(i)) \in Nat /\ Cardinality(Below(j)) \in Nat
      BY <2>2, FS_CardinalityType
    <2> QED  BY <2>3, <2>4, <2>5 DEF Rank
  <1>4. \A k \in 1..n : \E i \in S : Rank(S, i) = k
    <2> DEFINE f == [i \in S |-> Rank(S, i)]
    <2>1. ASSUME NEW i \in S, NEW j \in S, i # j
          PROVE  Rank(S, i) # Rank(S, j)
      <3>1. i < j \/ j < i
        BY <2>1
      <3>2. Rank(S, i) \in Int /\ Rank(S, j) \in Int
        <4>1. Rank(S, i) \in 1..n /\ Rank(S, j) \in 1..n
          BY <1>2
        <4> HIDE DEF n
        <4> QED  BY <1>1, <4>1
      <3>3. Rank(S, i) < Rank(S, j) \/ Rank(S, j) < Rank(S, i)
        BY <1>3, <3>1
      <3> QED  BY <3>2, <3>3
    <2>2. f \in Injection(S, 1..n)
      BY <1>2, <2>1, Fun_IsInj
    <2>3. IsFiniteSet(1..n) /\ Cardinality(1..n) = n
      BY <1>1, FS_Interval
    <2>4. f \in Surjection(S, 1..n)
      BY <2>2, <2>3, FS_Injection, Zenon
    <2> QED  BY <2>4 DEF Surjection
  <1> QED  BY <1>1, <1>2, <1>3, <1>4

(***************************************************************************)
(* The k-th number is one of the set, has rank k, and is reached from its  *)
(* rank.                                                                   *)
(***************************************************************************)
LEMMA NthFacts ==
    ASSUME NEW S \in SUBSET Int, IsFiniteSet(S)
    PROVE  /\ \A k \in 1..Cardinality(S) : Nth(S, k) \in S /\ Rank(S, Nth(S, k)) = k
           /\ \A i \in S : Nth(S, Rank(S, i)) = i
           /\ \A k, l \in 1..Cardinality(S) : k < l => Nth(S, k) < Nth(S, l)
  <1>1. ASSUME NEW k \in 1..Cardinality(S)
        PROVE  Nth(S, k) \in S /\ Rank(S, Nth(S, k)) = k
    BY RankFacts DEF Nth
  <1>2. \A i, j \in S : Rank(S, i) = Rank(S, j) => i = j
    <2> SUFFICES ASSUME NEW i \in S, NEW j \in S, Rank(S, i) = Rank(S, j)
                 PROVE  i = j
      OBVIOUS
    <2>1. ~ (i < j) /\ ~ (j < i)
      BY RankFacts
    <2> QED  BY <2>1
  <1>3. ASSUME NEW i \in S
        PROVE  Nth(S, Rank(S, i)) = i
    BY <1>1, <1>2, RankFacts
  <1>4. ASSUME NEW k \in 1..Cardinality(S), NEW l \in 1..Cardinality(S), k < l
        PROVE  Nth(S, k) < Nth(S, l)
    <2>1. Nth(S, k) \in S /\ Nth(S, l) \in S
      BY <1>1
    <2>2. Rank(S, Nth(S, k)) = k /\ Rank(S, Nth(S, l)) = l
      BY <1>1
    <2>3. Nth(S, k) # Nth(S, l)
      BY <1>4, <2>2
    <2>4. ~ (Nth(S, l) < Nth(S, k))
      <3>1. Nth(S, l) < Nth(S, k) => l < k
        BY <2>1, <2>2, RankFacts
      <3> QED  BY <1>4, <3>1
    <2>5. Nth(S, k) \in Int /\ Nth(S, l) \in Int
      BY <2>1
    <2> QED  BY <2>3, <2>4, <2>5
  <1> QED  BY <1>1, <1>3, <1>4

-----------------------------------------------------------------------------
(***************************************************************************)
(* What has 0, and each number up to n after the one before it, has them   *)
(* all.                                                                    *)
(***************************************************************************)
LEMMA Upward ==
    ASSUME NEW n \in Nat, NEW S, 0 \in S, \A i \in 1..n : i - 1 \in S => i \in S
    PROVE  0..n \subseteq S
  <1> DEFINE Bad == {i \in 0..n : i \notin S}
  <1>1. SUFFICES ASSUME Bad # {}
                 PROVE  FALSE
    OBVIOUS
  <1>2. PICK m \in Bad : \A k \in Bad : m <= k
    <2>1. Bad \subseteq Nat
      OBVIOUS
    <2> QED  BY <1>1, <2>1, LeastFacts, Zenon
  <1>3. m \in 1..n /\ m - 1 \in 0..n /\ ~ (m <= m - 1)
    <2>1. m # 0
      BY <1>2
    <2> QED  BY <1>2, <2>1
  <1>4. m - 1 \in S
    BY <1>2, <1>3
  <1> QED  BY <1>2, <1>3, <1>4

(***************************************************************************)
(* A function may be defined by recursion on the numbers up to n: f starts *)
(* with a and goes on as next says.                                        *)
(***************************************************************************)
GoesOn(f, n, V, a, next) ==
    /\ f \in [0..n -> V]
    /\ \A i \in 0..n : f[i] = IF i = 0 THEN a ELSE next[i][f[i - 1]]

LEMMA Recursion ==
    ASSUME NEW V, NEW n \in Nat, NEW a \in V, NEW next,
           \A i \in 1..n : \A v \in V : next[i][v] \in V
    PROVE  \E f : GoesOn(f, n, V, a, next)
  <1> DEFINE Good(m) == \E f \in [0..m -> V] :
               \A i \in 0..m : f[i] = IF i = 0 THEN a ELSE next[i][f[i - 1]]
             Bad == {m \in 0..n : ~ Good(m)}
  <1>1. SUFFICES Bad = {}
    <2>1. n \in 0..n
      OBVIOUS
    <2>2. Good(n)
      BY <1>1, <2>1
    <2> QED  BY <2>2 DEF GoesOn
  <1>2. SUFFICES ASSUME Bad # {}
                 PROVE  FALSE
    OBVIOUS
  <1>3. PICK m \in Bad : \A k \in Bad : m <= k
    <2>1. Bad \subseteq Nat
      OBVIOUS
    <2> QED  BY <1>2, <2>1, LeastFacts, Zenon
  <1>4. m \in 0..n /\ ~ Good(m)
    BY <1>3
  <1>5. CASE m = 0
    <2> DEFINE f == [i \in 0..0 |-> a]
    <2>1. f \in [0..0 -> V] /\ \A i \in 0..0 : f[i] = IF i = 0 THEN a ELSE next[i][f[i - 1]]
      OBVIOUS
    <2>2. Good(0)
      BY <2>1
    <2> QED  BY <1>4, <1>5, <2>2
  <1>6. CASE m # 0
    <2>1. m - 1 \in 0..n /\ m \in 1..n /\ ~ (m <= m - 1)
      BY <1>4, <1>6
    <2>2. Good(m - 1)
      BY <1>3, <2>1
    <2>3. PICK f \in [0..(m - 1) -> V] :
            \A i \in 0..(m - 1) : f[i] = IF i = 0 THEN a ELSE next[i][f[i - 1]]
      BY <2>2
    <2> DEFINE g == [i \in 0..m |-> IF i = m THEN next[m][f[m - 1]] ELSE f[i]]
    <2>4. m - 1 \in 0..(m - 1) /\ f[m - 1] \in V
      BY <2>1
    <2>5. next[m][f[m - 1]] \in V
      BY <2>1, <2>4
    <2>6. \A i \in 0..m : i # m => i \in 0..(m - 1)
      BY <2>1
    <2>7. g \in [0..m -> V]
      BY <2>5, <2>6
    <2>8. ASSUME NEW i \in 0..m
          PROVE  g[i] = IF i = 0 THEN a ELSE next[i][g[i - 1]]
      <3>1. CASE i = m
        <4>1. i - 1 = m - 1 /\ i - 1 \in 0..m /\ i - 1 # m /\ i # 0
          BY <1>6, <2>1, <3>1
        <4>2. g[i - 1] = f[m - 1] /\ g[i] = next[m][f[m - 1]]
          BY <3>1, <4>1
        <4> QED  BY <3>1, <4>1, <4>2
      <3>2. CASE i # m
        <4>1. i \in 0..(m - 1) /\ (i # 0 => i - 1 \in 0..m /\ i - 1 # m)
          BY <2>1, <3>2
        <4>2. g[i] = f[i] /\ (i # 0 => g[i - 1] = f[i - 1])
          BY <3>2, <4>1
        <4> QED  BY <2>3, <4>1, <4>2
      <3> QED  BY <3>1, <3>2
    <2> HIDE DEF g
    <2>9. Good(m)
      BY <2>7, <2>8
    <2> QED  BY <1>4, <2>9
  <1> QED  BY <1>5, <1>6

(***************************************************************************)
(* The sum of a sequence is the last of its partial sums.                  *)
(***************************************************************************)
LEMMA TotalFacts ==
    ASSUME NEW s \in Seq(Nat)
    PROVE  \E f \in [0..Len(s) -> Nat] :
             /\ f[0] = 0 /\ \A i \in 1..Len(s) : f[i] = f[i - 1] + s[i]
             /\ Total(s) = f[Len(s)]
  <1> DEFINE n == Len(s)
             next == [i \in 1..n |-> [v \in Nat |-> v + s[i]]]
  <1>1. n \in Nat /\ \A i \in 1..n : s[i] \in Nat
    OBVIOUS
  <1>2. \A i \in 1..n : \A v \in Nat : next[i][v] = v + s[i] /\ next[i][v] \in Nat
    BY <1>1
  <1> HIDE DEF n, next
  <1>3. PICK f \in [0..n -> Nat] :
          \A i \in 0..n : f[i] = IF i = 0 THEN 0 ELSE next[i][f[i - 1]]
    <2>1. n \in Nat /\ 0 \in Nat /\ \A i \in 1..n : \A v \in Nat : next[i][v] \in Nat
      BY <1>1, <1>2
    <2>2. \E f : GoesOn(f, n, Nat, 0, next)
      BY <2>1, Recursion, Zenon
    <2> QED  BY <2>2 DEF GoesOn
  <1>4. ASSUME NEW i \in 1..n
        PROVE  i \in 0..n /\ i # 0 /\ i - 1 \in 0..n /\ f[i - 1] \in Nat
    BY <1>1
  <1>5. \A i \in 1..n : f[i] = f[i - 1] + s[i]
    BY <1>2, <1>3, <1>4
  <1>6. f[0] = 0 /\ 0 \in 0..n /\ n \in 0..n
    BY <1>1, <1>3
  <1> DEFINE IsSum(g) == g = [i \in 0..n |-> IF i = 0 THEN 0 ELSE g[i - 1] + s[i]]
             sum == CHOOSE g : IsSum(g)
  <1>7. IsSum(f)
    <2>1. \A i \in 0..n : f[i] = IF i = 0 THEN 0 ELSE f[i - 1] + s[i]
      BY <1>1, <1>5, <1>6
    <2> QED  BY <2>1
  <1>8. IsSum(sum)
    BY <1>7
  <1>9. Total(s) = sum[n]
    BY DEF Total, n
  <1>10. \A i \in 0..n : sum[i] = IF i = 0 THEN 0 ELSE sum[i - 1] + s[i]
    BY <1>8
  <1> HIDE DEF sum, IsSum
  <1> DEFINE Bad == {i \in 0..n : sum[i] # f[i]}
  <1>11. Bad = {}
    <2> SUFFICES ASSUME Bad # {}
                 PROVE  FALSE
      OBVIOUS
    <2>1. PICK m \in Bad : \A k \in Bad : m <= k
      <3>1. Bad \subseteq Nat
        BY <1>1
      <3> QED  BY <3>1, LeastFacts, Zenon
    <2>2. m \in 0..n /\ sum[m] # f[m]
      BY <2>1
    <2>3. m # 0
      BY <1>6, <1>10, <2>2
    <2>4. m - 1 \in 0..n /\ m \in 1..n /\ ~ (m <= m - 1)
      BY <1>1, <2>2, <2>3
    <2>5. sum[m - 1] = f[m - 1]
      BY <2>1, <2>4
    <2>6. sum[m] = sum[m - 1] + s[m]
      BY <1>10, <2>2, <2>3
    <2> QED  BY <1>5, <2>2, <2>4, <2>5, <2>6
  <1>12. sum[n] = f[n]
    BY <1>6, <1>11
  <1> QED  BY <1>5, <1>6, <1>9, <1>12 DEF n

Sums(f, s, S) ==
    /\ f \in [0..Len(s) -> Nat] /\ f[0] = 0 /\ TotalAt(s, S) = f[Len(s)]
    /\ \A i \in 1..Len(s) : /\ i \in S => f[i] = f[i - 1] + s[i]
                            /\ i \notin S => f[i] = f[i - 1]

LEMMA TotalAtFacts ==
    ASSUME NEW s \in Seq(Nat), NEW S
    PROVE  \E f : Sums(f, s, S)
  <1> DEFINE t == [i \in 1..Len(s) |-> IF i \in S THEN s[i] ELSE 0]
  <1>1. t \in Seq(Nat) /\ Len(t) = Len(s)
    OBVIOUS
  <1>2. TotalAt(s, S) = Total(t)
    BY DEF TotalAt
  <1>3. \A i \in 1..Len(s) : t[i] = IF i \in S THEN s[i] ELSE 0
    OBVIOUS
  <1> HIDE DEF t
  <1>4. PICK f \in [0..Len(t) -> Nat] :
          /\ f[0] = 0 /\ \A i \in 1..Len(t) : f[i] = f[i - 1] + t[i]
          /\ Total(t) = f[Len(t)]
    BY <1>1, TotalFacts
  <1>5. \A i \in 1..Len(s) : i - 1 \in 0..Len(s) /\ f[i - 1] \in Nat
    <2>1. Len(s) \in Nat /\ f \in [0..Len(s) -> Nat]
      BY <1>1, <1>4
    <2>2. \A i \in 1..Len(s) : i - 1 \in 0..Len(s)
      BY <2>1
    <2> QED  BY <2>1, <2>2
  <1>6. \A i \in 1..Len(s) : /\ i \in S => f[i] = f[i - 1] + s[i]
                             /\ i \notin S => f[i] = f[i - 1]
    BY <1>1, <1>3, <1>4, <1>5
  <1> QED  BY <1>1, <1>2, <1>4, <1>6 DEF Sums

(***************************************************************************)
(* Sums of parts of a sequence: of none of it, of more of it, and of one   *)
(* more.                                                                   *)
(***************************************************************************)
LEMMA SumFacts ==
    ASSUME NEW s \in Seq(Nat), NEW S
    PROVE  /\ TotalAt(s, S) \in Nat
           /\ S \cap (1..Len(s)) = {} => TotalAt(s, S) = 0
           /\ \A T : S \cap (1..Len(s)) \subseteq T => TotalAt(s, S) <= TotalAt(s, T)
           /\ \A k \in 1..Len(s) : k \notin S => TotalAt(s, S \cup {k}) = TotalAt(s, S) + s[k]
  <1> DEFINE n == Len(s)
  <1>1. n \in Nat /\ n \in 0..n /\ \A i \in 1..n : s[i] \in Nat
    OBVIOUS
  <1>0. PICK f : Sums(f, s, S)
    BY TotalAtFacts
  <1>2. /\ f \in [0..n -> Nat] /\ f[0] = 0 /\ TotalAt(s, S) = f[n]
        /\ \A i \in 1..n : /\ i \in S => f[i] = f[i - 1] + s[i]
                           /\ i \notin S => f[i] = f[i - 1]
    BY <1>0 DEF Sums
  <1>8. \A T : \E g : /\ g \in [0..n -> Nat] /\ g[0] = 0 /\ TotalAt(s, T) = g[n]
                      /\ \A i \in 1..n : /\ i \in T => g[i] = g[i - 1] + s[i]
                                         /\ i \notin T => g[i] = g[i - 1]
    BY TotalAtFacts DEF Sums
  <1> HIDE DEF n
  <1>3. \A i \in 1..n : i - 1 \in 0..n /\ i \in 0..n /\ f[i - 1] \in Nat /\ f[i] \in Nat
    BY <1>1, <1>2
  <1>4. TotalAt(s, S) \in Nat
    BY <1>1, <1>2
  <1>5. ASSUME S \cap (1..n) = {}
        PROVE  TotalAt(s, S) = 0
    <2> DEFINE Same == {i \in 0..n : f[i] = 0}
    <2>1. 0 \in Same
      BY <1>1, <1>2
    <2>2. \A i \in 1..n : i - 1 \in Same => i \in Same
      BY <1>2, <1>3, <1>5
    <2>3. 0..n \subseteq Same
      <3> HIDE DEF Same
      <3> QED  BY <1>1, <2>1, <2>2, Upward
    <2> QED  BY <1>1, <1>2, <2>3
  <1>6. ASSUME NEW T, S \cap (1..n) \subseteq T
        PROVE  TotalAt(s, S) <= TotalAt(s, T)
    <2>1. PICK g :
            /\ g \in [0..n -> Nat] /\ g[0] = 0 /\ TotalAt(s, T) = g[n]
            /\ \A i \in 1..n : /\ i \in T => g[i] = g[i - 1] + s[i]
                               /\ i \notin T => g[i] = g[i - 1]
      BY <1>8, Zenon
    <2>2. \A i \in 1..n : g[i - 1] \in Nat /\ g[i] \in Nat
      BY <1>3, <2>1
    <2> DEFINE Less == {i \in 0..n : f[i] <= g[i]}
    <2>3. 0 \in Less
      BY <1>1, <1>2, <2>1
    <2>4. ASSUME NEW i \in 1..n, i - 1 \in Less
          PROVE  i \in Less
      <3>1. f[i - 1] <= g[i - 1] /\ s[i] \in Nat
        BY <1>1, <2>4
      <3>2. f[i] <= g[i]
        <4>1. i \in S => i \in T
          BY <1>6
        <4>2. /\ f[i] \in Nat /\ g[i] \in Nat /\ f[i - 1] \in Nat /\ g[i - 1] \in Nat
              /\ (i \in S /\ f[i] = f[i - 1] + s[i]) \/ (i \notin S /\ f[i] = f[i - 1])
              /\ (i \in T /\ g[i] = g[i - 1] + s[i]) \/ (i \notin T /\ g[i] = g[i - 1])
          BY <1>2, <1>3, <2>1, <2>2
        <4> QED  BY <3>1, <4>1, <4>2
      <3> QED  BY <1>3, <3>2
    <2>5. 0..n \subseteq Less
      <3> HIDE DEF Less
      <3> QED  BY <1>1, <2>3, <2>4, Upward
    <2> QED  BY <1>1, <1>2, <2>1, <2>5
  <1>7. ASSUME NEW k \in 1..n, k \notin S
        PROVE  TotalAt(s, S \cup {k}) = TotalAt(s, S) + s[k]
    <2>1. PICK g :
            /\ g \in [0..n -> Nat] /\ g[0] = 0 /\ TotalAt(s, S \cup {k}) = g[n]
            /\ \A i \in 1..n : /\ i \in S \cup {k} => g[i] = g[i - 1] + s[i]
                               /\ i \notin S \cup {k} => g[i] = g[i - 1]
      BY <1>8, Zenon
    <2>2. \A i \in 1..n : g[i - 1] \in Nat /\ g[i] \in Nat
      BY <1>3, <2>1
    <2> DEFINE More == {i \in 0..n : g[i] = f[i] + (IF i < k THEN 0 ELSE s[k])}
    <2>3. 0 \in More
      BY <1>1, <1>2, <1>7, <2>1
    <2>4. ASSUME NEW i \in 1..n, i - 1 \in More
          PROVE  i \in More
      <3>1. g[i - 1] = f[i - 1] + (IF i - 1 < k THEN 0 ELSE s[k]) /\ s[i] \in Nat /\ s[k] \in Nat
        BY <1>1, <1>7, <2>4
      <3>2. g[i] = f[i] + (IF i < k THEN 0 ELSE s[k])
        <4>1. CASE i = k
          BY <1>2, <1>3, <1>7, <2>1, <2>2, <3>1, <4>1
        <4>2. CASE i # k
          <5>1. (i - 1 < k) <=> (i < k)
            BY <1>1, <1>7, <4>2
          <5>2. i \in S \cup {k} <=> i \in S
            BY <4>2
          <5>3. /\ f[i] \in Nat /\ g[i] \in Nat /\ f[i - 1] \in Nat /\ g[i - 1] \in Nat
                /\ \/ i \in S /\ f[i] = f[i - 1] + s[i] /\ g[i] = g[i - 1] + s[i]
                   \/ i \notin S /\ f[i] = f[i - 1] /\ g[i] = g[i - 1]
            BY <1>2, <1>3, <2>1, <2>2, <5>2
          <5> HIDE DEF More
          <5>4. CASE i < k
            BY <3>1, <5>1, <5>3, <5>4
          <5>5. CASE ~ (i < k)
            BY <3>1, <5>1, <5>3, <5>5, SMTT(40)
          <5> QED  BY <5>4, <5>5
        <4> QED  BY <4>1, <4>2
      <3> QED  BY <1>3, <3>2
    <2>5. 0..n \subseteq More
      <3> HIDE DEF More
      <3> QED  BY <1>1, <2>3, <2>4, Upward
    <2>6. g[n] = f[n] + s[k]
      BY <1>1, <1>7, <2>5
    <2> QED  BY <1>2, <2>1, <2>6
  <1> QED  BY <1>4, <1>5, <1>6, <1>7 DEF n

(***************************************************************************)
(* What is picked is a sequence of the same kind, as long as the set, with *)
(* the same members and the same sum.                                      *)
(***************************************************************************)
LEMMA PickFacts ==
    ASSUME NEW V, NEW s \in Seq(V), NEW S \in SUBSET (1..Len(s))
    PROVE  /\ IsFiniteSet(S) /\ Cardinality(S) \in Nat
           /\ Pick(s, S) \in Seq(V) /\ Len(Pick(s, S)) = Cardinality(S)
           /\ \A k \in 1..Cardinality(S) : Nth(S, k) \in S /\ Pick(s, S)[k] = s[Nth(S, k)]
           /\ \A i \in S : /\ Rank(S, i) \in 1..Cardinality(S)
                           /\ Pick(s, S)[Rank(S, i)] = s[i]
  <1>1. IsFiniteSet(S)
    <2>1. IsFiniteSet(1..Len(s))
      BY FS_Interval
    <2> QED  BY <2>1, FS_Subset
  <1>2. Cardinality(S) \in Nat /\ S \in SUBSET Int
    BY <1>1, FS_CardinalityType
  <1>3. \A k \in 1..Cardinality(S) : Nth(S, k) \in S
    BY <1>1, <1>2, NthFacts
  <1>4. \A k \in 1..Cardinality(S) : s[Nth(S, k)] \in V
    <2>1. \A i \in S : s[i] \in V
      OBVIOUS
    <2> QED  BY <1>3, <2>1
  <1>5. Pick(s, S) \in Seq(V) /\ Len(Pick(s, S)) = Cardinality(S)
    BY <1>2, <1>4 DEF Pick
  <1>6. \A i \in S : Rank(S, i) \in 1..Cardinality(S) /\ Nth(S, Rank(S, i)) = i
    BY <1>1, <1>2, NthFacts, RankFacts
  <1> QED  BY <1>1, <1>2, <1>3, <1>5, <1>6 DEF Pick

(***************************************************************************)
(* A rank grows by one with each number of the set.                        *)
(***************************************************************************)
LEMMA RankStep ==
    ASSUME NEW n \in Nat, NEW S \in SUBSET (1..n)
    PROVE  /\ Rank(S, 0) = 0 /\ Rank(S, n) = Cardinality(S)
           /\ \A i \in 0..n : Rank(S, i) \in 0..Cardinality(S)
           /\ \A i \in 1..n : /\ i \in S => Rank(S, i) = Rank(S, i - 1) + 1
                              /\ i \notin S => Rank(S, i) = Rank(S, i - 1)
  <1> DEFINE Below(i) == {j \in S : j <= i}
  <1>0. \A j \in S : j \in Int /\ 1 <= j /\ j <= n
    OBVIOUS
  <1>1. IsFiniteSet(S) /\ Cardinality(S) \in Nat
    <2>1. IsFiniteSet(1..n)
      BY FS_Interval
    <2> QED  BY <2>1, FS_Subset, FS_CardinalityType
  <1>2. \A i : /\ IsFiniteSet(Below(i)) /\ Cardinality(Below(i)) \in Nat
               /\ Cardinality(Below(i)) <= Cardinality(S)
    <2>1. \A i : Below(i) \in SUBSET S
      OBVIOUS
    <2> QED  BY <1>1, <2>1, FS_Subset, FS_CardinalityType
  <1>3. Rank(S, 0) = 0
    <2>0. \A j \in S : ~ (j <= 0)
      BY <1>0
    <2>1. Below(0) = {}
      BY <2>0
    <2> QED  BY <2>1, FS_EmptySet DEF Rank
  <1>4. Rank(S, n) = Cardinality(S)
    <2>1. Below(n) = S
      BY <1>0
    <2> QED  BY <2>1 DEF Rank
  <1>5. \A i \in 0..n : Rank(S, i) \in 0..Cardinality(S)
    BY <1>1, <1>2 DEF Rank
  <1>6. ASSUME NEW i \in 1..n, i \in S
        PROVE  Rank(S, i) = Rank(S, i - 1) + 1
    <2>0. \A j \in S : j <= i <=> (j <= i - 1 \/ j = i)
      BY <1>0
    <2>1. Below(i) = Below(i - 1) \cup {i} /\ i \notin Below(i - 1)
      <3>1. ~ (i <= i - 1)
        OBVIOUS
      <3> QED  BY <1>6, <2>0, <3>1
    <2>2. Cardinality(Below(i - 1) \cup {i}) = Cardinality(Below(i - 1)) + 1
      <3>1. IsFiniteSet(Below(i - 1)) /\ i \notin Below(i - 1)
        BY <1>2, <2>1
      <3> HIDE DEF Below
      <3> QED  BY <3>1, FS_AddElement, Zenon
    <2> QED  BY <2>1, <2>2 DEF Rank
  <1>7. ASSUME NEW i \in 1..n, i \notin S
        PROVE  Rank(S, i) = Rank(S, i - 1)
    <2>0. \A j \in S : j <= i <=> j <= i - 1
      BY <1>0, <1>7
    <2>1. Below(i) = Below(i - 1)
      BY <2>0
    <2> QED  BY <2>1 DEF Rank
  <1> QED  BY <1>3, <1>4, <1>5, <1>6, <1>7

LEMMA PickTotal ==
    ASSUME NEW s \in Seq(Nat), NEW S \in SUBSET (1..Len(s))
    PROVE  Total(Pick(s, S)) = TotalAt(s, S)
  <1> DEFINE n == Len(s)
             m == Cardinality(S)
             t == Pick(s, S)
  <1>1. /\ n \in Nat /\ n \in 0..n /\ m \in Nat /\ t \in Seq(Nat) /\ Len(t) = m
        /\ \A i \in 1..n : s[i] \in Nat
        /\ \A i \in S : Rank(S, i) \in 1..m /\ t[Rank(S, i)] = s[i]
    BY PickFacts
  <1>2. PICK f : Sums(f, s, S)
    BY TotalAtFacts
  <1>3. /\ f \in [0..n -> Nat] /\ f[0] = 0 /\ TotalAt(s, S) = f[n]
        /\ \A i \in 1..n : /\ i \in S => f[i] = f[i - 1] + s[i]
                           /\ i \notin S => f[i] = f[i - 1]
    BY <1>2 DEF Sums
  <1>4. PICK p \in [0..m -> Nat] :
          /\ p[0] = 0 /\ \A j \in 1..m : p[j] = p[j - 1] + t[j]
          /\ Total(t) = p[m]
    BY <1>1, TotalFacts
  <1>5. /\ Rank(S, 0) = 0 /\ Rank(S, n) = m
        /\ \A i \in 0..n : Rank(S, i) \in 0..m
        /\ \A i \in 1..n : /\ i \in S => Rank(S, i) = Rank(S, i - 1) + 1
                           /\ i \notin S => Rank(S, i) = Rank(S, i - 1)
    BY <1>1, RankStep
  <1>6. SUFFICES Total(t) = f[n]
    BY <1>3
  <1> HIDE DEF n, m, t
  <1> DEFINE Same == {i \in 0..n : f[i] = p[Rank(S, i)]}
  <1>7. 0 \in Same
    BY <1>1, <1>3, <1>4, <1>5
  <1>8. ASSUME NEW i \in 1..n, i - 1 \in Same
        PROVE  i \in Same
    <2>1. f[i - 1] = p[Rank(S, i - 1)] /\ i \in 0..n /\ i - 1 \in 0..n
      BY <1>1, <1>8
    <2>2. CASE i \notin S
      BY <1>3, <1>5, <2>1, <2>2
    <2>3. CASE i \in S
      <3>1. PICK j : j = Rank(S, i)
        OBVIOUS
      <3>2. j \in 1..m /\ t[j] = s[i] /\ Rank(S, i - 1) \in 0..m /\ j = Rank(S, i - 1) + 1
        BY <1>1, <1>5, <2>1, <2>3, <3>1
      <3>3. j - 1 = Rank(S, i - 1)
        BY <1>1, <3>2
      <3>4. p[j] = p[j - 1] + t[j]
        BY <1>4, <3>2
      <3> QED  BY <1>3, <2>1, <2>3, <3>1, <3>2, <3>3, <3>4
    <2> QED  BY <2>2, <2>3
  <1>9. 0..n \subseteq Same
    <2> HIDE DEF Same
    <2> QED  BY <1>1, <1>7, <1>8, Upward
  <1> QED  BY <1>1, <1>4, <1>5, <1>9

(***************************************************************************)
(* A number greater than all of a set is the last in order.                *)
(***************************************************************************)
LEMMA OrderFacts ==
    ASSUME NEW S \in SUBSET Int, IsFiniteSet(S)
    PROVE  /\ InOrder(S) \in Seq(S) /\ Len(InOrder(S)) = Cardinality(S)
           /\ \A m \in Int : (\A i \in S : i < m) => InOrder(S \cup {m}) = Append(InOrder(S), m)
  <1> DEFINE n == Cardinality(S)
  <1>1. n \in Nat /\ \A k \in 1..n : Nth(S, k) \in S /\ Rank(S, Nth(S, k)) = k
    BY NthFacts, RankFacts
  <1>2. InOrder(S) \in Seq(S) /\ Len(InOrder(S)) = n
    <2> HIDE DEF n
    <2>1. InOrder(S) \in [1..n -> S]
      BY <1>1 DEF InOrder, n
    <2> QED  BY <1>1, <2>1
  <1>3. ASSUME NEW m \in Int, \A i \in S : i < m
        PROVE  InOrder(S \cup {m}) = Append(InOrder(S), m)
    <2> DEFINE T == S \cup {m}
    <2>1. T \in SUBSET Int /\ IsFiniteSet(T) /\ m \notin S
      BY <1>3, FS_AddElement
    <2>2. Cardinality(T) = n + 1
      BY <2>1, FS_AddElement
    <2>3. \A i \in S : Rank(T, i) = Rank(S, i)
      <3> SUFFICES ASSUME NEW i \in S
                   PROVE  {j \in T : j <= i} = {j \in S : j <= i}
        BY DEF Rank
      <3>1. i \in Int /\ i < m
        BY <1>3
      <3> QED  BY <3>1
    <2>4. Rank(T, m) = n + 1
      <3>1. {j \in T : j <= m} = T
        <4>1. \A j \in T : j \in Int /\ j <= m
          BY <1>3
        <4> QED  BY <4>1
      <3> QED  BY <2>2, <3>1 DEF Rank
    <2>5. \A i \in T : Nth(T, Rank(T, i)) = i
      BY <2>1, NthFacts
    <2> HIDE DEF T, n
    <2>6. \A k \in 1..n : Nth(T, k) = Nth(S, k)
      <3>1. S \subseteq T
        BY DEF T
      <3> QED  BY <1>1, <2>3, <2>5, <3>1
    <2>7. Nth(T, n + 1) = m
      <3>1. m \in T
        BY DEF T
      <3> QED  BY <2>4, <2>5, <3>1
    <2>8. InOrder(T) = [k \in 1..(n + 1) |-> Nth(T, k)]
      BY <2>2 DEF InOrder
    <2>9. \A k \in 1..n : InOrder(S)[k] = Nth(S, k)
      BY DEF InOrder, n
    <2>10. InOrder(T) = Append(InOrder(S), m)
      <3>1. InOrder(S) \in Seq(Int) /\ n \in Nat /\ Len(InOrder(S)) = n
        <4>1. \A k \in 1..n : Nth(S, k) \in Int
          BY <1>1
        <4>2. InOrder(S) \in [1..n -> Int]
          BY <4>1 DEF InOrder, n
        <4> QED  BY <1>1, <1>2, <4>2
      <3>2. \A k \in 1..(n + 1) : k # n + 1 => k \in 1..n
        BY <3>1
      <3>3. \A k \in 1..(n + 1) : Nth(T, k) = IF k = n + 1 THEN m ELSE InOrder(S)[k]
        BY <2>6, <2>7, <2>9, <3>2
      <3>4. /\ Append(InOrder(S), m) \in Seq(Int) /\ Len(Append(InOrder(S), m)) = n + 1
            /\ \A k \in 1..(n + 1) :
                 Append(InOrder(S), m)[k] = IF k = n + 1 THEN m ELSE InOrder(S)[k]
        BY <3>1, <3>2, AppendProperties
      <3>5. Append(InOrder(S), m) = [k \in 1..(n + 1) |-> Append(InOrder(S), m)[k]]
        <4>1. Append(InOrder(S), m) \in [1..(n + 1) -> Int]
          BY <3>4, LenProperties
        <4> QED  BY <4>1
      <3> QED  BY <2>8, <3>3, <3>4, <3>5
    <2> QED  BY <2>10 DEF T
  <1> QED  BY <1>2, <1>3
===============================================================================
