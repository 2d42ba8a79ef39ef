-------------------------- MODULE RetrievalProofs --------------------------
(***************************************************************************)
(* Theorems about Retrieval, for any memories, graph, ranks, request and   *)
(* limits.  What the recursive definitions compute is proved by induction  *)
(* over sets of numbers.                                                   *)
(***************************************************************************)
EXTENDS Retrieval, FiniteSetTheorems, SequenceTheorems, WellFoundedInduction, TLAPS

-----------------------------------------------------------------------------
(* Numbers and recursion.                                                  *)

LEMMA Least == ASSUME NEW S \in SUBSET Nat, S # {} PROVE \E m \in S : \A n \in S : m <= n
<1> DEFINE Less == {ss \in Nat \X Nat : ss[1] < ss[2]}
<1>1. IsWellFoundedOn(Less, Nat)
  BY NatLessThanWellFounded DEF OpToRel
<1>2. \E m \in S : \A n \in S : ~ (<<n, m>> \in Less)
  <2> HIDE DEF Less
  <2> QED BY <1>1, WFMin
<1>3. \A n, m \in Nat : n < m => <<n, m>> \in Less
  OBVIOUS
<1> HIDE DEF Less
<1>4. PICK m \in S : \A n \in S : <<n, m>> \notin Less
  BY <1>2
<1>5. \A n \in S : ~(n < m)
  BY <1>3, <1>4
<1>6. \A n \in S : m <= n
  BY <1>5
<1> QED BY <1>6

\* Induction, with the numbers that have the property as a set.
LEMMA Steps ==
  ASSUME NEW N \in Nat, NEW S, 0 \in S, \A i \in 0..N : i \in S /\ i < N => i + 1 \in S
  PROVE  \A i \in 0..N : i \in S
<1> DEFINE T == {i \in 0..N : i \notin S}
<1> SUFFICES ASSUME T # {} PROVE FALSE
  OBVIOUS
<1>1. PICK m \in T : \A n \in T : m <= n
  <2>1. T \in SUBSET Nat
    OBVIOUS
  <2> HIDE DEF T
  <2> QED BY <2>1, Least
<1>2. m \in Nat /\ m # 0 /\ m <= N /\ m \notin S
  OBVIOUS
<1>3. m - 1 \in 0..N /\ m - 1 < N /\ (m - 1) + 1 = m
  BY <1>2
<1>4. m - 1 \notin T
  BY <1>1, <1>2, <1>3
<1>5. m - 1 \in S
  BY <1>3, <1>4
<1> QED BY <1>2, <1>3, <1>5

\* The functions that start with b and are defined step by step.
Stepwise(N, D, b, F) == {g \in [0..N -> D] : g[0] = b /\ \A i \in 1..N : g[i] = F[i][g[i - 1]]}

LEMMA Iterates ==
  ASSUME NEW N \in Nat, NEW D, NEW b \in D, NEW F \in [1..N -> [D -> D]]
  PROVE  Stepwise(N, D, b, F) # {}
<1> DEFINE Up(n) == {g \in [0..n -> D] : g[0] = b /\ \A i \in 1..n : g[i] = F[i][g[i - 1]]}
           S == {n \in 0..N : Up(n) # {}}
<1>1. 0 \in S
  <2>1. [i \in 0..0 |-> b] \in Up(0)
    OBVIOUS
  <2> QED BY <2>1
<1>2. ASSUME NEW n \in 0..N, n \in S, n < N PROVE n + 1 \in S
  <2>1. PICK g \in Up(n) : TRUE
    BY <1>2
  <2> DEFINE h == [i \in 0..(n + 1) |-> IF i = n + 1 THEN F[n + 1][g[n]] ELSE g[i]]
  <2>0. n \in Nat /\ n + 1 \in 1..N /\ n + 1 \in 0..N /\ n \in 0..n
    BY <1>2
  <2>2. g \in [0..n -> D] /\ g[0] = b /\ \A i \in 1..n : g[i] = F[i][g[i - 1]]
    OBVIOUS
  <2>3. F[n + 1][g[n]] \in D
    BY <2>0, <2>2
  <2>4. \A i \in 0..(n + 1) : i # n + 1 => i \in 0..n
    BY <2>0
  <2>5. h \in [0..(n + 1) -> D]
    BY <2>2, <2>3, <2>4
  <2>6. h[0] = b
    BY <2>0, <2>2
  <2>7. ASSUME NEW i \in 1..(n + 1) PROVE h[i] = F[i][h[i - 1]]
    <3>1. CASE i = n + 1
      <4>1. h[i] = F[n + 1][g[n]] /\ i - 1 = n /\ h[n] = g[n]
        BY <2>0, <3>1
      <4> QED BY <3>1, <4>1
    <3>2. CASE i # n + 1
      <4>1. i \in 1..n /\ i - 1 \in 0..n /\ i - 1 # n + 1 /\ i \in 0..(n + 1) /\ i - 1 \in 0..(n + 1)
        BY <2>0, <3>2
      <4>2. h[i] = g[i] /\ h[i - 1] = g[i - 1]
        BY <3>2, <4>1
      <4> QED BY <2>2, <4>1, <4>2
    <3> QED BY <3>1, <3>2
  <2>8. h \in Up(n + 1)
    <3> HIDE DEF h
    <3> QED BY <2>5, <2>6, <2>7
  <2> QED BY <2>0, <2>8
<1>3. N \in S
  <2> HIDE DEF S
  <2>1. \A i \in 0..N : i \in S
    BY <1>1, <1>2, Steps
  <2> QED BY <2>1
<1> QED BY <1>3 DEF Stepwise

TotalOrder(I, R) ==
  /\ \A i \in I : <<i, i>> \notin R
  /\ \A i, j, k \in I : <<i, j>> \in R /\ <<j, k>> \in R => <<i, k>> \in R
  /\ \A i, j \in I : i # j => <<i, j>> \in R \/ <<j, i>> \in R

Placed(I, R, rank) ==
  /\ Cardinality(I) \in Nat
  /\ \A j \in I : rank[j] \in 0..(Cardinality(I) - 1)
  /\ \A i, j \in I : rank[i] < rank[j] => <<i, j>> \in R
  /\ \A i, j \in I : rank[i] = rank[j] => i = j
  /\ \A n \in 1..Cardinality(I) : \E j \in I : rank[j] = n - 1

Ranks(I, R) == [j \in I |-> Cardinality({i \in I : <<i, j>> \in R})]

\* Of a finite set in a total order, each place is taken by one element.
LEMMA Ranked ==
  ASSUME NEW I, IsFiniteSet(I), NEW R, TotalOrder(I, R)
  PROVE  Placed(I, R, Ranks(I, R))
<1> DEFINE rank == Ranks(I, R)
<1> USE DEF TotalOrder, Ranks
<1> DEFINE Below(j) == {i \in I : <<i, j>> \in R}
           C == Cardinality(I)
<1>1. C \in Nat
  BY FS_CardinalityType
<1>2. ASSUME NEW j \in I
      PROVE  /\ IsFiniteSet(Below(j)) /\ rank[j] = Cardinality(Below(j)) /\ rank[j] \in Nat
             /\ rank[j] \in 0..(C - 1)
  <2>1. Below(j) \subseteq I \ {j} /\ Below(j) \subseteq I
    OBVIOUS
  <2>2. IsFiniteSet(I \ {j}) /\ Cardinality(I \ {j}) = C - 1
    BY FS_RemoveElement
  <2>5. rank[j] = Cardinality(Below(j))
    OBVIOUS
  <2> HIDE DEF Below, C
  <2>3. IsFiniteSet(Below(j)) /\ Cardinality(Below(j)) <= C - 1
    BY <2>1, <2>2, FS_Subset
  <2>4. Cardinality(Below(j)) \in Nat
    BY <2>3, FS_CardinalityType
  <2> QED BY <1>1, <2>3, <2>4, <2>5
<1>3. ASSUME NEW i \in I, NEW j \in I, <<i, j>> \in R
      PROVE  rank[i] < rank[j]
  <2>1. Below(i) \subseteq Below(j) /\ i \in Below(j) /\ i \notin Below(i)
    BY <1>3
  <2>2. Cardinality(Below(i)) <= Cardinality(Below(j)) /\ Cardinality(Below(i)) # Cardinality(Below(j))
    BY <1>2, <2>1, FS_Subset
  <2>3. /\ rank[i] = Cardinality(Below(i)) /\ rank[j] = Cardinality(Below(j))
        /\ rank[i] \in Nat /\ rank[j] \in Nat
    BY <1>2
  <2> HIDE DEF Below
  <2> QED BY <2>2, <2>3
<1>0. rank = Ranks(I, R) /\ rank = [j \in I |-> rank[j]]
  OBVIOUS
<1> HIDE DEF rank, Ranks
<1>4. \A i, j \in I : rank[i] < rank[j] => <<i, j>> \in R
  <2> SUFFICES ASSUME NEW i \in I, NEW j \in I, rank[i] < rank[j] PROVE <<i, j>> \in R
    OBVIOUS
  <2>0. rank[i] \in Nat /\ rank[j] \in Nat
    BY <1>2
  <2>1. i # j /\ ~(rank[j] < rank[i])
    BY <2>0
  <2> QED BY <1>3, <2>1
<1>5. \A i, j \in I : rank[i] = rank[j] => i = j
  <2> SUFFICES ASSUME NEW i \in I, NEW j \in I, rank[i] = rank[j], i # j PROVE FALSE
    OBVIOUS
  <2>0. rank[i] \in Nat /\ rank[j] \in Nat
    BY <1>2
  <2>1. ~(rank[i] < rank[j]) /\ ~(rank[j] < rank[i])
    BY <2>0
  <2> QED BY <1>3, <2>1
<1>6. \A n \in 1..C : \E j \in I : rank[j] = n - 1
  <2>1. rank \in Injection(I, 0..(C - 1))
    <3>1. rank \in [I -> 0..(C - 1)]
      BY <1>0, <1>2
    <3> QED BY <1>5, <3>1 DEF Injection, IsInjective
  <2>2. IsFiniteSet(0..(C - 1)) /\ Cardinality(0..(C - 1)) = C
    <3>1. 0 \in Int /\ C - 1 \in Int /\ (0 > C - 1 => C = 0) /\ (C - 1) - 0 + 1 = C
      BY <1>1
    <3> QED BY <3>1, FS_Interval
  <2> HIDE DEF C
  <2>3. rank \in Surjection(I, 0..(C - 1))
    BY <2>1, <2>2, FS_Injection DEF C
  <2>4. ASSUME NEW n \in 1..C PROVE \E j \in I : rank[j] = n - 1
    <3>1. n - 1 \in 0..(C - 1)
      BY <1>1
    <3> QED BY <2>3, <3>1 DEF Surjection
  <2> QED BY <2>4
<1> QED BY <1>0, <1>1, <1>2, <1>4, <1>5, <1>6 DEF Placed

-----------------------------------------------------------------------------
(* Lists.                                                                  *)

\* k is made of the elements of s at the growing positions whose element is in S.
Picks(s, S, k) ==
  \E pos \in [1..Len(k) -> 1..Len(s)] :
    /\ \A n \in 1..Len(k) : k[n] = s[pos[n]] /\ k[n] \in S
    /\ \A m, n \in 1..Len(k) : m < n => pos[m] < pos[n]
    /\ \A i \in 1..Len(s) : s[i] \in S => \E n \in 1..Len(k) : pos[n] = i

\* A list that is filtered keeps its order and what is in the filter.
LEMMA KeptIs ==
  ASSUME NEW M, NEW s \in Seq(M), NEW S
  PROVE  Kept(s, S) \in Seq(M) /\ Picks(s, S, Kept(s, S))
<1> DEFINE I == {i \in DOMAIN s : s[i] \in S}
           R == {x \in I \X I : x[1] < x[2]}
           rank == Ranks(I, R)
           k == Kept(s, S)
           C == Cardinality(I)
           pos == [n \in 1..C |-> CHOOSE j \in I : Cardinality({i \in I : i < j}) = n - 1]
<1>0. Len(s) \in Nat /\ DOMAIN s = 1..Len(s)
  OBVIOUS
<1>1. IsFiniteSet(I) /\ I \subseteq 1..Len(s) /\ \A i \in I : i \in Nat
  <2>1. IsFiniteSet(1..Len(s))
    BY <1>0, FS_Interval
  <2>2. I \subseteq 1..Len(s)
    BY <1>0
  <2>3. \A i \in I : i \in Nat
    BY <1>0
  <2> HIDE DEF I
  <2>4. IsFiniteSet(I)
    BY <2>1, <2>2, FS_Subset
  <2> QED BY <2>2, <2>3, <2>4
<1>2. \A i, j \in I : <<i, j>> \in R <=> i < j
  OBVIOUS
<1>3. \A j \in I : rank[j] = Cardinality({i \in I : i < j})
  <2> SUFFICES ASSUME NEW j \in I PROVE rank[j] = Cardinality({i \in I : i < j})
    OBVIOUS
  <2>1. {i \in I : <<i, j>> \in R} = {i \in I : i < j}
    BY <1>2
  <2> QED BY <2>1 DEF Ranks
<1>4. /\ C \in Nat
      /\ \A i, j \in I : rank[i] < rank[j] => <<i, j>> \in R
      /\ \A i, j \in I : rank[i] = rank[j] => i = j
      /\ \A n \in 1..C : \E j \in I : rank[j] = n - 1
      /\ \A j \in I : rank[j] \in 0..(C - 1)
  <2>1. \A i \in I : <<i, i>> \notin R
    BY <1>1, <1>2
  <2>2. \A i, j, h \in I : <<i, j>> \in R /\ <<j, h>> \in R => <<i, h>> \in R
    BY <1>1, <1>2
  <2>3. \A i, j \in I : i # j => <<i, j>> \in R \/ <<j, i>> \in R
    BY <1>1, <1>2
  <2>4. IsFiniteSet(I)
    BY <1>1
  <2> HIDE DEF I, R
  <2>5. TotalOrder(I, R)
    BY <2>1, <2>2, <2>3 DEF TotalOrder
  <2>6. Placed(I, R, rank)
    BY <2>4, <2>5, Ranked
  <2> QED BY <2>6 DEF Placed
<1> HIDE DEF R, rank
<1>5. ASSUME NEW n \in 1..C
      PROVE  pos[n] \in I /\ rank[pos[n]] = n - 1
  <2>1. \E j \in I : Cardinality({i \in I : i < j}) = n - 1
    BY <1>3, <1>4
  <2>2. pos[n] = CHOOSE j \in I : Cardinality({i \in I : i < j}) = n - 1
    OBVIOUS
  <2> HIDE DEF pos, I, C
  <2>3. pos[n] \in I /\ Cardinality({i \in I : i < pos[n]}) = n - 1
    BY <2>1, <2>2
  <2> QED BY <1>3, <2>3
<1>6. k = [n \in 1..C |-> s[pos[n]]]
  BY DEF Kept
<1> HIDE DEF pos, C
<1>7. k \in Seq(M) /\ Len(k) = C /\ \A n \in 1..C : k[n] = s[pos[n]] /\ k[n] \in S /\ pos[n] \in 1..Len(s)
  BY <1>0, <1>4, <1>5, <1>6
<1>8. pos \in [1..C -> 1..Len(s)]
  BY <1>7 DEF pos
<1>9. ASSUME NEW m \in 1..C, NEW n \in 1..C, m < n PROVE pos[m] < pos[n]
  <2>1. rank[pos[m]] < rank[pos[n]]
    BY <1>4, <1>5, <1>9
  <2> QED BY <1>2, <1>4, <1>5, <2>1
<1>10. ASSUME NEW i \in 1..Len(s), s[i] \in S PROVE \E n \in 1..C : pos[n] = i
  <2>1. i \in I
    BY <1>0, <1>10
  <2>2. rank[i] \in 0..(C - 1) /\ rank[i] + 1 \in 1..C /\ (rank[i] + 1) - 1 = rank[i]
    BY <1>4, <2>1
  <2>3. rank[pos[rank[i] + 1]] = rank[i] /\ pos[rank[i] + 1] \in I
    BY <1>5, <2>2
  <2>4. pos[rank[i] + 1] = i
    BY <1>4, <2>1, <2>3
  <2> QED BY <2>2, <2>4
<1> HIDE DEF I, k
<1>11. /\ pos \in [1..Len(k) -> 1..Len(s)]
       /\ \A n \in 1..Len(k) : k[n] = s[pos[n]] /\ k[n] \in S
       /\ \A m, n \in 1..Len(k) : m < n => pos[m] < pos[n]
       /\ \A i \in 1..Len(s) : s[i] \in S => \E n \in 1..Len(k) : pos[n] = i
  BY <1>7, <1>8, <1>9, <1>10
<1>12. Picks(s, S, k)
  BY <1>11 DEF Picks
<1> QED BY <1>7, <1>12 DEF k

LEMMA KeptFacts ==
  ASSUME NEW M, NEW s \in Seq(M), NEW S
  PROVE  /\ Kept(s, S) \in Seq(M) /\ Range(Kept(s, S)) = Range(s) \cap S
         /\ IsInjective(s) => IsInjective(Kept(s, S))
<1> DEFINE k == Kept(s, S)
<1>1. k \in Seq(M) /\ Picks(s, S, k)
  BY KeptIs
<1> HIDE DEF k
<1>2. PICK pos \in [1..Len(k) -> 1..Len(s)] :
              /\ \A n \in 1..Len(k) : k[n] = s[pos[n]] /\ k[n] \in S
              /\ \A m, n \in 1..Len(k) : m < n => pos[m] < pos[n]
              /\ \A i \in 1..Len(s) : s[i] \in S => \E n \in 1..Len(k) : pos[n] = i
  BY <1>1 DEF Picks
<1>3. DOMAIN k = 1..Len(k) /\ DOMAIN s = 1..Len(s) /\ Len(k) \in Nat /\ Len(s) \in Nat
  BY <1>1
<1>4. Range(k) \subseteq Range(s) \cap S
  BY <1>2, <1>3 DEF Range
<1>5. Range(s) \cap S \subseteq Range(k)
  BY <1>2, <1>3 DEF Range
<1>6. ASSUME IsInjective(s), NEW m \in 1..Len(k), NEW n \in 1..Len(k), k[m] = k[n] PROVE m = n
  <2>1. pos[m] = pos[n]
    BY <1>2, <1>3, <1>6 DEF IsInjective
  <2>2. ~(m < n) /\ ~(n < m)
    BY <1>2, <1>3, <2>1
  <2> QED BY <1>3, <2>2
<1> QED BY <1>1, <1>3, <1>4, <1>5, <1>6 DEF IsInjective, k

\* The beginning of a list.
LEMMA FirstFacts ==
  ASSUME NEW M, NEW s \in Seq(M), NEW n \in Nat
  PROVE  /\ First(n, s) \in Seq(M) /\ Len(First(n, s)) \in Nat
         /\ Len(First(n, s)) = IF n < Len(s) THEN n ELSE Len(s)
         /\ \A i \in 1..Len(First(n, s)) : i \in 1..Len(s) /\ First(n, s)[i] = s[i]
         /\ n >= Len(s) => First(n, s) = s
         /\ Range(First(n, s)) \subseteq Range(s)
         /\ IsInjective(s) => IsInjective(First(n, s))
<1> DEFINE f == First(n, s)
           c == IF n < Len(s) THEN n ELSE Len(s)
<1>1. Len(s) \in Nat /\ DOMAIN s = 1..Len(s) /\ c \in Nat /\ c <= Len(s)
  OBVIOUS
<1>2. f = SubSeq(s, 1, c)
  BY DEF First
<1>3. f \in Seq(M) /\ Len(f) = c /\ \A i \in 1..c : f[i] = s[i]
  BY <1>1, <1>2
<1> HIDE DEF f
<1>4. DOMAIN f = 1..c
  BY <1>3
<1>5. ASSUME n >= Len(s) PROVE f = s
  <2>0. \A x \in Nat : n >= x => (IF n < x THEN n ELSE x) = x
    OBVIOUS
  <2>1. c = Len(s)
    BY <1>1, <1>5, <2>0
  <2> QED BY <1>1, <1>3, <2>1, SeqEqual
<1>6. Range(f) \subseteq Range(s)
  BY <1>1, <1>3, <1>4 DEF Range
<1>7. IsInjective(s) => IsInjective(f)
  BY <1>1, <1>3, <1>4 DEF IsInjective
<1> QED BY <1>1, <1>3, <1>5, <1>6, <1>7 DEF f

-----------------------------------------------------------------------------
(* The order of the answer.                                                *)

\* t is s, the highest score first and equals in the order they had.
Arranged(s, t) ==
  /\ Len(t) = Len(s)
  /\ \E pos \in [1..Len(s) -> 1..Len(s)] :
       /\ \A n \in 1..Len(s) : t[n] = s[pos[n]]
       /\ \A m, n \in 1..Len(s) : pos[m] = pos[n] => m = n
       /\ \A i \in 1..Len(s) : \E n \in 1..Len(s) : pos[n] = i
       /\ \A m, n \in 1..Len(s) : m < n =>
            Score(t[m]) > Score(t[n]) \/ (Score(t[m]) = Score(t[n]) /\ pos[m] < pos[n])

LEMMA SortedIs ==
  ASSUME NEW s \in Seq(Memories), \A m \in Memories : Score(m) \in Int
  PROVE  Sorted(s) \in Seq(Memories) /\ Arranged(s, Sorted(s))
<1> DEFINE D == DOMAIN s
           Above(i, j) == Score(s[i]) > Score(s[j]) \/ (Score(s[i]) = Score(s[j]) /\ i < j)
           R == {x \in D \X D : Above(x[1], x[2])}
           rank == Ranks(D, R)
           t == Sorted(s)
           pos == [n \in 1..Len(s) |-> CHOOSE j \in D : Cardinality({i \in D : Above(i, j)}) = n - 1]
<1>0. Len(s) \in Nat /\ D = 1..Len(s) /\ \A i \in D : s[i] \in Memories /\ Score(s[i]) \in Int /\ i \in Nat
  OBVIOUS
<1>1. IsFiniteSet(D) /\ Cardinality(D) = Len(s)
  <2>1. 1 \in Int /\ Len(s) \in Int /\ (1 > Len(s) => Len(s) = 0) /\ Len(s) - 1 + 1 = Len(s)
    BY <1>0
  <2> HIDE DEF D
  <2> QED BY <1>0, <2>1, FS_Interval
<1>2. \A i, j \in D : <<i, j>> \in R <=> Above(i, j)
  OBVIOUS
<1>3. \A j \in D : rank[j] = Cardinality({i \in D : Above(i, j)})
  <2> SUFFICES ASSUME NEW j \in D PROVE rank[j] = Cardinality({i \in D : Above(i, j)})
    OBVIOUS
  <2>1. {i \in D : <<i, j>> \in R} = {i \in D : Above(i, j)}
    BY <1>2
  <2> QED BY <2>1 DEF Ranks
<1>4. TotalOrder(D, R)
  <2>1. \A i \in D : Score(s[i]) \in Int /\ i \in Nat
    BY <1>0
  <2> DEFINE sc(i) == Score(s[i])
  <2>2. \A i \in D : sc(i) \in Int /\ i \in Nat
    BY <2>1
  <2>3. \A i, j \in D : <<i, j>> \in R <=> sc(i) > sc(j) \/ (sc(i) = sc(j) /\ i < j)
    BY <1>2
  <2> HIDE DEF D, R, sc
  <2>4. \A i \in D : <<i, i>> \notin R
    BY <2>2, <2>3
  <2>5. \A i, j, k \in D : <<i, j>> \in R /\ <<j, k>> \in R => <<i, k>> \in R
    BY <2>2, <2>3
  <2>6. \A i, j \in D : i # j => <<i, j>> \in R \/ <<j, i>> \in R
    BY <2>2, <2>3
  <2> QED BY <2>4, <2>5, <2>6 DEF TotalOrder
<1>5. Placed(D, R, rank)
  <2> HIDE DEF D, R
  <2> QED BY <1>1, <1>4, Ranked
<1> HIDE DEF D, R, rank, Above
<1>6. /\ \A i, j \in D : rank[i] < rank[j] => <<i, j>> \in R
      /\ \A i, j \in D : rank[i] = rank[j] => i = j
      /\ \A n \in 1..Len(s) : \E j \in D : rank[j] = n - 1
      /\ \A j \in D : rank[j] \in 0..(Len(s) - 1)
  BY <1>1, <1>5 DEF Placed
<1>7. ASSUME NEW n \in 1..Len(s)
      PROVE  pos[n] \in D /\ rank[pos[n]] = n - 1
  <2>1. \E j \in D : Cardinality({i \in D : Above(i, j)}) = n - 1
    BY <1>3, <1>6
  <2>2. pos[n] = CHOOSE j \in D : Cardinality({i \in D : Above(i, j)}) = n - 1
    OBVIOUS
  <2> HIDE DEF pos
  <2>3. pos[n] \in D /\ Cardinality({i \in D : Above(i, pos[n])}) = n - 1
    BY <2>1, <2>2
  <2> QED BY <1>3, <2>3
<1>8. t = [n \in 1..Len(s) |-> s[pos[n]]]
  BY <1>0 DEF Sorted, D, Above
<1> HIDE DEF pos, t
<1>10. pos \in [1..Len(s) -> 1..Len(s)]
  BY <1>0, <1>7 DEF pos
<1>9. t \in Seq(Memories) /\ Len(t) = Len(s) /\ \A n \in 1..Len(s) : t[n] = s[pos[n]]
  <2>1. s \in [1..Len(s) -> Memories] /\ Len(s) \in Nat
    OBVIOUS
  <2>2. \A n \in 1..Len(s) : pos[n] \in 1..Len(s)
    BY <1>10
  <2>3. t \in [1..Len(s) -> Memories]
    BY <1>8, <2>1, <2>2
  <2> QED BY <1>8, <2>1, <2>3
<1>11. \A m, n \in 1..Len(s) : pos[m] = pos[n] => m = n
  <2> SUFFICES ASSUME NEW m \in 1..Len(s), NEW n \in 1..Len(s), pos[m] = pos[n] PROVE m = n
    OBVIOUS
  <2>1. m - 1 = n - 1
    BY <1>7
  <2> QED BY <2>1
<1>12. ASSUME NEW i \in 1..Len(s) PROVE \E n \in 1..Len(s) : pos[n] = i
  <2>0. i \in D /\ Len(s) \in Nat
    BY <1>0
  <2>3. rank[i] \in 0..(Len(s) - 1)
    BY <1>6, <2>0
  <2>1. rank[i] + 1 \in 1..Len(s) /\ (rank[i] + 1) - 1 = rank[i]
    BY <2>0, <2>3
  <2>2. pos[rank[i] + 1] \in D /\ rank[pos[rank[i] + 1]] = rank[i]
    BY <1>7, <2>1
  <2>4. pos[rank[i] + 1] = i
    BY <1>6, <2>0, <2>2
  <2> QED BY <2>1, <2>4
<1>13. ASSUME NEW m \in 1..Len(s), NEW n \in 1..Len(s), m < n
       PROVE  Score(t[m]) > Score(t[n]) \/ (Score(t[m]) = Score(t[n]) /\ pos[m] < pos[n])
  <2>1. rank[pos[m]] < rank[pos[n]] /\ pos[m] \in D /\ pos[n] \in D
    BY <1>7, <1>13
  <2>2. Above(pos[m], pos[n])
    BY <1>2, <1>6, <2>1
  <2> QED BY <1>9, <2>2 DEF Above
<1>14. Arranged(s, t)
  BY <1>9, <1>10, <1>11, <1>12, <1>13 DEF Arranged
<1> QED BY <1>9, <1>14 DEF t

LEMMA SortedFacts ==
  ASSUME NEW s \in Seq(Memories), NEW t \in Seq(Memories), Arranged(s, t)
  PROVE  /\ Range(t) = Range(s)
         /\ IsInjective(s) => IsInjective(t)
<1>1. PICK pos \in [1..Len(s) -> 1..Len(s)] :
       /\ \A n \in 1..Len(s) : t[n] = s[pos[n]]
       /\ \A m, n \in 1..Len(s) : pos[m] = pos[n] => m = n
       /\ \A i \in 1..Len(s) : \E n \in 1..Len(s) : pos[n] = i
  BY DEF Arranged
<1>2. Len(s) \in Nat /\ DOMAIN s = 1..Len(s) /\ DOMAIN t = 1..Len(s)
  BY DEF Arranged
<1>3. Range(t) \subseteq Range(s) /\ Range(s) \subseteq Range(t)
  <2>1. Range(t) \subseteq Range(s)
    BY <1>1, <1>2 DEF Range
  <2>2. ASSUME NEW i \in 1..Len(s) PROVE s[i] \in Range(t)
    <3>1. PICK n \in 1..Len(s) : pos[n] = i
      BY <1>1
    <3>2. t[n] = s[i]
      BY <1>1, <3>1
    <3> QED BY <1>2, <3>2 DEF Range
  <2> QED BY <1>2, <2>1, <2>2 DEF Range
<1>4. IsInjective(s) => IsInjective(t)
  BY <1>1, <1>2 DEF IsInjective
<1> QED BY <1>3, <1>4

\* n comes before m.
Precedes(s, n, m) == \E i, j \in DOMAIN s : i < j /\ s[i] = n /\ s[j] = m

LEMMA ConcatFacts ==
  ASSUME NEW M, NEW a \in Seq(M), NEW b \in Seq(M)
  PROVE  /\ a \o b \in Seq(M) /\ Range(a \o b) = Range(a) \cup Range(b)
         /\ IsInjective(a) /\ IsInjective(b) /\ Range(a) \cap Range(b) = {} => IsInjective(a \o b)
         /\ \A n, m \in M : Precedes(a, n, m) \/ Precedes(b, n, m) \/ (n \in Range(a) /\ m \in Range(b))
              => Precedes(a \o b, n, m)
<1> DEFINE c == a \o b
           A == Len(a)
           B == Len(b)
<1>1. /\ c \in Seq(M) /\ Len(c) = A + B /\ A \in Nat /\ B \in Nat
      /\ DOMAIN a = 1..A /\ DOMAIN b = 1..B /\ DOMAIN c = 1..(A + B)
      /\ \A i \in 1..A : c[i] = a[i]
  BY ConcatProperties
<1>2. \A i \in 1..(A + B) : i > A => c[i] = b[i - A]
  BY ConcatProperties
<1> HIDE DEF c, A, B
<1>3. \A i \in 1..B : A + i \in 1..(A + B) /\ c[A + i] = b[i]
  <2>1. \A i \in 1..B : A + i \in 1..(A + B) /\ A + i > A /\ (A + i) - A = i
    BY <1>1
  <2> QED BY <1>2, <2>1
<1>4. \A i \in 1..A : i \in 1..(A + B)
  BY <1>1
<1>5. \A i \in 1..(A + B) : i \in 1..A \/ (i - A \in 1..B /\ c[i] = b[i - A])
  <2>1. \A i \in 1..(A + B) : i \in 1..A \/ (i - A \in 1..B /\ i > A)
    BY <1>1
  <2> QED BY <1>2, <2>1
<1>6. Range(c) \subseteq Range(a) \cup Range(b)
  <2> SUFFICES ASSUME NEW i \in 1..(A + B) PROVE c[i] \in Range(a) \cup Range(b)
    BY <1>1 DEF Range
  <2> QED BY <1>1, <1>5 DEF Range
<1>7. Range(a) \subseteq Range(c)
  BY <1>1, <1>4 DEF Range
<1>8. Range(b) \subseteq Range(c)
  <2> SUFFICES ASSUME NEW i \in 1..B PROVE b[i] \in Range(c)
    BY <1>1 DEF Range
  <2>1. A + i \in DOMAIN c /\ c[A + i] = b[i]
    BY <1>1, <1>3
  <2> QED BY <2>1 DEF Range
<1>9. ASSUME IsInjective(a), IsInjective(b), Range(a) \cap Range(b) = {} PROVE IsInjective(c)
  <2> SUFFICES ASSUME NEW i \in 1..(A + B), NEW j \in 1..(A + B), c[i] = c[j] PROVE i = j
    BY <1>1 DEF IsInjective
  <2>1. CASE i \in 1..A /\ j \in 1..A
    BY <1>1, <1>9, <2>1 DEF IsInjective
  <2>2. CASE i \notin 1..A /\ j \notin 1..A
    <3>1. i - A \in 1..B /\ j - A \in 1..B /\ b[i - A] = b[j - A]
      BY <1>5, <2>2
    <3>2. i - A = j - A
      BY <1>1, <1>9, <3>1 DEF IsInjective
    <3> QED BY <1>1, <3>2
  <2>3. CASE i \in 1..A /\ j \notin 1..A
    <3>1. c[i] \in Range(a) /\ j - A \in 1..B /\ c[j] = b[j - A]
      BY <1>1, <1>5, <2>3 DEF Range
    <3>2. c[j] \in Range(b)
      BY <1>1, <3>1 DEF Range
    <3> QED BY <1>9, <3>1, <3>2
  <2>4. CASE i \notin 1..A /\ j \in 1..A
    <3>1. c[j] \in Range(a) /\ i - A \in 1..B /\ c[i] = b[i - A]
      BY <1>1, <1>5, <2>4 DEF Range
    <3>2. c[i] \in Range(b)
      BY <1>1, <3>1 DEF Range
    <3> QED BY <1>9, <3>1, <3>2
  <2> QED BY <2>1, <2>2, <2>3, <2>4
<1>10. ASSUME NEW n \in M, NEW m \in M,
              Precedes(a, n, m) \/ Precedes(b, n, m) \/ (n \in Range(a) /\ m \in Range(b))
       PROVE  Precedes(c, n, m)
  <2>1. CASE Precedes(a, n, m)
    BY <1>1, <1>4, <2>1 DEF Precedes
  <2>2. CASE Precedes(b, n, m)
    <3>1. PICK i, j \in 1..B : i < j /\ b[i] = n /\ b[j] = m
      BY <1>1, <2>2 DEF Precedes
    <3>2. A + i \in DOMAIN c /\ A + j \in DOMAIN c /\ A + i < A + j /\ c[A + i] = n /\ c[A + j] = m
      BY <1>1, <1>3, <3>1
    <3> QED BY <3>2 DEF Precedes
  <2>3. CASE n \in Range(a) /\ m \in Range(b)
    <3>1. PICK i \in 1..A : a[i] = n
      BY <1>1, <2>3 DEF Range
    <3>2. PICK j \in 1..B : b[j] = m
      BY <1>1, <2>3 DEF Range
    <3>3. i \in DOMAIN c /\ A + j \in DOMAIN c /\ i < A + j /\ c[i] = n /\ c[A + j] = m
      BY <1>1, <1>3, <1>4, <3>1, <3>2
    <3> QED BY <3>3 DEF Precedes
  <2> QED BY <1>10, <2>1, <2>2, <2>3
<1> QED BY <1>1, <1>6, <1>7, <1>8, <1>9, <1>10 DEF c

LEMMA KeptPrecedes ==
  ASSUME NEW M, NEW s \in Seq(M), NEW S, NEW n \in S, NEW m \in S, Precedes(s, n, m)
  PROVE  Precedes(Kept(s, S), n, m)
<1> DEFINE k == Kept(s, S)
<1>1. k \in Seq(M) /\ Picks(s, S, k)
  BY KeptIs
<1> HIDE DEF k
<1>2. PICK pos \in [1..Len(k) -> 1..Len(s)] :
         /\ \A i \in 1..Len(k) : k[i] = s[pos[i]] /\ k[i] \in S
         /\ \A i, j \in 1..Len(k) : i < j => pos[i] < pos[j]
         /\ \A i \in 1..Len(s) : s[i] \in S => \E j \in 1..Len(k) : pos[j] = i
  BY <1>1 DEF Picks
<1>3. DOMAIN k = 1..Len(k) /\ DOMAIN s = 1..Len(s) /\ Len(k) \in Nat /\ Len(s) \in Nat
  BY <1>1
<1>4. PICK i, j \in 1..Len(s) : i < j /\ s[i] = n /\ s[j] = m
  BY <1>3 DEF Precedes
<1>5. PICK p \in 1..Len(k) : pos[p] = i
  BY <1>2, <1>4
<1>6. PICK q \in 1..Len(k) : pos[q] = j
  BY <1>2, <1>4
<1>7. k[p] = n /\ k[q] = m
  BY <1>2, <1>4, <1>5, <1>6
<1>8. p < q
  <2>1. p \in Int /\ q \in Int /\ i \in Int /\ j \in Int /\ p # q
    BY <1>3, <1>4, <1>5, <1>6
  <2>2. ~(q < p)
    BY <1>2, <1>4, <1>5, <1>6, <2>1
  <2> QED BY <2>1, <2>2
<1>9. Precedes(k, n, m)
  BY <1>3, <1>7, <1>8 DEF Precedes
<1> QED BY <1>9 DEF k

LEMMA Quotients ==
  ASSUME NEW U \in Nat, NEW a \in Nat, NEW b \in Nat, 0 < a, a <= b
  PROVE  U \div a \in Nat /\ U \div b \in Nat /\ U \div b <= U \div a
<1>1. \A x \in Nat : 0 < x => U \div x \in Nat /\ x * (U \div x) <= U /\ U < x * (U \div x) + x
  OBVIOUS
<1>2. PICK p \in Nat : p = U \div a
  BY <1>1
<1>3. PICK q \in Nat : q = U \div b
  BY <1>1
<1>4. b * q <= U /\ U < a * p + a
  BY <1>1, <1>2, <1>3
<1>5. ASSUME p < q PROVE FALSE
  <2>1. a * (p + 1) <= a * q
    BY <1>5
  <2>2. a * q <= b * q
    OBVIOUS
  <2>3. a * (p + 1) = a * p + a
    OBVIOUS
  <2> QED BY <1>4, <2>1, <2>2, <2>3
<1> QED BY <1>2, <1>3, <1>5

LEMMA Scale == \A c, x, y \in Nat : x <= y => c * x <= c * y
  OBVIOUS

\* What one source adds: nothing, or a share of its place.
LEMMA ShareIs ==
  ASSUME NEW s \in Seq(Memories), IsInjective(s), NEW m, NEW w \in Nat
  PROVE  /\ Share(w, m, s) \in Nat
         /\ m \notin Range(s) => Share(w, m, s) = 0
         /\ \A p \in DOMAIN s : s[p] = m => Share(w, m, s) = w * (Unit \div (RrfK + p))
<1>1. Len(s) \in Nat /\ DOMAIN s = 1..Len(s)
  OBVIOUS
<1>2. CASE m \notin Range(s)
  <2>1. {j \in DOMAIN s : s[j] = m} = {}
    BY <1>2 DEF Range
  <2>2. Share(w, m, s) = 0
    BY <2>1 DEF Share
  <2> QED BY <1>2, <2>2 DEF Range
<1>3. ASSUME NEW p \in DOMAIN s, s[p] = m
      PROVE  Share(w, m, s) = w * (Unit \div (RrfK + p)) /\ Share(w, m, s) \in Nat
  <2>1. {j \in DOMAIN s : s[j] = m} = {p}
    BY <1>3 DEF IsInjective
  <2>2. (CHOOSE j \in {p} : TRUE) = p
    OBVIOUS
  <2>3. Share(w, m, s) = w * (Unit \div (RrfK + p))
    BY <2>1, <2>2 DEF Share
  <2>4. RrfK + p \in Nat /\ 0 < RrfK + p /\ Unit \in Nat
    BY <1>1, <1>3, RetrievalAssumption DEF RrfK
  <2>5. Unit \div (RrfK + p) \in Nat
    BY <2>4, Quotients
  <2> QED BY <2>3, <2>5
<1>4. CASE m \in Range(s)
  <2>1. PICK p \in DOMAIN s : s[p] = m
    BY <1>4 DEF Range
  <2> QED BY <1>3, <1>4, <2>1
<1> QED BY <1>2, <1>4

LEMMA ShareMonotone ==
  ASSUME NEW s \in Seq(Memories), IsInjective(s), NEW n, NEW m, NEW w \in Nat,
         m \in Range(s) => Precedes(s, n, m)
  PROVE  Share(w, m, s) <= Share(w, n, s)
<1>1. Share(w, m, s) \in Nat /\ Share(w, n, s) \in Nat
  BY ShareIs
<1>2. CASE m \notin Range(s)
  BY <1>1, <1>2, ShareIs
<1>3. CASE m \in Range(s)
  <2>1. PICK i, j \in DOMAIN s : i < j /\ s[i] = n /\ s[j] = m
    BY <1>3 DEF Precedes
  <2>2. Share(w, n, s) = w * (Unit \div (RrfK + i)) /\ Share(w, m, s) = w * (Unit \div (RrfK + j))
    BY <2>1, ShareIs
  <2>0. i \in Nat /\ j \in Nat
    OBVIOUS
  <2>3. RrfK + i \in Nat /\ RrfK + j \in Nat /\ 0 < RrfK + i /\ RrfK + i <= RrfK + j
    BY <2>0, <2>1 DEF RrfK
  <2>5. Unit \in Nat
    BY RetrievalAssumption
  <2>4. Unit \div (RrfK + j) \in Nat /\ Unit \div (RrfK + i) \in Nat
        /\ Unit \div (RrfK + j) <= Unit \div (RrfK + i)
    BY <2>3, <2>5, Quotients
  <2> QED BY <2>2, <2>4, Scale
<1> QED BY <1>2, <1>3

\* The three sources have answered.
Gathered ==
  /\ DOMAIN lists = {"vector", "keyword", "graph"}
  /\ \A s \in {"vector", "keyword", "graph"} : lists[s] \in Seq(Memories) /\ IsInjective(lists[s])

LEMMA StrategyWeights ==
  Strategy.vector \in Nat /\ Strategy.keyword \in Nat /\ Strategy.graph \in Nat /\ Strategy.depth \in Nat
BY DEF Strategy, Analyze, Weights

LEMMA ScoreMonotone ==
  ASSUME Gathered
  PROVE  /\ \A m \in Memories : Score(m) \in Nat
         /\ \A n, m \in Memories :
              /\ \A s \in {"vector", "keyword", "graph"} : m \in Range(lists[s]) => Precedes(lists[s], n, m)
              /\ Importance[n] >= Importance[m] /\ Recency[n] >= Recency[m]
              => Score(n) >= Score(m)
<1> DEFINE v(m) == Share(Strategy.vector, m, lists.vector)
           k(m) == Share(Strategy.keyword, m, lists.keyword)
           g(m) == Share(Strategy.graph, m, lists.graph)
           f(m) == IF Strategy.time THEN Recency[m] ELSE 2
<1>1. \A m \in Memories : v(m) \in Nat /\ k(m) \in Nat /\ g(m) \in Nat
  <2> SUFFICES ASSUME NEW m \in Memories PROVE v(m) \in Nat /\ k(m) \in Nat /\ g(m) \in Nat
    OBVIOUS
  <2>1. v(m) \in Nat
    BY StrategyWeights, ShareIs DEF Gathered
  <2>2. k(m) \in Nat
    BY StrategyWeights, ShareIs DEF Gathered
  <2>3. g(m) \in Nat
    BY StrategyWeights, ShareIs DEF Gathered
  <2> QED BY <2>1, <2>2, <2>3
<1>2. \A m \in Memories : f(m) \in Nat /\ Importance[m] \in Nat
  BY RetrievalAssumption
<1>3. \A m \in Memories : Score(m) = 5 * 61 * (v(m) + k(m) + g(m)) + 15 * Unit * f(m) + 10 * Unit * Importance[m]
  BY DEF Score, RrfK
<1>4. Unit \in Nat
  BY RetrievalAssumption
<1>5. \A n, m \in Memories :
              /\ \A s \in {"vector", "keyword", "graph"} : m \in Range(lists[s]) => Precedes(lists[s], n, m)
              => v(m) <= v(n) /\ k(m) <= k(n) /\ g(m) <= g(n)
  <2> SUFFICES ASSUME NEW n \in Memories, NEW m \in Memories,
                      \A s \in {"vector", "keyword", "graph"} : m \in Range(lists[s]) => Precedes(lists[s], n, m)
               PROVE  v(m) <= v(n) /\ k(m) <= k(n) /\ g(m) <= g(n)
    OBVIOUS
  <2>1. v(m) <= v(n)
    BY StrategyWeights, ShareMonotone DEF Gathered
  <2>2. k(m) <= k(n)
    BY StrategyWeights, ShareMonotone DEF Gathered
  <2>3. g(m) <= g(n)
    BY StrategyWeights, ShareMonotone DEF Gathered
  <2> QED BY <2>1, <2>2, <2>3
<1>6. \A n, m \in Memories : Recency[n] >= Recency[m] => f(m) <= f(n)
  BY RetrievalAssumption
<1> HIDE DEF v, k, g, f
<1>7. 15 * Unit \in Nat /\ 10 * Unit \in Nat
  BY <1>4
<1>8. ASSUME NEW m \in Memories PROVE Score(m) \in Nat
  BY <1>1, <1>2, <1>3, <1>4
<1>9. ASSUME NEW n \in Memories, NEW m \in Memories,
             \A s \in {"vector", "keyword", "graph"} : m \in Range(lists[s]) => Precedes(lists[s], n, m),
             Importance[n] >= Importance[m], Recency[n] >= Recency[m]
      PROVE  Score(n) >= Score(m)
  <2>1. v(m) <= v(n) /\ k(m) <= k(n) /\ g(m) <= g(n)
    BY <1>5, <1>9
  <2>2. f(m) <= f(n) /\ Importance[m] <= Importance[n]
    BY <1>2, <1>6, <1>9
  <2> DEFINE a(x) == 5 * 61 * (v(x) + k(x) + g(x))
             b(x) == 15 * Unit * f(x)
             c(x) == 10 * Unit * Importance[x]
  <2>3. a(m) \in Nat /\ a(n) \in Nat /\ a(m) <= a(n)
    BY <1>1, <2>1
  <2>4. b(m) \in Nat /\ b(n) \in Nat /\ b(m) <= b(n)
    BY <1>2, <1>7, <2>2, Scale
  <2>5. c(m) \in Nat /\ c(n) \in Nat /\ c(m) <= c(n)
    BY <1>2, <1>7, <2>2, Scale
  <2>6. Score(m) = a(m) + b(m) + c(m) /\ Score(n) = a(n) + b(n) + c(n)
    BY <1>3
  <2> HIDE DEF a, b, c
  <2> QED BY <2>3, <2>4, <2>5, <2>6
<1> QED BY <1>8, <1>9

\* The pool names every hit once, and what dominates a hit before the hit.
LEMMA PoolFacts ==
  ASSUME Gathered
  PROVE  /\ Pool \in Seq(Memories) /\ IsInjective(Pool)
         /\ Range(Pool) = Range(lists.vector) \cup Range(lists.keyword) \cup Range(lists.graph)
         /\ \A n \in Memories, m \in Range(Pool) :
              (\A s \in {"vector", "keyword", "graph"} : m \in Range(lists[s]) => Precedes(lists[s], n, m))
              => Precedes(Pool, n, m)
<1> DEFINE v == lists.vector
           K == Memories \ Range(v)
           kw == Kept(lists.keyword, K)
           G == Memories \ (Range(v) \cup Range(lists.keyword))
           gr == Kept(lists.graph, G)
<1>1. /\ v \in Seq(Memories) /\ IsInjective(v)
      /\ lists.keyword \in Seq(Memories) /\ IsInjective(lists.keyword)
      /\ lists.graph \in Seq(Memories) /\ IsInjective(lists.graph)
  BY DEF Gathered
<1>2. Pool = (v \o kw) \o gr
  BY <1>1, KeptFacts, ConcatAssociative DEF Pool
<1>3. kw \in Seq(Memories) /\ IsInjective(kw) /\ Range(kw) = Range(lists.keyword) \cap K
  BY <1>1, KeptFacts
<1>4. gr \in Seq(Memories) /\ IsInjective(gr) /\ Range(gr) = Range(lists.graph) \cap G
  BY <1>1, KeptFacts
<1>5. \A s \in Seq(Memories) : Range(s) \subseteq Memories
  BY DEF Range
<1>6. \A s, n, m : Precedes(s, n, m) => n \in Range(s) /\ m \in Range(s)
  BY DEF Precedes, Range
<1> DEFINE p == v \o kw
<1>10. \A n \in K, m \in K : Precedes(lists.keyword, n, m) => Precedes(kw, n, m)
  BY <1>1, KeptPrecedes
<1>11. \A n \in G, m \in G : Precedes(lists.graph, n, m) => Precedes(gr, n, m)
  BY <1>1, KeptPrecedes
<1> HIDE DEF kw, gr
<1>7. /\ p \in Seq(Memories) /\ Range(p) = Range(v) \cup Range(kw) /\ IsInjective(p)
      /\ \A n, m \in Memories : Precedes(v, n, m) \/ Precedes(kw, n, m) \/ (n \in Range(v) /\ m \in Range(kw))
              => Precedes(p, n, m)
  <2>1. Range(v) \cap Range(kw) = {}
    BY <1>3
  <2> HIDE DEF v, K
  <2> QED BY <1>1, <1>3, <2>1, ConcatFacts
<1> HIDE DEF p
<1>8. /\ p \o gr \in Seq(Memories) /\ Range(p \o gr) = Range(p) \cup Range(gr) /\ IsInjective(p \o gr)
      /\ \A n, m \in Memories : Precedes(p, n, m) \/ Precedes(gr, n, m) \/ (n \in Range(p) /\ m \in Range(gr))
              => Precedes(p \o gr, n, m)
  <2>1. Range(p) \cap Range(gr) = {}
    BY <1>3, <1>4, <1>7
  <2> HIDE DEF v, G
  <2> QED BY <1>4, <1>7, <2>1, ConcatFacts
<1>9. Range(p \o gr) = Range(v) \cup Range(lists.keyword) \cup Range(lists.graph)
  BY <1>1, <1>3, <1>4, <1>5, <1>7, <1>8
<1>12. ASSUME NEW n \in Memories, NEW m \in Range(p \o gr),
              \A s \in {"vector", "keyword", "graph"} : m \in Range(lists[s]) => Precedes(lists[s], n, m)
       PROVE  Precedes(p \o gr, n, m)
  <2>0. m \in Memories
    BY <1>5, <1>8
  <2>1. CASE m \in Range(v)
    <3>1. Precedes(v, n, m)
      BY <1>12, <2>1
    <3> QED BY <1>7, <1>8, <2>0, <3>1
  <2>2. CASE m \notin Range(v) /\ m \in Range(lists.keyword)
    <3>1. Precedes(lists.keyword, n, m) /\ m \in Range(kw)
      BY <1>3, <1>12, <2>0, <2>2
    <3>2. CASE n \in Range(v)
      BY <1>7, <1>8, <2>0, <3>1, <3>2
    <3>3. CASE n \notin Range(v)
      <4>1. Precedes(kw, n, m)
        BY <1>10, <2>0, <2>2, <3>1, <3>3
      <4> QED BY <1>7, <1>8, <2>0, <4>1
    <3> QED BY <3>2, <3>3
  <2>3. CASE m \notin Range(v) /\ m \notin Range(lists.keyword)
    <3>1. m \in Range(lists.graph) /\ m \in Range(gr)
      BY <1>4, <1>9, <2>0, <2>3
    <3>2. Precedes(lists.graph, n, m)
      BY <1>12, <3>1
    <3>3. CASE n \in Range(v) \cup Range(lists.keyword)
      <4>1. n \in Range(p)
        BY <1>3, <1>7, <3>3
      <4> QED BY <1>8, <2>0, <3>1, <4>1
    <3>4. CASE n \notin Range(v) \cup Range(lists.keyword)
      <4>1. Precedes(gr, n, m)
        BY <1>11, <2>0, <2>3, <3>2, <3>4
      <4> QED BY <1>8, <2>0, <4>1
    <3> QED BY <3>3, <3>4
  <2> QED BY <2>1, <2>2, <2>3
<1> QED BY <1>2, <1>8, <1>9, <1>12 DEF p

-----------------------------------------------------------------------------
(* The limits of the answer.                                               *)

LEMMA TotalIs ==
  ASSUME NEW s \in Seq(Memories)
  PROVE  Total(s) \in Nat /\ (s = <<>> => Total(s) = 0)
<1> DEFINE N == Len(s)
           F == [i \in 1..N |-> [d \in Nat |-> d + Tokens[s[i]]]]
           sum == CHOOSE g : g = [n \in 0..N |-> IF n = 0 THEN 0 ELSE g[n - 1] + Tokens[s[n]]]
<1>1. N \in Nat /\ \A i \in 1..N : s[i] \in Memories
  OBVIOUS
<1>2. \A i \in 1..N : Tokens[s[i]] \in Nat
  BY <1>1, RetrievalAssumption
<1>3. F \in [1..N -> [Nat -> Nat]]
  BY <1>2
<1>4. \A i \in 1..N, d \in Nat : F[i][d] = d + Tokens[s[i]]
  OBVIOUS
<1>5. Total(s) = sum[N]
  BY DEF Total
<1> HIDE DEF N, F
<1>6. PICK g \in [0..N -> Nat] : g[0] = 0 /\ \A i \in 1..N : g[i] = F[i][g[i - 1]]
  <2>1. 0 \in Nat
    OBVIOUS
  <2>2. Stepwise(N, Nat, 0, F) # {}
    BY <1>1, <1>3, <2>1, Iterates
  <2> QED BY <2>2 DEF Stepwise
<1>7. \A i \in 1..N : g[i] = g[i - 1] + Tokens[s[i]]
  <2>1. \A i \in 1..N : i - 1 \in 0..N
    BY <1>1
  <2> QED BY <1>4, <1>6, <2>1
<1>8. g = [n \in 0..N |-> IF n = 0 THEN 0 ELSE g[n - 1] + Tokens[s[n]]]
  <2>1. \A n \in 0..N : n # 0 => n \in 1..N
    BY <1>1
  <2>2. \A n \in 0..N : g[n] = IF n = 0 THEN 0 ELSE g[n - 1] + Tokens[s[n]]
    BY <1>6, <1>7, <2>1
  <2> QED BY <2>2
<1>9. sum = [n \in 0..N |-> IF n = 0 THEN 0 ELSE sum[n - 1] + Tokens[s[n]]]
  BY <1>8
<1> HIDE DEF sum
<1>10. sum[0] = 0
  BY <1>1, <1>9
<1> DEFINE S == {n \in 0..N : sum[n] \in Nat}
<1>11. 0 \in S
  BY <1>1, <1>10
<1>12. \A i \in 0..N : i \in S /\ i < N => i + 1 \in S
  <2> SUFFICES ASSUME NEW i \in 0..N, i \in S, i < N PROVE i + 1 \in S
    OBVIOUS
  <2>1. i + 1 \in 1..N /\ i + 1 \in 0..N /\ i + 1 # 0 /\ (i + 1) - 1 = i
    BY <1>1
  <2>2. sum[i + 1] = sum[i] + Tokens[s[i + 1]]
    BY <1>9, <2>1
  <2>3. Tokens[s[i + 1]] \in Nat /\ sum[i] \in Nat
    BY <1>2, <2>1
  <2> QED BY <2>1, <2>2, <2>3
<1>13. N \in S
  <2>1. N \in 0..N
    BY <1>1
  <2> HIDE DEF S
  <2>2. \A i \in 0..N : i \in S
    BY <1>1, <1>11, <1>12, Steps
  <2> QED BY <2>1, <2>2
<1>14. s = <<>> => N = 0
  BY DEF N
<1> QED BY <1>5, <1>10, <1>13, <1>14

\* Within a limit there is a longest beginning, and it is what is returned.
LEMMA WithinIs ==
  ASSUME NEW s \in Seq(Memories), MaxTokens # None => MaxTokens \in Nat
  PROVE  /\ WithinTokens(s) \in Seq(Memories) /\ Range(WithinTokens(s)) \subseteq Range(s)
         /\ Len(WithinTokens(s)) <= Len(s) /\ Len(WithinTokens(s)) \in Nat
         /\ IsInjective(s) => IsInjective(WithinTokens(s))
         /\ MaxTokens # None => Total(WithinTokens(s)) <= MaxTokens
         /\ MaxTokens = None => WithinTokens(s) = s
<1>0. Len(s) \in Nat
  OBVIOUS
<1>1. CASE MaxTokens = None
  BY <1>0, <1>1 DEF WithinTokens
<1>2. CASE MaxTokens # None
  <2> DEFINE Good(n) == /\ Total(First(n, s)) <= MaxTokens
                        /\ n < Len(s) => Total(First(n + 1, s)) > MaxTokens
             S == {n \in 0..Len(s) : Total(First(n, s)) <= MaxTokens}
  <2>1. \A n \in Nat : First(n, s) \in Seq(Memories) /\ Total(First(n, s)) \in Nat
    BY FirstFacts, TotalIs
  <2>2. MaxTokens \in Nat
    BY <1>2
  <2>3. 0 \in S
    <3>1. First(0, s) \in Seq(Memories) /\ Len(First(0, s)) = 0
      BY <1>0, FirstFacts
    <3>2. First(0, s) = <<>>
      BY <3>1
    <3>3. Total(First(0, s)) = 0
      BY <3>1, <3>2, TotalIs
    <3> QED BY <1>0, <2>2, <3>3
  <2>4. \E n \in 0..Len(s) : Good(n)
    <3> SUFFICES ASSUME \A n \in 0..Len(s) : ~Good(n) PROVE FALSE
      OBVIOUS
    <3>1. \A i \in 0..Len(s) : i \in S /\ i < Len(s) => i + 1 \in S
      <4> SUFFICES ASSUME NEW i \in 0..Len(s), i \in S, i < Len(s) PROVE i + 1 \in S
        OBVIOUS
      <4>1. i + 1 \in 0..Len(s) /\ i + 1 \in Nat
        BY <1>0
      <4>2. ~(Total(First(i + 1, s)) > MaxTokens)
        OBVIOUS
      <4>3. Total(First(i + 1, s)) \in Nat
        BY <2>1, <4>1
      <4>4. \A x, y \in Nat : ~(x > y) => x <= y
        OBVIOUS
      <4>5. Total(First(i + 1, s)) <= MaxTokens
        BY <2>2, <4>2, <4>3, <4>4
      <4> QED BY <4>1, <4>5
    <3>2. Len(s) \in S
      <4>1. Len(s) \in 0..Len(s)
        BY <1>0
      <4> HIDE DEF S
      <4>2. \A i \in 0..Len(s) : i \in S
        BY <1>0, <2>3, <3>1, Steps
      <4> QED BY <4>1, <4>2
    <3>3. Len(s) \in 0..Len(s) /\ ~(Len(s) < Len(s))
      BY <1>0
    <3> QED BY <3>2, <3>3
  <2>5. PICK n \in 0..Len(s) : WithinTokens(s) = First(n, s) /\ Good(n)
    BY <1>2, <2>4 DEF WithinTokens
  <2>6. n \in Nat /\ n <= Len(s)
    BY <1>0
  <2>7. Len(First(n, s)) = n
    BY <1>0, <2>6, FirstFacts
  <2>8. First(n, s) \in Seq(Memories) /\ Range(First(n, s)) \subseteq Range(s)
        /\ (IsInjective(s) => IsInjective(First(n, s)))
    BY <2>6, FirstFacts
  <2> QED BY <1>2, <2>5, <2>6, <2>7, <2>8
<1> QED BY <1>1, <1>2

LEMMA Limits ==
  ASSUME ask \in Requests
  PROVE  /\ TopK \in Nat /\ (MaxTokens # None => MaxTokens \in Nat)
<1>1. ask \in Request
  BY RetrievalAssumption
<1>2. ask.topK \in Int /\ (ask.maxTokens # None => ask.maxTokens \in Int)
  BY <1>1 DEF Request
<1>3. TopK \in Nat
  BY <1>2 DEF TopK
<1>4. MaxTokens # None => MaxTokens \in Nat
  BY <1>2 DEF MaxTokens
<1> QED BY <1>3, <1>4

\* In the order of the scores, what dominates a hit precedes it.
LEMMA SortedPrecedes ==
  ASSUME NEW s \in Seq(Memories), IsInjective(s), \A m \in Memories : Score(m) \in Int,
         NEW n \in Memories, NEW m \in Memories, Precedes(s, n, m), Score(n) >= Score(m)
  PROVE  Precedes(Sorted(s), n, m)
<1> DEFINE t == Sorted(s)
<1>1. t \in Seq(Memories) /\ Arranged(s, t)
  BY SortedIs
<1> HIDE DEF t
<1>2. PICK pos \in [1..Len(s) -> 1..Len(s)] :
       /\ \A x \in 1..Len(s) : t[x] = s[pos[x]]
       /\ \A x, y \in 1..Len(s) : pos[x] = pos[y] => x = y
       /\ \A i \in 1..Len(s) : \E x \in 1..Len(s) : pos[x] = i
       /\ \A x, y \in 1..Len(s) : x < y =>
            Score(t[x]) > Score(t[y]) \/ (Score(t[x]) = Score(t[y]) /\ pos[x] < pos[y])
  BY <1>1 DEF Arranged
<1>3. Len(t) = Len(s) /\ Len(s) \in Nat /\ DOMAIN s = 1..Len(s) /\ DOMAIN t = 1..Len(s)
  BY <1>1 DEF Arranged
<1>4. PICK i, j \in 1..Len(s) : i < j /\ s[i] = n /\ s[j] = m
  BY <1>3 DEF Precedes
<1>5. PICK x \in 1..Len(s) : pos[x] = i
  BY <1>2
<1>6. PICK y \in 1..Len(s) : pos[y] = j
  BY <1>2
<1>7. t[x] = n /\ t[y] = m
  BY <1>2, <1>4, <1>5, <1>6
<1>8. Score(n) \in Int /\ Score(m) \in Int /\ i \in Int /\ j \in Int /\ x \in Int /\ y \in Int
  OBVIOUS
<1>9. ~(y < x)
  <2> SUFFICES ASSUME y < x PROVE FALSE
    OBVIOUS
  <2>1. Score(m) > Score(n) \/ (Score(m) = Score(n) /\ j < i)
    BY <1>2, <1>5, <1>6, <1>7
  <2> QED BY <1>4, <1>8, <2>1
<1>10. x # y
  BY <1>4, <1>5, <1>6, <1>8
<1>11. x < y
  BY <1>8, <1>9, <1>10
<1>12. Precedes(t, n, m)
  BY <1>3, <1>7, <1>11 DEF Precedes
<1> QED BY <1>12 DEF t

\* AnswerSound, of a list.
Sound(a) ==
  LET pool == Range(Pool) \cap Wanted IN
  /\ Range(a) \subseteq pool
  /\ IsInjective(a) /\ Len(a) <= TopK
  /\ MaxTokens # None => Total(a) <= MaxTokens
  /\ MaxTokens = None => Len(a) = TopK \/ Range(a) = pool
  /\ MaxTokens = None => \A m \in Range(a), n \in pool \ Range(a) : ~Dominates(n, m)

LEMMA ResultsSound ==
  ASSUME Gathered, ask \in Requests
  PROVE  Results \in Seq(Memories) /\ Sound(Results)
<1> DEFINE p == Pool
           t == Sorted(p)
           k == Kept(t, Wanted)
           f == First(TopK, k)
           a == WithinTokens(f)
<1>1. TopK \in Nat /\ (MaxTokens # None => MaxTokens \in Nat)
  BY Limits
<1>2. p \in Seq(Memories) /\ IsInjective(p)
  BY PoolFacts
<1>3. \A m \in Memories : Score(m) \in Int
  BY ScoreMonotone
<1>5. t \in Seq(Memories) /\ Range(t) = Range(p) /\ IsInjective(t)
  <2>1. t \in Seq(Memories) /\ Arranged(p, t)
    BY <1>2, <1>3, SortedIs
  <2> HIDE DEF t, p
  <2> QED BY <1>2, <2>1, SortedFacts
<1>6. k \in Seq(Memories) /\ Range(k) = Range(p) \cap Wanted /\ IsInjective(k)
  <2> HIDE DEF t
  <2> QED BY <1>5, KeptFacts
<1>7. /\ f \in Seq(Memories) /\ Len(f) \in Nat
      /\ Len(f) = IF TopK < Len(k) THEN TopK ELSE Len(k)
      /\ \A i \in 1..Len(f) : i \in 1..Len(k) /\ f[i] = k[i]
      /\ (TopK >= Len(k) => f = k)
      /\ Range(f) \subseteq Range(k) /\ IsInjective(f)
  <2> HIDE DEF k
  <2> QED BY <1>1, <1>6, FirstFacts
<1>8. /\ a \in Seq(Memories) /\ Range(a) \subseteq Range(f)
      /\ Len(a) <= Len(f) /\ Len(a) \in Nat /\ IsInjective(a)
      /\ (MaxTokens # None => Total(a) <= MaxTokens)
      /\ (MaxTokens = None => a = f)
  <2> HIDE DEF f
  <2> QED BY <1>1, <1>7, WithinIs
<1>9. Len(k) \in Nat /\ DOMAIN k = 1..Len(k) /\ DOMAIN f = 1..Len(f)
  BY <1>6, <1>7
<1>10. ASSUME NEW m \in Range(p) \cap Wanted, NEW n \in Range(p) \cap Wanted, Dominates(n, m)
       PROVE  Precedes(k, n, m)
  <2>0. n \in Memories /\ m \in Memories
    BY DEF Wanted
  <2>1. ASSUME NEW s \in {"vector", "keyword", "graph"}, m \in Range(lists[s]) PROVE Precedes(lists[s], n, m)
    <3>1. n \in Range(lists[s]) /\ RankIn(n, lists[s]) < RankIn(m, lists[s])
      BY <1>10, <2>1 DEF Dominates, Gathered
    <3>2. RankIn(n, lists[s]) \in DOMAIN lists[s] /\ lists[s][RankIn(n, lists[s])] = n
      BY <3>1 DEF RankIn, Range
    <3>3. RankIn(m, lists[s]) \in DOMAIN lists[s] /\ lists[s][RankIn(m, lists[s])] = m
      BY <2>1 DEF RankIn, Range
    <3> QED BY <3>1, <3>2, <3>3 DEF Precedes
  <2>2. Precedes(p, n, m)
    BY <2>0, <2>1, PoolFacts
  <2>3. Score(n) >= Score(m)
    <3>1. Importance[n] >= Importance[m] /\ Recency[n] >= Recency[m]
      BY <1>10 DEF Dominates
    <3> QED BY <2>0, <2>1, <3>1, ScoreMonotone
  <2>4. Precedes(t, n, m)
    <3> HIDE DEF p
    <3> QED BY <1>2, <1>3, <2>0, <2>2, <2>3, SortedPrecedes
  <2> HIDE DEF t
  <2>5. n \in Wanted /\ m \in Wanted
    OBVIOUS
  <2> QED BY <1>5, <2>4, <2>5, KeptPrecedes
<1>11. Results = a
  BY DEF Results
<1> HIDE DEF p, t, k, f, a
<1>12. Range(a) \subseteq Range(p) \cap Wanted
  BY <1>6, <1>7, <1>8
<1>13. Len(a) <= TopK
  BY <1>1, <1>7, <1>8, <1>9
<1>14. ASSUME MaxTokens = None PROVE Len(a) = TopK \/ Range(a) = Range(p) \cap Wanted
  <2>1. CASE TopK < Len(k)
    BY <1>7, <1>8, <1>14, <2>1
  <2>2. CASE ~(TopK < Len(k))
    <3>1. TopK >= Len(k)
      BY <1>1, <1>9, <2>2
    <3> QED BY <1>6, <1>7, <1>8, <1>14, <3>1
  <2> QED BY <2>1, <2>2
<1>15. ASSUME MaxTokens = None, NEW m \in Range(a), NEW n \in (Range(p) \cap Wanted) \ Range(a),
              Dominates(n, m)
       PROVE  FALSE
  <2>1. Precedes(k, n, m)
    BY <1>10, <1>12, <1>15
  <2>2. PICK i, j \in 1..Len(k) : i < j /\ k[i] = n /\ k[j] = m
    BY <1>9, <2>1 DEF Precedes
  <2>3. PICK x \in 1..Len(f) : f[x] = m
    BY <1>8, <1>9, <1>15 DEF Range
  <2>4. x = j
    BY <1>6, <1>7, <1>9, <2>2, <2>3 DEF IsInjective
  <2>5. i \in 1..Len(f)
    <3>1. i \in Nat /\ j \in Nat /\ Len(f) \in Nat /\ 1 <= i /\ j <= Len(f)
      BY <1>7, <1>9, <2>2, <2>3, <2>4
    <3> QED BY <2>2, <3>1
  <2>6. f[i] = n
    BY <1>7, <2>2, <2>5
  <2>7. n \in Range(f)
    BY <1>9, <2>5, <2>6 DEF Range
  <2> QED BY <1>8, <1>15, <2>7
<1>16. Sound(a)
  BY <1>8, <1>12, <1>13, <1>14, <1>15 DEF Sound, p
<1> QED BY <1>8, <1>11, <1>16

-----------------------------------------------------------------------------
(* The walk.                                                               *)

Row == [path : Seq(Memories), logical : Nat]
Starts(seeds) == {[path |-> <<s>>, logical |-> 0] : s \in seeds}

LEMMA Costs ==
  ASSUME edges \in Graphs
  PROVE  /\ Depth \in Nat
         /\ \A e \in edges : e.from \in Memories /\ e.to \in Memories /\ Cost(e) \in Nat
<1>1. Depth \in Nat
  BY StrategyWeights, RetrievalAssumption DEF Depth
<1>2. \A e \in edges : Cost(e) \in Nat
  BY DEF Cost
<1> QED BY <1>1, <1>2, RetrievalAssumption

LEMMA LongerIs ==
  ASSUME edges \in Graphs, NEW rows \in SUBSET Row
  PROVE  /\ Longer(rows) \in SUBSET Row
         /\ \A y \in Longer(rows) : \E x \in rows, e \in edges :
              /\ Follow(x, e) /\ y = [path |-> Append(x.path, e.to), logical |-> x.logical + Cost(e)]
         /\ \A x \in rows, e \in edges : Follow(x, e) =>
              [path |-> Append(x.path, e.to), logical |-> x.logical + Cost(e)] \in Longer(rows)
<1>1. \A y \in Longer(rows) : \E x \in rows, e \in edges :
        /\ Follow(x, e) /\ y = [path |-> Append(x.path, e.to), logical |-> x.logical + Cost(e)]
  <2> SUFFICES ASSUME NEW z \in {y \in rows \X edges : Follow(y[1], y[2])}
               PROVE  \E x \in rows, e \in edges :
                 /\ Follow(x, e)
                 /\ [path |-> Append(z[1].path, z[2].to), logical |-> z[1].logical + Cost(z[2])]
                    = [path |-> Append(x.path, e.to), logical |-> x.logical + Cost(e)]
    BY DEF Longer
  <2>1. z[1] \in rows /\ z[2] \in edges /\ Follow(z[1], z[2])
    OBVIOUS
  <2> QED BY <2>1
<1>2. ASSUME NEW x \in rows, NEW e \in edges, Follow(x, e)
      PROVE  [path |-> Append(x.path, e.to), logical |-> x.logical + Cost(e)] \in Longer(rows)
  <2> DEFINE z == <<x, e>>
  <2>1. z \in rows \X edges /\ z[1] = x /\ z[2] = e
    OBVIOUS
  <2> HIDE DEF z
  <2>2. z \in {y \in rows \X edges : Follow(y[1], y[2])}
    BY <1>2, <2>1
  <2>3. [path |-> Append(z[1].path, z[2].to), logical |-> z[1].logical + Cost(z[2])] \in Longer(rows)
    BY <2>2 DEF Longer
  <2> QED BY <2>1, <2>3
<1>3. Longer(rows) \subseteq Row
  <2> SUFFICES ASSUME NEW y \in Longer(rows) PROVE y \in Row
    OBVIOUS
  <2>1. PICK x \in rows, e \in edges : y = [path |-> Append(x.path, e.to), logical |-> x.logical + Cost(e)]
    BY <1>1
  <2>2. x.path \in Seq(Memories) /\ x.logical \in Nat /\ e.to \in Memories /\ Cost(e) \in Nat
    BY Costs DEF Row
  <2>3. Append(x.path, e.to) \in Seq(Memories) /\ x.logical + Cost(e) \in Nat
    BY <2>2
  <2> QED BY <2>1, <2>3 DEF Row
<1> QED BY <1>1, <1>2, <1>3

\* The rows, hop by hop.
LEMMA RowsAre ==
  ASSUME edges \in Graphs, NEW seeds \in SUBSET Memories
  PROVE  /\ Rows(seeds)[0] = Starts(seeds)
         /\ \A i \in 1..MaxHops : Rows(seeds)[i] = Longer(Rows(seeds)[i - 1])
         /\ \A i \in 0..MaxHops : Rows(seeds)[i] \in SUBSET Row
<1> DEFINE D == SUBSET Row
           b == Starts(seeds)
           F == [i \in 1..MaxHops |-> [rows \in D |-> Longer(rows)]]
           r == Rows(seeds)
<1>1. MaxHops \in Nat
  BY RetrievalAssumption
<1>2. b \in D
  <2> SUFFICES ASSUME NEW s \in seeds PROVE [path |-> <<s>>, logical |-> 0] \in Row
    BY DEF Starts
  <2>1. <<s>> \in Seq(Memories) /\ 0 \in Nat
    OBVIOUS
  <2> QED BY <2>1 DEF Row
<1>3. F \in [1..MaxHops -> [D -> D]]
  BY LongerIs
<1>4. \A i \in 1..MaxHops, rows \in D : F[i][rows] = Longer(rows)
  OBVIOUS
<1>5. r = CHOOSE g : g = [i \in 0..MaxHops |-> IF i = 0 THEN b ELSE Longer(g[i - 1])]
  BY DEF Rows, Starts
<1> HIDE DEF D, b, F, r
<1>6. PICK g \in [0..MaxHops -> D] : g[0] = b /\ \A i \in 1..MaxHops : g[i] = F[i][g[i - 1]]
  <2>1. Stepwise(MaxHops, D, b, F) # {}
    BY <1>1, <1>2, <1>3, Iterates
  <2> QED BY <2>1 DEF Stepwise
<1>7. \A i \in 1..MaxHops : g[i] = Longer(g[i - 1])
  <2>1. \A i \in 1..MaxHops : i - 1 \in 0..MaxHops
    BY <1>1
  <2> QED BY <1>4, <1>6, <2>1
<1>8. g = [i \in 0..MaxHops |-> IF i = 0 THEN b ELSE Longer(g[i - 1])]
  <2>1. \A i \in 0..MaxHops : i # 0 => i \in 1..MaxHops
    BY <1>1
  <2>2. \A i \in 0..MaxHops : g[i] = IF i = 0 THEN b ELSE Longer(g[i - 1])
    BY <1>6, <1>7, <2>1
  <2> QED BY <2>2
<1>9. r = [i \in 0..MaxHops |-> IF i = 0 THEN b ELSE Longer(r[i - 1])]
  BY <1>5, <1>8
<1>10. r[0] = b
  BY <1>1, <1>9
<1>11. \A i \in 1..MaxHops : r[i] = Longer(r[i - 1])
  <2>1. \A i \in 1..MaxHops : i \in 0..MaxHops /\ i # 0
    BY <1>1
  <2> QED BY <1>9, <2>1
<1> DEFINE S == {i \in 0..MaxHops : r[i] \in D}
<1>12. 0 \in S
  BY <1>1, <1>2, <1>10
<1>13. \A i \in 0..MaxHops : i \in S /\ i < MaxHops => i + 1 \in S
  <2> SUFFICES ASSUME NEW i \in 0..MaxHops, i \in S, i < MaxHops PROVE i + 1 \in S
    OBVIOUS
  <2>1. i + 1 \in 1..MaxHops /\ i + 1 \in 0..MaxHops /\ (i + 1) - 1 = i
    BY <1>1
  <2>2. r[i + 1] = Longer(r[i])
    BY <1>11, <2>1
  <2>3. Longer(r[i]) \in D
    BY LongerIs DEF D
  <2> QED BY <2>1, <2>2, <2>3
<1>14. \A i \in 0..MaxHops : r[i] \in D
  <2>1. \A i \in 0..MaxHops : i \in S
    <3> HIDE DEF S
    <3> QED BY <1>1, <1>12, <1>13, Steps
  <2> QED BY <2>1
<1> QED BY <1>10, <1>11, <1>14 DEF r, b, D

LEMMA Ends ==
  ASSUME NEW M, NEW p \in Seq(M), NEW x \in M
  PROVE  Last(Append(p, x)) = x /\ Range(Append(p, x)) = Range(p) \cup {x} /\ Append(p, x) # <<>>
<1> DEFINE q == Append(p, x)
           n == Len(p)
<1>1. /\ n \in Nat /\ q \in Seq(M) /\ Len(q) = n + 1 /\ q[n + 1] = x /\ \A i \in 1..n : q[i] = p[i]
      /\ DOMAIN p = 1..n
  OBVIOUS
<1> HIDE DEF q, n
<1>2. DOMAIN q = 1..(n + 1)
  BY <1>1
<1>3. \A i \in 1..(n + 1) : i \in 1..n \/ i = n + 1
  BY <1>1
<1>4. n + 1 \in 1..(n + 1) /\ \A i \in 1..n : i \in 1..(n + 1)
  BY <1>1
<1>5. Range(q) = Range(p) \cup {x}
  BY <1>1, <1>2, <1>3, <1>4 DEF Range
<1>6. Last(q) = x /\ q # <<>>
  <2>1. Len(q) # 0
    BY <1>1
  <2> QED BY <1>1, <2>1 DEF Last
<1> QED BY <1>5, <1>6 DEF q

LEMMA RowFacts ==
  ASSUME edges \in Graphs, NEW seeds \in SUBSET Memories,
         NEW i \in 0..MaxHops, NEW row \in Rows(seeds)[i]
  PROVE  /\ row \in Row /\ Last(row.path) \in Memories /\ Last(row.path) \in Range(row.path)
         /\ row.logical <= Depth
<1>1. row \in Row
  BY RowsAre
<1>2. CASE i = 0
  <2>1. PICK s \in seeds : row = [path |-> <<s>>, logical |-> 0]
    BY <1>2, RowsAre DEF Starts
  <2>2. row.path = <<s>> /\ row.logical = 0 /\ Last(<<s>>) = s /\ Range(<<s>>) = {s}
    BY <2>1 DEF Last, Range
  <2>3. 0 <= Depth
    BY Costs
  <2> QED BY <1>1, <2>2, <2>3
<1>3. CASE i # 0
  <2>0. i \in 1..MaxHops /\ i - 1 \in 0..MaxHops
    BY <1>3, RetrievalAssumption
  <2> DEFINE rows == Rows(seeds)[i - 1]
  <2>1. row \in Longer(rows) /\ rows \in SUBSET Row
    BY <2>0, RowsAre
  <2> HIDE DEF rows
  <2>2. PICK x \in rows, e \in edges :
          Follow(x, e) /\ row = [path |-> Append(x.path, e.to), logical |-> x.logical + Cost(e)]
    BY <2>1, LongerIs
  <2>3. row.path = Append(x.path, e.to) /\ row.logical = x.logical + Cost(e) /\ x.path \in Seq(Memories)
        /\ e.to \in Memories
    BY <2>1, <2>2, Costs DEF Row
  <2>4. row.logical <= Depth
    BY <2>2, <2>3 DEF Follow
  <2>5. Last(row.path) = e.to /\ Range(row.path) = Range(x.path) \cup {e.to}
    BY <2>3, Ends
  <2> QED BY <1>1, <2>3, <2>4, <2>5
<1> QED BY <1>2, <1>3

\* Every memory on the path of a row ends a row of no more hops and depth.
Reached(seeds, i, m, d) ==
  \E j \in 0..i : \E row \in Rows(seeds)[j] : Last(row.path) = m /\ row.logical <= d

LEMMA Beginnings ==
  ASSUME edges \in Graphs, NEW seeds \in SUBSET Memories
  PROVE  \A i \in 0..MaxHops : \A row \in Rows(seeds)[i] : \A m \in Range(row.path) :
           Reached(seeds, i, m, row.logical)
<1> DEFINE Good(i) == \A row \in Rows(seeds)[i] : \A m \in Range(row.path) : Reached(seeds, i, m, row.logical)
           S == {i \in 0..MaxHops : Good(i)}
<1>0. MaxHops \in Nat
  BY RetrievalAssumption
<1>1. 0 \in S
  <2> SUFFICES ASSUME NEW row \in Rows(seeds)[0], NEW m \in Range(row.path)
               PROVE  Reached(seeds, 0, m, row.logical)
    BY <1>0
  <2>1. PICK s \in seeds : row = [path |-> <<s>>, logical |-> 0]
    BY RowsAre DEF Starts
  <2>2. row.path = <<s>> /\ row.logical = 0 /\ Last(<<s>>) = s /\ Range(<<s>>) = {s}
    BY <2>1 DEF Last, Range
  <2>3. Last(row.path) = m /\ row.logical <= row.logical /\ 0 \in 0..0
    BY <2>2
  <2> QED BY <2>3 DEF Reached
<1>2. ASSUME NEW i \in 0..MaxHops, i \in S, i < MaxHops PROVE i + 1 \in S
  <2>0. i + 1 \in 1..MaxHops /\ i + 1 \in 0..MaxHops /\ (i + 1) - 1 = i /\ i \in Nat
    BY <1>0, <1>2
  <2> SUFFICES ASSUME NEW row \in Rows(seeds)[i + 1], NEW m \in Range(row.path)
               PROVE  Reached(seeds, i + 1, m, row.logical)
    BY <2>0
  <2> DEFINE rows == Rows(seeds)[i]
  <2>1. row \in Longer(rows) /\ rows \in SUBSET Row
    BY <2>0, RowsAre
  <2>2. PICK x \in rows, e \in edges :
          row = [path |-> Append(x.path, e.to), logical |-> x.logical + Cost(e)]
    <3> HIDE DEF rows
    <3> QED BY <2>1, LongerIs
  <2>3. /\ row.path = Append(x.path, e.to) /\ row.logical = x.logical + Cost(e)
        /\ x.path \in Seq(Memories) /\ e.to \in Memories /\ x.logical \in Nat /\ Cost(e) \in Nat
    BY <2>1, <2>2, Costs DEF Row
  <2>4. Last(row.path) = e.to /\ Range(row.path) = Range(x.path) \cup {e.to}
    BY <2>3, Ends
  <2>5. CASE m = e.to
    <3>1. i + 1 \in 0..(i + 1) /\ row.logical <= row.logical
      BY <2>0, <2>3
    <3> QED BY <2>4, <2>5, <3>1 DEF Reached
  <2>6. CASE m # e.to
    <3>1. Reached(seeds, i, m, x.logical)
      BY <1>2, <2>4, <2>6
    <3>2. PICK j \in 0..i : \E y \in Rows(seeds)[j] : Last(y.path) = m /\ y.logical <= x.logical
      BY <3>1 DEF Reached
    <3>3. PICK y \in Rows(seeds)[j] : Last(y.path) = m /\ y.logical <= x.logical
      BY <3>2
    <3>4. j \in 0..(i + 1) /\ j \in 0..MaxHops
      <4>1. \A h \in 0..i : h \in 0..(i + 1) /\ h \in 0..MaxHops
        BY <1>0, <2>0
      <4> QED BY <4>1
    <3>5. y.logical \in Nat
      BY <3>4, RowsAre DEF Row
    <3>6. y.logical <= row.logical
      BY <2>3, <3>3, <3>5
    <3> QED BY <3>3, <3>4, <3>6 DEF Reached
  <2> QED BY <2>5, <2>6
<1>3. \A i \in 0..MaxHops : i \in S
  <2> HIDE DEF S
  <2> QED BY <1>0, <1>1, <1>2, Steps
<1> QED BY <1>3

Depths == [Memories -> Nat]
Start(seeds) == [m \in Memories |-> IF m \in seeds THEN 0 ELSE Depth + 1]

\* One more hop: no memory gets deeper, each is as deep as its best edge lets it be.
LEMMA RelaxedIs ==
  ASSUME edges \in Graphs, NEW depths \in Depths
  PROVE  /\ Relaxed(depths) \in Depths
         /\ \A m \in Memories : Relaxed(depths)[m] <= depths[m]
         /\ \A e \in edges : Relaxed(depths)[e.to] <= depths[e.from] + Cost(e)
         /\ \A m \in Memories : \/ Relaxed(depths)[m] = depths[m]
                                \/ \E e \in edges : e.to = m /\ Relaxed(depths)[m] = depths[e.from] + Cost(e)
<1> DEFINE c(m) == {depths[m]} \cup {depths[e.from] + Cost(e) : e \in {f \in edges : f.to = m}}
           R == Relaxed(depths)
<1>1. ASSUME NEW m \in Memories
      PROVE  R[m] \in c(m) /\ R[m] \in Nat /\ \A y \in c(m) : R[m] <= y
  <2>1. c(m) \in SUBSET Nat /\ c(m) # {}
    <3>1. depths[m] \in Nat
      BY DEF Depths
    <3>2. ASSUME NEW e \in edges PROVE depths[e.from] + Cost(e) \in Nat
      BY Costs DEF Depths
    <3> QED BY <3>1, <3>2
  <2>2. R[m] = CHOOSE x \in c(m) : \A y \in c(m) : x <= y
    BY DEF Relaxed
  <2> HIDE DEF c, R
  <2>3. \E x \in c(m) : \A y \in c(m) : x <= y
    BY <2>1, Least
  <2>4. R[m] \in c(m) /\ \A y \in c(m) : R[m] <= y
    BY <2>2, <2>3
  <2> QED BY <2>1, <2>4
<1>2. R = [m \in Memories |-> R[m]]
  BY DEF Relaxed
<1> HIDE DEF R
<1>3. R \in Depths
  BY <1>1, <1>2 DEF Depths
<1>4. \A m \in Memories : R[m] <= depths[m]
  BY <1>1
<1>5. ASSUME NEW e \in edges PROVE R[e.to] <= depths[e.from] + Cost(e)
  <2>1. e.to \in Memories /\ depths[e.from] + Cost(e) \in c(e.to)
    BY Costs
  <2> HIDE DEF c
  <2> QED BY <1>1, <2>1
<1>6. \A m \in Memories : \/ R[m] = depths[m]
                          \/ \E e \in edges : e.to = m /\ R[m] = depths[e.from] + Cost(e)
  <2> SUFFICES ASSUME NEW m \in Memories, R[m] # depths[m]
               PROVE  \E e \in edges : e.to = m /\ R[m] = depths[e.from] + Cost(e)
    OBVIOUS
  <2>1. R[m] \in c(m)
    BY <1>1
  <2> QED BY <2>1
<1> QED BY <1>3, <1>4, <1>5, <1>6 DEF R

LEMMA LeastDepthIs ==
  ASSUME edges \in Graphs, NEW seeds \in SUBSET Memories
  PROVE  /\ LeastDepth(seeds)[0] = Start(seeds)
         /\ \A i \in 1..MaxHops : LeastDepth(seeds)[i] = Relaxed(LeastDepth(seeds)[i - 1])
         /\ \A i \in 0..MaxHops : LeastDepth(seeds)[i] \in Depths
<1> DEFINE D == Depths
           b == Start(seeds)
           F == [i \in 1..MaxHops |-> [x \in D |-> Relaxed(x)]]
           r == LeastDepth(seeds)
<1>1. MaxHops \in Nat
  BY RetrievalAssumption
<1>2. b \in D
  <2>1. Depth \in Nat
    BY Costs
  <2> QED BY <2>1 DEF Start, Depths
<1>3. F \in [1..MaxHops -> [D -> D]]
  BY RelaxedIs
<1>4. \A i \in 1..MaxHops, x \in D : F[i][x] = Relaxed(x)
  OBVIOUS
<1>5. r = CHOOSE g : g = [i \in 0..MaxHops |-> IF i = 0 THEN b ELSE Relaxed(g[i - 1])]
  BY DEF LeastDepth, Start
<1> HIDE DEF D, b, F, r
<1>6. PICK g \in [0..MaxHops -> D] : g[0] = b /\ \A i \in 1..MaxHops : g[i] = F[i][g[i - 1]]
  <2>1. Stepwise(MaxHops, D, b, F) # {}
    BY <1>1, <1>2, <1>3, Iterates
  <2> QED BY <2>1 DEF Stepwise
<1>7. \A i \in 1..MaxHops : g[i] = Relaxed(g[i - 1])
  <2>1. \A i \in 1..MaxHops : i - 1 \in 0..MaxHops
    BY <1>1
  <2> QED BY <1>4, <1>6, <2>1
<1>8. g = [i \in 0..MaxHops |-> IF i = 0 THEN b ELSE Relaxed(g[i - 1])]
  <2>1. \A i \in 0..MaxHops : i # 0 => i \in 1..MaxHops
    BY <1>1
  <2>2. \A i \in 0..MaxHops : g[i] = IF i = 0 THEN b ELSE Relaxed(g[i - 1])
    BY <1>6, <1>7, <2>1
  <2> QED BY <2>2
<1>9. r = [i \in 0..MaxHops |-> IF i = 0 THEN b ELSE Relaxed(r[i - 1])]
  BY <1>5, <1>8
<1>10. r[0] = b
  BY <1>1, <1>9
<1>11. \A i \in 1..MaxHops : r[i] = Relaxed(r[i - 1])
  <2>1. \A i \in 1..MaxHops : i \in 0..MaxHops /\ i # 0
    BY <1>1
  <2> QED BY <1>9, <2>1
<1> DEFINE S == {i \in 0..MaxHops : r[i] \in D}
<1>12. 0 \in S
  BY <1>1, <1>2, <1>10
<1>13. \A i \in 0..MaxHops : i \in S /\ i < MaxHops => i + 1 \in S
  <2> SUFFICES ASSUME NEW i \in 0..MaxHops, i \in S, i < MaxHops PROVE i + 1 \in S
    OBVIOUS
  <2>1. i + 1 \in 1..MaxHops /\ i + 1 \in 0..MaxHops /\ (i + 1) - 1 = i
    BY <1>1
  <2>2. r[i + 1] = Relaxed(r[i])
    BY <1>11, <2>1
  <2>3. Relaxed(r[i]) \in D
    BY RelaxedIs DEF D
  <2> QED BY <2>1, <2>2, <2>3
<1>14. \A i \in 0..MaxHops : r[i] \in D
  <2>1. \A i \in 0..MaxHops : i \in S
    <3> HIDE DEF S
    <3> QED BY <1>1, <1>12, <1>13, Steps
  <2> QED BY <2>1
<1> QED BY <1>10, <1>11, <1>14 DEF r, b, D

\* No row is less deep than the least depth of the memory it ends in.
LEMMA NoRowIsBetter ==
  ASSUME edges \in Graphs, NEW seeds \in SUBSET Memories
  PROVE  \A i \in 0..MaxHops : \A j \in 0..i : \A row \in Rows(seeds)[j] :
           LeastDepth(seeds)[i][Last(row.path)] <= row.logical
<1> DEFINE L == LeastDepth(seeds)
           Good(i) == \A j \in 0..i : \A row \in Rows(seeds)[j] : L[i][Last(row.path)] <= row.logical
           S == {i \in 0..MaxHops : Good(i)}
<1>0. MaxHops \in Nat
  BY RetrievalAssumption
<1>1. 0 \in S
  <2> SUFFICES ASSUME NEW j \in 0..0, NEW row \in Rows(seeds)[j] PROVE L[0][Last(row.path)] <= row.logical
    BY <1>0
  <2>1. j = 0
    OBVIOUS
  <2>2. PICK s \in seeds : row = [path |-> <<s>>, logical |-> 0]
    BY <2>1, RowsAre DEF Starts
  <2>3. Last(row.path) = s /\ row.logical = 0
    BY <2>2 DEF Last
  <2>4. L[0][s] = 0
    BY LeastDepthIs DEF Start
  <2> QED BY <2>3, <2>4
<1>2. ASSUME NEW i \in 0..MaxHops, i \in S, i < MaxHops PROVE i + 1 \in S
  <2>0. /\ i + 1 \in 1..MaxHops /\ i + 1 \in 0..MaxHops /\ (i + 1) - 1 = i /\ i \in Nat /\ i \in 0..i
        /\ \A x \in 0..(i + 1) : x \in 0..MaxHops /\ (x \in 0..i \/ x = i + 1)
    BY <1>0, <1>2
  <2> SUFFICES ASSUME NEW j \in 0..(i + 1), NEW row \in Rows(seeds)[j]
               PROVE  L[i + 1][Last(row.path)] <= row.logical
    BY <2>0
  <2> DEFINE m == Last(row.path)
             l == L[i]
  <2>1. L[i + 1] = Relaxed(l) /\ l \in Depths /\ L[i + 1] \in Depths
    BY <2>0, LeastDepthIs
  <2>2. row \in Row /\ m \in Memories /\ row.logical \in Nat
    BY <2>0, RowFacts DEF Row
  <2> HIDE DEF L, l
  <2>3. L[i + 1][m] \in Nat /\ l[m] \in Nat
    BY <2>1, <2>2 DEF Depths
  <2>4. CASE j \in 0..i
    <3>1. L[i][m] <= row.logical
      BY <1>2, <2>4
    <3>2. L[i + 1][m] <= l[m]
      BY <2>1, <2>2, RelaxedIs
    <3> QED BY <2>2, <2>3, <3>1, <3>2 DEF l
  <2>5. CASE j = i + 1
    <3> DEFINE rows == Rows(seeds)[i]
    <3>1. row \in Longer(rows) /\ rows \in SUBSET Row
      BY <2>0, <2>5, RowsAre
    <3>2. PICK x \in rows, e \in edges :
            /\ Follow(x, e) /\ row = [path |-> Append(x.path, e.to), logical |-> x.logical + Cost(e)]
      <4> HIDE DEF rows
      <4> QED BY <3>1, LongerIs
    <3>3. /\ row.path = Append(x.path, e.to) /\ row.logical = x.logical + Cost(e)
          /\ x.path \in Seq(Memories) /\ e.to \in Memories /\ x.logical \in Nat /\ Cost(e) \in Nat
          /\ e.from \in Memories /\ e.from = Last(x.path)
      BY <3>1, <3>2, Costs DEF Row, Follow
    <3>4. m = e.to
      BY <3>3, Ends
    <3>5. L[i][Last(x.path)] <= x.logical
      BY <1>2, <2>0
    <3>6. L[i + 1][m] <= l[e.from] + Cost(e)
      BY <2>1, <3>4, RelaxedIs
    <3>7. l[e.from] \in Nat /\ l[e.from] <= x.logical
      BY <2>1, <3>3, <3>5 DEF Depths, l
    <3> QED BY <2>3, <3>3, <3>6, <3>7
  <2> QED BY <2>0, <2>4, <2>5
<1>3. \A i \in 0..MaxHops : i \in S
  <2> HIDE DEF S
  <2> QED BY <1>0, <1>1, <1>2, Steps
<1> QED BY <1>3

\* What some walk reaches within both bounds, a row without a loop reaches.
LEMMA SomeRowIsAsGood ==
  ASSUME edges \in Graphs, NEW seeds \in SUBSET Memories
  PROVE  \A i \in 0..MaxHops : \A m \in Memories :
           LeastDepth(seeds)[i][m] <= Depth => Reached(seeds, i, m, LeastDepth(seeds)[i][m])
<1> DEFINE L == LeastDepth(seeds)
           Good(i) == \A m \in Memories : L[i][m] <= Depth => Reached(seeds, i, m, L[i][m])
           S == {i \in 0..MaxHops : Good(i)}
<1>0. MaxHops \in Nat /\ Depth \in Nat
  BY Costs, RetrievalAssumption
<1>1. 0 \in S
  <2> SUFFICES ASSUME NEW m \in Memories, L[0][m] <= Depth PROVE Reached(seeds, 0, m, L[0][m])
    BY <1>0
  <2>1. L[0][m] = IF m \in seeds THEN 0 ELSE Depth + 1
    BY LeastDepthIs DEF Start
  <2>2. m \in seeds /\ L[0][m] = 0
    BY <1>0, <2>1
  <2> DEFINE row == [path |-> <<m>>, logical |-> 0]
  <2>3. row \in Rows(seeds)[0]
    BY <2>2, RowsAre DEF Starts
  <2>4. Last(row.path) = m /\ row.logical <= 0 /\ 0 \in 0..0
    BY DEF Last
  <2> HIDE DEF row
  <2> QED BY <2>2, <2>3, <2>4 DEF Reached
<1>2. ASSUME NEW i \in 0..MaxHops, i \in S, i < MaxHops PROVE i + 1 \in S
  <2>0. /\ i + 1 \in 1..MaxHops /\ i + 1 \in 0..MaxHops /\ (i + 1) - 1 = i /\ i \in Nat
        /\ \A x \in 0..i : /\ x \in 0..MaxHops /\ x \in 0..(i + 1) /\ x + 1 \in 1..MaxHops
                           /\ x + 1 \in 0..(i + 1) /\ x + 1 \in 0..MaxHops /\ (x + 1) - 1 = x
                           /\ \A y \in 0..x : y \in 0..MaxHops /\ y \in 0..(i + 1)
    BY <1>0, <1>2
  <2> SUFFICES ASSUME NEW m \in Memories, L[i + 1][m] <= Depth PROVE Reached(seeds, i + 1, m, L[i + 1][m])
    BY <2>0
  <2> DEFINE l == L[i]
             d == L[i + 1][m]
  <2>1. L[i + 1] = Relaxed(l) /\ l \in Depths /\ L[i + 1] \in Depths
    BY <2>0, LeastDepthIs
  <2>2. \A n \in Memories : l[n] <= Depth => Reached(seeds, i, n, l[n])
    BY <1>2
  <2>9. d <= Depth
    OBVIOUS
  <2> HIDE DEF L, l
  <2>3. d \in Nat
    BY <2>1 DEF Depths
  <2>4. CASE d = l[m]
    <3>1. Reached(seeds, i, m, d)
      BY <2>2, <2>4, <2>9
    <3> QED BY <2>0, <3>1 DEF Reached
  <2>5. CASE d # l[m]
    <3>1. PICK e \in edges : e.to = m /\ d = l[e.from] + Cost(e)
      BY <2>1, <2>5, RelaxedIs
    <3>2. e.from \in Memories /\ Cost(e) \in Nat /\ l[e.from] \in Nat /\ l[e.from] <= Depth
      <4>1. e.from \in Memories /\ Cost(e) \in Nat /\ l[e.from] \in Nat
        BY <2>1, Costs DEF Depths
      <4> QED BY <1>0, <2>9, <3>1, <4>1
    <3>3. Reached(seeds, i, e.from, l[e.from])
      BY <2>2, <3>2
    <3>4. PICK j \in 0..i : \E row \in Rows(seeds)[j] : Last(row.path) = e.from /\ row.logical <= l[e.from]
      BY <3>3 DEF Reached
    <3>5. PICK x \in Rows(seeds)[j] : Last(x.path) = e.from /\ x.logical <= l[e.from]
      BY <3>4
    <3>6. Rows(seeds)[j] \in SUBSET Row /\ x.path \in Seq(Memories) /\ x.logical \in Nat
      BY <2>0, RowsAre DEF Row
    <3>7. CASE m \notin Range(x.path)
      <4> DEFINE row == [path |-> Append(x.path, e.to), logical |-> x.logical + Cost(e)]
      <4>1. x.logical + Cost(e) <= d
        BY <3>1, <3>2, <3>5, <3>6
      <4>2. Follow(x, e)
        <5>1. x.logical + Cost(e) <= Depth
          BY <1>0, <2>3, <2>9, <3>2, <3>6, <4>1
        <5> QED BY <3>1, <3>5, <3>7, <5>1 DEF Follow
      <4>3. row \in Longer(Rows(seeds)[j])
        BY <3>6, <4>2, LongerIs
      <4>4. row \in Rows(seeds)[j + 1]
        BY <2>0, <4>3, RowsAre
      <4>5. Last(row.path) = m /\ row.logical <= d
        BY <3>1, <3>6, <4>1, Ends
      <4> HIDE DEF row, d
      <4> QED BY <2>0, <4>4, <4>5 DEF Reached, d
    <3>8. CASE m \in Range(x.path)
      <4>1. Reached(seeds, j, m, x.logical)
        BY <2>0, <3>8, Beginnings
      <4>2. PICK h \in 0..j : \E y \in Rows(seeds)[h] : Last(y.path) = m /\ y.logical <= x.logical
        BY <4>1 DEF Reached
      <4>3. PICK y \in Rows(seeds)[h] : Last(y.path) = m /\ y.logical <= x.logical
        BY <4>2
      <4>4. h \in 0..MaxHops /\ h \in 0..(i + 1)
        BY <2>0
      <4>5. y.logical \in Nat
        BY <4>4, RowsAre DEF Row
      <4>6. y.logical <= d
        BY <3>1, <3>2, <3>5, <3>6, <4>3, <4>5
      <4> HIDE DEF d
      <4> QED BY <4>3, <4>4, <4>6 DEF Reached, d
    <3> QED BY <3>7, <3>8
  <2> QED BY <2>4, <2>5
<1>3. \A i \in 0..MaxHops : i \in S
  <2> HIDE DEF S
  <2> QED BY <1>0, <1>1, <1>2, Steps
<1> QED BY <1>3

LEMMA WalkIsExact ==
  ASSUME edges \in Graphs, NEW seeds \in SUBSET Memories
  PROVE  Walk(seeds) = {m \in Memories : LeastDepth(seeds)[MaxHops][m] <= Depth}
<1>0. MaxHops \in Nat /\ MaxHops \in 0..MaxHops /\ Depth \in Nat
  BY Costs, RetrievalAssumption
<1>1. ASSUME NEW i \in 0..MaxHops, NEW row \in Rows(seeds)[i]
      PROVE  Last(row.path) \in Memories /\ LeastDepth(seeds)[MaxHops][Last(row.path)] <= Depth
  <2>1. Last(row.path) \in Memories /\ row.logical \in Nat /\ row.logical <= Depth
    BY RowFacts DEF Row
  <2>2. LeastDepth(seeds)[MaxHops][Last(row.path)] <= row.logical
    BY <1>0, NoRowIsBetter
  <2>3. LeastDepth(seeds)[MaxHops][Last(row.path)] \in Nat
    BY <1>0, <2>1, LeastDepthIs DEF Depths
  <2> QED BY <1>0, <2>1, <2>2, <2>3
<1>2. ASSUME NEW m \in Memories, LeastDepth(seeds)[MaxHops][m] <= Depth
      PROVE  m \in Walk(seeds)
  <2>1. Reached(seeds, MaxHops, m, LeastDepth(seeds)[MaxHops][m])
    BY <1>0, <1>2, SomeRowIsAsGood
  <2>2. PICK j \in 0..MaxHops : \E row \in Rows(seeds)[j] : Last(row.path) = m
    BY <2>1 DEF Reached
  <2> QED BY <2>2 DEF Walk
<1>3. Walk(seeds) \subseteq {m \in Memories : LeastDepth(seeds)[MaxHops][m] <= Depth}
  BY <1>1 DEF Walk
<1> QED BY <1>2, <1>3

-----------------------------------------------------------------------------
(* The invariant.                                                          *)

Phases == {"search", "walk", "resolve", "rank", "count", "over"}
Sources == {"vector", "keyword", "graph"}
Hit == {s \in Seq(Memories) : IsInjective(s)}

\* The sources list memories, each once, and until the search is over nothing is
\* counted.
Searching ==
  /\ edges \in Graphs /\ ask \in Requests /\ phase \in Phases
  /\ archived \subseteq stored /\ stored \subseteq Memories /\ dormant \subseteq archived
  /\ DOMAIN lists = Sources /\ lists = [s \in Sources |-> lists[s]]
  /\ \A s \in Sources : lists[s] = None \/ lists[s] \in Hit
  /\ phase # "search" => \A s \in Sources : lists[s] # None
  /\ reached \in Hit /\ answer \in Seq(Memories)
  /\ counted \subseteq Range(answer) /\ (phase # "over" => counted = {})
  /\ phase \in {"count", "over"} => Sound(answer)

LEMMA HitFacts ==
  ASSUME NEW s \in Hit, NEW S, NEW n \in Nat
  PROVE  /\ Kept(s, S) \in Hit /\ Range(Kept(s, S)) = Range(s) \cap S
         /\ First(n, s) \in Hit /\ Range(First(n, s)) \subseteq Range(s)
         /\ \A l \in 0..Len(s) : SubSeq(s, 1, l) \in Hit
<1>1. s \in Seq(Memories) /\ IsInjective(s)
  BY DEF Hit
<1>2. \A x \in Nat : First(x, s) \in Hit /\ Range(First(x, s)) \subseteq Range(s)
  BY <1>1, FirstFacts DEF Hit
<1>3. ASSUME NEW l \in 0..Len(s) PROVE SubSeq(s, 1, l) \in Hit
  <2>1. Len(s) \in Nat
    BY <1>1
  <2>2. l \in Nat /\ (IF l < Len(s) THEN l ELSE Len(s)) = l
    BY <2>1
  <2> QED BY <1>2, <2>2 DEF First
<1>4. Kept(s, S) \in Hit /\ Range(Kept(s, S)) = Range(s) \cap S
  BY <1>1, KeptFacts DEF Hit
<1> QED BY <1>2, <1>3, <1>4

LEMMA WalkOrdersAreHits ==
  ASSUME edges \in Graphs, NEW seeds \in SUBSET Memories, NEW s \in WalkOrders(seeds)
  PROVE  s \in Hit
<1> DEFINE W == Walk(seeds)
<1>1. W \subseteq Memories
  BY WalkIsExact
<1>2. s \in [1..Cardinality(W) -> W] /\ \A i, j \in 1..Cardinality(W) : i # j => s[i] # s[j]
  BY DEF WalkOrders, SetToSeqs
<1> HIDE DEF W
<1>3. Cardinality(W) \in Nat
  BY <1>1, FS_Subset, FS_CardinalityType, RetrievalAssumption
<1>4. s \in Seq(Memories) /\ DOMAIN s = 1..Cardinality(W)
  BY <1>1, <1>2, <1>3
<1> QED BY <1>2, <1>4 DEF Hit, IsInjective

\* What Sound says depends on the lists and the request only.
LEMMA SoundKept ==
  ASSUME NEW a, Sound(a), answer' = a, UNCHANGED <<ask, lists>>
  PROVE  Sound(answer)'
<1>1. Pool' = Pool /\ Wanted' = Wanted /\ TopK' = TopK /\ MaxTokens' = MaxTokens
  BY DEF Pool, Wanted, TopK, MaxTokens
<1>2. \A n, m : Dominates(n, m)' <=> Dominates(n, m)
  BY DEF Dominates, RankIn
<1> QED BY <1>1, <1>2 DEF Sound

LEMMA NoHitIsNone == \A s \in Hit : s # None
BY RetrievalAssumption DEF Hit

LEMMA EmptyHit == <<>> \in Hit /\ Range(<<>>) = {}
BY DEF Hit, IsInjective, Range

LEMMA SearchingInit == Init => Searching
<1> SUFFICES ASSUME Init PROVE Searching
  OBVIOUS
<1>1. Changing \subseteq Memories /\ Requests \subseteq Request
  BY RetrievalAssumption
<1>2. <<>> \in Hit /\ <<>> \in Seq(Memories)
  BY EmptyHit
<1> QED BY <1>1, <1>2 DEF Init, Searching, Sources, Phases

LEMMA SearchingStep == Searching /\ [Next]_vars => Searching'
<1> SUFFICES ASSUME Searching, [Next]_vars PROVE Searching'
  OBVIOUS
<1>1. /\ TopK \in Nat /\ Depth \in Nat
      /\ ByVector \in Hit /\ ByKeyword \in Hit
  BY Limits, Costs, RetrievalAssumption DEF Searching, Hit
<1>2. ASSUME NEW source \in {"vector", "keyword"}, NEW order \in Hit, SafeSearch(source, order)
      PROVE  Searching'
  <2>1. PICK hits \in {Hits(order), <<>>} : lists' = [lists EXCEPT ![source] = hits]
    BY <1>2 DEF SafeSearch
  <2>2. Kept(order, (stored \ archived) \cap Wanted) \in Hit
    BY HitFacts
  <2>3. Hits(order) \in Hit
    BY <1>1, <2>2, HitFacts DEF Hits
  <2>4. hits \in Hit
    BY <2>1, <2>3, EmptyHit
  <2>5. \A s \in Sources : lists'[s] = IF s = source THEN hits ELSE lists[s]
    BY <1>2, <2>1 DEF Searching, Sources
  <2>6. DOMAIN lists' = Sources /\ lists' = [s \in Sources |-> lists'[s]]
    BY <2>1 DEF Searching
  <2>7. /\ phase = "search" /\ UNCHANGED <<edges, stored, archived, dormant, ask, phase, reached, answer, counted>>
    BY <1>2 DEF SafeSearch
  <2>8. \A s \in Sources : lists'[s] = None \/ lists'[s] \in Hit
    BY <2>4, <2>5 DEF Searching
  <2> QED BY <2>6, <2>7, <2>8 DEF Searching
<1>3. ASSUME Gather PROVE Searching'
  <2>1. /\ phase = "search" /\ lists["vector"] # None /\ lists["keyword"] # None
        /\ phase' \in {"rank", "walk"} /\ lists' = [lists EXCEPT !["graph"] = <<>>]
        /\ UNCHANGED <<edges, stored, archived, dormant, ask, reached, answer, counted>>
    BY <1>3 DEF Gather
  <2>2. \A s \in Sources : lists'[s] = IF s = "graph" THEN <<>> ELSE lists[s]
    BY <2>1 DEF Searching, Sources
  <2>3. DOMAIN lists' = Sources /\ lists' = [s \in Sources |-> lists'[s]]
    BY <2>1 DEF Searching
  <2>4. \A s \in Sources : lists'[s] # None /\ (lists'[s] = None \/ lists'[s] \in Hit)
    BY <2>1, <2>2, EmptyHit, NoHitIsNone DEF Searching, Sources
  <2> QED BY <2>1, <2>3, <2>4 DEF Searching, Phases
<1>4. ASSUME Traverse PROVE Searching'
  <2> DEFINE seeds == Range(First(3, lists.vector))
  <2>1. /\ phase = "walk" /\ phase' = "resolve"
        /\ UNCHANGED <<edges, stored, archived, dormant, ask, lists, answer, counted>>
    BY <1>4 DEF Traverse
  <2>2. lists.vector \in Hit
    BY <2>1 DEF Searching, Sources
  <2>3. seeds \in SUBSET Memories
    <3>1. First(3, lists.vector) \in Hit
      BY <2>2, HitFacts
    <3> QED BY <3>1 DEF Hit, Range
  <2>4. PICK s \in WalkOrders(seeds) : reached' \in Prefixes(s)
    BY <1>4 DEF Traverse
  <2> HIDE DEF seeds
  <2>5. s \in Hit
    BY <2>3, WalkOrdersAreHits DEF Searching
  <2>6. reached' \in Hit
    BY <2>4, <2>5, HitFacts DEF Prefixes
  <2> QED BY <2>1, <2>6 DEF Searching, Phases
<1>5. ASSUME Resolve PROVE Searching'
  <2>1. PICK hits \in {Kept(reached, stored), <<>>} : lists' = [lists EXCEPT !["graph"] = hits]
    BY <1>5 DEF Resolve
  <2>2. hits \in Hit
    BY <2>1, HitFacts, EmptyHit DEF Searching
  <2>3. /\ phase = "resolve" /\ phase' = "rank"
        /\ UNCHANGED <<edges, stored, archived, dormant, ask, reached, answer, counted>>
    BY <1>5 DEF Resolve
  <2>4. \A s \in Sources : lists'[s] = IF s = "graph" THEN hits ELSE lists[s]
    BY <2>1 DEF Searching, Sources
  <2>5. DOMAIN lists' = Sources /\ lists' = [s \in Sources |-> lists'[s]]
    BY <2>1 DEF Searching
  <2>6. \A s \in Sources : lists'[s] # None /\ (lists'[s] = None \/ lists'[s] \in Hit)
    BY <2>2, <2>3, <2>4, NoHitIsNone DEF Searching
  <2> QED BY <2>3, <2>5, <2>6 DEF Searching, Phases
<1>6. ASSUME Rank PROVE Searching'
  <2>1. /\ phase = "rank" /\ answer' = Results /\ phase' \in {"over", "count"}
        /\ UNCHANGED <<edges, stored, archived, dormant, ask, lists, reached, counted>>
    BY <1>6 DEF Rank
  <2>2. Gathered
    BY <2>1 DEF Searching, Sources, Gathered, Hit
  <2>3. Results \in Seq(Memories) /\ Sound(Results)
    BY <2>2, ResultsSound DEF Searching
  <2>4. Sound(answer)'
    BY <2>1, <2>3, SoundKept
  <2> QED BY <2>1, <2>3, <2>4 DEF Searching, Phases
<1>7. ASSUME Count PROVE Searching'
  <2>1. /\ phase = "count" /\ phase' = "over" /\ counted' \in {Accessed, {}}
        /\ UNCHANGED <<edges, stored, archived, dormant, ask, lists, reached, answer>>
    BY <1>7 DEF Count
  <2>2. Sound(answer)'
    BY <2>1, SoundKept DEF Searching
  <2>3. counted' \subseteq Range(answer)
    BY <2>1 DEF Accessed
  <2> QED BY <2>1, <2>2, <2>3 DEF Searching, Phases
<1>8. ASSUME NEW m \in Memories, Archive(m) \/ Restore(m) \/ Delete(m) PROVE Searching'
  <2>1. /\ archived' \subseteq stored' /\ stored' \subseteq stored /\ dormant' \subseteq archived'
        /\ phase # "over"
        /\ UNCHANGED <<edges, ask, phase, lists, reached, answer, counted>>
    BY <1>8 DEF Archive, Restore, Delete, Searching
  <2>2. phase \in {"count", "over"} => Sound(answer)'
    BY <2>1, SoundKept DEF Searching
  <2> QED BY <2>1, <2>2 DEF Searching
<1>9. ASSUME UNCHANGED vars PROVE Searching'
  <2>1. UNCHANGED <<edges, stored, archived, dormant, ask, phase, lists, reached, answer, counted>>
    BY <1>9 DEF vars
  <2>2. phase \in {"count", "over"} => Sound(answer)'
    BY <2>1, SoundKept DEF Searching
  <2> QED BY <2>1, <2>2 DEF Searching
<1> QED BY <1>1, <1>2, <1>3, <1>4, <1>5, <1>6, <1>7, <1>8, <1>9 DEF Next

LEMMA AlwaysSearching == Spec => []Searching
BY SearchingInit, SearchingStep, PTL DEF Spec

\* The state of a search has its shape: in particular the walk and the sources
\* name memories only, and nothing outside the answer is counted.
THEOREM RetrievalTyped == Spec => []TypeOK
<1>1. Searching => TypeOK
  <2> SUFFICES ASSUME Searching PROVE TypeOK
    OBVIOUS
  <2>1. \A s \in Seq(Memories) : Range(s) \subseteq Memories
    BY DEF Range
  <2>2. \A s \in Sources : lists[s] = None \/ Range(lists[s]) \subseteq Memories
    BY <2>1 DEF Searching, Hit
  <2>3. Range(reached) \cup Range(answer) \subseteq Memories
    BY <2>1 DEF Searching, Hit
  <2> QED BY <2>2, <2>3 DEF Searching, TypeOK, Phases
<1> QED BY <1>1, AlwaysSearching, PTL

\* The recursive query, which drops a path that returns to itself, reaches all
\* that any walk within the two bounds reaches.
THEOREM WalksAreExact == Spec => []WalkExact
<1>1. Searching => WalkExact
  <2> SUFFICES ASSUME Searching, phase = "walk"
               PROVE  LET seeds == Range(First(3, lists.vector)) IN
                      Walk(seeds) = {m \in Memories : LeastDepth(seeds)[MaxHops][m] <= Depth}
    BY DEF WalkExact
  <2> DEFINE seeds == Range(First(3, lists.vector))
  <2>1. lists.vector \in Hit
    BY DEF Searching, Sources
  <2>2. First(3, lists.vector) \in Hit
    BY <2>1, HitFacts
  <2>3. seeds \in SUBSET Memories
    BY <2>2 DEF Hit, Range
  <2> HIDE DEF seeds
  <2>4. Walk(seeds) = {m \in Memories : LeastDepth(seeds)[MaxHops][m] <= Depth}
    BY <2>3, WalkIsExact DEF Searching
  <2> QED BY <2>4 DEF seeds
<1> QED BY <1>1, AlwaysSearching, PTL

\* The answer keeps to the request and its limits, names no memory twice, and
\* leaves out nothing for something that is worse everywhere it was found.
THEOREM AnswersAreSound == Spec => []AnswerSound
<1>1. Searching => AnswerSound
  BY DEF Searching, Sound, AnswerSound
<1> QED BY <1>1, AlwaysSearching, PTL
=============================================================================
