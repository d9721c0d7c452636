----------------------------- MODULE Ranks_proofs -----------------------------
(***************************************************************************)
(* Ranks in finite sets.  Where the code sorts, or goes through a loop in  *)
(* some order, the models say which element comes how many places after    *)
(* the first: its rank.  These lemmas say that ranks number a set without  *)
(* a gap, which takes the place of induction in the proofs that cite them. *)
(***************************************************************************)
EXTENDS Naturals, Integers, FiniteSetTheorems, FunctionTheorems, TLAPS

\* A strict total order on a set, as a set of pairs.
TotalOn(S, R) ==
  /\ \A x \in S : <<x, x>> \notin R
  /\ \A x, y, z \in S : <<x, y>> \in R /\ <<y, z>> \in R => <<x, z>> \in R
  /\ \A x, y \in S : x = y \/ <<x, y>> \in R \/ <<y, x>> \in R

Below(S, R, x) == {y \in S : <<y, x>> \in R}
Rank(S, R, x) == 1 + Cardinality(Below(S, R, x))

\* Who is below has the lower rank, and no rank exceeds the number of
\* elements.
LEMMA RankGrows ==
  ASSUME NEW S, NEW R, IsFiniteSet(S), TotalOn(S, R)
  PROVE  /\ \A x \in S : Rank(S, R, x) \in 1..Cardinality(S)
         /\ \A x, y \in S : <<x, y>> \in R => Rank(S, R, x) < Rank(S, R, y)
<1>1. ASSUME NEW x \in S, NEW T \in SUBSET S, Below(S, R, x) \subseteq T \ {x}, x \in T
      PROVE  /\ IsFiniteSet(T) /\ Cardinality(T) \in Nat
             /\ Cardinality(Below(S, R, x)) \in Nat
             /\ Cardinality(Below(S, R, x)) < Cardinality(T)
  <2>1. IsFiniteSet(T) /\ Cardinality(T) \in Nat
    BY FS_Subset, FS_CardinalityType
  <2>2. IsFiniteSet(T \ {x}) /\ Cardinality(T \ {x}) = Cardinality(T) - 1
    BY <1>1, <2>1, FS_RemoveElement
  <2>3. /\ IsFiniteSet(Below(S, R, x))
        /\ Cardinality(Below(S, R, x)) <= Cardinality(T \ {x})
    BY <1>1, <2>2, FS_Subset
  <2>4. Cardinality(Below(S, R, x)) \in Nat
    BY <2>3, FS_CardinalityType
  <2> QED
    BY <2>1, <2>2, <2>3, <2>4
<1>2. ASSUME NEW x \in S PROVE Rank(S, R, x) \in 1..Cardinality(S)
  <2>1. Below(S, R, x) \subseteq S \ {x}
    BY DEF Below, TotalOn
  <2> QED
    BY <1>1, <2>1 DEF Rank
<1>3. ASSUME NEW x \in S, NEW y \in S, <<x, y>> \in R
      PROVE  Rank(S, R, x) < Rank(S, R, y)
  <2>1. /\ Below(S, R, x) \subseteq Below(S, R, y) \ {x}
        /\ x \in Below(S, R, y) /\ Below(S, R, y) \in SUBSET S
    BY <1>3 DEF Below, TotalOn
  <2> QED
    BY <1>1, <2>1 DEF Rank
<1> QED
  BY <1>2, <1>3

\* Every place from the first to the last is the rank of one element.
LEMMA RankNumbers ==
  ASSUME NEW S, NEW R, IsFiniteSet(S), TotalOn(S, R)
  PROVE  /\ \A x, y \in S : Rank(S, R, x) = Rank(S, R, y) => x = y
         /\ \A k \in 1..Cardinality(S) : \E x \in S : Rank(S, R, x) = k
<1> DEFINE rank == [x \in S |-> Rank(S, R, x)]
<1>1. Cardinality(S) \in Nat
  BY FS_CardinalityType
<1>2. \A x \in S : Rank(S, R, x) \in 1..Cardinality(S)
  BY RankGrows
<1>3. \A x, y \in S : Rank(S, R, x) = Rank(S, R, y) => x = y
  <2> SUFFICES ASSUME NEW x \in S, NEW y \in S, Rank(S, R, x) = Rank(S, R, y), x # y
               PROVE  FALSE
    OBVIOUS
  <2>1. Rank(S, R, x) < Rank(S, R, y) \/ Rank(S, R, y) < Rank(S, R, x)
    BY RankGrows DEF TotalOn
  <2> QED
    BY <1>1, <1>2, <2>1
<1>4. rank \in [S -> 1..Cardinality(S)] /\ \A x, y \in S : rank[x] = rank[y] => x = y
  BY <1>2, <1>3
<1>5. IsFiniteSet(1..Cardinality(S)) /\ Cardinality(1..Cardinality(S)) = Cardinality(S)
  <2>1. 1 \in Int /\ Cardinality(S) \in Int
    BY <1>1
  <2>2. /\ IsFiniteSet(1..Cardinality(S))
        /\ Cardinality(1..Cardinality(S)) = IF 1 > Cardinality(S) THEN 0 ELSE Cardinality(S) - 1 + 1
    BY <2>1, FS_Interval
  <2> QED
    BY <1>1, <2>2
<1> HIDE DEF rank
<1>6. rank \in Injection(S, 1..Cardinality(S))
  BY <1>4, Fun_IsInj
<1>7. rank \in Surjection(S, 1..Cardinality(S))
  BY <1>5, <1>6, FS_Injection
<1>8. \A k \in 1..Cardinality(S) : \E x \in S : rank[x] = k
  BY <1>7, Fun_SurjectionProperties
<1> QED
  BY <1>3, <1>8 DEF rank

LEMMA RankReached ==
  ASSUME NEW S, NEW R, IsFiniteSet(S), TotalOn(S, R), NEW k \in 1..Cardinality(S)
  PROVE  \E x \in S : Rank(S, R, x) = k
BY RankNumbers

\* A nonempty finite set has a lowest element.
LEMMA HasLowest ==
  ASSUME NEW S, NEW R, IsFiniteSet(S), TotalOn(S, R), S # {}
  PROVE  \E x \in S : \A y \in S : x = y \/ <<x, y>> \in R
<1>1. Cardinality(S) \in Nat /\ Cardinality(S) # 0
  BY FS_CardinalityType, FS_EmptySet
<1>2. PICK x \in S : Rank(S, R, x) = 1
  BY <1>1, RankNumbers
<1>3. \A y \in S : ~(<<y, x>> \in R)
  BY <1>1, <1>2, RankGrows
<1> QED
  BY <1>3 DEF TotalOn

\* The same for numbers in their order.
LEMMA NatRanks ==
  ASSUME NEW K \in SUBSET Nat, IsFiniteSet(K)
  PROVE  /\ \A m, n \in K : Cardinality({i \in K : i < m}) = Cardinality({i \in K : i < n}) => m = n
         /\ \A k \in 1..Cardinality(K) : \E n \in K : Cardinality({i \in K : i < n}) = k - 1
         /\ \A n \in K : Cardinality({i \in K : i < n}) + 1 \in 1..Cardinality(K)
         /\ K # {} => \E n \in K : \A m \in K : n <= m
<1> DEFINE R == {p \in K \X K : p[1] < p[2]}
<1>1. TotalOn(K, R)
  BY DEF TotalOn
<1>2. \A n \in K : Below(K, R, n) = {i \in K : i < n}
  BY DEF Below
<1>3. \A n \in K : IsFiniteSet({i \in K : i < n})
  <2> SUFFICES ASSUME NEW n \in K PROVE IsFiniteSet({i \in K : i < n})
    OBVIOUS
  <2>1. {i \in K : i < n} \in SUBSET K
    OBVIOUS
  <2> QED
    BY <2>1, FS_Subset
<1>4. \A n \in K : /\ Cardinality({i \in K : i < n}) \in Nat
                   /\ Rank(K, R, n) = 1 + Cardinality({i \in K : i < n})
  <2> SUFFICES ASSUME NEW n \in K
               PROVE  /\ Cardinality({i \in K : i < n}) \in Nat
                      /\ Rank(K, R, n) = 1 + Cardinality({i \in K : i < n})
    OBVIOUS
  <2>1. Cardinality({i \in K : i < n}) \in Nat
    BY <1>3, FS_CardinalityType
  <2>2. Cardinality(Below(K, R, n)) = Cardinality({i \in K : i < n})
    BY <1>2, Zenon
  <2> QED
    BY <2>1, <2>2 DEF Rank
<1>5. \A m, n \in K : <<m, n>> \in R <=> m < n
  OBVIOUS
<1> HIDE DEF R
<1>6. \A m, n \in K : Cardinality({i \in K : i < m}) = Cardinality({i \in K : i < n}) => m = n
  BY <1>1, <1>4, RankNumbers
<1>7. \A k \in 1..Cardinality(K) : \E n \in K : Rank(K, R, n) = k
  <2> SUFFICES ASSUME NEW k \in 1..Cardinality(K)
               PROVE  \E n \in K : Rank(K, R, n) = k
    OBVIOUS
  <2> QED
    BY <1>1, RankReached, Zenon
<1>8. \A k \in 1..Cardinality(K) : \E n \in K : Cardinality({i \in K : i < n}) = k - 1
  BY <1>4, <1>7
<1>9. \A n \in K : Cardinality({i \in K : i < n}) + 1 \in 1..Cardinality(K)
  <2> SUFFICES ASSUME NEW n \in K PROVE Cardinality({i \in K : i < n}) + 1 \in 1..Cardinality(K)
    OBVIOUS
  <2>1. Rank(K, R, n) \in 1..Cardinality(K)
    BY <1>1, RankGrows
  <2> QED
    BY <1>4, <2>1
<1>10. K # {} => \E n \in K : \A m \in K : n <= m
  <2> SUFFICES ASSUME K # {} PROVE \E n \in K : \A m \in K : n <= m
    OBVIOUS
  <2>1. PICK n \in K : \A m \in K : n = m \/ <<n, m>> \in R
    BY <1>1, HasLowest, Zenon
  <2>2. ASSUME NEW m \in K PROVE n <= m
    <3>1. n \in Nat /\ m \in Nat /\ (n = m \/ n < m)
      BY <1>5, <2>1
    <3> QED
      BY <3>1
  <2> QED
    BY <2>2
<1> QED
  BY <1>6, <1>8, <1>9, <1>10

\* In a finite set of numbers every rank is taken.
LEMMA NatReached ==
  ASSUME NEW K \in SUBSET Nat, IsFiniteSet(K), NEW k \in 1..Cardinality(K)
  PROVE  \E n \in K : Cardinality({i \in K : i < n}) = k - 1
BY NatRanks

\* Two sets whose elements correspond one to one are of one size.
LEMMA SameSize ==
  ASSUME NEW A, NEW B, IsFiniteSet(A), NEW g \in [A -> B],
         \A x, y \in A : g[x] = g[y] => x = y,
         \A z \in B : \E x \in A : g[x] = z
  PROVE  IsFiniteSet(B) /\ Cardinality(B) = Cardinality(A)
<1>1. g \in Injection(A, B)
  BY Fun_IsInj
<1>2. g \in Surjection(A, B)
  BY Fun_IsSurj
<1> QED
  BY <1>1, <1>2, FS_Surjection

\* A correspondence that keeps the order keeps the ranks.
LEMMA SameRanks ==
  ASSUME NEW A, NEW B, NEW R, NEW Q, IsFiniteSet(A), TotalOn(A, R), NEW g \in [A -> B],
         \A x, y \in A : g[x] = g[y] => x = y,
         \A z \in B : \E x \in A : g[x] = z,
         \A x, y \in A : <<x, y>> \in R <=> <<g[x], g[y]>> \in Q
  PROVE  /\ IsFiniteSet(B) /\ Cardinality(B) = Cardinality(A) /\ TotalOn(B, Q)
         /\ \A x \in A : Rank(B, Q, g[x]) = Rank(A, R, x)
<1>1. IsFiniteSet(B) /\ Cardinality(B) = Cardinality(A)
  BY SameSize
<1>2. TotalOn(B, Q)
  BY DEF TotalOn
<1>3. ASSUME NEW x \in A PROVE Rank(B, Q, g[x]) = Rank(A, R, x)
  <2> DEFINE lower == Below(A, R, x)
             image == Below(B, Q, g[x])
             h == [y \in lower |-> g[y]]
  <2>1. IsFiniteSet(lower)
    <3>1. lower \in SUBSET A
      BY DEF Below
    <3> QED
      BY <3>1, FS_Subset
  <2>2. /\ h \in [lower -> image] /\ \A y, z \in lower : h[y] = h[z] => y = z
        /\ \A z \in image : \E y \in lower : h[y] = z
    BY DEF Below
  <2> HIDE DEF lower, image, h
  <2>3. Cardinality(image) = Cardinality(lower)
    BY <2>1, <2>2, SameSize
  <2> QED
    BY <2>3, Zenon DEF Rank, lower, image
<1> QED
  BY <1>1, <1>2, <1>3
=============================================================================
