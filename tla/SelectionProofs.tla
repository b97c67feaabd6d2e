---------------------------- MODULE SelectionProofs ----------------------------
(***************************************************************************)
(* What Selected returns.  Counting the positions up to one of them is an  *)
(* increasing map onto an interval, so no induction over the sequence is   *)
(* needed.                                                                 *)
(***************************************************************************)
EXTENDS Selection, FiniteSetTheorems, TLAPS

LEMMA RankUp ==
  ASSUME NEW ps \in SUBSET Nat, IsFiniteSet(ps), NEW i \in ps, NEW j \in ps, i < j
  PROVE  Rank(ps, i) < Rank(ps, j)
<1> DEFINE A == {k \in ps : k <= i}
           B == {k \in ps : k <= j}
<1>1. IsFiniteSet(B)
  BY FS_Subset
<1>2. A \in SUBSET B /\ j \in B /\ j \notin A
  <2>1. i \in Nat /\ j \in Nat /\ \A k \in ps : k \in Nat
    OBVIOUS
  <2>2. \A k \in ps : k <= i => k <= j
    BY <2>1
  <2>3. A \in SUBSET B
    BY <2>2
  <2>4. j \in B
    BY <2>1
  <2>5. j \notin A
    BY <2>1
  <2> QED BY <2>3, <2>4, <2>5
<1>3. IsFiniteSet(A) /\ Cardinality(A) <= Cardinality(B) /\ Cardinality(A) # Cardinality(B)
  <2>1. /\ IsFiniteSet(A) /\ Cardinality(A) <= Cardinality(B)
        /\ Cardinality(B) = Cardinality(A) => B = A
    BY <1>1, <1>2, FS_Subset
  <2> QED BY <1>2, <2>1
<1>4. Cardinality(A) \in Nat /\ Cardinality(B) \in Nat
  BY <1>1, <1>3, FS_CardinalityType
<1> QED BY <1>3, <1>4 DEF Rank

LEMMA RankType ==
  ASSUME NEW ps \in SUBSET Nat, IsFiniteSet(ps), NEW i \in ps
  PROVE  Rank(ps, i) \in 1 .. Cardinality(ps)
<1> DEFINE A == {k \in ps : k <= i}
<1>1. IsFiniteSet(A) /\ Cardinality(A) <= Cardinality(ps)
  BY FS_Subset
<1>2. Cardinality(A) # 0
  BY <1>1, FS_EmptySet
<1>3. Cardinality(A) \in Nat /\ Cardinality(ps) \in Nat
  BY <1>1, FS_CardinalityType
<1> QED BY <1>1, <1>2, <1>3 DEF Rank

\* Every number up to the number of positions is the rank of one.
LEMMA NthType ==
  ASSUME NEW ps \in SUBSET Nat, IsFiniteSet(ps), NEW k \in 1 .. Cardinality(ps)
  PROVE  Nth(ps, k) \in ps /\ Rank(ps, Nth(ps, k)) = k
<1> DEFINE n == Cardinality(ps)
           f == [i \in ps |-> Rank(ps, i)]
<1>1. n \in Nat
  BY FS_CardinalityType
<1>2. IsFiniteSet(1 .. n) /\ Cardinality(1 .. n) = n
  BY <1>1, FS_Interval
<1>3. f \in [ps -> 1 .. n]
  BY RankType
<1>4. ASSUME NEW i \in ps, NEW j \in ps, f[i] = f[j] PROVE i = j
  <2>1. Rank(ps, i) = Rank(ps, j) /\ Rank(ps, i) \in 1 .. n
    BY <1>4, RankType
  <2>2. ~(i < j) /\ ~(j < i)
    BY <1>1, <2>1, RankUp
  <2> QED BY <2>2
<1>5. f \in Injection(ps, 1 .. n)
  BY <1>3, <1>4 DEF Injection, IsInjective
<1>6. f \in Surjection(ps, 1 .. n)
  BY <1>2, <1>5, FS_Injection
<1>7. \E i \in ps : Rank(ps, i) = k
  BY <1>6 DEF Surjection
<1> QED BY <1>7 DEF Nth

LEMMA NthUp ==
  ASSUME NEW ps \in SUBSET Nat, IsFiniteSet(ps),
         NEW k \in 1 .. Cardinality(ps), NEW l \in 1 .. Cardinality(ps), k < l
  PROVE  Nth(ps, k) < Nth(ps, l)
<1>1. /\ Nth(ps, k) \in ps /\ Rank(ps, Nth(ps, k)) = k
      /\ Nth(ps, l) \in ps /\ Rank(ps, Nth(ps, l)) = l
  BY NthType
<1>2. Nth(ps, k) # Nth(ps, l)
  BY <1>1
<1>3. ~(Nth(ps, l) < Nth(ps, k))
  <2>1. Nth(ps, l) < Nth(ps, k) => l < k
    BY <1>1, RankUp
  <2>2. k \in Int /\ l \in Int
    BY FS_CardinalityType
  <2> QED BY <2>1, <2>2
<1>4. Nth(ps, k) \in Nat /\ Nth(ps, l) \in Nat
  BY <1>1
<1> QED BY <1>2, <1>3, <1>4

LEMMA NthRank ==
  ASSUME NEW ps \in SUBSET Nat, IsFiniteSet(ps), NEW i \in ps
  PROVE  Rank(ps, i) \in 1 .. Cardinality(ps) /\ Nth(ps, Rank(ps, i)) = i
<1>1. Rank(ps, i) \in 1 .. Cardinality(ps)
  BY RankType
<1> DEFINE j == Nth(ps, Rank(ps, i))
<1>2. j \in ps /\ Rank(ps, j) = Rank(ps, i)
  BY <1>1, NthType
<1>3. Rank(ps, i) \in Nat
  BY <1>1, FS_CardinalityType
<1>4. ~(i < j) /\ ~(j < i)
  <2>1. i < j => Rank(ps, i) < Rank(ps, j)
    BY <1>2, RankUp
  <2>2. j < i => Rank(ps, j) < Rank(ps, i)
    BY <1>2, RankUp
  <2> QED BY <1>2, <1>3, <2>1, <2>2
<1>5. i \in Nat /\ j \in Nat
  BY <1>2
<1> QED BY <1>1, <1>4, <1>5

LEMMA PositionsFinite ==
  ASSUME NEW n \in Nat, NEW ps \in SUBSET (1 .. n)
  PROVE  IsFiniteSet(ps) /\ ps \in SUBSET Nat /\ Cardinality(ps) \in 0 .. n
<1>1. IsFiniteSet(1 .. n) /\ Cardinality(1 .. n) = n
  BY FS_Interval
<1>2. IsFiniteSet(ps) /\ Cardinality(ps) <= n
  BY <1>1, FS_Subset
<1> QED BY <1>2, FS_CardinalityType

\* A selection is a sequence of elements of s, one for each position: there is
\* an increasing map from its indices onto the positions, and one back.
LEMMA SelectedIs ==
  ASSUME NEW S, NEW s \in Seq(S), NEW ps \in SUBSET (1 .. Len(s))
  PROVE  /\ Selected(s, ps) \in Seq(S) /\ Len(Selected(s, ps)) = Cardinality(ps)
         /\ \A k \in 1 .. Cardinality(ps) : /\ Nth(ps, k) \in ps
                                            /\ Selected(s, ps)[k] = s[Nth(ps, k)]
         /\ \A k, l \in 1 .. Cardinality(ps) : k < l => Nth(ps, k) < Nth(ps, l)
         /\ \A i \in ps : Rank(ps, i) \in 1 .. Cardinality(ps) /\ Nth(ps, Rank(ps, i)) = i
<1>1. IsFiniteSet(ps) /\ ps \in SUBSET Nat /\ Cardinality(ps) \in Nat
  BY PositionsFinite
<1>2. \A k \in 1 .. Cardinality(ps) : Nth(ps, k) \in ps
  BY <1>1, NthType
<1>3. \A k \in 1 .. Cardinality(ps) : Selected(s, ps)[k] = s[Nth(ps, k)]
  BY DEF Selected
<1>4. Selected(s, ps) \in Seq(S) /\ Len(Selected(s, ps)) = Cardinality(ps)
  <2>1. \A k \in 1 .. Cardinality(ps) : s[Nth(ps, k)] \in S
    <3>1. \A i \in 1 .. Len(s) : s[i] \in S
      OBVIOUS
    <3> QED BY <1>2, <3>1
  <2> QED BY <1>1, <2>1 DEF Selected
<1>5. \A k, l \in 1 .. Cardinality(ps) : k < l => Nth(ps, k) < Nth(ps, l)
  BY <1>1, NthUp
<1>6. \A i \in ps : Rank(ps, i) \in 1 .. Cardinality(ps) /\ Nth(ps, Rank(ps, i)) = i
  BY <1>1, NthRank
<1> QED BY <1>2, <1>3, <1>4, <1>5, <1>6
================================================================================
