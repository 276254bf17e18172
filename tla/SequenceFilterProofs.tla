------------------------ MODULE SequenceFilterProofs ------------------------
(***************************************************************************)
(* What Without does, for sequences of any length: which elements are      *)
(* left, how many, each how often.  The ranks of a finite set of indices   *)
(* are a bijection because they are injective and as many as the set.      *)
(***************************************************************************)
EXTENDS SequenceFilter, FiniteSetTheorems, TLAPS

\* The indices that stay.
LEMMA KeptFinite ==
  ASSUME NEW S, NEW s \in Seq(S), NEW T
  PROVE  /\ IsFiniteSet(KeptIn(s, T)) /\ KeptIn(s, T) \subseteq 1 .. Len(s)
         /\ Cardinality(KeptIn(s, T)) \in Nat /\ Cardinality(KeptIn(s, T)) <= Len(s)
<1>1. KeptIn(s, T) \subseteq 1 .. Len(s) /\ Len(s) \in Nat
  BY DEF KeptIn
<1>2. IsFiniteSet(1 .. Len(s)) /\ Cardinality(1 .. Len(s)) = Len(s)
  <2> DEFINE n == Len(s)
  <2>1. n \in Nat
    BY <1>1
  <2> HIDE DEF n
  <2>2. IsFiniteSet(1 .. n) /\ Cardinality(1 .. n) = n
    BY <2>1, FS_Interval
  <2> QED  BY <2>2 DEF n
<1> QED  BY <1>1, <1>2, FS_Subset, FS_CardinalityType

\* Ranks count from 1, grow with the index and leave nothing out.
LEMMA RankProperties ==
  ASSUME NEW n \in Nat, NEW D, D \subseteq 1 .. n
  PROVE  /\ \A i \in D : Rank(D, i) \in 1 .. Cardinality(D)
         /\ \A i, j \in D : i < j => Rank(D, i) < Rank(D, j)
         /\ \A i, j \in D : Rank(D, i) = Rank(D, j) => i = j
         /\ \A j \in 1 .. Cardinality(D) : \E i \in D : Rank(D, i) = j
<1> DEFINE Upto(i) == {k \in D : k <= i}
<1>1. IsFiniteSet(D) /\ Cardinality(D) \in Nat
  <2>1. IsFiniteSet(1 .. n)
    BY FS_Interval
  <2> QED  BY <2>1, FS_Subset, FS_CardinalityType
<1>2. ASSUME NEW i \in D
      PROVE  /\ IsFiniteSet(Upto(i)) /\ Rank(D, i) = Cardinality(Upto(i))
             /\ Rank(D, i) \in 1 .. Cardinality(D)
  <2>1. IsFiniteSet(Upto(i)) /\ Cardinality(Upto(i)) <= Cardinality(D)
    BY <1>1, FS_Subset
  <2>2. Cardinality(Upto(i)) \in Nat /\ Upto(i) # {}
    <3>1. i \in Upto(i)
      OBVIOUS
    <3> QED  BY <2>1, <3>1, FS_CardinalityType
  <2>3. Cardinality(Upto(i)) # 0
    BY <2>1, <2>2, FS_EmptySet
  <2> HIDE DEF Upto
  <2> QED  BY <1>1, <2>1, <2>2, <2>3 DEF Rank, Upto
<1>3. ASSUME NEW i \in D, NEW j \in D, i < j
      PROVE  Rank(D, i) < Rank(D, j)
  <2>1. Upto(i) \subseteq Upto(j) /\ j \in Upto(j) /\ j \notin Upto(i)
    <3>1. i \in Nat /\ j \in Nat /\ \A k \in D : k \in Nat
      OBVIOUS
    <3>2. ASSUME NEW k \in Upto(i) PROVE k \in Upto(j)
      BY <1>3, <3>1
    <3>3. j \in Upto(j) /\ ~ (j <= i)
      BY <1>3, <3>1
    <3> QED  BY <3>2, <3>3
  <2>2. IsFiniteSet(Upto(j)) /\ Upto(i) # Upto(j)
    BY <1>2, <2>1
  <2>3. Cardinality(Upto(i)) <= Cardinality(Upto(j)) /\ Cardinality(Upto(i)) # Cardinality(Upto(j))
    BY <2>1, <2>2, FS_Subset
  <2> HIDE DEF Upto
  <2> QED  BY <1>1, <1>2, <2>3
<1>4. ASSUME NEW i \in D, NEW j \in D, Rank(D, i) = Rank(D, j)
      PROVE  i = j
  <2>1. i < j \/ j < i \/ i = j
    OBVIOUS
  <2>2. Rank(D, i) \in Nat /\ Rank(D, j) \in Nat
    <3>1. Rank(D, i) \in 1 .. Cardinality(D) /\ Rank(D, j) \in 1 .. Cardinality(D)
      BY <1>2
    <3> QED  BY <1>1, <3>1
  <2> QED  BY <1>3, <1>4, <2>1, <2>2
<1>5. ASSUME NEW j \in 1 .. Cardinality(D)
      PROVE  \E i \in D : Rank(D, i) = j
  <2> DEFINE f == [i \in D |-> Rank(D, i)]
  <2>1. f \in Injection(D, 1 .. Cardinality(D))
    <3>1. f \in [D -> 1 .. Cardinality(D)]
      BY <1>2
    <3> QED  BY <3>1, <1>4 DEF Injection, IsInjective
  <2>2. IsFiniteSet(1 .. Cardinality(D)) /\ Cardinality(1 .. Cardinality(D)) = Cardinality(D)
    BY <1>1, FS_Interval
  <2>3. f \in Surjection(D, 1 .. Cardinality(D))
    BY <2>1, <2>2, FS_Injection
  <2> QED  BY <2>3 DEF Surjection
<1> QED  BY <1>2, <1>3, <1>4, <1>5

\* What is left of a sequence: as many elements as are kept, in the order of their
\* indices, the j-th of rank j.
LEMMA WithoutElements ==
  ASSUME NEW S, NEW s \in Seq(S), NEW T
  PROVE  /\ Without(s, T) \in Seq(S) /\ Len(Without(s, T)) = Cardinality(KeptIn(s, T))
         /\ \A i \in KeptIn(s, T) : /\ Rank(KeptIn(s, T), i) \in DOMAIN Without(s, T)
                                  /\ Without(s, T)[Rank(KeptIn(s, T), i)] = s[i]
         /\ \A j \in DOMAIN Without(s, T) :
              \E i \in KeptIn(s, T) : Rank(KeptIn(s, T), i) = j /\ Without(s, T)[j] = s[i]
<1> DEFINE D == KeptIn(s, T)
           n == Cardinality(D)
           At(j) == CHOOSE i \in D : Rank(D, i) = j
<1>1. D \subseteq 1 .. Len(s) /\ n \in Nat /\ Len(s) \in Nat /\ DOMAIN s = 1 .. Len(s)
  BY KeptFinite
<1>2. \A j \in 1 .. n : \E i \in D : Rank(D, i) = j
  BY <1>1, RankProperties
<1>3. \A i \in D : Rank(D, i) \in 1 .. n
  BY <1>1, RankProperties
<1>4. \A i, j \in D : Rank(D, i) = Rank(D, j) => i = j
  BY <1>1, RankProperties
<1> HIDE DEF D
<1>5. \A j \in 1 .. n : At(j) \in D /\ Rank(D, At(j)) = j
  BY <1>2
<1> HIDE DEF n
<1>6. Without(s, T) = [j \in 1 .. n |-> s[At(j)]]
  BY DEF Without, D, n
<1>7. \A i \in D : At(Rank(D, i)) = i
  BY <1>3, <1>4, <1>5
<1>8. \A i \in D : s[i] \in S
  BY <1>1
<1> HIDE DEF At
<1>9. Without(s, T) \in Seq(S) /\ Len(Without(s, T)) = n
  <2>1. Without(s, T) \in [1 .. n -> S]
    BY <1>5, <1>6, <1>8
  <2>2. n \in Nat
    BY <1>1 DEF n
  <2> QED  BY <2>1, <2>2
<1>10. \A i \in D : Rank(D, i) \in DOMAIN Without(s, T) /\ Without(s, T)[Rank(D, i)] = s[i]
  BY <1>3, <1>6, <1>7
<1>11. \A j \in DOMAIN Without(s, T) : \E i \in D : Rank(D, i) = j /\ Without(s, T)[j] = s[i]
  BY <1>5, <1>6
<1> QED  BY <1>9, <1>10, <1>11 DEF D, n

\* The elements left are those of s outside T,
LEMMA WithoutRange ==
  ASSUME NEW S, NEW s \in Seq(S), NEW T, NEW x
  PROVE  (\E j \in DOMAIN Without(s, T) : Without(s, T)[j] = x)
           <=> x \notin T /\ \E i \in DOMAIN s : s[i] = x
<1> DEFINE D == KeptIn(s, T)
           W == Without(s, T)
<1>1. \A i \in D : Rank(D, i) \in DOMAIN W /\ W[Rank(D, i)] = s[i]
  BY WithoutElements
<1>2. \A j \in DOMAIN W : \E i \in D : W[j] = s[i]
  BY WithoutElements
<1>3. \A i : i \in D <=> i \in DOMAIN s /\ s[i] \notin T
  BY DEF KeptIn
<1> HIDE DEF D, W
<1>4. (\E j \in DOMAIN W : W[j] = x) <=> x \notin T /\ \E i \in DOMAIN s : s[i] = x
  BY <1>1, <1>2, <1>3
<1> QED  BY <1>4 DEF W

\* each once if each was once in s,
LEMMA WithoutInjective ==
  ASSUME NEW S, NEW s \in Seq(S), NEW T,
         \A i, j \in DOMAIN s : s[i] = s[j] => i = j
  PROVE  \A i, j \in DOMAIN Without(s, T) : Without(s, T)[i] = Without(s, T)[j] => i = j
<1> DEFINE D == KeptIn(s, T)
           W == Without(s, T)
<1>1. \A j \in DOMAIN W : \E i \in D : Rank(D, i) = j /\ W[j] = s[i]
  BY WithoutElements
<1>2. \A i \in D : i \in DOMAIN s
  BY DEF KeptIn
<1> HIDE DEF D, W
<1>3. \A i, j \in DOMAIN W : W[i] = W[j] => i = j
  BY <1>1, <1>2
<1> QED  BY <1>3 DEF W

\* and then as many fewer than in s as T takes out.
LEMMA WithoutLength ==
  ASSUME NEW S, NEW s \in Seq(S), NEW T,
         \A i, j \in DOMAIN s : s[i] = s[j] => i = j,
         \A x \in T : \E i \in DOMAIN s : s[i] = x
  PROVE  IsFiniteSet(T) /\ Len(Without(s, T)) = Len(s) - Cardinality(T)
<1> DEFINE D == KeptIn(s, T)
           n == Len(s)
           Gone == (1 .. n) \ D
           f == [i \in Gone |-> s[i]]
<1>1. DOMAIN s = 1 .. n /\ n \in Nat /\ D \subseteq 1 .. n
  BY KeptFinite
<1>2. \A i \in 1 .. n : i \in D <=> s[i] \notin T
  BY <1>1 DEF KeptIn
<1>3. Len(Without(s, T)) = Cardinality(D)
  BY WithoutElements
<1> HIDE DEF D, n
<1>4. IsFiniteSet(1 .. n) /\ Cardinality(1 .. n) = n
  BY <1>1, FS_Interval
<1>5. IsFiniteSet(Gone) /\ Cardinality(Gone) = n - Cardinality(D)
  <2>1. (1 .. n) \cap D = D
    BY <1>1
  <2> QED  BY <1>4, <2>1, FS_Difference
<1>6. f \in Bijection(Gone, T)
  <2>1. f \in [Gone -> T]
    BY <1>2
  <2>2. \A i, j \in Gone : f[i] = f[j] => i = j
    BY <1>1
  <2>3. \A x \in T : \E i \in Gone : f[i] = x
    BY <1>1, <1>2
  <2> QED  BY <2>1, <2>2, <2>3 DEF Bijection, Injection, Surjection, IsInjective
<1>7. IsFiniteSet(T) /\ Cardinality(T) = Cardinality(Gone)
  BY <1>5, <1>6, FS_Bijection DEF ExistsBijection
<1>8. Cardinality(D) \in Nat
  BY KeptFinite DEF D
<1> QED  BY <1>1, <1>3, <1>5, <1>7, <1>8 DEF n

\* Of an empty sequence nothing is left.
LEMMA WithoutOfNone ==
  ASSUME NEW T
  PROVE  Without(<<>>, T) = <<>>
<1>1. <<>> \in Seq({}) /\ DOMAIN <<>> = {}
  OBVIOUS
<1>2. KeptIn(<<>>, T) = {}
  BY <1>1 DEF KeptIn
<1>3. Without(<<>>, T) \in Seq({}) /\ Len(Without(<<>>, T)) = 0
  BY <1>1, <1>2, WithoutElements, FS_EmptySet
<1> QED  BY <1>3
=============================================================================
