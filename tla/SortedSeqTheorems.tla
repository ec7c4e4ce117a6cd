------------------------- MODULE SortedSeqTheorems -------------------------
(***************************************************************************)
(* What Sorted and Kept return, for every finite set and every sequence.   *)
(* The existence of an element of each rank needs an induction on numbers; *)
(* it is done with the least number of a set.                              *)
(***************************************************************************)
EXTENDS SortedSeqs, Integers, Sequences, FiniteSets, FiniteSetTheorems,
        SequenceTheorems, WellFoundedInduction, TLAPS

\* A set of numbers that is not empty has a least one.
LEMMA LeastNumber ==
    ASSUME NEW T \in SUBSET Nat, T # {}
    PROVE  \E n \in T : \A m \in T : n <= m
<1>. DEFINE R == {p \in Nat \X Nat : p[1] < p[2]}
<1>1. IsWellFoundedOn(R, Nat)
  BY NatLessThanWellFounded DEF OpToRel
<1>2. \E x \in T : \A y \in T : <<y, x>> \notin R
  <2>. HIDE DEF R
  <2>. QED
    BY <1>1, WFMin
<1>3. PICK n \in T : \A m \in T : ~(<<m, n>> \in R)
  BY <1>2
<1>4. ASSUME NEW m \in T
      PROVE  n <= m
  <2>1. ~(m < n)
    BY <1>3
  <2>. QED
    BY <2>1
<1>. QED
  BY <1>4

\* One more element makes a finite set larger by one.
LEMMA CountWith ==
    ASSUME NEW S, IsFiniteSet(S), NEW x, x \notin S
    PROVE  /\ IsFiniteSet(S \cup {x})
           /\ Cardinality(S) \in Nat
           /\ Cardinality(S \cup {x}) = Cardinality(S) + 1
BY FS_AddElement, FS_CardinalityType

\* The part of a set with a strictly higher bound is larger if an element
\* lies between.
LEMMA CountGrows ==
    ASSUME NEW S, NEW T \in SUBSET S, IsFiniteSet(S), NEW x \in S \ T
    PROVE  /\ Cardinality(T) \in Nat
           /\ Cardinality(S) \in Nat
           /\ Cardinality(T) < Cardinality(S)
<1>1. IsFiniteSet(T) /\ T \cup {x} \subseteq S
  BY FS_Subset
<1>2. /\ Cardinality(T) \in Nat
      /\ Cardinality(T \cup {x}) = Cardinality(T) + 1
  BY <1>1, CountWith
<1>3. /\ Cardinality(T \cup {x}) <= Cardinality(S)
      /\ Cardinality(S) \in Nat
  BY <1>1, FS_Subset, FS_CardinalityType
<1>. QED
  BY <1>2, <1>3

\* Every number up to the size of S is the rank of an element.
LEMMA RankTaken ==
    ASSUME NEW S, IsFiniteSet(S), NEW rank, NEW bound \in Nat,
           \A x \in S : rank[x] \in 0..bound,
           \A x, y \in S : rank[x] = rank[y] => x = y,
           NEW k \in 1..Cardinality(S)
    PROVE  \E x \in S : Cardinality({y \in S : rank[y] <= rank[x]}) = k
<1>. DEFINE UpTo(n) == {y \in S : rank[y] <= n}
            T == {n \in Nat : Cardinality(UpTo(n)) >= k}
<1>1. \A n \in Int : IsFiniteSet(UpTo(n)) /\ Cardinality(UpTo(n)) \in Nat
  BY FS_Subset, FS_CardinalityType
<1>2. Cardinality(S) \in Nat
  BY FS_CardinalityType
<1>3. bound \in T
  <2>1. UpTo(bound) = S
    OBVIOUS
  <2>. QED
    BY <1>2, <2>1
<1>4. PICK n \in T : \A m \in T : n <= m
  BY <1>3, LeastNumber
<1>5. PICK x \in S : rank[x] = n
  <2>. SUFFICES ASSUME \A x \in S : rank[x] # n
                PROVE  FALSE
    OBVIOUS
  <2>1. UpTo(n) = UpTo(n - 1)
    BY <1>4
  <2>2. CASE n = 0
    <3>1. UpTo(n) = {}
      BY <2>2
    <3>. QED
      BY <3>1, <1>4, FS_EmptySet
  <2>3. CASE n # 0
    <3>1. n - 1 \in Nat
      BY <1>4, <2>3
    <3>2. n - 1 \in T
      BY <3>1, <2>1, <1>4
    <3>. QED
      BY <3>2, <1>4
  <2>. QED
    BY <2>2, <2>3
<1>6. /\ UpTo(n) = UpTo(n - 1) \cup {x}
      /\ x \notin UpTo(n - 1)
  BY <1>4, <1>5
<1>7. Cardinality(UpTo(n)) = Cardinality(UpTo(n - 1)) + 1
  <2>1. IsFiniteSet(UpTo(n - 1))
    BY <1>1, <1>4
  <2>. HIDE DEF UpTo
  <2>. QED
    BY <1>6, <2>1, CountWith
<1>8. Cardinality(UpTo(n - 1)) < k
  <2>1. CASE n = 0
    <3>1. UpTo(n - 1) = {}
      BY <2>1
    <3>. QED
      BY <3>1, FS_EmptySet
  <2>2. CASE n # 0
    <3>1. n - 1 \in Nat /\ n - 1 \notin T
      BY <1>4, <2>2
    <3>2. Cardinality(UpTo(n - 1)) \in Nat
      BY <1>1, <3>1
    <3>3. ~(Cardinality(UpTo(n - 1)) >= k)
      BY <3>1
    <3>. QED
      BY <3>2, <3>3
  <2>. QED
    BY <2>1, <2>2
<1>9. Cardinality(UpTo(n)) = k
  <2>1. Cardinality(UpTo(n)) >= k
    BY <1>4
  <2>2. Cardinality(UpTo(n - 1)) \in Nat
    <3>1. n - 1 \in Int
      BY <1>4
    <3>. QED
      BY <1>1, <3>1
  <2>. HIDE DEF UpTo
  <2>. QED
    BY <1>7, <1>8, <2>1, <2>2
<1>. QED
  BY <1>5, <1>9
-----------------------------------------------------------------------------
\* Sorted returns as many elements as the set has, by strictly ascending rank.
THEOREM SortedProperties ==
    ASSUME NEW S, IsFiniteSet(S), NEW rank, NEW bound \in Nat,
           \A x \in S : rank[x] \in 0..bound,
           \A x, y \in S : rank[x] = rank[y] => x = y
    PROVE  /\ Cardinality(S) \in Nat
           /\ Sorted(S, rank) \in [1..Cardinality(S) -> S]
           /\ Sorted(S, rank) \in Seq(S)
           /\ Len(Sorted(S, rank)) = Cardinality(S)
           /\ \A i, j \in 1..Cardinality(S) :
                  i < j => rank[Sorted(S, rank)[i]] < rank[Sorted(S, rank)[j]]
<1>. DEFINE UpTo(x) == {y \in S : rank[y] <= rank[x]}
            At(k) == CHOOSE x \in S : Cardinality(UpTo(x)) = k
            s == Sorted(S, rank)
<1>1. Cardinality(S) \in Nat
  BY FS_CardinalityType
<1>2. ASSUME NEW k \in 1..Cardinality(S)
      PROVE  At(k) \in S /\ Cardinality(UpTo(At(k))) = k
  <2>1. \E x \in S : Cardinality(UpTo(x)) = k
    BY RankTaken
  <2>. HIDE DEF UpTo
  <2>. QED
    BY <2>1
<1>3. s = [k \in 1..Cardinality(S) |-> At(k)]
  BY DEF Sorted
<1>4. s \in [1..Cardinality(S) -> S]
  <2>. HIDE DEF At
  <2>. QED
    BY <1>2, <1>3
<1>5. s \in Seq(S) /\ Len(s) = Cardinality(S)
  BY <1>1, <1>4
<1>6. ASSUME NEW i \in 1..Cardinality(S), NEW j \in 1..Cardinality(S), i < j
      PROVE  rank[s[i]] < rank[s[j]]
  <2>. DEFINE x == s[i]
              y == s[j]
  <2>1. x \in S /\ y \in S /\ Cardinality(UpTo(x)) = i /\ Cardinality(UpTo(y)) = j
    <3>. HIDE DEF At, UpTo
    <3>. QED
      BY <1>2, <1>3
  <2>. SUFFICES ASSUME rank[y] <= rank[x]
                PROVE  FALSE
    BY <2>1
  <2>2. UpTo(y) \subseteq UpTo(x) /\ IsFiniteSet(UpTo(x))
    BY <2>1, FS_Subset
  <2>3. Cardinality(UpTo(y)) <= Cardinality(UpTo(x))
    <3>. HIDE DEF UpTo
    <3>. QED
      BY <2>2, FS_Subset
  <2>4. i \in Nat /\ j \in Nat
    BY <1>1
  <2>. HIDE DEF UpTo, s
  <2>. QED
    BY <1>6, <2>1, <2>3, <2>4
<1>. QED
  BY <1>1, <1>4, <1>5, <1>6

\* Kept returns one element for each position that stays, in their order.
THEOREM KeptProperties ==
    ASSUME NEW E, NEW s \in Seq(E), NEW I \in SUBSET (1..Len(s))
    PROVE  /\ Cardinality(I) \in Nat
           /\ Kept(s, I) \in Seq(E)
           /\ Len(Kept(s, I)) = Cardinality(I)
           /\ \A k \in 1..Cardinality(I) : \E i \in I : Kept(s, I)[k] = s[i]
           /\ \A k, l \in 1..Cardinality(I) : k < l =>
                  \E i, j \in I : /\ i < j
                                  /\ Kept(s, I)[k] = s[i]
                                  /\ Kept(s, I)[l] = s[j]
<1>. DEFINE rank == [i \in I |-> i]
            at == Sorted(I, rank)
            n == Cardinality(I)
<1>1. IsFiniteSet(I)
  <2>1. IsFiniteSet(1..Len(s))
    BY FS_Interval
  <2>. QED
    BY <2>1, FS_Subset
<1>2. /\ n \in Nat
      /\ at \in [1..n -> I]
      /\ \A k, l \in 1..n : k < l => rank[at[k]] < rank[at[l]]
  <2>1. Len(s) \in Nat
    OBVIOUS
  <2>2. \A i \in I : rank[i] \in 0..Len(s)
    OBVIOUS
  <2>3. \A i, j \in I : rank[i] = rank[j] => i = j
    OBVIOUS
  <2>. HIDE DEF rank
  <2>. QED
    BY <1>1, <2>1, <2>2, <2>3, SortedProperties
<1>3. \A k, l \in 1..n : k < l => at[k] < at[l]
  BY <1>2
<1>4. Kept(s, I) = [k \in 1..n |-> s[at[k]]]
  BY DEF Kept
<1>. HIDE DEF at
<1>5. ASSUME NEW k \in 1..n
      PROVE  s[at[k]] \in E
  <2>1. at[k] \in 1..Len(s)
    BY <1>2
  <2>. QED
    BY <2>1, ElementOfSeq
<1>6. Kept(s, I) \in Seq(E) /\ Len(Kept(s, I)) = n
  BY <1>2, <1>4, <1>5
<1>. QED
  BY <1>2, <1>3, <1>4, <1>6

\* Keeping the first n positions gives the prefix of that length.
THEOREM KeptPrefix ==
    ASSUME NEW E, NEW s \in Seq(E), NEW n \in 0..Len(s)
    PROVE  Kept(s, 1..n) = SubSeq(s, 1, n)
<1>. DEFINE rank == [i \in 1..n |-> i]
            at == Sorted(1..n, rank)
<1>1. n \in Nat /\ Len(s) \in Nat
  OBVIOUS
<1>2. \A i \in 0..n : Cardinality(1..i) = i
  BY <1>1, FS_Interval
<1>3. ASSUME NEW k \in 1..n
      PROVE  at[k] = k
  <2>. DEFINE Below(i) == Cardinality({j \in 1..n : rank[j] <= rank[i]})
  <2>1. ASSUME NEW i \in 1..n
        PROVE  Below(i) = i
    <3>1. {j \in 1..n : rank[j] <= rank[i]} = 1..i
      BY <1>1
    <3>2. Below(i) = Cardinality(1..i)
      BY <3>1
    <3>3. i \in 0..n
      BY <1>1
    <3>. HIDE DEF rank, Below
    <3>. QED
      BY <1>2, <3>2, <3>3
  <2>2. Cardinality(1..n) = n
    BY <1>1, <1>2
  <2>3. at[k] = CHOOSE i \in 1..n : Below(i) = k
    BY <2>2 DEF Sorted
  <2>. HIDE DEF Below, at
  <2>4. Below(k) = k /\ \A i \in 1..n : Below(i) = k => i = k
    BY <2>1
  <2>. QED
    BY <2>3, <2>4
<1>4. Kept(s, 1..n) = [k \in 1..n |-> s[k]]
  <2>1. Kept(s, 1..n) = [k \in 1..n |-> s[at[k]]]
    BY <1>2 DEF Kept
  <2>. HIDE DEF at
  <2>. QED
    BY <1>3, <2>1
<1>. QED
  BY <1>4, <1>1

\* Keeping every position changes nothing.
COROLLARY KeptAll ==
    ASSUME NEW E, NEW s \in Seq(E)
    PROVE  Kept(s, 1..Len(s)) = s
<1>1. Len(s) \in 0..Len(s)
  OBVIOUS
<1>2. Kept(s, 1..Len(s)) = SubSeq(s, 1, Len(s))
  BY <1>1, KeptPrefix
<1>. QED
  BY <1>2, SubSeqFull

\* Where the elements of a concatenation come from.
LEMMA ConcatParts ==
    ASSUME NEW E, NEW s \in Seq(E), NEW t \in Seq(E)
    PROVE  /\ s \o t \in Seq(E)
           /\ Len(s \o t) = Len(s) + Len(t)
           /\ \A i \in DOMAIN (s \o t) :
                 \/ i \in DOMAIN s /\ (s \o t)[i] = s[i]
                 \/ i - Len(s) \in DOMAIN t /\ (s \o t)[i] = t[i - Len(s)]
           /\ \A i \in DOMAIN (s \o t), j \in DOMAIN (s \o t) :
                 i < j => i \in DOMAIN s \/ j - Len(s) \in DOMAIN t
<1>1. /\ s \o t \in Seq(E)
      /\ Len(s \o t) = Len(s) + Len(t)
      /\ Len(s) \in Nat /\ Len(t) \in Nat
      /\ DOMAIN s = 1..Len(s) /\ DOMAIN t = 1..Len(t)
      /\ DOMAIN (s \o t) = 1..(Len(s) + Len(t))
  OBVIOUS
<1>2. \A i \in DOMAIN (s \o t) :
         \/ i \in DOMAIN s /\ (s \o t)[i] = s[i]
         \/ i - Len(s) \in DOMAIN t /\ (s \o t)[i] = t[i - Len(s)]
  OBVIOUS
<1>3. \A i \in DOMAIN (s \o t), j \in DOMAIN (s \o t) :
         i < j => i \in DOMAIN s \/ j - Len(s) \in DOMAIN t
  BY <1>1
<1>. QED
  BY <1>1, <1>2, <1>3
=============================================================================
