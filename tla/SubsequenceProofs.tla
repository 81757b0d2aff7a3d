------------------------- MODULE SubsequenceProofs -------------------------
(***************************************************************************)
(* What a filter of a sequence is, and what becomes of it when the         *)
(* sequence grows at its end or loses its head.                            *)
(***************************************************************************)
EXTENDS Subsequences, SequencesExt, SequenceTheorems, FiniteSetTheorems, TLAPS

LEMMA IntervalSize ==
    ASSUME NEW n \in Nat
    PROVE  IsFiniteSet(1..n) /\ Cardinality(1..n) = n
    BY FS_Interval

\* A rank is a number of the set's size at most, and a larger number has a larger one.
LEMMA RankIn ==
    ASSUME NEW I \in SUBSET Nat, IsFiniteSet(I), NEW i \in I
    PROVE  Rank(I, i) \in 1..Cardinality(I)
<1> DEFINE S == {j \in I : j <= i}
<1>1. IsFiniteSet(S) /\ Cardinality(S) <= Cardinality(I)
    BY FS_Subset
<1>2. Cardinality(S) \in Nat /\ Cardinality(I) \in Nat
    BY <1>1, FS_CardinalityType
<1>3. i \in S
    OBVIOUS
<1>4. Cardinality(S) # 0
    BY <1>1, <1>3, FS_EmptySet
<1> QED
    BY <1>1, <1>2, <1>4 DEF Rank

LEMMA RankGrows ==
    ASSUME NEW I \in SUBSET Nat, IsFiniteSet(I), NEW i \in I, NEW j \in I, i < j
    PROVE  Rank(I, i) < Rank(I, j)
<1> DEFINE S == {k \in I : k <= i}
           T == {k \in I : k <= j}
<1>1. IsFiniteSet(T)
    BY FS_Subset
<1>2. S \in SUBSET T /\ S # T
    <2>1. j \in T /\ j \notin S
        OBVIOUS
    <2>2. \A k \in I : k <= i => k <= j
        <3> SUFFICES ASSUME NEW k \in I, k <= i PROVE k <= j
            OBVIOUS
        <3>1. k \in Nat /\ i \in Nat /\ j \in Nat
            OBVIOUS
        <3> QED
            BY <3>1
    <2>3. S \in SUBSET T
        BY <2>2
    <2> QED
        BY <2>1, <2>3
<1>3. IsFiniteSet(S) /\ Cardinality(S) <= Cardinality(T) /\ Cardinality(S) # Cardinality(T)
    BY <1>1, <1>2, FS_Subset
<1>4. Cardinality(S) \in Nat /\ Cardinality(T) \in Nat
    BY <1>1, <1>3, FS_CardinalityType
<1> QED
    BY <1>3, <1>4 DEF Rank

\* A map into a set of the same size that takes no value twice takes every value.
LEMMA OneToOneIsOnto ==
    ASSUME NEW I, IsFiniteSet(I), NEW f \in [I -> 1..Cardinality(I)],
           \A i, j \in I : f[i] = f[j] => i = j,
           NEW k \in 1..Cardinality(I)
    PROVE  \E i \in I : f[i] = k
<1>1. Cardinality(I) \in Nat
    BY FS_CardinalityType
<1>2. IsFiniteSet(1..Cardinality(I)) /\ Cardinality(1..Cardinality(I)) = Cardinality(I)
    BY <1>1, FS_Interval
<1>3. f \in Injection(I, 1..Cardinality(I))
    BY DEF Injection, IsInjective
<1>4. f \in Surjection(I, 1..Cardinality(I))
    BY <1>2, <1>3, FS_Injection
<1> QED
    BY <1>4 DEF Surjection

\* The numbers of a set are its first, its second, and so on to the last.
LEMMA NthIs ==
    ASSUME NEW I \in SUBSET Nat, IsFiniteSet(I)
    PROVE  /\ Cardinality(I) \in Nat
           /\ \A k \in 1..Cardinality(I) : Nth(I, k) \in I /\ Rank(I, Nth(I, k)) = k
           /\ \A i \in I : Rank(I, i) \in 1..Cardinality(I) /\ Nth(I, Rank(I, i)) = i
           /\ \A k, l \in 1..Cardinality(I) : k < l => Nth(I, k) < Nth(I, l)
<1>0. Cardinality(I) \in Nat
    BY FS_CardinalityType
<1> DEFINE f == [i \in I |-> Rank(I, i)]
<1>1. \A i \in I : Rank(I, i) \in 1..Cardinality(I)
    BY RankIn
<1>2. \A i, j \in I : i < j => Rank(I, i) < Rank(I, j)
    BY RankGrows
<1>3. \A i, j \in I : Rank(I, i) = Rank(I, j) => i = j
    <2> SUFFICES ASSUME NEW i \in I, NEW j \in I, Rank(I, i) = Rank(I, j), i # j
                 PROVE  FALSE
        OBVIOUS
    <2>1. i < j \/ j < i
        OBVIOUS
    <2>2. Rank(I, i) < Rank(I, j) \/ Rank(I, j) < Rank(I, i)
        BY <2>1, <1>2
    <2>3. Rank(I, i) \in Nat /\ Rank(I, j) \in Nat
        BY <1>0, <1>1
    <2> QED
        BY <2>2, <2>3
<1>4. ASSUME NEW k \in 1..Cardinality(I)
      PROVE  Nth(I, k) \in I /\ Rank(I, Nth(I, k)) = k
    <2>1. f \in [I -> 1..Cardinality(I)] /\ \A i, j \in I : f[i] = f[j] => i = j
        BY <1>1, <1>3
    <2> HIDE DEF f
    <2>2. \A x \in 1..Cardinality(I) : \E i \in I : f[i] = x
        BY <2>1, OneToOneIsOnto
    <2>3. \E j \in I : Rank(I, j) = k
        BY <1>4, <2>2 DEF f
    <2> QED
        BY <2>3 DEF Nth
<1>5. ASSUME NEW i \in I
      PROVE  Nth(I, Rank(I, i)) = i
    BY <1>1, <1>3, <1>4
<1>6. ASSUME NEW k \in 1..Cardinality(I), NEW l \in 1..Cardinality(I), k < l
      PROVE  Nth(I, k) < Nth(I, l)
    <2>1. /\ Nth(I, k) \in I /\ Rank(I, Nth(I, k)) = k
          /\ Nth(I, l) \in I /\ Rank(I, Nth(I, l)) = l
        BY <1>4
    <2>2. ~(Nth(I, l) < Nth(I, k)) /\ Nth(I, l) # Nth(I, k)
        <3>1. ~(l < k) /\ l # k
            BY <1>6, <1>0
        <3> QED
            BY <2>1, <3>1, <1>2
    <2>3. Nth(I, k) \in Nat /\ Nth(I, l) \in Nat
        BY <2>1
    <2> QED
        BY <2>2, <2>3
<1> QED
    BY <1>0, <1>1, <1>4, <1>5, <1>6

\* They are the values of whatever maps 1..n onto the set in growing order.
LEMMA NthIsOnly ==
    ASSUME NEW I \in SUBSET Nat, NEW n \in Nat, NEW g \in [1..n -> I],
           \A i \in I : \E k \in 1..n : g[k] = i,
           \A k, l \in 1..n : k < l => g[k] < g[l]
    PROVE  /\ IsFiniteSet(I) /\ Cardinality(I) = n
           /\ \A k \in 1..n : Nth(I, k) = g[k]
<1>1. IsFiniteSet(1..n) /\ Cardinality(1..n) = n
    BY FS_Interval
<1>2. \A k, l \in 1..n : g[k] <= g[l] <=> k <= l
    <2> SUFFICES ASSUME NEW k \in 1..n, NEW l \in 1..n
                 PROVE  g[k] <= g[l] <=> k <= l
        OBVIOUS
    <2>1. k < l => g[k] < g[l]
        OBVIOUS
    <2>2. l < k => g[l] < g[k]
        OBVIOUS
    <2>3. g[k] \in Nat /\ g[l] \in Nat
        OBVIOUS
    <2> QED
        BY <2>1, <2>2, <2>3
<1>3. \A k, l \in 1..n : g[k] = g[l] => k = l
    <2> SUFFICES ASSUME NEW k \in 1..n, NEW l \in 1..n, g[k] = g[l]
                 PROVE  k = l
        OBVIOUS
    <2>1. g[k] \in Nat /\ g[l] \in Nat
        OBVIOUS
    <2>2. g[k] <= g[l] /\ g[l] <= g[k]
        BY <2>1
    <2> QED
        BY <2>2, <1>2
<1>4. g \in Bijection(1..n, I)
    BY <1>3 DEF Bijection, Injection, Surjection, IsInjective
<1>5. IsFiniteSet(I) /\ Cardinality(I) = n
    BY <1>1, <1>4, FS_Bijection DEF ExistsBijection
<1>6. ASSUME NEW k \in 1..n
      PROVE  Rank(I, g[k]) = k
    <2> DEFINE S == {j \in I : j <= g[k]}
               h == [j \in 1..k |-> g[j]]
    <2>1. h \in [1..k -> S]
        BY <1>2
    <2>2. \A i \in S : \E j \in 1..k : h[j] = i
        <3> SUFFICES ASSUME NEW i \in S PROVE \E j \in 1..k : h[j] = i
            OBVIOUS
        <3>1. PICK j \in 1..n : g[j] = i
            OBVIOUS
        <3>2. j <= k
            BY <3>1, <1>2
        <3> QED
            BY <3>1, <3>2
    <2>3. h \in Bijection(1..k, S)
        BY <1>3, <2>1, <2>2 DEF Bijection, Injection, Surjection, IsInjective
    <2>4. IsFiniteSet(1..k) /\ Cardinality(1..k) = k
        BY FS_Interval
    <2> QED
        BY <2>3, <2>4, FS_Bijection DEF ExistsBijection, Rank
<1>7. ASSUME NEW k \in 1..n
      PROVE  Nth(I, k) = g[k]
    <2>1. g[k] \in I /\ Rank(I, g[k]) = k
        BY <1>6, <1>7
    <2>2. \A i \in I : Nth(I, Rank(I, i)) = i
        BY <1>5, NthIs
    <2> QED
        BY <2>1, <2>2
<1> QED
    BY <1>5, <1>7

-----------------------------------------------------------------------------
(* What is picked by position.                                             *)

\* Positions within 1..n.
LEMMA WithinInterval ==
    ASSUME NEW n \in Nat, NEW I \in SUBSET (1..n)
    PROVE  /\ I \in SUBSET Nat /\ IsFiniteSet(I) /\ Cardinality(I) \in Nat
           /\ \A k \in 1..Cardinality(I) : Nth(I, k) \in I
<1>1. IsFiniteSet(1..n)
    BY IntervalSize
<1>2. I \in SUBSET Nat
    <2>1. \A i \in I : i \in Nat
        OBVIOUS
    <2> QED
        BY <2>1
<1>3. IsFiniteSet(I)
    BY <1>1, FS_Subset
<1> QED
    BY <1>2, <1>3, NthIs

LEMMA PickedIs ==
    ASSUME NEW T, NEW I \in SUBSET Nat, IsFiniteSet(I), NEW s, \A i \in I : s[i] \in T
    PROVE  /\ Picked(s, I) \in Seq(T) /\ Len(Picked(s, I)) = Cardinality(I)
           /\ \A k \in 1..Cardinality(I) : Nth(I, k) \in I /\ Picked(s, I)[k] = s[Nth(I, k)]
           /\ Cardinality(I) \in Nat
<1> DEFINE m == Cardinality(I)
           p == Picked(s, I)
<1>1. m \in Nat /\ \A k \in 1..m : Nth(I, k) \in I
    BY NthIs
<1>2. p = [k \in 1..m |-> s[Nth(I, k)]]
    BY DEF Picked
<1> HIDE DEF m, p
<1>3. \A k \in 1..m : s[Nth(I, k)] \in T
    BY <1>1
<1>4. p \in Seq(T)
    BY <1>1, <1>2, <1>3, IsASeq
<1>5. Len(p) = m
    BY <1>1, <1>2, <1>4, LenProperties
<1> QED
    BY <1>1, <1>2, <1>4, <1>5 DEF m, p

\* Only the elements at these positions matter.
LEMMA PickedSame ==
    ASSUME NEW I \in SUBSET Nat, IsFiniteSet(I), NEW s, NEW u, \A i \in I : s[i] = u[i]
    PROVE  Picked(s, I) = Picked(u, I)
BY NthIs DEF Picked

LEMMA PickedNone ==
    ASSUME NEW s
    PROVE  Picked(s, {}) = <<>>
<1>1. Picked(s, {}) \in Seq({}) /\ Len(Picked(s, {})) = 0
    <2>1. {} \in SUBSET Nat /\ IsFiniteSet({}) /\ Cardinality({}) = 0
        BY FS_EmptySet
    <2> QED
        BY <2>1, PickedIs
<1> QED
    BY <1>1, EmptySeq

\* A later position adds its element at the end.
LEMMA PickedMore ==
    ASSUME NEW T, NEW n \in Nat, NEW I \in SUBSET (1..n), NEW s, \A i \in I : s[i] \in T, s[n + 1] \in T
    PROVE  /\ Picked(s, I) \in Seq(T)
           /\ Picked(s, I \cup {n + 1}) = Append(Picked(s, I), s[n + 1])
<1> DEFINE J == I \cup {n + 1}
           m == Cardinality(I)
           g == [k \in 1..(m + 1) |-> IF k <= m THEN Nth(I, k) ELSE n + 1]
           p == Picked(s, I)
           q == Picked(s, J)
<1>0. n + 1 \in Nat /\ \A i \in J : i \in 1..(n + 1) /\ s[i] \in T
    <2> SUFFICES ASSUME NEW i \in J PROVE i \in 1..(n + 1) /\ s[i] \in T
        OBVIOUS
    <2>1. CASE i \in I
        <3>1. i \in 1..n
            BY <2>1
        <3> QED
            BY <2>1, <3>1
    <2>2. CASE i = n + 1
        BY <2>2
    <2> QED
        BY <2>1, <2>2
<1>1. I \in SUBSET Nat /\ IsFiniteSet(I)
    BY WithinInterval
<1>1b. J \in SUBSET Nat /\ IsFiniteSet(J)
    <2> HIDE DEF J
    <2>1. J \in SUBSET (1..(n + 1))
        BY <1>0
    <2> QED
        BY <1>0, <2>1, WithinInterval
<1>2. /\ m \in Nat
      /\ \A k \in 1..m : Nth(I, k) \in I /\ Rank(I, Nth(I, k)) = k
      /\ \A i \in I : Rank(I, i) \in 1..m /\ Nth(I, Rank(I, i)) = i
      /\ \A k, l \in 1..m : k < l => Nth(I, k) < Nth(I, l)
    BY <1>1, NthIs
<1>3. p \in Seq(T) /\ Len(p) = m /\ \A k \in 1..m : p[k] = s[Nth(I, k)]
    <2>1. \A i \in I : s[i] \in T
        OBVIOUS
    <2>2. Picked(s, I) \in Seq(T) /\ Len(Picked(s, I)) = Cardinality(I)
        <3> HIDE DEF m, p, g, J, q
        <3> QED
            BY <1>1, <2>1, PickedIs
    <2>3. \A k \in 1..Cardinality(I) : Picked(s, I)[k] = s[Nth(I, k)]
        BY DEF Picked
    <2> QED
        BY <2>2, <2>3
<1> HIDE DEF m, p
<1>4. g \in [1..(m + 1) -> J] /\ g[m + 1] = n + 1 /\ \A k \in 1..m : g[k] = Nth(I, k)
    BY <1>2
<1>5. ASSUME NEW i \in J PROVE \E k \in 1..(m + 1) : g[k] = i
    <2>1. CASE i \in I
        BY <1>2, <1>4, <2>1
    <2>2. CASE i = n + 1
        BY <1>2, <1>4, <2>2
    <2> QED
        BY <2>1, <2>2
<1>6. ASSUME NEW k \in 1..(m + 1), NEW l \in 1..(m + 1), k < l PROVE g[k] < g[l]
    <2>1. k \in 1..m
        BY <1>2, <1>6
    <2>2. CASE l \in 1..m
        BY <1>2, <1>4, <1>6, <2>1, <2>2
    <2>3. CASE l = m + 1
        <3>1. g[k] \in I /\ g[l] = n + 1
            BY <1>2, <1>4, <2>1, <2>3
        <3>2. g[k] \in 1..n
            BY <3>1
        <3> QED
            BY <3>1, <3>2
    <2> QED
        BY <1>2, <2>2, <2>3
<1> HIDE DEF g
<1>6b. m + 1 \in Nat
    BY <1>2
<1> HIDE DEF J
<1>7. Cardinality(J) = m + 1 /\ \A k \in 1..(m + 1) : Nth(J, k) = g[k]
    BY <1>1b, <1>4, <1>5, <1>6, <1>6b, NthIsOnly
<1>8. q \in Seq(T) /\ Len(q) = m + 1 /\ \A k \in 1..(m + 1) : q[k] = s[g[k]]
    <2>3. /\ q \in Seq(T) /\ Len(q) = Cardinality(J)
          /\ \A k \in 1..Cardinality(J) : q[k] = s[Nth(J, k)]
        <3>1. \A i \in J : s[i] \in T
            BY <1>0
        <3> QED
            BY <1>1b, <3>1, PickedIs
    <2> QED
        BY <1>7, <2>3
<1> HIDE DEF q
<1> DEFINE a == Append(p, s[n + 1])
<1>9. a \in Seq(T) /\ Len(a) = m + 1 /\ a[m + 1] = s[n + 1] /\ \A k \in 1..m : a[k] = p[k]
    BY <1>3, AppendProperties
<1> HIDE DEF a
<1>10. \A k \in 1..Len(q) : q[k] = a[k]
    <2> SUFFICES ASSUME NEW k \in 1..(m + 1) PROVE q[k] = a[k]
        BY <1>8
    <2>1. CASE k \in 1..m
        BY <1>3, <1>4, <1>8, <1>9, <2>1
    <2>2. CASE k = m + 1
        BY <1>4, <1>8, <1>9, <2>2
    <2> QED
        BY <1>2, <2>1, <2>2
<1>11. q = a
    BY <1>8, <1>9, <1>10, SeqEqual
<1> QED
    BY <1>3, <1>11 DEF q, a, p, J

-----------------------------------------------------------------------------
(* Filter.                                                                 *)

LEMMA PositionsAre ==
    ASSUME NEW T, NEW s \in Seq(T), NEW S
    PROVE  /\ DOMAIN s = 1..Len(s) /\ Len(s) \in Nat
           /\ PositionsOf(s, S) \in SUBSET Nat /\ IsFiniteSet(PositionsOf(s, S))
           /\ \A i : i \in PositionsOf(s, S) <=> i \in 1..Len(s) /\ s[i] \in S
<1>1. DOMAIN s = 1..Len(s) /\ Len(s) \in Nat
    BY LenProperties
<1>2. PositionsOf(s, S) \in SUBSET (1..Len(s))
    BY <1>1 DEF PositionsOf
<1>3. IsFiniteSet(1..Len(s))
    BY <1>1, FS_Interval
<1> QED
    BY <1>1, <1>2, <1>3, FS_Subset DEF PositionsOf

\* A filter keeps the elements that are in the set, each from a place of its own.
LEMMA FilterIs ==
    ASSUME NEW T, NEW s \in Seq(T), NEW S
    PROVE  /\ Filter(s, S) \in Seq(T)
           /\ Len(Filter(s, S)) = Cardinality(PositionsOf(s, S))
           /\ Len(Filter(s, S)) \in Nat /\ DOMAIN Filter(s, S) = 1..Len(Filter(s, S))
           /\ \A k \in 1..Len(Filter(s, S)) :
                /\ Nth(PositionsOf(s, S), k) \in PositionsOf(s, S)
                /\ Filter(s, S)[k] = s[Nth(PositionsOf(s, S), k)]
           /\ \A k, l \in 1..Len(Filter(s, S)) :
                k < l => Nth(PositionsOf(s, S), k) < Nth(PositionsOf(s, S), l)
           /\ \A i \in PositionsOf(s, S) : \E k \in 1..Len(Filter(s, S)) :
                k = Rank(PositionsOf(s, S), i) /\ Nth(PositionsOf(s, S), k) = i /\ Filter(s, S)[k] = s[i]
<1> DEFINE P == PositionsOf(s, S)
           n == Cardinality(P)
<1>1. /\ DOMAIN s = 1..Len(s) /\ Len(s) \in Nat
      /\ P \in SUBSET Nat /\ IsFiniteSet(P)
      /\ \A i : i \in P <=> i \in 1..Len(s) /\ s[i] \in S
    BY PositionsAre
<1> HIDE DEF P
<1>2. /\ n \in Nat
      /\ \A k \in 1..n : Nth(P, k) \in P /\ Rank(P, Nth(P, k)) = k
      /\ \A i \in P : Rank(P, i) \in 1..n /\ Nth(P, Rank(P, i)) = i
      /\ \A k, l \in 1..n : k < l => Nth(P, k) < Nth(P, l)
    BY <1>1, NthIs
<1> HIDE DEF n
<1>3. Filter(s, S) = [k \in 1..n |-> s[Nth(P, k)]]
    BY DEF Filter, Picked, P, n
<1>4. \A i \in 1..Len(s) : s[i] \in T
    BY <1>1, ElementOfSeq
<1>5. Filter(s, S) \in Seq(T)
    <2>1. \A k \in 1..n : s[Nth(P, k)] \in T
        BY <1>1, <1>2, <1>4
    <2> QED
        BY <1>2, <1>3, <2>1, IsASeq
<1>6. Len(Filter(s, S)) = n
    BY <1>2, <1>3, <1>5, LenProperties
<1> QED
    BY <1>1, <1>2, <1>3, <1>5, <1>6 DEF P, n

\* So its elements are those of the sequence that are in the set.
LEMMA FilterElements ==
    ASSUME NEW T, NEW s \in Seq(T), NEW S
    PROVE  /\ \A k \in DOMAIN Filter(s, S) : \E i \in DOMAIN s : s[i] \in S /\ Filter(s, S)[k] = s[i]
           /\ \A i \in DOMAIN s : s[i] \in S => \E k \in DOMAIN Filter(s, S) : Filter(s, S)[k] = s[i]
<1>1. /\ DOMAIN s = 1..Len(s)
      /\ \A i : i \in PositionsOf(s, S) <=> i \in 1..Len(s) /\ s[i] \in S
    BY PositionsAre
<1>2. ASSUME NEW k \in DOMAIN Filter(s, S)
      PROVE  \E i \in DOMAIN s : s[i] \in S /\ Filter(s, S)[k] = s[i]
    <2>1. Nth(PositionsOf(s, S), k) \in PositionsOf(s, S) /\ Filter(s, S)[k] = s[Nth(PositionsOf(s, S), k)]
        BY FilterIs
    <2> QED
        BY <1>1, <2>1
<1>3. ASSUME NEW i \in DOMAIN s, s[i] \in S
      PROVE  \E k \in DOMAIN Filter(s, S) : Filter(s, S)[k] = s[i]
    <2>1. i \in PositionsOf(s, S)
        BY <1>1, <1>3
    <2> QED
        BY <2>1, FilterIs
<1> QED
    BY <1>2, <1>3

\* g takes 1, 2, ... n to the numbers of I in growing order.
Enumerates(g, n, I) ==
    /\ \A k \in 1..n : g[k] \in I
    /\ \A i \in I : \E k \in 1..n : g[k] = i
    /\ \A k, l \in 1..n : k < l => g[k] < g[l]

\* Whatever does that with the positions of such elements reads what is filtered.
LEMMA FilterIsOnly ==
    ASSUME NEW T, NEW s \in Seq(T), NEW S, NEW n \in Nat, NEW g, Enumerates(g, n, PositionsOf(s, S))
    PROVE  /\ Filter(s, S) \in Seq(T) /\ Len(Filter(s, S)) = n
           /\ \A k \in 1..n : Filter(s, S)[k] = s[g[k]]
<1>1. PositionsOf(s, S) \in SUBSET Nat
    BY PositionsAre
<1> DEFINE h == [k \in 1..n |-> g[k]]
<1>2. /\ h \in [1..n -> PositionsOf(s, S)]
      /\ \A i \in PositionsOf(s, S) : \E k \in 1..n : h[k] = i
      /\ \A k, l \in 1..n : k < l => h[k] < h[l]
    BY DEF Enumerates
<1>3. \A k \in 1..n : h[k] = g[k]
    OBVIOUS
<1> HIDE DEF h
<1>4. Cardinality(PositionsOf(s, S)) = n /\ \A k \in 1..n : Nth(PositionsOf(s, S), k) = h[k]
    BY <1>1, <1>2, NthIsOnly
<1> QED
    BY <1>3, <1>4, FilterIs

\* Nothing is left of nothing, and all of what is all in the set.
LEMMA FilterAll ==
    ASSUME NEW T, NEW s \in Seq(T), NEW S, \A i \in DOMAIN s : s[i] \in S
    PROVE  Filter(s, S) = s
<1> DEFINE g == [k \in 1..Len(s) |-> k]
<1>1. Len(s) \in Nat /\ DOMAIN s = 1..Len(s) /\ PositionsOf(s, S) = 1..Len(s)
    BY PositionsAre
<1>3. /\ Filter(s, S) \in Seq(T) /\ Len(Filter(s, S)) = Len(s)
      /\ \A k \in 1..Len(s) : Filter(s, S)[k] = s[g[k]]
    <2>1. Enumerates(g, Len(s), PositionsOf(s, S))
        BY <1>1 DEF Enumerates
    <2> HIDE DEF g
    <2> QED
        BY <1>1, <2>1, FilterIsOnly
<1>4. \A k \in 1..Len(s) : Filter(s, S)[k] = s[k]
    BY <1>3
<1> QED
    BY <1>3, <1>4, SeqEqual

LEMMA FilterEmpty ==
    ASSUME NEW S
    PROVE  Filter(<<>>, S) = <<>>
<1>1. <<>> \in Seq({}) /\ Len(<<>>) = 0
    BY EmptySeq
<1>2. \A i \in DOMAIN <<>> : <<>>[i] \in S
    BY <1>1, LenProperties
<1> QED
    BY <1>1, <1>2, FilterAll

\* What is appended passes the filter by itself.
LEMMA FilterAppend ==
    ASSUME NEW T, NEW s \in Seq(T), NEW x \in T, NEW S
    PROVE  Filter(Append(s, x), S) = IF x \in S THEN Append(Filter(s, S), x) ELSE Filter(s, S)
<1> DEFINE P == PositionsOf(s, S)
           Q == PositionsOf(Append(s, x), S)
           f == Filter(s, S)
           n == Len(f)
           m == Len(s)
           a == Append(s, x)
<1>1. /\ m \in Nat /\ P \in SUBSET Nat
      /\ \A i : i \in P <=> i \in 1..m /\ s[i] \in S
    BY PositionsAre
<1>2. /\ a \in Seq(T) /\ Len(a) = m + 1
      /\ a[m + 1] = x
      /\ \A i \in 1..m : a[i] = s[i]
    BY AppendProperties
<1>3. \A i : i \in Q <=> i \in 1..(m + 1) /\ a[i] \in S
    BY <1>2, PositionsAre
<1>4. /\ f \in Seq(T) /\ n \in Nat /\ DOMAIN f = 1..n
      /\ \A k \in 1..n : Nth(P, k) \in P /\ f[k] = s[Nth(P, k)]
      /\ \A k, l \in 1..n : k < l => Nth(P, k) < Nth(P, l)
      /\ \A i \in P : \E k \in 1..n : Nth(P, k) = i
    BY FilterIs
<1> HIDE DEF P, Q, f, n, m, a
<1>5. ASSUME x \in S
      PROVE  Filter(a, S) = Append(f, x)
    <2> DEFINE g == [k \in 1..(n + 1) |-> IF k = n + 1 THEN m + 1 ELSE Nth(P, k)]
    <2>1. g \in [1..(n + 1) -> Q]
        BY <1>1, <1>2, <1>3, <1>4, <1>5
    <2>2. \A i \in Q : \E k \in 1..(n + 1) : g[k] = i
        <3> SUFFICES ASSUME NEW i \in Q PROVE \E k \in 1..(n + 1) : g[k] = i
            OBVIOUS
        <3>1. CASE i = m + 1
            BY <3>1, <1>4
        <3>2. CASE i # m + 1
            <4>1. i \in P
                BY <3>2, <1>1, <1>2, <1>3
            <4>2. PICK k \in 1..n : Nth(P, k) = i
                BY <4>1, <1>4
            <4> QED
                BY <4>2, <1>4
        <3> QED
            BY <3>1, <3>2
    <2>3. \A k, l \in 1..(n + 1) : k < l => g[k] < g[l]
        <3> SUFFICES ASSUME NEW k \in 1..(n + 1), NEW l \in 1..(n + 1), k < l
                     PROVE  g[k] < g[l]
            OBVIOUS
        <3>1. k \in 1..n /\ Nth(P, k) \in 1..m
            BY <1>1, <1>4
        <3> QED
            BY <3>1, <1>1, <1>4
    <2>4. /\ Filter(a, S) \in Seq(T) /\ Len(Filter(a, S)) = n + 1
          /\ \A k \in 1..(n + 1) : Filter(a, S)[k] = a[g[k]]
        <3>1. n + 1 \in Nat
            BY <1>4
        <3>2. Enumerates(g, n + 1, PositionsOf(a, S))
            BY <2>1, <2>2, <2>3 DEF Q, a, Enumerates
        <3> HIDE DEF g
        <3> QED
            BY <1>2, <3>1, <3>2, FilterIsOnly
    <2>5. /\ Append(f, x) \in Seq(T) /\ Len(Append(f, x)) = n + 1
          /\ Append(f, x)[n + 1] = x
          /\ \A k \in 1..n : Append(f, x)[k] = f[k]
        BY <1>4, AppendProperties DEF n
    <2>6. ASSUME NEW k \in 1..(n + 1)
          PROVE  Filter(a, S)[k] = Append(f, x)[k]
        <3>1. Filter(a, S)[k] = a[g[k]]
            BY <2>4
        <3>2. CASE k = n + 1
            BY <3>1, <3>2, <1>2, <2>5
        <3>3. CASE k # n + 1
            <4>1. k \in 1..n /\ g[k] = Nth(P, k)
                BY <3>3, <1>4
            <4>2. Nth(P, k) \in 1..m /\ f[k] = s[Nth(P, k)]
                BY <4>1, <1>1, <1>4
            <4> QED
                BY <3>1, <4>1, <4>2, <1>2, <2>5
        <3> QED
            BY <3>2, <3>3
    <2> QED
        BY <2>4, <2>5, <2>6, SeqEqual
<1>6. ASSUME x \notin S
      PROVE  Filter(a, S) = f
    <2>1. Q = P
        <3>1. ASSUME NEW i PROVE i \in Q <=> i \in P
            <4>1. i \in 1..(m + 1) <=> i \in 1..m \/ i = m + 1
                BY <1>1
            <4>2. CASE i = m + 1
                BY <4>2, <1>1, <1>2, <1>3, <1>6
            <4>3. CASE i # m + 1
                BY <4>1, <4>3, <1>1, <1>2, <1>3
            <4> QED
                BY <4>2, <4>3
        <3> QED
            BY <3>1
    <2>2. \A k \in 1..Cardinality(P) : Nth(P, k) \in P
        BY <1>4, FilterIs DEF n, f, P
    <2>3. \A k \in 1..Cardinality(P) : a[Nth(P, k)] = s[Nth(P, k)]
        BY <1>1, <1>2, <2>2
    <2> QED
        BY <2>1, <2>3 DEF Filter, Picked, f, P, Q, a
<1> QED
    BY <1>5, <1>6 DEF a, f

\* The elements of a sequence, and what one more, one less or another sequence
\* does to them.
LEMMA RangeIs ==
    ASSUME NEW T, NEW s \in Seq(T)
    PROVE  /\ DOMAIN s = 1..Len(s) /\ Len(s) \in Nat
           /\ \A x : x \in Range(s) <=> \E i \in 1..Len(s) : x = s[i]
           /\ \A x \in Range(s) : x \in T
           /\ s # <<>> <=> Len(s) > 0
           /\ s # <<>> => Last(s) = s[Len(s)] /\ s[1] \in Range(s) /\ Last(s) \in Range(s)
<1>1. DOMAIN s = 1..Len(s) /\ Len(s) \in Nat
    BY LenProperties
<1>2. \A x : x \in Range(s) <=> \E i \in 1..Len(s) : x = s[i]
    BY <1>1 DEF Range
<1>3. \A i \in 1..Len(s) : s[i] \in T
    BY ElementOfSeq
<1>4. s # <<>> <=> Len(s) > 0
    BY <1>1, EmptySeq
<1> QED
    BY <1>1, <1>2, <1>3, <1>4 DEF Last

LEMMA AppendHas ==
    ASSUME NEW T, NEW s \in Seq(T), NEW m \in T
    PROVE  /\ Append(s, m) \in Seq(T)
           /\ \A x : x \in Range(Append(s, m)) <=> x \in Range(s) \/ x = m
<1>1. /\ DOMAIN s = 1..Len(s) /\ Len(s) \in Nat
      /\ \A x : x \in Range(s) <=> \E i \in 1..Len(s) : x = s[i]
    BY RangeIs
<1>2. /\ Append(s, m) \in Seq(T) /\ Len(Append(s, m)) = Len(s) + 1
      /\ \A i \in 1..Len(s) : Append(s, m)[i] = s[i]
      /\ Append(s, m)[Len(s) + 1] = m
    BY AppendProperties
<1>3. ASSUME NEW x PROVE x \in Range(Append(s, m)) <=> \E i \in 1..(Len(s) + 1) : x = Append(s, m)[i]
    <2> DEFINE a == Append(s, m)
    <2>1. a \in Seq(T) /\ Len(a) = Len(s) + 1
        BY <1>2
    <2> HIDE DEF a
    <2>2. x \in Range(a) <=> \E i \in 1..Len(a) : x = a[i]
        BY <2>1, RangeIs
    <2> QED
        BY <2>1, <2>2 DEF a
<1>4. \A i \in 1..(Len(s) + 1) : i \in 1..Len(s) \/ i = Len(s) + 1
    BY <1>1
<1>5. Len(s) + 1 \in 1..(Len(s) + 1) /\ \A i \in 1..Len(s) : i \in 1..(Len(s) + 1)
    BY <1>1
<1>6. ASSUME NEW x PROVE x \in Range(Append(s, m)) <=> x \in Range(s) \/ x = m
    <2>1. ASSUME x \in Range(Append(s, m)) PROVE x \in Range(s) \/ x = m
        <3>1. PICK i \in 1..(Len(s) + 1) : x = Append(s, m)[i]
            BY <1>3, <2>1
        <3> QED
            BY <1>1, <1>2, <1>4, <3>1
    <2>2. ASSUME x \in Range(s) \/ x = m PROVE x \in Range(Append(s, m))
        BY <1>1, <1>2, <1>3, <1>5, <2>2
    <2> QED
        BY <2>1, <2>2
<1> QED
    BY <1>2, <1>6

\* What is joined: the elements of both, the head of the first and the end of the second.
LEMMA JoinedIs ==
    ASSUME NEW T, NEW s \in Seq(T), NEW t \in Seq(T)
    PROVE  /\ s \o t \in Seq(T)
           /\ \A x : x \in Range(s \o t) <=> x \in Range(s) \/ x \in Range(t)
           /\ s \o t # <<>> <=> s # <<>> \/ t # <<>>
           /\ t # <<>> => Last(s \o t) = Last(t)
           /\ s # <<>> => (s \o t)[1] = s[1]
           /\ s = <<>> /\ t # <<>> => (s \o t)[1] = t[1]
<1>1. /\ s \o t \in Seq(T) /\ Len(s \o t) = Len(s) + Len(t)
      /\ \A i \in 1..(Len(s) + Len(t)) : (s \o t)[i] = IF i <= Len(s) THEN s[i] ELSE t[i - Len(s)]
    BY ConcatProperties
<1>2. /\ Len(s) \in Nat /\ (s # <<>> <=> Len(s) > 0)
      /\ Len(t) \in Nat /\ (t # <<>> <=> Len(t) > 0) /\ (t # <<>> => Last(t) = t[Len(t)])
    BY RangeIs
<1>3. (s \o t # <<>> <=> Len(s \o t) > 0) /\ (s \o t # <<>> => Last(s \o t) = (s \o t)[Len(s \o t)])
    BY <1>1, RangeIs
<1>4. \A x : x \in Range(s \o t) <=> x \in Range(s) \/ x \in Range(t)
    BY RangeConcatenation
<1>5. s \o t # <<>> <=> s # <<>> \/ t # <<>>
    BY <1>1, <1>2, <1>3
<1> DEFINE u == s \o t
<1>6. /\ Len(u) = Len(s) + Len(t) /\ u \in Seq(T)
      /\ \A i \in 1..(Len(s) + Len(t)) : u[i] = IF i <= Len(s) THEN s[i] ELSE t[i - Len(s)]
      /\ u # <<>> => Last(u) = u[Len(u)]
      /\ u # <<>> <=> s # <<>> \/ t # <<>>
    BY <1>1, <1>3, <1>5
<1> HIDE DEF u
<1>7. t # <<>> => Last(u) = Last(t)
    <2> SUFFICES ASSUME t # <<>> PROVE Last(u) = Last(t)
        OBVIOUS
    <2>1. Len(s) + Len(t) \in 1..(Len(s) + Len(t)) /\ ~(Len(s) + Len(t) <= Len(s))
          /\ (Len(s) + Len(t)) - Len(s) = Len(t)
        BY <1>2
    <2> QED
        BY <1>2, <1>6, <2>1
<1>8. s # <<>> => u[1] = s[1]
    <2> SUFFICES ASSUME s # <<>> PROVE u[1] = s[1]
        OBVIOUS
    <2>1. 1 \in 1..(Len(s) + Len(t)) /\ 1 <= Len(s)
        BY <1>2
    <2> QED
        BY <1>6, <2>1
<1>9. s = <<>> /\ t # <<>> => u[1] = t[1]
    <2> SUFFICES ASSUME s = <<>>, t # <<>> PROVE u[1] = t[1]
        OBVIOUS
    <2>1. 1 \in 1..(Len(s) + Len(t)) /\ ~(1 <= Len(s)) /\ 1 - Len(s) = 1
        BY <1>2
    <2> QED
        BY <1>6, <2>1
<1> QED
    BY <1>1, <1>4, <1>5, <1>7, <1>8, <1>9 DEF u

\* A sequence without its last element.
LEMMA FrontIs ==
    ASSUME NEW T, NEW s \in Seq(T), s # <<>>
    PROVE  /\ Front(s) \in Seq(T) /\ Len(Front(s)) = Len(s) - 1
           /\ \A i \in 1..(Len(s) - 1) : Front(s)[i] = s[i]
           /\ Last(s) \in T /\ Append(Front(s), Last(s)) = s
<1> DEFINE n == Len(s) - 1
           f == Front(s)
           a == Append(f, Last(s))
<1>1. Len(s) \in Nat /\ Len(s) # 0 /\ \A i \in 1..Len(s) : s[i] \in T
    BY LenProperties, EmptySeq, ElementOfSeq
<1>2. n \in Nat /\ Len(s) = n + 1
    BY <1>1
<1>3. f = SubSeq(s, 1, n)
    BY DEF Front
<1>4. \A i \in 1..n : s[i] \in T
    BY <1>1
<1>5. Last(s) = s[n + 1] /\ Last(s) \in T
    BY <1>1, <1>2 DEF Last
<1> HIDE DEF f, n
<1>6. f \in Seq(T) /\ Len(f) = n /\ \A i \in 1..n : f[i] = s[i]
    <2>1. 1 \in Int /\ n \in Int
        BY <1>2
    <2>2. /\ f \in Seq(T) /\ Len(f) = IF 1 <= n THEN n - 1 + 1 ELSE 0
          /\ \A i \in 1..(n - 1 + 1) : f[i] = s[1 + i - 1]
        BY <1>3, <1>4, <2>1, SubSeqProperties
    <2>3. n - 1 + 1 = n /\ \A i \in 1..n : 1 + i - 1 = i
        BY <1>2
    <2>4. ~(1 <= n) => n = 0
        BY <1>2
    <2> QED
        BY <2>2, <2>3, <2>4
<1>7. a \in Seq(T) /\ Len(a) = n + 1 /\ a[n + 1] = s[n + 1] /\ \A i \in 1..n : a[i] = s[i]
    BY <1>5, <1>6, AppendProperties
<1> HIDE DEF a
<1>8. \A i \in 1..Len(a) : a[i] = s[i]
    <2> SUFFICES ASSUME NEW i \in 1..(n + 1) PROVE a[i] = s[i]
        BY <1>7
    <2>1. i \in 1..n \/ i = n + 1
        BY <1>2
    <2> QED
        BY <1>7, <2>1
<1>9. a = s
    BY <1>2, <1>7, <1>8, SeqEqual
<1> QED
    BY <1>2, <1>5, <1>6, <1>9 DEF a, f, n

LEMMA FrontOfAppend ==
    ASSUME NEW T, NEW s \in Seq(T), NEW x \in T
    PROVE  Front(Append(s, x)) = s
<1> DEFINE a == Append(s, x)
<1>1. a \in Seq(T) /\ a # <<>> /\ Len(a) = Len(s) + 1 /\ \A i \in 1..Len(s) : a[i] = s[i]
    BY AppendProperties, EmptySeq
<1>2. Len(s) \in Nat
    BY LenProperties
<1> HIDE DEF a
<1>3. Len(a) - 1 = Len(s)
    BY <1>1, <1>2
<1>4. /\ Front(a) \in Seq(T) /\ Len(Front(a)) = Len(s)
      /\ \A i \in 1..Len(s) : Front(a)[i] = a[i]
    BY <1>1, <1>3, FrontIs
<1>5. \A i \in 1..Len(s) : Front(a)[i] = s[i]
    BY <1>1, <1>4
<1> QED
    BY <1>4, <1>5, SeqEqual DEF a
=============================================================================
