------------------------- MODULE SubsequencesProofs -------------------------
(***************************************************************************)
(* What a filter leaves of a list, for any list: as many elements as it    *)
(* keeps positions, in their order, and it is the only list of the kind.   *)
(* A filter of a filtered list is one filter, and a run of positions is a  *)
(* part of the list.                                                       *)
(***************************************************************************)
EXTENDS Subsequences, FiniteSetTheorems, SequenceTheorems, TLAPS

UpTo(I, i) == {j \in I : j <= i}

\* The position of an element among those kept tells it from the others.
LEMMA RankFacts ==
  ASSUME NEW I, IsFiniteSet(I), I \subseteq Nat
  PROVE  /\ Cardinality(I) \in Nat
         /\ \A i \in I : Cardinality(UpTo(I, i)) \in 1..Cardinality(I)
         /\ \A i, j \in I : i < j => Cardinality(UpTo(I, i)) < Cardinality(UpTo(I, j))
         /\ \A k \in 1..Cardinality(I) : \E i \in I : Cardinality(UpTo(I, i)) = k
<1>0. \A i \in I : i \in Nat
  OBVIOUS
<1>1. IsFiniteSet(I) /\ Cardinality(I) \in Nat
  BY FS_CardinalityType
<1>2. ASSUME NEW i \in I
      PROVE  IsFiniteSet(UpTo(I, i)) /\ Cardinality(UpTo(I, i)) \in 1..Cardinality(I)
  <2>1. UpTo(I, i) \in SUBSET I /\ i \in UpTo(I, i)
    BY DEF UpTo
  <2>2. IsFiniteSet(UpTo(I, i)) /\ Cardinality(UpTo(I, i)) <= Cardinality(I)
    BY <1>1, <2>1, FS_Subset
  <2>3. Cardinality(UpTo(I, i)) \in Nat /\ Cardinality(UpTo(I, i)) # 0
    BY <2>1, <2>2, FS_CardinalityType, FS_EmptySet
  <2> QED BY <1>1, <2>2, <2>3
<1>3. ASSUME NEW i \in I, NEW j \in I, i < j
      PROVE  Cardinality(UpTo(I, i)) < Cardinality(UpTo(I, j))
  <2>0. i \in Int /\ j \in Int /\ \A h \in I : h <= i => h <= j
    BY <1>0, <1>3
  <2>1. UpTo(I, i) \in SUBSET UpTo(I, j)
    BY <2>0 DEF UpTo
  <2>3. j \in UpTo(I, j)
    BY <2>0 DEF UpTo
  <2>4. j \notin UpTo(I, i)
    BY <1>3, <2>0 DEF UpTo
  <2>2. Cardinality(UpTo(I, i)) <= Cardinality(UpTo(I, j)) /\ Cardinality(UpTo(I, i)) # Cardinality(UpTo(I, j))
    BY <1>2, <2>1, <2>3, <2>4, FS_Subset
  <2> QED BY <1>2, <2>2
<1>4. ASSUME NEW k \in 1..Cardinality(I) PROVE \E i \in I : Cardinality(UpTo(I, i)) = k
  <2> DEFINE g == [i \in I |-> Cardinality(UpTo(I, i))]
  <2>1. g \in [I -> 1..Cardinality(I)]
    BY <1>2
  <2>2. ASSUME NEW i \in I, NEW j \in I, g[i] = g[j] PROVE i = j
    <3>1. ~(i < j) /\ ~(j < i)
      BY <1>2, <1>3, <2>2
    <3> QED BY <3>1
  <2>3. g \in Injection(I, 1..Cardinality(I))
    BY <2>1, <2>2 DEF Injection, IsInjective
  <2>4. IsFiniteSet(1..Cardinality(I)) /\ Cardinality(1..Cardinality(I)) = Cardinality(I)
    BY <1>1, FS_Interval
  <2>5. g \in Surjection(I, 1..Cardinality(I))
    <3> HIDE DEF g
    <3> QED BY <2>3, <2>4, FS_Injection
  <2>6. PICK i \in I : g[i] = k
    BY <2>5 DEF Surjection
  <2> QED BY <2>6
<1> QED BY <1>1, <1>2, <1>3, <1>4

\* f lists the positions I in their order.
Along(f, I) ==
  /\ f \in [1..Cardinality(I) -> I]
  /\ \A j, k \in 1..Cardinality(I) : j < k => f[j] < f[k]
  /\ \A i \in I : \E k \in 1..Cardinality(I) : f[k] = i

\* A filter keeps what is at the positions, in their order.
LEMMA PickedFacts ==
  ASSUME NEW I, IsFiniteSet(I), I \subseteq Nat, NEW s
  PROVE  \E f : Along(f, I) /\ \A k \in 1..Cardinality(I) : Picked(s, I)[k] = s[f[k]]
<1> DEFINE m == Cardinality(I)
           f == [k \in 1..m |-> CHOOSE i \in I : Cardinality(UpTo(I, i)) = k]
<1>1. m \in Nat
  BY RankFacts
<1>2. \A k \in 1..m : f[k] \in I /\ Cardinality(UpTo(I, f[k])) = k
  BY RankFacts
<1>3. Picked(s, I) = [k \in 1..m |-> s[f[k]]]
  BY DEF Picked, UpTo
<1> HIDE DEF f
<1>4. f \in [1..m -> I]
  BY <1>2 DEF f
<1>5. ASSUME NEW j \in 1..m, NEW k \in 1..m, j < k PROVE f[j] < f[k]
  <2>1. PICK i \in I, h \in I : i = f[j] /\ h = f[k] /\ Cardinality(UpTo(I, i)) = j /\ Cardinality(UpTo(I, h)) = k
    BY <1>2
  <2>2. i \in Int /\ h \in Int
    OBVIOUS
  <2>3. ~(h < i)
    <3> SUFFICES ASSUME h < i PROVE FALSE
      OBVIOUS
    <3>1. k < j
      BY <2>1, RankFacts
    <3> QED BY <1>1, <1>5, <3>1
  <2>4. h # i
    BY <1>1, <1>5, <2>1
  <2> QED BY <2>1, <2>2, <2>3, <2>4
<1>6. ASSUME NEW i \in I PROVE \E k \in 1..m : f[k] = i
  <2>1. PICK k \in 1..m : k = Cardinality(UpTo(I, i))
    BY RankFacts
  <2>2. PICK h \in I : h = f[k] /\ Cardinality(UpTo(I, h)) = k
    BY <1>2
  <2>3. i \in Int /\ h \in Int /\ k \in Int
    BY <1>1
  <2>4. ~(h < i)
    <3> SUFFICES ASSUME h < i PROVE FALSE
      OBVIOUS
    <3>1. k < k
      BY <2>1, <2>2, RankFacts
    <3> QED BY <2>3, <3>1
  <2>5. ~(i < h)
    <3> SUFFICES ASSUME i < h PROVE FALSE
      OBVIOUS
    <3>1. k < k
      BY <2>1, <2>2, RankFacts
    <3> QED BY <2>3, <3>1
  <2> QED BY <2>2, <2>3, <2>4, <2>5
<1>7. Along(f, I)
  BY <1>4, <1>5, <1>6 DEF Along
<1> QED BY <1>3, <1>7

\* The list of a filter is one of the elements it keeps.
LEMMA PickedSeq ==
  ASSUME NEW S, NEW s \in Seq(S), NEW I \in SUBSET DOMAIN s
  PROVE  /\ Picked(s, I) \in Seq(S) /\ Len(Picked(s, I)) = Cardinality(I) /\ Cardinality(I) \in Nat
         /\ \A k \in 1..Cardinality(I) : \E i \in I : Picked(s, I)[k] = s[i]
         /\ \A i \in I : \E k \in 1..Cardinality(I) : Picked(s, I)[k] = s[i]
<1>0. IsFiniteSet(I) /\ I \subseteq Nat
  <2>1. IsFiniteSet(1..Len(s)) /\ I \subseteq 1..Len(s) /\ Len(s) \in Nat
    BY FS_Interval
  <2> QED BY <2>1, FS_Subset
<1>1. \A i \in I : s[i] \in S
  OBVIOUS
<1>2. PICK f : Along(f, I) /\ \A k \in 1..Cardinality(I) : Picked(s, I)[k] = s[f[k]]
  BY <1>0, PickedFacts
<1>3. /\ f \in [1..Cardinality(I) -> I]
      /\ \A i \in I : \E k \in 1..Cardinality(I) : f[k] = i
  BY <1>2 DEF Along
<1>4. Cardinality(I) \in Nat
  BY <1>0, RankFacts
<1>5. Picked(s, I) \in [1..Cardinality(I) -> S]
  <2>1. Picked(s, I) \in [1..Cardinality(I) -> {Picked(s, I)[k] : k \in 1..Cardinality(I)}]
    BY DEF Picked
  <2> QED BY <1>1, <1>2, <1>3, <2>1
<1>6. Picked(s, I) \in Seq(S) /\ Len(Picked(s, I)) = Cardinality(I)
  BY <1>4, <1>5
<1>7. \A k \in 1..Cardinality(I) : f[k] \in I /\ Picked(s, I)[k] = s[f[k]]
  BY <1>2, <1>3
<1>8. \A k \in 1..Cardinality(I) : \E i \in I : Picked(s, I)[k] = s[i]
  BY <1>7
<1>9. ASSUME NEW i \in I PROVE \E k \in 1..Cardinality(I) : Picked(s, I)[k] = s[i]
  BY <1>3, <1>7
<1> QED BY <1>4, <1>6, <1>8, <1>9

\* Two lists that grow along the same positions are the same: the list of what
\* is kept of 1..n.
LEMMA InOrderIsPicked ==
  ASSUME NEW n \in Nat, NEW I \in SUBSET (1..n), NEW u \in Seq(I),
         \A j, k \in DOMAIN u : j < k => u[j] < u[k],
         \A i \in I : \E k \in DOMAIN u : u[k] = i
  PROVE  u = Picked([i \in 1..n |-> i], I)
<1> DEFINE m == Cardinality(I)
<1>1. Len(u) \in Nat /\ DOMAIN u = 1..Len(u) /\ \A k \in DOMAIN u : u[k] \in I
  OBVIOUS
<1>0. \A k \in DOMAIN u : k \in Int /\ u[k] \in Int
  <2> TAKE k \in DOMAIN u
  <2>1. u[k] \in I /\ \A i \in I : i \in Int
    BY <1>1
  <2>2. k \in Int
    BY <1>1
  <2> QED BY <2>1, <2>2
<1>2. ASSUME NEW j \in DOMAIN u, NEW k \in DOMAIN u, u[j] <= u[k] PROVE j <= k
  <2>1. ~(k < j)
    <3> SUFFICES ASSUME k < j PROVE FALSE
      OBVIOUS
    <3>1. u[k] < u[j]
      OBVIOUS
    <3> QED BY <1>0, <1>2, <3>1
  <2> QED BY <1>0, <2>1
<1>3. ASSUME NEW k \in DOMAIN u PROVE Cardinality(UpTo(I, u[k])) = k
  <2> DEFINE g == [j \in 1..k |-> u[j]]
  <2>1. k \in Nat /\ \A j \in 1..k : j \in DOMAIN u
    BY <1>1
  <2>2. \A j \in 1..k : u[j] \in UpTo(I, u[k])
    <3> TAKE j \in 1..k
    <3>1. j = k \/ j < k
      BY <2>1
    <3>2. u[j] <= u[k]
      BY <1>0, <2>1, <3>1
    <3> QED BY <1>1, <2>1, <3>2 DEF UpTo
  <2>3. g \in [1..k -> UpTo(I, u[k])]
    BY <2>2
  <2>4. ASSUME NEW i \in 1..k, NEW j \in 1..k, g[i] = g[j] PROVE i = j
    <3>1. u[i] = u[j] /\ i \in DOMAIN u /\ j \in DOMAIN u
      BY <2>1, <2>4
    <3>2. i <= j /\ j <= i
      BY <1>0, <1>2, <3>1
    <3> QED BY <2>1, <3>2
  <2>5. ASSUME NEW i \in UpTo(I, u[k]) PROVE \E j \in 1..k : g[j] = i
    <3>1. PICK j \in DOMAIN u : u[j] = i
      BY <2>5 DEF UpTo
    <3>2. j <= k
      BY <1>2, <2>5, <3>1 DEF UpTo
    <3> QED BY <1>1, <3>1, <3>2
  <2>6. g \in Bijection(1..k, UpTo(I, u[k]))
    BY <2>3, <2>4, <2>5 DEF Bijection, Injection, Surjection, IsInjective
  <2>7. ExistsBijection(1..k, UpTo(I, u[k]))
    BY <2>6 DEF ExistsBijection
  <2>8. IsFiniteSet(1..k) /\ Cardinality(1..k) = k
    BY <2>1, FS_Interval
  <2> QED BY <2>7, <2>8, FS_Bijection
<1>4. Len(u) = m
  <2> DEFINE g == [j \in 1..Len(u) |-> u[j]]
  <2>1. g \in Bijection(1..Len(u), I)
    <3>1. ASSUME NEW i \in 1..Len(u), NEW j \in 1..Len(u), g[i] = g[j] PROVE i = j
      <4>1. u[i] = u[j] /\ i \in DOMAIN u /\ j \in DOMAIN u
        BY <1>1, <3>1
      <4>2. i <= j /\ j <= i
        BY <1>0, <1>2, <4>1
      <4> QED BY <4>2
    <3>2. g \in [1..Len(u) -> I] /\ \A i \in I : \E j \in 1..Len(u) : g[j] = i
      BY <1>1
    <3> QED BY <3>1, <3>2 DEF Bijection, Injection, Surjection, IsInjective
  <2>2. ExistsBijection(1..Len(u), I)
    BY <2>1 DEF ExistsBijection
  <2>3. IsFiniteSet(1..Len(u)) /\ Cardinality(1..Len(u)) = Len(u)
    <3>1. PICK l \in Nat : l = Len(u)
      BY <1>1
    <3>2. IsFiniteSet(1..l) /\ Cardinality(1..l) = l
      BY FS_Interval
    <3> QED BY <3>1, <3>2
  <2> QED BY <2>2, <2>3, FS_Bijection
<1>5. ASSUME NEW k \in 1..m
      PROVE  [i \in 1..n |-> i][CHOOSE i \in I : Cardinality(UpTo(I, i)) = k] = u[k]
  <2>1. \A i \in I : Cardinality(UpTo(I, i)) = k => i = u[k]
    <3> SUFFICES ASSUME NEW i \in I, Cardinality(UpTo(I, i)) = k PROVE i = u[k]
      OBVIOUS
    <3>1. PICK j \in DOMAIN u : u[j] = i
      OBVIOUS
    <3>2. j = k
      BY <1>3, <3>1
    <3> QED BY <3>1, <3>2
  <2>2. u[k] \in I /\ Cardinality(UpTo(I, u[k])) = k
    BY <1>1, <1>3, <1>4
  <2>3. (CHOOSE i \in I : Cardinality(UpTo(I, i)) = k) = u[k]
    BY <2>1, <2>2
  <2> QED BY <2>2, <2>3
<1>6. Picked([i \in 1..n |-> i], I) = [k \in 1..m |-> [i \in 1..n |-> i][CHOOSE i \in I : Cardinality(UpTo(I, i)) = k]]
  BY DEF Picked, UpTo
<1>7. u = [k \in 1..m |-> u[k]]
  BY <1>1, <1>4
<1>8. Picked([i \in 1..n |-> i], I) = [k \in 1..m |-> u[k]]
  BY <1>5, <1>6
<1> QED BY <1>7, <1>8

\* Nothing kept, or the first of at most two.
LEMMA PickedFew ==
  ASSUME NEW s
  PROVE  Picked(s, {}) = << >> /\ Picked(s, {1}) = <<s[1]>>
<1>1. Picked(s, {}) = << >>
  <2>1. Cardinality({}) = 0
    BY FS_EmptySet
  <2> QED BY <2>1 DEF Picked
<1>2. Picked(s, {1}) = <<s[1]>>
  <2>1. Cardinality({1}) = 1
    BY FS_Singleton
  <2>2. PICK f : Along(f, {1}) /\ Picked(s, {1})[1] = s[f[1]]
    <3>1. {1} \subseteq Nat
      OBVIOUS
    <3>2. IsFiniteSet({1})
      BY FS_Singleton
    <3> QED BY <2>1, <3>1, <3>2, PickedFacts
  <2>3. f[1] = 1
    BY <2>1, <2>2 DEF Along
  <2>4. Picked(s, {1}) = [k \in 1..1 |-> s[1]]
    BY <2>1, <2>2, <2>3 DEF Picked
  <2> QED BY <2>4
<1> QED BY <1>1, <1>2

\* The element kept at a position's place.
LEMMA PickedAt ==
  ASSUME NEW I, IsFiniteSet(I), I \subseteq Nat, NEW s
  PROVE  /\ Cardinality(I) \in Nat /\ DOMAIN Picked(s, I) = 1..Cardinality(I)
         /\ \A i \in I : Picked(s, I)[Cardinality(UpTo(I, i))] = s[i]
<1>1. /\ Cardinality(I) \in Nat
      /\ \A i \in I : Cardinality(UpTo(I, i)) \in 1..Cardinality(I)
      /\ \A i, j \in I : i < j => Cardinality(UpTo(I, i)) < Cardinality(UpTo(I, j))
  BY RankFacts
<1>2. ASSUME NEW i \in I, NEW j \in I, Cardinality(UpTo(I, i)) = Cardinality(UpTo(I, j)) PROVE i = j
  <2>1. i \in Nat /\ j \in Nat
    OBVIOUS
  <2>2. Cardinality(UpTo(I, i)) \in Nat
    BY <1>1
  <2>3. ~(i < j) /\ ~(j < i)
    BY <1>1, <1>2, <2>2
  <2> QED BY <2>1, <2>3
<1>3. ASSUME NEW i \in I PROVE Picked(s, I)[Cardinality(UpTo(I, i))] = s[i]
  <2> DEFINE c == CHOOSE j \in I : Cardinality(UpTo(I, j)) = Cardinality(UpTo(I, i))
  <2>1. c \in I /\ Cardinality(UpTo(I, c)) = Cardinality(UpTo(I, i))
    OBVIOUS
  <2>2. c = i
    BY <1>2, <2>1
  <2>3. Picked(s, I)[Cardinality(UpTo(I, i))] = s[c]
    BY <1>1 DEF Picked, UpTo
  <2> QED BY <2>2, <2>3
<1>4. DOMAIN Picked(s, I) = 1..Cardinality(I)
  BY DEF Picked
<1> QED BY <1>1, <1>3, <1>4

\* The positions at the places I.
AtPlaces(M, I) == {m \in M : Cardinality(UpTo(M, m)) \in I}

\* Positions are as many as their places, and in the same order.
LEMMA PlacesCount ==
  ASSUME NEW M, IsFiniteSet(M), M \subseteq Nat, NEW I \in SUBSET (1..Cardinality(M))
  PROVE  /\ IsFiniteSet(AtPlaces(M, I)) /\ Cardinality(AtPlaces(M, I)) = Cardinality(I)
         /\ IsFiniteSet(I) /\ I \subseteq Nat
<1> DEFINE J == {m \in M : Cardinality(UpTo(M, m)) \in I}
           g == [m \in J |-> Cardinality(UpTo(M, m))]
<1>1. /\ Cardinality(M) \in Nat
      /\ \A i \in M : Cardinality(UpTo(M, i)) \in 1..Cardinality(M)
      /\ \A i, j \in M : i < j => Cardinality(UpTo(M, i)) < Cardinality(UpTo(M, j))
      /\ \A k \in 1..Cardinality(M) : \E i \in M : Cardinality(UpTo(M, i)) = k
  BY RankFacts
<1>2. IsFiniteSet(J)
  BY FS_Subset
<1>3. g \in [J -> I]
  OBVIOUS
<1>4. ASSUME NEW i \in J, NEW j \in J, g[i] = g[j] PROVE i = j
  <2>1. i \in Nat /\ j \in Nat /\ Cardinality(UpTo(M, i)) \in Nat
    BY <1>1
  <2>2. ~(i < j) /\ ~(j < i)
    BY <1>1, <1>4, <2>1
  <2> QED BY <2>1, <2>2
<1>5. \A k \in I : \E m \in J : g[m] = k
  BY <1>1
<1>6. g \in Bijection(J, I)
  BY <1>3, <1>4, <1>5 DEF Bijection, Injection, Surjection, IsInjective
<1>7. ExistsBijection(J, I)
  BY <1>6 DEF ExistsBijection
<1>8. IsFiniteSet(I) /\ I \subseteq Nat
  <2>1. PICK n \in Nat : n = Cardinality(M)
    BY <1>1
  <2>2. IsFiniteSet(1..n)
    BY FS_Interval
  <2>3. I \in SUBSET (1..n)
    BY <2>1
  <2>4. IsFiniteSet(I)
    BY <2>2, <2>3, FS_Subset
  <2>5. I \subseteq Nat
    BY <2>3
  <2> QED BY <2>4, <2>5
<1> QED BY <1>2, <1>7, <1>8, FS_Bijection DEF AtPlaces

\* A filter of what a filter keeps is one filter.
LEMMA PickedTwice ==
  ASSUME NEW M, IsFiniteSet(M), M \subseteq Nat, NEW s, NEW I \in SUBSET (1..Cardinality(M))
  PROVE  Picked(Picked(s, M), I) = Picked(s, AtPlaces(M, I))
<1> DEFINE J == {m \in M : Cardinality(UpTo(M, m)) \in I}
           Place(m) == Cardinality(UpTo(M, m))
<1>1. /\ Cardinality(M) \in Nat
      /\ \A i \in M : Place(i) \in 1..Cardinality(M)
      /\ \A i, j \in M : i < j => Place(i) < Place(j)
      /\ \A k \in 1..Cardinality(M) : \E i \in M : Place(i) = k
  BY RankFacts
<1>2. IsFiniteSet(J) /\ J \subseteq Nat /\ Cardinality(J) = Cardinality(I) /\ IsFiniteSet(I) /\ I \subseteq Nat
  BY PlacesCount DEF AtPlaces
<1>3. \A m \in M : Picked(s, M)[Place(m)] = s[m]
  BY PickedAt
<1>4. ASSUME NEW m \in J PROVE Cardinality(UpTo(J, m)) = Cardinality(UpTo(I, Place(m)))
  <2>1. UpTo(I, Place(m)) \in SUBSET (1..Cardinality(M))
    BY DEF UpTo
  <2>2. ASSUME NEW h \in J PROVE h <= m <=> Place(h) <= Place(m)
    <3>1. h \in Nat /\ m \in Nat /\ Place(h) \in Nat /\ Place(m) \in Nat
      BY <1>1
    <3>2. h < m => Place(h) < Place(m)
      BY <1>1
    <3>3. m < h => Place(m) < Place(h)
      BY <1>1
    <3> QED BY <3>1, <3>2, <3>3
  <2>3. UpTo(J, m) = {h \in M : Place(h) \in UpTo(I, Place(m))}
    BY <2>2 DEF UpTo
  <2>4. UpTo(J, m) = AtPlaces(M, UpTo(I, Place(m)))
    BY <2>3 DEF AtPlaces
  <2> HIDE DEF J, Place
  <2> QED BY <2>1, <2>4, PlacesCount
<1> HIDE DEF J
<1>5. ASSUME NEW k \in 1..Cardinality(I) PROVE Picked(Picked(s, M), I)[k] = Picked(s, J)[k]
  <2>1. PICK i \in I : Cardinality(UpTo(I, i)) = k
    BY <1>2, RankFacts
  <2>2. PICK m \in M : Place(m) = i
    BY <1>1, <2>1
  <2>3. m \in J
    BY <2>1, <2>2 DEF J
  <2>4. Cardinality(UpTo(J, m)) = k
    BY <1>4, <2>1, <2>2, <2>3
  <2>5. Picked(s, J)[k] = s[m]
    BY <1>2, <2>3, <2>4, PickedAt
  <2>6. Picked(Picked(s, M), I)[k] = Picked(s, M)[i]
    BY <1>2, <2>1, PickedAt
  <2> QED BY <1>3, <2>2, <2>5, <2>6
<1>6. /\ Picked(Picked(s, M), I) = [k \in 1..Cardinality(I) |-> Picked(Picked(s, M), I)[k]]
      /\ Picked(s, J) = [k \in 1..Cardinality(I) |-> Picked(s, J)[k]]
  <2>1. Picked(Picked(s, M), I) = [k \in 1..Cardinality(I) |-> Picked(Picked(s, M), I)[k]]
    BY DEF Picked
  <2>2. Picked(s, J) = [k \in 1..Cardinality(J) |-> Picked(s, J)[k]]
    BY DEF Picked
  <2> QED BY <1>2, <2>1, <2>2
<1> QED BY <1>5, <1>6 DEF J, AtPlaces

\* What is elsewhere does not matter.
LEMMA PickedSame ==
  ASSUME NEW M, IsFiniteSet(M), M \subseteq Nat, NEW s, NEW t, \A m \in M : s[m] = t[m]
  PROVE  Picked(s, M) = Picked(t, M)
<1>1. \A k \in 1..Cardinality(M) : \E i \in M : Cardinality(UpTo(M, i)) = k
  BY RankFacts
<1>2. ASSUME NEW k \in 1..Cardinality(M)
      PROVE  s[CHOOSE i \in M : Cardinality(UpTo(M, i)) = k] = t[CHOOSE i \in M : Cardinality(UpTo(M, i)) = k]
  BY <1>1
<1>3. /\ Picked(s, M) = [k \in 1..Cardinality(M) |-> s[CHOOSE i \in M : Cardinality(UpTo(M, i)) = k]]
      /\ Picked(t, M) = [k \in 1..Cardinality(M) |-> t[CHOOSE i \in M : Cardinality(UpTo(M, i)) = k]]
  BY DEF Picked, UpTo
<1> QED BY <1>2, <1>3

\* A later position comes last.
LEMMA PickedAppend ==
  ASSUME NEW M, IsFiniteSet(M), M \subseteq Nat, NEW s, NEW q \in Nat, \A m \in M : m < q, NEW S, \A m \in M : s[m] \in S, s[q] \in S
  PROVE  Picked(s, M \cup {q}) = Append(Picked(s, M), s[q]) /\ Picked(s, M) \in Seq(S)
<1> DEFINE N == M \cup {q}
           m == Cardinality(M)
<1>1. q \notin M
  OBVIOUS
<1>2. IsFiniteSet(N) /\ N \subseteq Nat /\ Cardinality(N) = m + 1
  BY <1>1, FS_AddElement
<1>3. m \in Nat /\ \A k \in 1..m : \E i \in M : Cardinality(UpTo(M, i)) = k
  BY RankFacts
<1>4. ASSUME NEW i \in M PROVE UpTo(N, i) = UpTo(M, i)
  <2>1. i \in Nat /\ i < q
    OBVIOUS
  <2> QED BY <2>1 DEF UpTo
<1>5. UpTo(N, q) = N
  <2>1. \A i \in N : i <= q
    <3> TAKE i \in N
    <3>1. i = q \/ (i \in Nat /\ i < q)
      OBVIOUS
    <3> QED BY <3>1
  <2> HIDE DEF N
  <2> QED BY <2>1 DEF UpTo
<1> HIDE DEF N
<1>6. ASSUME NEW k \in 1..m PROVE Picked(s, N)[k] = Picked(s, M)[k] /\ Picked(s, M)[k] \in S
  <2>1. PICK i \in M : Cardinality(UpTo(M, i)) = k
    BY <1>3
  <2>2. Cardinality(UpTo(N, i)) = k /\ i \in N
    BY <1>4, <2>1 DEF N
  <2>3. Picked(s, M)[k] = s[i]
    BY <2>1, PickedAt
  <2>4. Picked(s, N)[k] = s[i]
    BY <1>2, <2>2, PickedAt
  <2> QED BY <2>3, <2>4
<1>7. Picked(s, N)[m + 1] = s[q]
  <2>1. q \in N
    BY DEF N
  <2>2. Cardinality(UpTo(N, q)) = m + 1
    BY <1>2, <1>5
  <2>3. Picked(s, N)[Cardinality(UpTo(N, q))] = s[q]
    BY <1>2, <2>1, PickedAt
  <2> QED BY <2>2, <2>3
<1>8. Picked(s, M) = [k \in 1..m |-> Picked(s, M)[k]] /\ Picked(s, N) = [k \in 1..(m + 1) |-> Picked(s, N)[k]]
  BY <1>2 DEF Picked
<1>9. Picked(s, M) \in Seq(S) /\ Len(Picked(s, M)) = m
  <2>1. \A k \in 1..m : Picked(s, M)[k] \in S
    BY <1>6
  <2>2. [k \in 1..m |-> Picked(s, M)[k]] \in [1..m -> S]
    BY <2>1
  <2> QED BY <1>3, <1>8, <2>2
<1>10. Append(Picked(s, M), s[q]) = [k \in 1..(m + 1) |-> IF k = m + 1 THEN s[q] ELSE Picked(s, M)[k]]
  BY <1>3, <1>9
<1>11. \A k \in 1..(m + 1) : Picked(s, N)[k] = IF k = m + 1 THEN s[q] ELSE Picked(s, M)[k]
  BY <1>3, <1>6, <1>7
<1>12. Picked(s, N) = Append(Picked(s, M), s[q])
  BY <1>8, <1>10, <1>11
<1> QED BY <1>9, <1>12 DEF N

\* A run of positions is a part of the list.
LEMMA PickedRun ==
  ASSUME NEW S, NEW s \in Seq(S), NEW a \in 1..(Len(s) + 1)
  PROVE  Picked(s, a..Len(s)) = SubSeq(s, a, Len(s))
<1>0. PICK n \in Nat : n = Len(s)
  OBVIOUS
<1>1. a \in Nat /\ IsFiniteSet(a..n) /\ a..n \subseteq Nat /\ Cardinality(a..n) = n - a + 1 /\ n - a + 1 \in Nat
  <2>1. a \in Nat /\ 1 <= a /\ a <= n + 1
    BY <1>0
  <2>2. IsFiniteSet(a..n) /\ Cardinality(a..n) = IF a > n THEN 0 ELSE n - a + 1
    <3>1. a \in Int /\ n \in Int
      BY <2>1
    <3> QED BY <3>1, FS_Interval
  <2> QED BY <2>1, <2>2
<1>2. ASSUME NEW k \in 1..(n - a + 1) PROVE Picked(s, a..n)[k] = s[a + k - 1]
  <2>1. a + k - 1 \in a..n
    BY <1>0, <1>1
  <2>2. UpTo(a..n, a + k - 1) = a..(a + k - 1)
    BY <1>1, <2>1 DEF UpTo
  <2>3. Cardinality(a..(a + k - 1)) = k
    <3>1. PICK b \in Nat : b = a + k - 1 /\ a <= b
      BY <1>1, <2>1
    <3>2. Cardinality(a..b) = b - a + 1
      BY <1>1, <3>1, FS_Interval
    <3> QED BY <1>1, <3>1, <3>2
  <2> QED BY <1>1, <2>1, <2>2, <2>3, PickedAt
<1>3. Picked(s, a..n) = [k \in 1..(n - a + 1) |-> Picked(s, a..n)[k]]
  BY <1>1 DEF Picked
<1>4. SubSeq(s, a, n) = [k \in 1..(n - a + 1) |-> s[a + k - 1]]
  BY <1>0, <1>1
<1> QED BY <1>0, <1>2, <1>3, <1>4

\* f is where the elements kept of s were.
Picks(s, I, f) == Along(f, I) /\ \A k \in 1..Cardinality(I) : Picked(s, I)[k] = s[f[k]]

\* A filter of a list follows the positions it keeps.
LEMMA PickedFollows == ASSUME NEW S, NEW s \in Seq(S), NEW I \in SUBSET DOMAIN s
  PROVE \E f : Picks(s, I, f)
<1>0. IsFiniteSet(I) /\ I \subseteq Nat
  <2>1. IsFiniteSet(1..Len(s)) /\ I \subseteq 1..Len(s) /\ Len(s) \in Nat
    BY FS_Interval
  <2> QED BY <2>1, FS_Subset
<1>2. PICK f : Along(f, I) /\ \A k \in 1..Cardinality(I) : Picked(s, I)[k] = s[f[k]]
  BY <1>0, PickedFacts
<1> QED BY <1>2 DEF Picks
=============================================================================
