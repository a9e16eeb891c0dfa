---------------------------- MODULE PlacesProofs ----------------------------
(***************************************************************************)
(* What sorting and filtering by places promises: each place is taken      *)
(* once, in order; nothing is lost, invented or repeated.                  *)
(***************************************************************************)
EXTENDS Places, Sequences, Functions, FiniteSetTheorems, SequenceTheorems, TLAPS

\* How many numbers of I there are up to i.
Counted(I, i) == Cardinality({j \in I : j <= i})

LEMMA CountedGrows ==
  ASSUME NEW I, IsFiniteSet(I), I \subseteq Int
  PROVE  /\ Cardinality(I) \in Nat
         /\ \A i \in I : Counted(I, i) \in 1 .. Cardinality(I)
         /\ \A i, j \in I : i < j => Counted(I, i) < Counted(I, j)
<1>1. Cardinality(I) \in Nat
  BY FS_CardinalityType
<1>2. ASSUME NEW i \in I
      PROVE  /\ IsFiniteSet({j \in I : j <= i}) /\ Counted(I, i) \in Nat
             /\ Counted(I, i) <= Cardinality(I) /\ Counted(I, i) # 0
  <2> DEFINE D == {j \in I : j <= i}
  <2>1. D \subseteq I /\ i \in D
    OBVIOUS
  <2> HIDE DEF D
  <2>2. IsFiniteSet(D) /\ Cardinality(D) <= Cardinality(I)
    BY <2>1, FS_Subset
  <2>3. Cardinality(D) \in Nat /\ Cardinality(D) # 0
    BY <2>1, <2>2, FS_CardinalityType, FS_EmptySet
  <2> QED BY <2>2, <2>3 DEF Counted, D
<1>3. ASSUME NEW i \in I, NEW j \in I, i < j PROVE Counted(I, i) < Counted(I, j)
  <2> DEFINE D == {k \in I : k <= i}  E == {k \in I : k <= j}
  <2>1. D \subseteq E /\ j \in E /\ j \notin D
    <3>1. i \in Int /\ j \in Int /\ \A k \in I : k \in Int
      OBVIOUS
    <3>2. \A k \in I : k <= i => k <= j
      BY <1>3, <3>1
    <3>3. ~(j <= i) /\ j <= j
      BY <1>3, <3>1
    <3> QED BY <3>2, <3>3
  <2>2. IsFiniteSet(E)
    BY <1>2
  <2>3. Counted(I, i) = Cardinality(D) /\ Counted(I, j) = Cardinality(E)
    BY DEF Counted
  <2>4. Counted(I, i) \in Nat /\ Counted(I, j) \in Nat
    BY <1>2
  <2> HIDE DEF D, E
  <2>5. Cardinality(D) <= Cardinality(E) /\ Cardinality(D) # Cardinality(E)
    BY <2>1, <2>2, FS_Subset
  <2> QED BY <2>3, <2>4, <2>5
<1> QED
  <2>1. ASSUME NEW i \in I PROVE Counted(I, i) \in 1 .. Cardinality(I)
    <3>1. Counted(I, i) \in Nat /\ Counted(I, i) <= Cardinality(I) /\ Counted(I, i) # 0
      BY <1>2
    <3> QED BY ONLY <1>1, <3>1
  <2> QED BY <1>1, <1>3, <2>1

\* Each place is one number of the set, greater places are greater numbers, and
\* every number has its place.
LEMMA PlaceIs ==
  ASSUME NEW I, IsFiniteSet(I), I \subseteq Int
  PROVE  /\ Cardinality(I) \in Nat
         /\ \A k \in 1 .. Cardinality(I) : Place(I, k) \in I
         /\ \A k, l \in 1 .. Cardinality(I) : k < l => Place(I, k) < Place(I, l)
         /\ \A i \in I : \E k \in 1 .. Cardinality(I) : Place(I, k) = i
<1> DEFINE n == Cardinality(I)
           up == [i \in I |-> Counted(I, i)]
           T == 1 .. n
<1>1. n \in Nat
  BY CountedGrows
<1>2. IsFiniteSet(T) /\ Cardinality(T) = n
  <2>1. 1 \in Int /\ n \in Int
    BY <1>1
  <2>2. /\ IsFiniteSet(T)
        /\ Cardinality(T) = IF 1 > n THEN 0 ELSE n - 1 + 1
    BY ONLY <2>1, FS_Interval
  <2> QED BY <1>1, <2>2
<1>3. up \in [I -> T]
  BY CountedGrows
<1>4. \A i, j \in I : up[i] = up[j] => i = j
  <2> SUFFICES ASSUME NEW i \in I, NEW j \in I, up[i] = up[j], i # j PROVE FALSE
    OBVIOUS
  <2>1. Counted(I, i) = Counted(I, j) /\ Counted(I, i) \in Int
    <3>1. Counted(I, i) \in 1 .. Cardinality(I)
      BY CountedGrows
    <3> QED BY <3>1
  <2>2. i < j \/ j < i
    OBVIOUS
  <2>3. Counted(I, i) < Counted(I, j) \/ Counted(I, j) < Counted(I, i)
    BY <2>2, CountedGrows
  <2> QED BY <2>1, <2>3
<1> HIDE DEF up, T
<1>5. up \in Injection(I, T)
  BY <1>3, <1>4 DEF Injection, IsInjective
<1>6. up \in Surjection(I, T)
  BY <1>1, <1>2, <1>5, FS_Injection DEF n
<1>7. \A k \in T : \E i \in I : Counted(I, i) = k
  BY <1>6 DEF Surjection, up
<1>8. \A k \in T : Place(I, k) \in I /\ Counted(I, Place(I, k)) = k
  BY <1>7 DEF Place, Counted
<1>9. \A k, l \in T : k < l => Place(I, k) < Place(I, l)
  <2> SUFFICES ASSUME NEW k \in T, NEW l \in T, k < l, ~(Place(I, k) < Place(I, l)) PROVE FALSE
    OBVIOUS
  <2>1. Place(I, k) \in Int /\ Place(I, l) \in Int /\ Place(I, k) \in I /\ Place(I, l) \in I
    BY <1>8
  <2>2. Place(I, l) < Place(I, k) \/ Place(I, l) = Place(I, k)
    BY <2>1
  <2>3. k \in Int /\ l \in Int
    BY DEF T
  <2>4. l < k \/ l = k
    BY <1>8, <2>1, <2>2, CountedGrows
  <2> QED BY <2>3, <2>4
<1>10. \A i \in I : Counted(I, i) \in T /\ Place(I, Counted(I, i)) = i
  <2> SUFFICES ASSUME NEW i \in I PROVE Counted(I, i) \in T /\ Place(I, Counted(I, i)) = i
    OBVIOUS
  <2>1. Counted(I, i) \in T
    BY CountedGrows DEF T
  <2>2. Place(I, Counted(I, i)) \in I /\ Counted(I, Place(I, Counted(I, i))) = Counted(I, i)
    BY <1>8, <2>1
  <2> QED BY <1>4, <2>1, <2>2 DEF up
<1> QED BY <1>1, <1>8, <1>9, <1>10 DEF T

\* A sorted list has the numbers of its set, each once, in order.
LEMMA RisingIs ==
  ASSUME NEW S, IsFiniteSet(S), S \subseteq Int
  PROVE  /\ Rising(S) \in Seq(S) /\ Len(Rising(S)) = Cardinality(S)
         /\ Range(Rising(S)) = S
         /\ \A i, j \in 1 .. Len(Rising(S)) : i < j => Rising(S)[i] < Rising(S)[j]
<1> DEFINE n == Cardinality(S)  r == Rising(S)
<1>1. /\ n \in Nat
      /\ \A k \in 1 .. n : Place(S, k) \in S
      /\ \A k, l \in 1 .. n : k < l => Place(S, k) < Place(S, l)
      /\ \A i \in S : \E k \in 1 .. n : Place(S, k) = i
  BY PlaceIs
<1>2. r \in [1 .. n -> S] /\ \A k \in 1 .. n : r[k] = Place(S, k)
  BY <1>1 DEF Rising
<1> HIDE DEF n, r
<1>3. r \in Seq(S) /\ Len(r) = n /\ DOMAIN r = 1 .. n
  BY <1>1, <1>2
<1>4. Range(r) = S
  BY <1>1, <1>2, <1>3 DEF Range
<1> QED BY <1>1, <1>2, <1>3, <1>4 DEF n, r

LEMMA FallingIs ==
  ASSUME NEW S, IsFiniteSet(S), S \subseteq Int
  PROVE  /\ Falling(S) \in Seq(S) /\ Len(Falling(S)) = Cardinality(S)
         /\ Range(Falling(S)) = S
         /\ \A i, j \in 1 .. Len(Falling(S)) : i < j => Falling(S)[i] > Falling(S)[j]
<1> DEFINE n == Cardinality(S)  r == Falling(S)
<1>1. /\ n \in Nat
      /\ \A k \in 1 .. n : Place(S, k) \in S
      /\ \A k, l \in 1 .. n : k < l => Place(S, k) < Place(S, l)
      /\ \A i \in S : \E k \in 1 .. n : Place(S, k) = i
  BY PlaceIs
<1>2. \A k \in 1 .. n : n + 1 - k \in 1 .. n
  BY <1>1
<1>3. r \in [1 .. n -> S] /\ \A k \in 1 .. n : r[k] = Place(S, n + 1 - k)
  BY <1>1, <1>2 DEF Falling
<1> HIDE DEF n, r
<1>4. r \in Seq(S) /\ Len(r) = n /\ DOMAIN r = 1 .. n
  BY <1>1, <1>3
<1>5. \A i \in S : \E k \in 1 .. n : r[k] = i
  <2> SUFFICES ASSUME NEW i \in S PROVE \E k \in 1 .. n : r[k] = i
    OBVIOUS
  <2>1. PICK k \in 1 .. n : Place(S, k) = i
    BY <1>1
  <2>2. n + 1 - k \in 1 .. n /\ n + 1 - (n + 1 - k) = k
    BY <1>1
  <2>3. r[n + 1 - k] = Place(S, k)
    BY <1>3, <2>2
  <2> QED BY <2>1, <2>2, <2>3
<1>6. Range(r) = S
  BY <1>3, <1>4, <1>5 DEF Range
<1>7. \A i, j \in 1 .. n : i < j => r[i] > r[j]
  <2> SUFFICES ASSUME NEW i \in 1 .. n, NEW j \in 1 .. n, i < j PROVE r[i] > r[j]
    OBVIOUS
  <2>1. n + 1 - i \in 1 .. n /\ n + 1 - j \in 1 .. n /\ n + 1 - j < n + 1 - i
    BY <1>1
  <2>2. Place(S, n + 1 - j) < Place(S, n + 1 - i)
    BY <1>1, <2>1
  <2>3. r[i] \in Int /\ r[j] \in Int
    BY <1>3
  <2> QED BY <1>3, <2>2, <2>3
<1> QED BY <1>4, <1>6, <1>7 DEF n, r

\* What a filter keeps: the elements at the places it was given, in their order.
LEMMA KeptIs ==
  ASSUME NEW S, NEW s \in Seq(S), NEW I \in SUBSET (1 .. Len(s))
  PROVE  /\ Kept(s, I) \in Seq(S) /\ Len(Kept(s, I)) = Cardinality(I)
         /\ Len(Kept(s, I)) \in Nat /\ Len(Kept(s, I)) <= Len(s)
         /\ \A k \in 1 .. Len(Kept(s, I)) : Place(I, k) \in I /\ Kept(s, I)[k] = s[Place(I, k)]
         /\ \A k, l \in 1 .. Len(Kept(s, I)) : k < l => Place(I, k) < Place(I, l)
         /\ \A i \in I : \E k \in 1 .. Len(Kept(s, I)) : Place(I, k) = i
         /\ Range(Kept(s, I)) = {s[i] : i \in I}
<1> DEFINE n == Cardinality(I)  r == Kept(s, I)
<1>1. IsFiniteSet(I) /\ I \subseteq Int /\ n <= Len(s)
  <2>1. Len(s) \in Nat /\ 1 \in Int /\ Len(s) \in Int
    OBVIOUS
  <2>2. /\ IsFiniteSet(1 .. Len(s))
        /\ Cardinality(1 .. Len(s)) = IF 1 > Len(s) THEN 0 ELSE Len(s) - 1 + 1
    BY ONLY <2>1, FS_Interval
  <2>3. IsFiniteSet(I) /\ n <= Cardinality(1 .. Len(s))
    BY <2>2, FS_Subset
  <2>4. Cardinality(1 .. Len(s)) = Len(s)
    BY <2>1, <2>2
  <2> QED BY <2>3, <2>4
<1>2. /\ n \in Nat
      /\ \A k \in 1 .. n : Place(I, k) \in I
      /\ \A k, l \in 1 .. n : k < l => Place(I, k) < Place(I, l)
      /\ \A i \in I : \E k \in 1 .. n : Place(I, k) = i
  BY <1>1, PlaceIs
<1>3. r \in [1 .. n -> S] /\ \A k \in 1 .. n : r[k] = s[Place(I, k)]
  <2>1. \A i \in I : s[i] \in S
    OBVIOUS
  <2>2. \A k \in 1 .. n : s[Place(I, k)] \in S
    BY <1>2, <2>1
  <2> QED BY <2>2 DEF Kept
<1> HIDE DEF n, r
<1>4. r \in Seq(S) /\ Len(r) = n /\ DOMAIN r = 1 .. n
  BY <1>2, <1>3
<1>5. Range(r) = {s[i] : i \in I}
  <2>1. Range(r) = {r[k] : k \in 1 .. n}
    BY <1>4 DEF Range
  <2>2. \A k \in 1 .. n : \E i \in I : r[k] = s[i]
    BY <1>2, <1>3
  <2>3. \A i \in I : \E k \in 1 .. n : r[k] = s[i]
    BY <1>2, <1>3
  <2>4. \A x : x \in Range(r) <=> \E k \in 1 .. n : r[k] = x
    BY <2>1
  <2>5. ASSUME NEW x \in Range(r) PROVE \E i \in I : s[i] = x
    <3>1. PICK k \in 1 .. n : r[k] = x
      BY <2>4
    <3>2. PICK i \in I : r[k] = s[i]
      BY <2>2
    <3> QED BY <3>1, <3>2
  <2>6. ASSUME NEW i \in I PROVE s[i] \in Range(r)
    <3>1. PICK k \in 1 .. n : r[k] = s[i]
      BY <2>3
    <3> QED BY <2>4, <3>1
  <2> QED BY <2>5, <2>6
<1> QED BY <1>1, <1>2, <1>3, <1>4, <1>5 DEF n, r

\* A filter makes no repetitions.
LEMMA KeptOnce ==
  ASSUME NEW S, NEW s \in Seq(S), NEW I \in SUBSET (1 .. Len(s)),
         \A i, j \in 1 .. Len(s) : s[i] = s[j] => i = j
  PROVE  \A k, l \in 1 .. Len(Kept(s, I)) : Kept(s, I)[k] = Kept(s, I)[l] => k = l
<1>1. Len(Kept(s, I)) \in Nat
  BY KeptIs
<1>2. \A k \in 1 .. Len(Kept(s, I)) : Place(I, k) \in I /\ Kept(s, I)[k] = s[Place(I, k)]
  BY KeptIs
<1>3. \A k, l \in 1 .. Len(Kept(s, I)) : k < l => Place(I, k) < Place(I, l)
  BY KeptIs
<1> SUFFICES ASSUME NEW k \in 1 .. Len(Kept(s, I)), NEW l \in 1 .. Len(Kept(s, I)),
                    Kept(s, I)[k] = Kept(s, I)[l], k # l
             PROVE  FALSE
  OBVIOUS
<1>4. Place(I, k) \in 1 .. Len(s) /\ Place(I, l) \in 1 .. Len(s)
  BY <1>2
<1>5. Place(I, k) = Place(I, l)
  BY <1>2, <1>4
<1>6. k < l \/ l < k
  BY <1>1
<1>7. Place(I, k) < Place(I, l) \/ Place(I, l) < Place(I, k)
  BY <1>3, <1>6
<1> QED BY <1>4, <1>5, <1>7
=============================================================================
