--------------------------- MODULE SequenceLemmas ---------------------------
(***************************************************************************)
(* Facts about sequences that the proofs about the output modules share: a *)
(* queue whose head moves to the end of another, how many elements a       *)
(* sequence has, and where one occurs last.                                *)
(***************************************************************************)
EXTENDS Integers, Sequences, FiniteSets, Functions, Selection,
        SequenceTheorems, FiniteSetTheorems, FunctionTheorems, WellFoundedInduction, TLAPS

(* The head of a queue moves to the end of the sequence before it: the two   *)
(* together stay what they are.                                              *)
LEMMA TakeHead ==
  ASSUME NEW S, NEW s \in Seq(S), NEW t \in Seq(S), t # <<>>
  PROVE  /\ Head(t) \in S /\ Tail(t) \in Seq(S)
         /\ Append(s, Head(t)) \in Seq(S)
         /\ Append(s, Head(t)) \o Tail(t) = s \o t
<1>1. Head(t) \in S /\ Tail(t) \in Seq(S)
  BY HeadTailProperties
<1>2. Append(s, Head(t)) = s \o <<Head(t)>> /\ <<Head(t)>> \in Seq(S)
  BY <1>1, AppendIsConcat
<1>3. <<Head(t)>> \o Tail(t) = t
  <2>. DEFINE h == <<Head(t)>> \o Tail(t)
  <2>1. Len(t) \in Nat \ {0}
    BY EmptySeq
  <2>2. /\ h \in Seq(S) /\ Len(h) = Len(t)
        /\ \A i \in 1 .. Len(t) : h[i] = IF i <= 1 THEN Head(t) ELSE Tail(t)[i - 1]
    BY <1>1, <1>2, <2>1, HeadTailProperties, ConcatProperties
  <2>3. \A i \in 1 .. Len(t) : h[i] = t[i]
    BY <2>1, <2>2, HeadTailProperties
  <2>. HIDE DEF h
  <2>4. h = t
    BY <2>2, <2>3, SeqEqual
  <2>. QED
    BY <2>4 DEF h
<1>4. (s \o <<Head(t)>>) \o Tail(t) = s \o (<<Head(t)>> \o Tail(t))
  BY <1>1, <1>2, ConcatAssociative
<1>5. Append(s, Head(t)) \in Seq(S)
  BY <1>1, AppendProperties
<1>. QED
  BY <1>1, <1>2, <1>3, <1>4, <1>5

(* What is appended to the last of three queues is appended to them all.     *)
LEMMA AppendLast ==
  ASSUME NEW S, NEW s \in Seq(S), NEW t \in Seq(S), NEW e \in S
  PROVE  s \o Append(t, e) = Append(s \o t, e)
<1>1. <<e>> \in Seq(S) /\ s \o t \in Seq(S)
  BY ConcatProperties
<1>2. Append(s \o t, e) = (s \o t) \o <<e>> /\ Append(t, e) = t \o <<e>>
  BY <1>1, AppendIsConcat
<1>3. (s \o t) \o <<e>> = s \o (t \o <<e>>)
  BY <1>1, ConcatAssociative
<1>. QED
  BY <1>2, <1>3

(* Three queues in a row: something comes in at the end of the last.         *)
LEMMA QueueIn ==
  ASSUME NEW S, NEW s \in Seq(S), NEW b \in Seq(S), NEW q \in Seq(S), NEW e \in S
  PROVE  (s \o b) \o Append(q, e) = Append((s \o b) \o q, e)
<1>. DEFINE sb == s \o b
<1>1. sb \in Seq(S)
  BY ConcatProperties
<1>. HIDE DEF sb
<1>2. sb \o Append(q, e) = Append(sb \o q, e)
  BY <1>1, AppendLast
<1>. QED
  BY <1>2 DEF sb

(* The head of the last of three queues moves to the end of the one before.  *)
Shifts(S) ==
  \A s, b, q \in Seq(S) :
    q # <<>> => (s \o Append(b, Head(q))) \o Tail(q) = (s \o b) \o q

(* The three together stay what they are.                                    *)
LEMMA QueueShift == ASSUME NEW S PROVE Shifts(S)
<1>1. \A x, y, z \in Seq(S) : (x \o y) \o z = x \o (y \o z)
  <2>. TAKE x, y, z \in Seq(S)
  <2>. QED
    BY ConcatAssociative
<1>2. ASSUME NEW s \in Seq(S), NEW b \in Seq(S), NEW q \in Seq(S), q # <<>>
      PROVE  (s \o Append(b, Head(q))) \o Tail(q) = (s \o b) \o q
  <2>. DEFINE bh == Append(b, Head(q))
              t  == Tail(q)
  <2>1. bh \in Seq(S) /\ t \in Seq(S) /\ bh \o t = b \o q
    BY <1>2, TakeHead
  <2>. HIDE DEF bh, t
  <2>2. (s \o b) \o q = s \o (b \o q)
    BY <1>1, Zenon
  <2>3. (s \o bh) \o t = s \o (bh \o t)
    BY <1>1, <2>1, Zenon
  <2>. QED
    BY <2>1, <2>2, <2>3 DEF bh, t
<1>. QED
  BY <1>2 DEF Shifts

(* The beginning of a concatenation.                                         *)
LEMMA PrefixOfConcat ==
  ASSUME NEW S, NEW s \in Seq(S), NEW t \in Seq(S)
  PROVE  SubSeq(s \o t, 1, Len(s)) = s
<1>0. Len(s) \in Nat
  OBVIOUS
<1>1. CASE s = <<>>
  <2>1. Len(s) = 0
    BY <1>1
  <2>. QED
    BY <1>1, <2>1, SubSeqEmpty
<1>2. CASE s # <<>>
  <2>1. 1 \in 1 .. Len(s) /\ Len(s) \in 1 .. Len(s)
    BY <1>2, EmptySeq
  <2>2. SubSeq(s \o t, 1, Len(s)) = SubSeq(s, 1, Len(s))
    BY <2>1, SubSeqOfConcat1
  <2>. QED
    BY <2>2, SubSeqFull
<1>. QED
  BY <1>1, <1>2

(* A sequence has at most as many elements as places.                        *)
LEMMA RangeBound ==
  ASSUME NEW S, NEW s \in Seq(S)
  PROVE  /\ IsFiniteSet(Range(s))
         /\ Cardinality(Range(s)) \in Nat
         /\ Cardinality(Range(s)) <= Len(s)
<1>1. Len(s) \in Nat /\ s \in [1 .. Len(s) -> S]
  BY LenProperties
<1>2. IsFiniteSet(1 .. Len(s)) /\ Cardinality(1 .. Len(s)) = Len(s)
  BY <1>1, FS_Interval
<1>3. Range(s) = {s[i] : i \in 1 .. Len(s)}
  BY RangeEquality
<1>4. s \in Surjection(1 .. Len(s), Range(s))
  BY <1>1, <1>3 DEF Surjection
<1>. QED
  BY <1>2, <1>4, FS_Surjection, FS_CardinalityType

(* Adding the elements of a sequence to a set adds at most its length.       *)
LEMMA UnionBound ==
  ASSUME NEW S, NEW s \in Seq(S), NEW T, IsFiniteSet(T)
  PROVE  /\ IsFiniteSet(T \cup Range(s))
         /\ Cardinality(T) \in Nat /\ Cardinality(T \cup Range(s)) \in Nat
         /\ Cardinality(T \cup Range(s)) <= Cardinality(T) + Len(s)
<1>1. IsFiniteSet(Range(s)) /\ Cardinality(Range(s)) \in Nat /\ Cardinality(Range(s)) <= Len(s)
  BY RangeBound
<1>2. /\ IsFiniteSet(T \cup Range(s))
      /\ Cardinality(T \cup Range(s)) = Cardinality(T) + Cardinality(Range(s)) - Cardinality(T \cap Range(s))
  BY <1>1, FS_Union
<1>3. IsFiniteSet(T \cap Range(s))
  BY FS_Intersection
<1>4. Cardinality(T) \in Nat /\ Cardinality(T \cup Range(s)) \in Nat /\ Cardinality(T \cap Range(s)) \in Nat
  BY <1>2, <1>3, FS_CardinalityType
<1>. QED
  BY <1>1, <1>2, <1>4

(* A set of natural numbers has a least one.                                 *)
LEMMA LeastElement ==
  ASSUME NEW T, T \subseteq Nat, T # {}
  PROVE  \E m \in T : \A n \in T : m <= n
<1>. DEFINE less == {p \in Nat \X Nat : p[1] < p[2]}
<1>1. IsWellFoundedOn(less, Nat)
  BY NatLessThanWellFounded DEF OpToRel
<1>2. \A m, n \in Nat : <<n, m>> \in less <=> n < m
  OBVIOUS
<1>. HIDE DEF less
<1>3. \E m \in T : \A n \in T : ~ (<<n, m>> \in less)
  BY <1>1, WFMin, Zenon
<1>4. PICK m \in T : \A n \in T : ~ (<<n, m>> \in less)
  BY <1>3
<1>5. ASSUME NEW n \in T PROVE m <= n
  <2>1. n \in Nat /\ m \in Nat
    OBVIOUS
  <2>2. ~ (<<n, m>> \in less)
    BY <1>4
  <2>3. ~ (n < m)
    BY <1>2, <2>1, <2>2
  <2>. QED
    BY <2>1, <2>3
<1>. QED
  BY <1>5

(* A set of places in a sequence has a last one.                             *)
LEMMA GreatestElement ==
  ASSUME NEW n \in Nat, NEW T, T \subseteq 1 .. n, T # {}
  PROVE  \E m \in T : \A i \in T : i <= m
<1>. DEFINE D == {d \in Nat : n - d \in T}
<1>1. D \subseteq Nat /\ D # {}
  <2>1. PICK i \in T : TRUE
    OBVIOUS
  <2>2. n - i \in Nat /\ n - (n - i) = i
    OBVIOUS
  <2>. QED
    BY <2>1, <2>2
<1>. HIDE DEF D
<1>2. PICK d \in D : \A e \in D : d <= e
  BY <1>1, LeastElement
<1>3. n - d \in T /\ d \in Nat
  BY <1>2 DEF D
<1>4. ASSUME NEW i \in T PROVE i <= n - d
  <2>1. n - i \in D
    BY DEF D
  <2>2. d <= n - i
    BY <1>2, <2>1
  <2>. QED
    BY <1>3, <2>2
<1>. QED
  BY <1>3, <1>4

(* Where an element occurs in a sequence.                                    *)
Places(s, e) == {i \in 1 .. Len(s) : s[i] = e}

(* They are finitely many.                                                   *)
LEMMA PlacesFinite ==
  ASSUME NEW S, NEW s \in Seq(S), NEW e
  PROVE  IsFiniteSet(Places(s, e)) /\ Cardinality(Places(s, e)) \in Nat
<1>1. IsFiniteSet(1 .. Len(s)) /\ Places(s, e) \subseteq 1 .. Len(s)
  BY LenProperties, FS_Interval DEF Places
<1>. QED
  BY <1>1, FS_Subset, FS_CardinalityType

(* An element occurs in a concatenation as often as in its parts together.   *)
LEMMA PlacesOfConcat ==
  ASSUME NEW S, NEW s \in Seq(S), NEW t \in Seq(S), NEW e
  PROVE  Cardinality(Places(s \o t, e)) = Cardinality(Places(s, e)) + Cardinality(Places(t, e))
<1>. DEFINE n == Len(s)
            B == {i + n : i \in Places(t, e)}
            f == [i \in Places(t, e) |-> i + n]
<1>0. n \in Nat /\ Len(t) \in Nat
  BY LenProperties
<1>1. /\ Len(s \o t) = n + Len(t)
      /\ \A i \in 1 .. n + Len(t) : (s \o t)[i] = IF i <= n THEN s[i] ELSE t[i - n]
  BY ConcatProperties
<1>2. Places(t, e) \subseteq Nat /\ Places(t, e) \subseteq 1 .. Len(t)
  BY DEF Places
<1>3. Places(s \o t, e) = Places(s, e) \cup B
  <2>1. ASSUME NEW i \in Places(s \o t, e) PROVE i \in Places(s, e) \cup B
    <3>0. i \in 1 .. n + Len(t) /\ (s \o t)[i] = e
      BY <1>1 DEF Places
    <3>1. CASE i <= n
      BY <1>0, <1>1, <3>0, <3>1 DEF Places
    <3>2. CASE i > n
      <4>1. i - n \in 1 .. Len(t) /\ t[i - n] = e /\ i = (i - n) + n
        BY <1>0, <1>1, <3>0, <3>2
      <4>. QED
        BY <4>1 DEF Places
    <3>. QED
      BY <1>0, <3>0, <3>1, <3>2
  <2>2. ASSUME NEW i \in Places(s, e) PROVE i \in Places(s \o t, e)
    BY <1>0, <1>1 DEF Places
  <2>3. ASSUME NEW i \in B PROVE i \in Places(s \o t, e)
    <3>1. PICK j \in 1 .. Len(t) : i = j + n /\ t[j] = e
      BY DEF Places
    <3>2. i \in 1 .. n + Len(t) /\ i > n /\ i - n = j
      BY <1>0, <3>1
    <3>. QED
      BY <1>0, <1>1, <3>1, <3>2 DEF Places
  <2>. QED
    BY <2>1, <2>2, <2>3
<1>4. Places(s, e) \cap B = {}
  BY <1>0 DEF Places
<1>5. f \in Bijection(Places(t, e), B)
  <2>1. f \in [Places(t, e) -> B]
    OBVIOUS
  <2>2. \A i, j \in Places(t, e) : f[i] = f[j] => i = j
    BY <1>0, <1>2
  <2>3. \A b \in B : \E i \in Places(t, e) : f[i] = b
    OBVIOUS
  <2>. QED
    BY <2>1, <2>2, <2>3 DEF Bijection, Injection, Surjection, IsInjective
<1>6. IsFiniteSet(B) /\ Cardinality(B) = Cardinality(Places(t, e))
  <2>1. IsFiniteSet(Places(t, e))
    BY PlacesFinite
  <2>. HIDE DEF B, f
  <2>2. ExistsBijection(Places(t, e), B)
    BY <1>5 DEF ExistsBijection
  <2>. QED
    BY <2>1, <2>2, FS_Bijection
<1>7. IsFiniteSet(Places(s, e)) /\ Cardinality(Places(s, e)) \in Nat /\ Cardinality(Places(t, e)) \in Nat
  BY PlacesFinite
<1>. HIDE DEF B
<1>8. Cardinality(Places(s, e) \cup B)
        = Cardinality(Places(s, e)) + Cardinality(B) - Cardinality(Places(s, e) \cap B)
  BY <1>6, <1>7, FS_Union
<1>. QED
  BY <1>3, <1>4, <1>6, <1>7, <1>8, FS_EmptySet, SMTT(20)

(* In a sequence without repetition an element has at most one place.        *)
LEMMA PlacesOnce ==
  ASSUME NEW S, NEW s \in Seq(S), NEW e,
         \A i, j \in 1 .. Len(s) : s[i] = s[j] => i = j
  PROVE  Cardinality(Places(s, e)) <= 1
<1>1. CASE Places(s, e) = {}
  BY <1>1, FS_EmptySet
<1>2. CASE Places(s, e) # {}
  <2>1. PICK i \in Places(s, e) : TRUE
    BY <1>2
  <2>2. \A j \in Places(s, e) : j = i
    BY DEF Places
  <2>3. Places(s, e) = {i}
    BY <2>2
  <2>4. Cardinality({i}) = 1
    BY FS_Singleton
  <2>. QED
    BY <2>3, <2>4
<1>. QED
  BY <1>1, <1>2

-----------------------------------------------------------------------------
(* The elements at some positions *)

\* A rank is between one and the number of members, and they stand in order.
LEMMA RankInOrder ==
  ASSUME NEW S \in SUBSET Int, IsFiniteSet(S)
  PROVE  /\ Cardinality(S) \in Nat
         /\ \A i \in S : Rank(S, i) \in 1 .. Cardinality(S)
         /\ \A i, j \in S : i < j => Rank(S, i) < Rank(S, j)
<1>. DEFINE Below(i) == {j \in S : j <= i}
<1>1. ASSUME NEW i \in S
      PROVE  /\ Rank(S, i) = Cardinality(Below(i)) /\ i \in Below(i)
             /\ IsFiniteSet(Below(i)) /\ Cardinality(Below(i)) \in Nat
             /\ Cardinality(Below(i)) <= Cardinality(S) /\ Cardinality(Below(i)) # 0
  <2>1. Below(i) \in SUBSET S /\ i \in Below(i)
    OBVIOUS
  <2>2. Rank(S, i) = Cardinality(Below(i))
    BY DEF Rank
  <2>. HIDE DEF Below
  <2>3. IsFiniteSet(Below(i)) /\ Cardinality(Below(i)) <= Cardinality(S)
    BY <2>1, FS_Subset
  <2>. QED
    BY <2>1, <2>2, <2>3, FS_CardinalityType, FS_EmptySet
<1>2. Cardinality(S) \in Nat
  BY FS_CardinalityType
<1>3. \A i \in S : Rank(S, i) \in 1 .. Cardinality(S)
  <2>. HIDE DEF Below
  <2>. QED
    BY <1>1, <1>2
<1>4. ASSUME NEW i \in S, NEW j \in S, i < j
      PROVE  Rank(S, i) < Rank(S, j)
  <2>1. Below(i) \in SUBSET Below(j) /\ j \in Below(j) /\ j \notin Below(i)
    <3>1. i \in Int /\ j \in Int
      OBVIOUS
    <3>2. \A k \in S : k \in Int /\ (k <= i => k <= j)
      BY <1>4, <3>1
    <3>3. Below(i) \subseteq Below(j)
      BY <3>2
    <3>. QED
      BY <1>4, <3>1, <3>3
  <2>. HIDE DEF Below
  <2>2. /\ Cardinality(Below(i)) <= Cardinality(Below(j))
        /\ Cardinality(Below(j)) = Cardinality(Below(i)) => Below(j) = Below(i)
    BY <1>1, <2>1, FS_Subset
  <2>. QED
    BY <1>1, <2>1, <2>2
<1>. QED
  BY <1>2, <1>3, <1>4

\* Every place up to the number of members is the rank of one.
LEMMA RankOnto ==
  ASSUME NEW S \in SUBSET Int, IsFiniteSet(S), NEW k \in 1 .. Cardinality(S)
  PROVE  \E i \in S : Rank(S, i) = k
<1>. DEFINE n == Cardinality(S)
            T == 1 .. n
            f == [i \in S |-> Rank(S, i)]
<1>1. n \in Nat /\ (\A i \in S : Rank(S, i) \in T)
      /\ \A i, j \in S : i < j => Rank(S, i) < Rank(S, j)
  BY RankInOrder
<1>2. f \in [S -> T] /\ \A i \in S : f[i] = Rank(S, i)
  BY <1>1
<1>3. \A i, j \in S : f[i] = f[j] => i = j
  <2>1. TAKE i, j \in S
  <2>2. i \in Int /\ j \in Int /\ Rank(S, i) \in Int /\ Rank(S, j) \in Int
    BY <1>1
  <2>3. i < j => Rank(S, i) < Rank(S, j)
    BY <1>1
  <2>4. j < i => Rank(S, j) < Rank(S, i)
    BY <1>1
  <2>. QED
    BY <1>2, <2>2, <2>3, <2>4
<1>4. IsFiniteSet(T) /\ Cardinality(T) = Cardinality(S)
  <2>1. IsFiniteSet(1 .. n) /\ Cardinality(1 .. n) = IF 1 > n THEN 0 ELSE n - 1 + 1
    BY <1>1, FS_Interval, SMTT(20)
  <2>. QED
    BY <1>1, <2>1
<1>. HIDE DEF f, T
<1>5. f \in Injection(S, T)
  BY <1>2, <1>3 DEF Injection, IsInjective
<1>6. f \in Surjection(S, T)
  BY <1>4, <1>5, FS_Injection
<1>7. k \in T
  BY DEF T
<1>. QED
  BY <1>2, <1>6, <1>7 DEF Surjection

\* SelectAt has one element for each position and the elements in the order of
\* their positions.
LEMMA SelectAtProperties ==
  ASSUME NEW T, NEW s \in Seq(T), NEW S \in SUBSET (1 .. Len(s))
  PROVE  /\ IsFiniteSet(S) /\ Cardinality(S) \in Nat
         /\ SelectAt(s, S) \in Seq(T)
         /\ Len(SelectAt(s, S)) = Cardinality(S)
         /\ \A i \in S : /\ Rank(S, i) \in 1 .. Cardinality(S)
                         /\ SelectAt(s, S)[Rank(S, i)] = s[i]
         /\ \A k \in 1 .. Cardinality(S) :
              \E i \in S : Rank(S, i) = k /\ SelectAt(s, S)[k] = s[i]
         /\ \A i, j \in S : i < j <=> Rank(S, i) < Rank(S, j)
<1>1. Len(s) \in Nat /\ IsFiniteSet(1 .. Len(s)) /\ S \in SUBSET Int
  BY FS_Interval
<1>2. IsFiniteSet(S)
  BY <1>1, FS_Subset
<1>3. /\ Cardinality(S) \in Nat
      /\ \A i \in S : Rank(S, i) \in 1 .. Cardinality(S)
      /\ \A i, j \in S : i < j => Rank(S, i) < Rank(S, j)
  BY <1>1, <1>2, RankInOrder
<1>4. ASSUME NEW i \in S, NEW j \in S, Rank(S, i) < Rank(S, j)
      PROVE  i < j
  <2>1. i \in Int /\ j \in Int /\ Rank(S, i) \in Int /\ Rank(S, j) \in Int
    BY <1>1, <1>3
  <2>2. j < i => Rank(S, j) < Rank(S, i)
    BY <1>3
  <2>. QED
    BY <2>1, <2>2, <1>4
<1>5. \A i, j \in S : Rank(S, i) = Rank(S, j) => i = j
  <2>1. TAKE i, j \in S
  <2>2. i \in Int /\ j \in Int /\ Rank(S, i) \in Int /\ Rank(S, j) \in Int
    BY <1>1, <1>3
  <2>3. (i < j => Rank(S, i) < Rank(S, j)) /\ (j < i => Rank(S, j) < Rank(S, i))
    BY <1>3
  <2>. QED
    BY <2>2, <2>3
<1>. DEFINE at(k) == CHOOSE i \in S : Rank(S, i) = k
<1>6. \A k \in 1 .. Cardinality(S) : at(k) \in S /\ Rank(S, at(k)) = k
  BY <1>1, <1>2, RankOnto
<1>7. SelectAt(s, S) = [k \in 1 .. Cardinality(S) |-> s[at(k)]]
  BY DEF SelectAt
<1>. HIDE DEF at
<1>8. \A i \in S : at(Rank(S, i)) = i
  BY <1>3, <1>5, <1>6
<1>9. \A i \in S : s[i] \in T
  OBVIOUS
<1>10. SelectAt(s, S) \in [1 .. Cardinality(S) -> T]
  BY <1>6, <1>7, <1>9
<1>11. SelectAt(s, S) \in Seq(T) /\ Len(SelectAt(s, S)) = Cardinality(S)
  BY <1>3, <1>10, SeqDef
<1>12. \A i \in S : SelectAt(s, S)[Rank(S, i)] = s[i]
  BY <1>3, <1>7, <1>8
<1>13. \A k \in 1 .. Cardinality(S) : \E i \in S : Rank(S, i) = k /\ SelectAt(s, S)[k] = s[i]
  BY <1>6, <1>7
<1>. QED
  BY <1>2, <1>3, <1>4, <1>11, <1>12, <1>13
=============================================================================
