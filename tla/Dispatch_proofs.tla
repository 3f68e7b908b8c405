-------------------------- MODULE Dispatch_proofs ---------------------------
(***************************************************************************)
(* Proofs about Dispatch, for any modules, batch size, number of records   *)
(* and number of panics: every record is in exactly one place for every    *)
(* module, and a panic costs no more than a batch.                         *)
(***************************************************************************)
EXTENDS Dispatch, SequenceTheorems, FiniteSetTheorems, TLAPS

-----------------------------------------------------------------------------
(* The inductive invariant *)

\* A batch: consecutive records that were returned, as many as allowed.
Chunk(b) ==
  /\ b \in Seq(Record)
  /\ Len(b) > 0
  /\ \A i \in 1 .. Len(b) : b[i] = b[1] + i - 1 /\ b[i] <= returned
  /\ MaxSizePerBatch > 0 => Len(b) <= MaxSizePerBatch

AllChunks ==
  /\ \A k \in 1 .. Len(batches) : Chunk(batches[k])
  /\ \A g \in running : Chunk(g.batch)

\* No record is in two waiting batches, in a waiting one and a goroutine's, or
\* in those of two goroutines of one module.
Apart ==
  /\ \A k, l \in 1 .. Len(batches) :
       k # l => Range(batches[k]) \cap Range(batches[l]) = {}
  /\ \A g \in running : \A k \in 1 .. Len(batches) :
       Range(g.batch) \cap Range(batches[k]) = {}
  /\ \A g, h \in running :
       g.module = h.module /\ g # h => Range(g.batch) \cap Range(h.batch) = {}

Waits(r)    == \E k \in 1 .. Len(batches) : r \in Range(batches[k])
Runs(m, r)  == \E g \in running : g.module = m /\ r \in Rest(g)
Given(m, r) == updated[m][r] = 1
Lost(m, r)  == r \in dropped[m]

\* The records that were returned are in one of the four places, no other
\* record is in any.
Placed ==
  \A m \in Module : \A r \in Record :
    /\ updated[m][r] \in {0, 1}
    /\ r <= returned <=> Waits(r) \/ Runs(m, r) \/ Given(m, r) \/ Lost(m, r)
    /\ Waits(r) => ~Runs(m, r) /\ ~Given(m, r) /\ ~Lost(m, r)
    /\ Runs(m, r) => ~Given(m, r) /\ ~Lost(m, r)
    /\ Given(m, r) => ~Lost(m, r)

DInv == TypeOK /\ AllChunks /\ Apart /\ Placed

-----------------------------------------------------------------------------
(* Lemmas about the cutting into batches *)

\* One more in a product.
LEMMA OneMore ==
  ASSUME NEW a \in Int, NEW b \in Int
  PROVE  (a + 1) * b = a * b + b /\ (a - 1) * b = a * b - b /\ a * b \in Int
  BY SMT

\* The other factor being positive, a product grows with the first.
LEMMA Grows ==
  ASSUME NEW a \in Int, NEW b \in Int, NEW c \in Nat, a <= b
  PROVE  a * c <= b * c
  BY SMT

\* Division rounds down.
LEMMA RoundsDown ==
  ASSUME NEW a \in Nat, NEW b \in Nat \ {0}
  PROVE  /\ a \div b \in Nat
         /\ (a \div b) * b <= a
         /\ a < (a \div b) * b + b
  BY SMT

\* A function on 1 .. m is a sequence of length m.
LEMMA FunctionIsSeq ==
  ASSUME NEW S, NEW m \in Nat, NEW f \in [1 .. m -> S]
  PROVE  f \in Seq(S) /\ Len(f) = m
<1>1. f \in Seq(S)
  BY SeqDef
<1>2. DOMAIN f = 1 .. m /\ Len(f) \in Nat /\ DOMAIN f = 1 .. Len(f)
  BY <1>1, LenProperties
<1>. QED
  BY <1>1, <1>2

\* Batches of the records old + 1 .. n: each has at least one record and at
\* most as many as allowed, which are consecutive, and every record is in
\* exactly one of them.
Parts(c, old, n) ==
  /\ c \in Seq(Seq(old + 1 .. n))
  /\ \A k \in 1 .. Len(c) :
       /\ Len(c[k]) > 0
       /\ MaxSizePerBatch > 0 => Len(c[k]) <= MaxSizePerBatch
       /\ \A i \in 1 .. Len(c[k]) : c[k][i] = c[k][1] + i - 1
  /\ \A r \in old + 1 .. n : \E k \in 1 .. Len(c) : r \in Range(c[k])
  /\ \A k, l \in 1 .. Len(c) : k # l => Range(c[k]) \cap Range(c[l]) = {}

\* Cut makes such batches of the records of a read.
LEMMA CutParts ==
  ASSUME returned \in Nat, NEW n \in Nat, n > returned
  PROVE  Parts(Cut(Parsed(n)), returned, n)
<1>0. PICK c : c = Cut(Parsed(n))
  OBVIOUS
<1>. SUFFICES Parts(c, returned, n)
  BY <1>0
<1>. DEFINE M == MaxSizePerBatch
            p == Parsed(n)
            N == n - returned
<1>1. M \in Int /\ N \in Nat \ {0}
  BY DispatchAssumption
<1>2. p \in Seq(returned + 1 .. n) /\ Len(p) = N /\ \A i \in 1 .. N : p[i] = returned + i
  <2>1. p = [i \in 1 .. N |-> returned + i]
    BY DEF Parsed
  <2>2. p \in [1 .. N -> returned + 1 .. n]
    BY <2>1, <1>1
  <2>. QED
    <3>. HIDE DEF p, N
    <3>1. p \in Seq(returned + 1 .. n) /\ Len(p) = N
      BY <2>2, <1>1, FunctionIsSeq
    <3>. QED
      BY <3>1, <2>1
<1>3. CASE M <= 0
  <2>1. c = <<p>>
    BY <1>0, <1>3, <1>1 DEF Cut
  <2>2. Len(c) = 1 /\ c[1] = p /\ DOMAIN p = 1 .. N
    BY <2>1, <1>2
  <2>3. \A r \in returned + 1 .. n : r \in Range(p)
    <3>1. TAKE r \in returned + 1 .. n
    <3>2. r - returned \in 1 .. N /\ p[r - returned] = r
      BY <3>1, <1>2
    <3>. QED
      BY <3>2, <2>2 DEF Range
  <2>. QED
    BY <2>1, <2>2, <2>3, <1>2, <1>1, <1>3 DEF Parts
<1>4. CASE M > 0
  <2>. DEFINE K == (N + M - 1) \div M
              B(k) == (k - 1) * M
              E(k) == IF B(k) + M > N THEN N ELSE B(k) + M
  <2>1. K \in Nat /\ K * M <= N + M - 1 /\ N + M - 1 < K * M + M
    BY <1>1, <1>4, RoundsDown
  <2>2. c = [k \in 1 .. K |-> SubSeq(p, B(k) + 1, E(k))]
    BY <1>0, <1>2, <1>4, <1>1 DEF Cut
  <2>3. ASSUME NEW k \in 1 .. K
        PROVE  B(k) \in Nat /\ B(k) + 1 <= N /\ E(k) \in B(k) + 1 .. N /\ E(k) - B(k) <= M
    <3>1. B(k) \in Int /\ B(k) >= 0
      BY <1>1, <1>4, OneMore, Grows, <2>1
    <3>2. k * M <= K * M /\ k * M \in Int /\ K * M \in Int /\ B(k) = k * M - M
      BY <1>1, <1>4, <2>1, Grows, OneMore
    <3>. HIDE DEF B
    <3>. QED
      BY <3>1, <3>2, <1>1, <1>4, <2>1
  <2>. HIDE DEF p, N, K
  <2>4. ASSUME NEW k \in 1 .. K
        PROVE  /\ c[k] \in Seq(returned + 1 .. n)
               /\ Len(c[k]) = E(k) - B(k)
               /\ \A i \in 1 .. Len(c[k]) : c[k][i] = returned + B(k) + i
    <3>. HIDE DEF B, E
    <3>1. c[k] = SubSeq(p, B(k) + 1, E(k))
      BY <2>2
    <3>2. B(k) \in Nat /\ E(k) \in B(k) + 1 .. N
      BY <2>3
    <3>3. /\ c[k] \in Seq(returned + 1 .. n)
          /\ Len(c[k]) = E(k) - (B(k) + 1) + 1
          /\ \A i \in 1 .. E(k) - (B(k) + 1) + 1 : c[k][i] = p[B(k) + 1 + i - 1]
      <4>1. B(k) + 1 \in 1 .. Len(p) + 1 /\ E(k) \in B(k) + 1 - 1 .. Len(p) /\ B(k) + 1 <= E(k)
        BY <3>2, <1>1, <1>2
      <4>. DEFINE b == B(k) + 1
                  e == E(k)
      <4>. HIDE DEF b, e
      <4>2. b \in 1 .. Len(p) + 1 /\ e \in b - 1 .. Len(p) /\ b <= e
        BY <4>1 DEF b, e
      <4>3. /\ SubSeq(p, b, e) \in Seq(returned + 1 .. n)
            /\ Len(SubSeq(p, b, e)) = e - b + 1
            /\ \A i \in 1 .. e - b + 1 : SubSeq(p, b, e)[i] = p[b + i - 1]
        <5>1. \A i \in b .. e : p[i] \in returned + 1 .. n
          <6>1. \A i \in b .. e : i \in 1 .. Len(p)
            BY <4>2, <1>2
          <6>. QED
            BY <6>1, <1>2, ElementOfSeq
        <5>2. b \in Int /\ e \in Int
          BY <4>2, <1>1, <1>2
        <5>. HIDE DEF N
        <5>. QED
          BY <5>1, <5>2, <4>2, SubSeqProperties
      <4>4. b = B(k) + 1 /\ e = E(k)
        BY DEF b, e
      <4>. QED
        BY <4>3, <4>4, <3>1
    <3>4. Len(c[k]) = E(k) - B(k)
      BY <3>2, <3>3, <1>1
    <3>5. ASSUME NEW i \in 1 .. E(k) - B(k)
          PROVE  c[k][i] = returned + B(k) + i
      <4>1. i \in 1 .. E(k) - (B(k) + 1) + 1 /\ B(k) + 1 + i - 1 = B(k) + i /\ B(k) + i \in 1 .. N
        BY <3>2, <1>1
      <4>2. c[k][i] = p[B(k) + i]
        BY <4>1, <3>3
      <4>. QED
        BY <4>1, <4>2, <3>2, <1>2
    <3>. QED
      BY <3>3, <3>4, <3>5
  <2>5. c \in Seq(Seq(returned + 1 .. n)) /\ Len(c) = K
    <3>. HIDE DEF B, E
    <3>1. c \in [1 .. K -> Seq(returned + 1 .. n)]
      BY <2>2, <2>4
    <3>. QED
      BY <3>1, <2>1, FunctionIsSeq
  <2>6. ASSUME NEW k \in 1 .. K
        PROVE  Range(c[k]) = {r \in returned + 1 .. n : r - returned \in B(k) + 1 .. E(k)}
    <3>. HIDE DEF B, E
    <3>1. /\ DOMAIN c[k] = 1 .. E(k) - B(k)
          /\ \A i \in 1 .. E(k) - B(k) : c[k][i] = returned + B(k) + i
      BY <2>4
    <3>2. B(k) \in Nat /\ E(k) \in B(k) + 1 .. N
      BY <2>3
    <3>3. ASSUME NEW r \in returned + 1 .. n, r - returned \in B(k) + 1 .. E(k)
          PROVE  r \in Range(c[k])
      <4>. DEFINE i == r - returned - B(k)
      <4>1. i \in 1 .. E(k) - B(k) /\ returned + B(k) + i = r
        BY <3>2, <3>3, <1>1
      <4>. HIDE DEF i
      <4>2. c[k][i] = r /\ i \in DOMAIN c[k]
        BY <4>1, <3>1
      <4>. QED
        BY <4>2 DEF Range
    <3>4. ASSUME NEW r \in Range(c[k])
          PROVE  r \in returned + 1 .. n /\ r - returned \in B(k) + 1 .. E(k)
      <4>1. PICK i \in 1 .. E(k) - B(k) : r = c[k][i]
        BY <3>1 DEF Range
      <4>2. r = returned + B(k) + i
        BY <4>1, <3>1
      <4>3. N \in Nat /\ N = n - returned /\ r - returned = B(k) + i
        BY <4>2, <3>2, <1>1 DEF N
      <4>4. r - returned \in B(k) + 1 .. E(k)
        BY <4>3, <3>2
      <4>5. r - returned \in 1 .. N
        BY <4>3, <4>4, <3>2
      <4>6. r \in Int
        BY <4>2, <3>2
      <4>. QED
        BY <4>3, <4>4, <4>5, <4>6
    <3>. QED
      BY <3>3, <3>4
  <2>7. ASSUME NEW r \in returned + 1 .. n
        PROVE  \E k \in 1 .. K : r \in Range(c[k])
    <3>. DEFINE j == r - returned - 1
                k == (j \div M) + 1
    <3>1. j \in Nat /\ j < N
      BY DEF N
    <3>2. /\ j \div M \in Nat /\ (j \div M) * M <= j /\ j < (j \div M) * M + M
      BY <3>1, <1>1, <1>4, RoundsDown
    <3>3. B(k) = (j \div M) * M
      BY <3>2, <1>1
    <3>4. k <= K
      <4>1. SUFFICES ASSUME K + 1 <= k PROVE FALSE
        BY <2>1, <3>2
      <4>2. K * M <= (j \div M) * M /\ K * M \in Int /\ (j \div M) * M \in Int
        BY <4>1, <1>1, <1>4, <2>1, <3>2, Grows, OneMore
      <4>. QED
        BY <4>2, <2>1, <3>1, <3>2, <1>1, <1>4
    <3>5. r - returned \in B(k) + 1 .. E(k)
      <4>1. (j \div M) * M \in Int
        BY <3>2, <1>1, OneMore
      <4>. QED
        BY <4>1, <3>1, <3>2, <3>3, <1>1, <1>4
    <3>6. k \in 1 .. K
      BY <3>2, <3>4, <2>1
    <3>. HIDE DEF k, B, E
    <3>7. r \in Range(c[k])
      BY <3>5, <3>6, <2>6
    <3>. QED
      BY <3>6, <3>7
  <2>8. ASSUME NEW k \in 1 .. K, NEW l \in 1 .. K, k < l
        PROVE  Range(c[k]) \cap Range(c[l]) = {}
    <3>1. k * M <= (l - 1) * M /\ k * M \in Int /\ B(k) = k * M - M
      BY <2>8, <2>1, <1>1, <1>4, Grows, OneMore
    <3>2. B(k) \in Int /\ B(l) \in Int /\ E(k) <= B(l)
      BY <3>1, <2>3, <1>1, <1>4
    <3>. HIDE DEF B, E
    <3>3. E(k) \in Int
      BY <2>3
    <3>. QED
      BY <3>2, <3>3, <2>6
  <2>9. \A k \in 1 .. Len(c) : \A i \in 1 .. Len(c[k]) : c[k][i] = c[k][1] + i - 1
    <3>1. TAKE k \in 1 .. Len(c)
    <3>. HIDE DEF B, E
    <3>2. /\ B(k) \in Nat /\ Len(c[k]) \in Nat
          /\ \A i \in 1 .. Len(c[k]) : c[k][i] = returned + B(k) + i
      BY <2>3, <2>4, <2>5
    <3>3. TAKE i \in 1 .. Len(c[k])
    <3>4. 1 \in 1 .. Len(c[k])
      BY <3>2, <3>3
    <3>5. c[k][1] = returned + B(k) + 1 /\ c[k][i] = returned + B(k) + i
      BY <3>2, <3>4
    <3>. QED
      BY <3>2, <3>5
  <2>10. \A k \in 1 .. Len(c) : Len(c[k]) > 0 /\ Len(c[k]) <= M
    <3>. HIDE DEF B, E
    <3>. QED
      BY <2>3, <2>4, <2>5, <1>1
  <2>11. \A k, l \in 1 .. Len(c) : k # l => Range(c[k]) \cap Range(c[l]) = {}
    BY <2>5, <2>8, <2>1
  <2>. QED
    BY <2>5, <2>7, <2>9, <2>10, <2>11 DEF Parts
<1>5. M <= 0 \/ M > 0
  BY <1>1
<1>. QED
  BY <1>3, <1>4, <1>5, Zenon

-----------------------------------------------------------------------------
(* Type correctness, and the records in one place each *)

\* What a chunk is made of.
LEMMA ChunkFacts ==
  ASSUME returned \in 0 .. MaxRecord, NEW b, Chunk(b)
  PROVE  /\ Len(b) \in Nat /\ Len(b) > 0 /\ Len(b) <= returned /\ DOMAIN b = 1 .. Len(b)
         /\ \A i \in 1 .. Len(b) : b[i] \in Record /\ b[i] \in Range(b)
         /\ \A r \in Range(b) : r \in 1 .. returned /\ \E i \in 1 .. Len(b) : r = b[i]
         /\ \A i, j \in 1 .. Len(b) : b[i] = b[j] => i = j
<1>1. Len(b) \in Nat /\ DOMAIN b = 1 .. Len(b) /\ \A i \in 1 .. Len(b) : b[i] \in Record
  BY DEF Chunk
<1>2. \A i \in 1 .. Len(b) : b[i] \in Int /\ b[i] = b[1] + i - 1 /\ b[i] <= returned
  BY <1>1, DispatchAssumption DEF Chunk, Record
<1>3. 1 \in 1 .. Len(b) /\ Len(b) \in 1 .. Len(b)
  BY <1>1 DEF Chunk
<1>4. b[1] >= 1 /\ Len(b) <= returned
  <2>1. b[1] \in 1 .. MaxRecord
    BY <1>1, <1>3 DEF Record
  <2>2. b[Len(b)] = b[1] + Len(b) - 1 /\ b[Len(b)] <= returned
    BY <1>2, <1>3
  <2>. QED
    BY <2>1, <2>2, <1>1, DispatchAssumption
<1>5. \A i, j \in 1 .. Len(b) : b[i] = b[j] => i = j
  <2>1. TAKE i, j \in 1 .. Len(b)
  <2>2. b[i] = b[1] + i - 1 /\ b[j] = b[1] + j - 1 /\ b[1] \in Int
    BY <1>2, <1>3
  <2>. QED
    BY <2>2, <1>1
<1>6. \A i \in 1 .. Len(b) : b[i] \in Range(b)
  BY <1>1 DEF Range
<1>7. \A r \in Range(b) : \E i \in 1 .. Len(b) : r = b[i]
  BY <1>1 DEF Range
<1>8. \A r \in Range(b) : r \in 1 .. returned
  BY <1>7, <1>1, <1>2, DispatchAssumption DEF Record
<1>9. Len(b) > 0
  BY DEF Chunk
<1>. QED
  BY <1>1, <1>4, <1>5, <1>6, <1>7, <1>8, <1>9

\* A sequence over a set is one over a larger set.
LEMMA SeqLarger ==
  ASSUME NEW S, NEW T, S \subseteq T
  PROVE  Seq(S) \subseteq Seq(T) /\ Seq(Seq(S)) \subseteq Seq(Seq(T))
<1>1. ASSUME NEW U, NEW V, U \subseteq V, NEW s \in Seq(U)
      PROVE  s \in Seq(V)
  <2>1. Len(s) \in Nat /\ s \in [1 .. Len(s) -> V]
    BY <1>1
  <2>. QED
    BY <2>1, SeqDef
<1>2. Seq(S) \subseteq Seq(T)
  BY <1>1
<1>. QED
  BY <1>1, <1>2

\* The daemon starts with nothing read.
LEMMA InitDInv == Init => DInv
<1>. SUFFICES ASSUME Init PROVE DInv
  OBVIOUS
<1>. USE DEF Init
<1>1. TypeOK
  <2>1. <<>> \in Seq(Seq(Record))
    OBVIOUS
  <2>. QED
    BY <2>1, DispatchAssumption DEF TypeOK
<1>2. Len(batches) = 0
  OBVIOUS
<1>3. AllChunks /\ Apart
  BY <1>2 DEF AllChunks, Apart
<1>4. Placed
  BY <1>2, DispatchAssumption DEF Placed, Waits, Runs, Given, Lost, Record
<1>. QED
  BY <1>1, <1>3, <1>4 DEF DInv

\* A read puts its records into one waiting batch each.
LEMMA LogReadDInv == DInv /\ LogRead => DInv'
<1>. SUFFICES ASSUME DInv, LogRead PROVE DInv'
  OBVIOUS
<1>1. PICK n \in returned + 1 .. MaxRecord : returned' = n /\ batches' = Cut(Parsed(n))
  BY DEF LogRead
<1>2. /\ batches = <<>>
      /\ UNCHANGED <<running, panics, updated, dropped>>
  BY DEF LogRead
<1>3. /\ returned \in 0 .. MaxRecord /\ returned \in Nat /\ n \in Nat /\ n > returned
      /\ MaxRecord \in Nat
  BY <1>1, DispatchAssumption DEF DInv, TypeOK
<1>. DEFINE New == returned + 1 .. n
<1>c. PICK c : c = batches'
  OBVIOUS
<1>4. /\ c \in Seq(Seq(New))
      /\ \A k \in 1 .. Len(c) :
           /\ Len(c[k]) > 0
           /\ MaxSizePerBatch > 0 => Len(c[k]) <= MaxSizePerBatch
           /\ \A i \in 1 .. Len(c[k]) : c[k][i] = c[k][1] + i - 1
      /\ \A r \in New : \E k \in 1 .. Len(c) : r \in Range(c[k])
      /\ \A k, l \in 1 .. Len(c) : k # l => Range(c[k]) \cap Range(c[l]) = {}
  <2>1. returned \in Nat /\ n \in Nat /\ n > returned /\ c = Cut(Parsed(n))
    BY <1>1, <1>3, <1>c
  <2>2. Parts(c, returned, n)
    BY <2>1, CutParts
  <2>. QED
    BY <2>2 DEF Parts
<1>5. New \subseteq Record
  BY <1>1, <1>3 DEF Record
<1>6. c \in Seq(Seq(Record))
  <2>1. c \in Seq(Seq(New))
    BY <1>4
  <2>. HIDE DEF New
  <2>. QED
    BY <2>1, <1>5, SeqLarger
<1>7. TypeOK'
  BY <1>1, <1>2, <1>3, <1>6, <1>c DEF DInv, TypeOK
<1>8. \A k \in 1 .. Len(c) : c[k] \in Seq(New) /\ c[k] \in Seq(Record)
  <2>. QED
    BY <1>4, <1>6
<1>9. \A k \in 1 .. Len(c) : \A r \in Range(c[k]) : r \in New
  <2>1. TAKE k \in 1 .. Len(c)
  <2>. HIDE DEF New
  <2>2. c[k] \in [1 .. Len(c[k]) -> New]
    BY <1>8
  <2>. QED
    BY <2>2 DEF Range
<1>10. \A k \in 1 .. Len(c) : Chunk(c[k])'
  <2>1. TAKE k \in 1 .. Len(c)
  <2>2. \A i \in 1 .. Len(c[k]) : c[k][i] <= n
    BY <1>8, <1>3
  <2>3. /\ c[k] \in Seq(Record) /\ Len(c[k]) > 0
        /\ MaxSizePerBatch > 0 => Len(c[k]) <= MaxSizePerBatch
        /\ \A i \in 1 .. Len(c[k]) : c[k][i] = c[k][1] + i - 1
    BY <1>4, <1>8
  <2>. QED
    BY <2>2, <2>3, <1>1 DEF Chunk
<1>11. \A g \in running : Chunk(g.batch) /\ Chunk(g.batch)'
  <2>1. TAKE g \in running
  <2>2. Chunk(g.batch)
    BY DEF DInv, AllChunks
  <2>3. \A i \in 1 .. Len(g.batch) : g.batch[i] \in 1 .. returned
    BY <2>2, <1>3, ChunkFacts
  <2>4. \A i \in 1 .. Len(g.batch) : g.batch[i] <= n
    BY <2>3, <1>3
  <2>. QED
    BY <2>2, <2>4, <1>1 DEF Chunk
<1>12. AllChunks'
  BY <1>10, <1>11, <1>2, <1>c DEF AllChunks
<1>13. Apart'
  <2>1. ASSUME NEW g \in running, NEW k \in 1 .. Len(c)
        PROVE  Range(g.batch) \cap Range(c[k]) = {}
    <3>1. \A r \in Range(g.batch) : r \in 1 .. returned
      BY <1>11, <1>3, ChunkFacts
    <3>. QED
      BY <3>1, <1>9, <1>3
  <2>2. \A g, h \in running :
          g.module = h.module /\ g # h => Range(g.batch) \cap Range(h.batch) = {}
    BY DEF DInv, Apart
  <2>. QED
    BY <2>1, <2>2, <1>2, <1>4, <1>c DEF Apart
<1>14. Placed'
  <2>1. SUFFICES ASSUME NEW m \in Module, NEW r \in Record
                 PROVE  /\ updated'[m][r] \in {0, 1}
                        /\ r <= returned' <=> \/ Waits(r)' \/ Runs(m, r)'
                                             \/ Given(m, r)' \/ Lost(m, r)'
                        /\ Waits(r)' => ~Runs(m, r)' /\ ~Given(m, r)' /\ ~Lost(m, r)'
                        /\ Runs(m, r)' => ~Given(m, r)' /\ ~Lost(m, r)'
                        /\ Given(m, r)' => ~Lost(m, r)'
    BY DEF Placed
  <2>3. ~Waits(r)
    BY <1>2 DEF Waits
  <2>4. Waits(r)' <=> r \in New
    BY <1>4, <1>9, <1>c DEF Waits
  <2>5. /\ Runs(m, r)' <=> Runs(m, r)
        /\ updated'[m][r] = updated[m][r]
        /\ Given(m, r)' <=> Given(m, r)
        /\ Lost(m, r)' <=> Lost(m, r)
    BY <1>2 DEF Runs, Given, Lost, Rest
  <2>6. r \in 1 .. MaxRecord /\ (r <= returned' <=> r <= returned \/ r \in New)
    BY <1>1, <1>3, <2>1 DEF Record
  <2>7. r \in New => ~(r <= returned)
    BY <1>3, <2>6
  <2>. HIDE DEF New
  <2>8. /\ updated[m][r] \in {0, 1}
        /\ r <= returned <=> Waits(r) \/ Runs(m, r) \/ Given(m, r) \/ Lost(m, r)
        /\ Waits(r) => ~Runs(m, r) /\ ~Given(m, r) /\ ~Lost(m, r)
        /\ Runs(m, r) => ~Given(m, r) /\ ~Lost(m, r)
        /\ Given(m, r) => ~Lost(m, r)
    BY DEF DInv, Placed
  <2>. QED
    BY <2>3, <2>4, <2>5, <2>6, <2>7, <2>8
<1>. QED
  BY <1>7, <1>12, <1>13, <1>14 DEF DInv
\* Placed, for one module and one record.
LEMMA PlacedStep ==
  ASSUME NEW m \in Module, NEW r \in Record, Placed
  PROVE  /\ updated[m][r] \in {0, 1}
         /\ r <= returned <=> Waits(r) \/ Runs(m, r) \/ Given(m, r) \/ Lost(m, r)
         /\ Waits(r) => ~Runs(m, r) /\ ~Given(m, r) /\ ~Lost(m, r)
         /\ Runs(m, r) => ~Given(m, r) /\ ~Lost(m, r)
         /\ Given(m, r) => ~Lost(m, r)
  BY DEF Placed

\* The next batch leaves the queue for a goroutine of each module.
LEMMA GoDInv == DInv /\ Go => DInv'
<1>. SUFFICES ASSUME DInv, Go PROVE DInv'
  OBVIOUS
<1>1. /\ batches # <<>>
      /\ running' = running \cup [module : Module, batch : {Head(batches)}, done : {0}]
      /\ batches' = Tail(batches)
      /\ UNCHANGED <<returned, panics, updated, dropped>>
  BY DEF Go
<1>2. /\ returned \in 0 .. MaxRecord
      /\ batches \in Seq(Seq(Record))
      /\ running \subseteq [module : Module, batch : Seq(Record), done : 0 .. MaxRecord]
      /\ MaxRecord \in Nat
  BY DispatchAssumption DEF DInv, TypeOK
<1>. PICK b, q : b = Head(batches) /\ q = Tail(batches)
  OBVIOUS
<1>3. b = Head(batches) /\ q = Tail(batches)
  OBVIOUS
<1>4. /\ Len(batches) > 0 /\ b = batches[1] /\ b \in Seq(Record)
      /\ q \in Seq(Seq(Record)) /\ Len(q) = Len(batches) - 1 /\ Len(batches) \in Nat
      /\ \A k \in 1 .. Len(q) : q[k] = batches[k + 1] /\ k + 1 \in 1 .. Len(batches)
  BY <1>1, <1>2, <1>3, HeadTailProperties, EmptySeq
<1>5. 1 \in 1 .. Len(batches) /\ Chunk(b)
  BY <1>4 DEF DInv, AllChunks
<1>6. \A h \in running' : h \in running \/ (h.module \in Module /\ h.batch = b /\ h.done = 0)
  BY <1>1, <1>3
<1>7. \A m \in Module : \E h \in running' : h.module = m /\ h.batch = b /\ h.done = 0
  <2>1. TAKE m \in Module
  <2>2. [module |-> m, batch |-> b, done |-> 0] \in running'
    BY <1>1, <1>3
  <2>. QED
    BY <2>2
<1>8. running \subseteq running'
  BY <1>1
<1>9. TypeOK'
  <2>1. running' \subseteq [module : Module, batch : Seq(Record), done : 0 .. MaxRecord]
    BY <1>1, <1>2, <1>3, <1>4
  <2>. QED
    BY <2>1, <1>1, <1>3, <1>4 DEF DInv, TypeOK
<1>10. \A x : Chunk(x) => Chunk(x)'
  BY <1>1 DEF Chunk
<1>11. AllChunks'
  <2>1. \A k \in 1 .. Len(batches') : Chunk(batches'[k])
    BY <1>1, <1>3, <1>4 DEF DInv, AllChunks
  <2>2. \A g \in running' : Chunk(g.batch)
    BY <1>5, <1>6 DEF DInv, AllChunks
  <2>3. PICK q2, r2 : q2 = batches' /\ r2 = running'
    OBVIOUS
  <2>4. (\A k \in 1 .. Len(q2) : Chunk(q2[k])') /\ (\A g \in r2 : Chunk(g.batch)')
    BY <2>1, <2>2, <2>3, <1>10
  <2>. QED
    BY <2>3, <2>4 DEF AllChunks
<1>12. /\ \A k \in 1 .. Len(q) : Range(b) \cap Range(q[k]) = {}
       /\ \A k, l \in 1 .. Len(q) : k # l => Range(q[k]) \cap Range(q[l]) = {}
       /\ \A g \in running : Range(g.batch) \cap Range(b) = {}
       /\ \A g \in running : \A k \in 1 .. Len(q) : Range(g.batch) \cap Range(q[k]) = {}
  <2>1. Apart
    BY DEF DInv
  <2>2. \A k \in 1 .. Len(q) : Range(b) \cap Range(q[k]) = {}
    BY <2>1, <1>4, <1>5 DEF Apart
  <2>3. \A k, l \in 1 .. Len(q) : k # l => Range(q[k]) \cap Range(q[l]) = {}
    BY <2>1, <1>4 DEF Apart
  <2>4. \A g \in running : Range(g.batch) \cap Range(b) = {}
    BY <2>1, <1>4, <1>5 DEF Apart
  <2>5. \A g \in running : \A k \in 1 .. Len(q) : Range(g.batch) \cap Range(q[k]) = {}
    BY <2>1, <1>4 DEF Apart
  <2>. QED
    BY <2>2, <2>3, <2>4, <2>5
<1>13. Apart'
  <2>1. \A g \in running' : \A k \in 1 .. Len(q) : Range(g.batch) \cap Range(q[k]) = {}
    BY <1>6, <1>12
  <2>2. ASSUME NEW g \in running', NEW h \in running', g.module = h.module, g # h
        PROVE  Range(g.batch) \cap Range(h.batch) = {}
    <3>1. CASE g \in running /\ h \in running
      BY <3>1, <2>2 DEF DInv, Apart
    <3>2. CASE g \in running /\ h \notin running
      BY <3>2, <1>6, <1>12
    <3>3. CASE g \notin running /\ h \in running
      BY <3>3, <1>6, <1>12
    <3>4. CASE g \notin running /\ h \notin running
      <4>1. /\ g \in [module : Module, batch : {b}, done : {0}]
            /\ h \in [module : Module, batch : {b}, done : {0}]
        BY <3>4, <1>1, <1>3
      <4>2. g = h
        BY <4>1, <2>2
      <4>. QED
        BY <4>2, <2>2
    <3>. QED
      BY <3>1, <3>2, <3>3, <3>4
  <2>. QED
    BY <2>1, <2>2, <1>1, <1>3, <1>12 DEF Apart
<1>14. Placed'
  <2>1. SUFFICES ASSUME NEW m \in Module, NEW r \in Record
                 PROVE  /\ updated'[m][r] \in {0, 1}
                        /\ r <= returned' <=> \/ Waits(r)' \/ Runs(m, r)'
                                             \/ Given(m, r)' \/ Lost(m, r)'
                        /\ Waits(r)' => ~Runs(m, r)' /\ ~Given(m, r)' /\ ~Lost(m, r)'
                        /\ Runs(m, r)' => ~Given(m, r)' /\ ~Lost(m, r)'
                        /\ Given(m, r)' => ~Lost(m, r)'
    BY DEF Placed
  <2>2. Waits(r) <=> Waits(r)' \/ r \in Range(b)
    <3>1. Waits(r)' <=> \E k \in 1 .. Len(q) : r \in Range(q[k])
      BY <1>1, <1>3 DEF Waits
    <3>2. ASSUME NEW k \in 1 .. Len(batches), r \in Range(batches[k])
          PROVE  r \in Range(b) \/ \E j \in 1 .. Len(q) : r \in Range(q[j])
      <4>1. CASE k = 1
        BY <4>1, <3>2, <1>4
      <4>2. CASE k # 1
        <5>1. k - 1 \in 1 .. Len(q) /\ q[k - 1] = batches[k]
          BY <4>2, <1>4
        <5>. QED
          BY <5>1, <3>2
      <4>. QED
        BY <4>1, <4>2
    <3>3. r \in Range(b) => Waits(r)
      BY <1>4, <1>5 DEF Waits
    <3>4. ASSUME NEW k \in 1 .. Len(q), r \in Range(q[k]) PROVE Waits(r)
      BY <3>4, <1>4 DEF Waits
    <3>. QED
      BY <3>1, <3>2, <3>3, <3>4 DEF Waits
  <2>3. ~(Waits(r)' /\ r \in Range(b))
    BY <1>1, <1>3, <1>12 DEF Waits
  <2>4. Runs(m, r)' <=> Runs(m, r) \/ r \in Range(b)
    <3>1. DOMAIN b = 1 .. Len(b)
      BY <1>4
    <3>2. Runs(m, r)' <=> \E g \in running' : g.module = m /\ r \in Rest(g)
      BY DEF Runs, Rest
    <3>3. ASSUME NEW g, g.batch = b, g.done = 0
          PROVE  r \in Rest(g) <=> r \in Range(b)
      BY <3>1, <3>3 DEF Rest, Range
    <3>4. Runs(m, r)' => Runs(m, r) \/ r \in Range(b)
      BY <3>2, <3>3, <1>6 DEF Runs
    <3>5. Runs(m, r) => Runs(m, r)'
      BY <3>2, <1>8 DEF Runs
    <3>6. r \in Range(b) => Runs(m, r)'
      BY <3>2, <3>3, <1>7
    <3>. QED
      BY <3>4, <3>5, <3>6
  <2>5. /\ updated'[m][r] = updated[m][r]
        /\ Given(m, r)' <=> Given(m, r)
        /\ Lost(m, r)' <=> Lost(m, r)
        /\ returned' = returned
    BY <1>1 DEF Given, Lost
  <2>6. /\ updated[m][r] \in {0, 1}
        /\ r <= returned <=> Waits(r) \/ Runs(m, r) \/ Given(m, r) \/ Lost(m, r)
        /\ Waits(r) => ~Runs(m, r) /\ ~Given(m, r) /\ ~Lost(m, r)
        /\ Runs(m, r) => ~Given(m, r) /\ ~Lost(m, r)
        /\ Given(m, r) => ~Lost(m, r)
    BY PlacedStep DEF DInv
  <2>. QED
    BY <2>2, <2>3, <2>4, <2>5, <2>6
<1>. QED
  BY <1>9, <1>11, <1>13, <1>14 DEF DInv
\* A goroutine that goes, or goes on with the same batch, disturbs neither the
\* batches nor that they are apart.
LEMMA SameBatches ==
  ASSUME DInv, UNCHANGED <<returned, batches>>, NEW g \in running,
         \A h \in running' : h \in running \ {g} \/ (h.module = g.module /\ h.batch = g.batch),
         \A h, k \in running' : h \notin running \ {g} /\ k \notin running \ {g} => h = k
  PROVE  AllChunks' /\ Apart'
<1>1. AllChunks /\ Apart
  BY DEF DInv
<1>2. AllChunks'
  BY <1>1 DEF AllChunks, Chunk
<1>3. ASSUME NEW h \in running', NEW k \in running', h.module = k.module, h # k
      PROVE  Range(h.batch) \cap Range(k.batch) = {}
  <2>1. CASE h \in running \ {g} /\ k \in running \ {g}
    BY <2>1, <1>1, <1>3 DEF Apart
  <2>2. CASE h \in running \ {g} /\ k \notin running \ {g}
    BY <2>2, <1>1, <1>3 DEF Apart
  <2>3. CASE h \notin running \ {g} /\ k \in running \ {g}
    BY <2>3, <1>1, <1>3 DEF Apart
  <2>4. CASE h \notin running \ {g} /\ k \notin running \ {g}
    BY <2>4, <1>3
  <2>. QED
    BY <2>1, <2>2, <2>3, <2>4
<1>4. \A h \in running' : \A k \in 1 .. Len(batches) :
        Range(h.batch) \cap Range(batches[k]) = {}
  BY <1>1 DEF Apart
<1>. QED
  BY <1>1, <1>2, <1>3, <1>4 DEF Apart

\* A record that a goroutine has still to hand over is with it alone.
LEMMA OneGoroutine ==
  ASSUME DInv, NEW g \in running, NEW h \in running, g # h, g.module = h.module,
         NEW r \in Rest(g)
  PROVE  r \notin Rest(h)
<1>1. Chunk(g.batch) /\ Chunk(h.batch)
  BY DEF DInv, AllChunks
<1>2. Range(g.batch) \cap Range(h.batch) = {}
  BY DEF DInv, Apart
<1>3. g.done \in Nat /\ h.done \in Nat
  BY DispatchAssumption DEF DInv, TypeOK
<1>4. ASSUME NEW x, Chunk(x.batch), x.done \in Nat PROVE Rest(x) \subseteq Range(x.batch)
  <2>1. DOMAIN x.batch = 1 .. Len(x.batch) /\ Len(x.batch) \in Nat
    BY <1>4 DEF Chunk
  <2>. QED
    BY <1>4, <2>1 DEF Rest, Range
<1>. QED
  BY <1>1, <1>2, <1>3, <1>4

\* A goroutine hands over a record, or returns.
LEMMA UpdateDInv ==
  ASSUME DInv, NEW g \in running, Update(g)
  PROVE  DInv'
<1>1. /\ UNCHANGED <<returned, batches, panics, dropped>>
      /\ IF g.done < Len(g.batch)
         THEN /\ updated' = [updated EXCEPT ![g.module][g.batch[g.done + 1]] = @ + 1]
              /\ running' = (running \ {g}) \cup {[g EXCEPT !.done = @ + 1]}
         ELSE /\ running' = running \ {g}
              /\ UNCHANGED updated
  BY DEF Update
<1>2. /\ g \in [module : Module, batch : Seq(Record), done : 0 .. MaxRecord]
      /\ MaxRecord \in Nat /\ returned \in 0 .. MaxRecord
      /\ updated \in [Module -> [Record -> Nat]]
      /\ running \subseteq [module : Module, batch : Seq(Record), done : 0 .. MaxRecord]
  BY DispatchAssumption DEF DInv, TypeOK
<1>3. Chunk(g.batch)
  BY DEF DInv, AllChunks
<1>4. /\ Len(g.batch) \in Nat /\ Len(g.batch) <= returned
      /\ \A i \in 1 .. Len(g.batch) : g.batch[i] \in Record
      /\ \A i, j \in 1 .. Len(g.batch) : g.batch[i] = g.batch[j] => i = j
  BY <1>2, <1>3, ChunkFacts
<1>5. CASE g.done < Len(g.batch)
  <2>. DEFINE n == [g EXCEPT !.done = @ + 1]
              i == g.done + 1
              s == g.batch[i]
  <2>1. i \in 1 .. Len(g.batch) /\ i \in 0 .. MaxRecord /\ s \in Record
    BY <1>2, <1>4, <1>5
  <2>2. /\ n.module = g.module /\ n.batch = g.batch /\ n.done = i
        /\ n \in [module : Module, batch : Seq(Record), done : 0 .. MaxRecord]
    BY <1>2, <2>1
  <2>3. running' = (running \ {g}) \cup {n}
    BY <1>1, <1>5
  <2>4. updated' = [updated EXCEPT ![g.module][s] = @ + 1]
    BY <1>1, <1>5
  <2>. HIDE DEF n, i
  <2>5. TypeOK'
    <3>1. running' \subseteq [module : Module, batch : Seq(Record), done : 0 .. MaxRecord]
      BY <1>2, <2>2, <2>3
    <3>2. updated' \in [Module -> [Record -> Nat]]
      BY <1>2, <2>1, <2>4
    <3>. QED
      BY <3>1, <3>2, <1>1 DEF DInv, TypeOK
  <2>6. AllChunks' /\ Apart'
    <3>1. \A h \in running' : h \in running \ {g} \/ (h.module = g.module /\ h.batch = g.batch)
      BY <2>2, <2>3
    <3>2. \A h, k \in running' : h \notin running \ {g} /\ k \notin running \ {g} => h = k
      BY <2>3
    <3>3. UNCHANGED <<returned, batches>>
      BY <1>1
    <3>. QED
      BY <3>1, <3>2, <3>3, SameBatches
  <2>7. Rest(n) = Rest(g) \ {s} /\ s \in Rest(g)
    <3>1. Rest(g) = {g.batch[j] : j \in i .. Len(g.batch)}
      BY <2>1, <1>2 DEF Rest, i
    <3>2. Rest(n) = {g.batch[j] : j \in i + 1 .. Len(g.batch)}
      BY <2>2 DEF Rest
    <3>3. s = g.batch[i]
      OBVIOUS
    <3>4. s \in Rest(g)
      BY <3>1, <3>3, <2>1, <1>4
    <3>5. Rest(g) \ {s} \subseteq Rest(n)
      BY <3>1, <3>2, <3>3, <2>1, <1>4
    <3>6. Rest(n) \subseteq Rest(g)
      BY <3>1, <3>2, <2>1, <1>4
    <3>7. s \notin Rest(n)
      BY <3>2, <3>3, <2>1, <1>4
    <3>. QED
      BY <3>4, <3>5, <3>6, <3>7
  <2>. HIDE DEF s
  <2>8. Placed'
    <3>1. SUFFICES ASSUME NEW m \in Module, NEW r \in Record
                   PROVE  /\ updated'[m][r] \in {0, 1}
                          /\ r <= returned' <=> \/ Waits(r)' \/ Runs(m, r)'
                                               \/ Given(m, r)' \/ Lost(m, r)'
                          /\ Waits(r)' => ~Runs(m, r)' /\ ~Given(m, r)' /\ ~Lost(m, r)'
                          /\ Runs(m, r)' => ~Given(m, r)' /\ ~Lost(m, r)'
                          /\ Given(m, r)' => ~Lost(m, r)'
      BY DEF Placed
    <3>2. /\ Waits(r)' <=> Waits(r)
          /\ Lost(m, r)' <=> Lost(m, r)
          /\ returned' = returned
      BY <1>1 DEF Waits, Lost
    <3>3. /\ updated[m][r] \in {0, 1}
          /\ r <= returned <=> Waits(r) \/ Runs(m, r) \/ Given(m, r) \/ Lost(m, r)
          /\ Waits(r) => ~Runs(m, r) /\ ~Given(m, r) /\ ~Lost(m, r)
          /\ Runs(m, r) => ~Given(m, r) /\ ~Lost(m, r)
          /\ Given(m, r) => ~Lost(m, r)
      BY PlacedStep DEF DInv
    <3>4. Runs(m, r)' <=> \E h \in running' : h.module = m /\ r \in Rest(h)
      BY DEF Runs, Rest
    <3>5. CASE m = g.module /\ r = s
      <4>1. Runs(m, r)
        BY <3>5, <2>7 DEF Runs
      <4>2. \A h \in running \ {g} : h.module = m => r \notin Rest(h)
        BY <3>5, <2>7, OneGoroutine
      <4>3. ~Runs(m, r)'
        BY <4>2, <3>4, <3>5, <2>3, <2>7
      <4>4. updated'[m][r] = updated[m][r] + 1
        BY <3>5, <2>1, <2>4, <1>2
      <4>5. updated[m][r] = 0
        BY <4>1, <3>3 DEF Given
      <4>6. Given(m, r)' /\ updated'[m][r] = 1
        BY <4>4, <4>5 DEF Given
      <4>. QED
        BY <4>1, <4>3, <4>6, <3>2, <3>3
    <3>6. CASE m # g.module \/ r # s
      <4>1. Runs(m, r)' <=> Runs(m, r)
        BY <3>4, <3>6, <2>2, <2>3, <2>7 DEF Runs
      <4>2. updated'[m][r] = updated[m][r]
        BY <3>6, <2>1, <2>4, <1>2
      <4>3. Given(m, r)' <=> Given(m, r)
        BY <4>2 DEF Given
      <4>. QED
        BY <4>1, <4>2, <4>3, <3>2, <3>3
    <3>. QED
      BY <3>5, <3>6
  <2>. QED
    BY <2>5, <2>6, <2>8 DEF DInv
<1>6. CASE ~(g.done < Len(g.batch))
  <2>1. running' = running \ {g} /\ UNCHANGED <<updated, dropped, returned, batches, panics>>
    BY <1>1, <1>6
  <2>2. TypeOK'
    BY <2>1 DEF DInv, TypeOK
  <2>3. AllChunks' /\ Apart'
    BY <2>1, SameBatches
  <2>4. Rest(g) = {}
    BY <1>2, <1>4, <1>6 DEF Rest
  <2>5. Placed'
    <3>1. \A m, r : Runs(m, r)' <=> Runs(m, r)
      BY <2>1, <2>4 DEF Runs, Rest
    <3>2. \A m, r : /\ Waits(r)' <=> Waits(r)
                    /\ Given(m, r)' <=> Given(m, r)
                    /\ Lost(m, r)' <=> Lost(m, r)
      BY <2>1 DEF Waits, Given, Lost
    <3>. QED
      BY <3>1, <3>2, <2>1 DEF DInv, Placed
  <2>. QED
    BY <2>2, <2>3, <2>5 DEF DInv
<1>. QED
  BY <1>5, <1>6
\* A panic gives up what its goroutine still had.
LEMMA PanicDInv ==
  ASSUME DInv, NEW g \in running, Panic(g)
  PROVE  DInv'
<1>1. /\ UNCHANGED <<returned, batches, updated>>
      /\ panics < MaxPanic /\ panics' = panics + 1
      /\ running' = running \ {g}
      /\ dropped' = [dropped EXCEPT ![g.module] = @ \cup Rest(g)]
  BY DEF Panic, Recover
<1>2. /\ g \in [module : Module, batch : Seq(Record), done : 0 .. MaxRecord]
      /\ MaxRecord \in Nat /\ MaxPanic \in Nat /\ returned \in 0 .. MaxRecord
      /\ panics \in 0 .. MaxPanic
      /\ dropped \in [Module -> SUBSET Record]
  BY DispatchAssumption DEF DInv, TypeOK
<1>3. Chunk(g.batch)
  BY DEF DInv, AllChunks
<1>4. Rest(g) \subseteq Record
  <2>1. \A i \in 1 .. Len(g.batch) : g.batch[i] \in Record
    BY <1>2, <1>3, ChunkFacts
  <2>. QED
    BY <2>1, <1>2, <1>3, ChunkFacts DEF Rest
<1>5. TypeOK'
  <2>1. dropped' \in [Module -> SUBSET Record]
    BY <1>1, <1>2, <1>4
  <2>2. panics' \in 0 .. MaxPanic
    BY <1>1, <1>2
  <2>3. running' \subseteq [module : Module, batch : Seq(Record), done : 0 .. MaxRecord]
    BY <1>1 DEF DInv, TypeOK
  <2>. QED
    BY <2>1, <2>2, <2>3, <1>1 DEF DInv, TypeOK
<1>6. AllChunks' /\ Apart'
  BY <1>1, SameBatches
<1>7. Placed'
  <2>1. SUFFICES ASSUME NEW m \in Module, NEW r \in Record
                 PROVE  /\ updated'[m][r] \in {0, 1}
                        /\ r <= returned' <=> \/ Waits(r)' \/ Runs(m, r)'
                                             \/ Given(m, r)' \/ Lost(m, r)'
                        /\ Waits(r)' => ~Runs(m, r)' /\ ~Given(m, r)' /\ ~Lost(m, r)'
                        /\ Runs(m, r)' => ~Given(m, r)' /\ ~Lost(m, r)'
                        /\ Given(m, r)' => ~Lost(m, r)'
    BY DEF Placed
  <2>2. /\ Waits(r)' <=> Waits(r)
        /\ Given(m, r)' <=> Given(m, r)
        /\ updated'[m][r] = updated[m][r]
        /\ returned' = returned
    BY <1>1 DEF Waits, Given
  <2>3. /\ updated[m][r] \in {0, 1}
        /\ r <= returned <=> Waits(r) \/ Runs(m, r) \/ Given(m, r) \/ Lost(m, r)
        /\ Waits(r) => ~Runs(m, r) /\ ~Given(m, r) /\ ~Lost(m, r)
        /\ Runs(m, r) => ~Given(m, r) /\ ~Lost(m, r)
        /\ Given(m, r) => ~Lost(m, r)
    BY PlacedStep DEF DInv
  <2>4. Runs(m, r)' <=> \E h \in running \ {g} : h.module = m /\ r \in Rest(h)
    BY <1>1 DEF Runs, Rest
  <2>5. CASE m = g.module /\ r \in Rest(g)
    <3>1. Runs(m, r)
      BY <2>5 DEF Runs
    <3>2. ~Runs(m, r)'
      BY <2>4, <2>5, OneGoroutine
    <3>3. Lost(m, r)'
      BY <2>5, <1>1, <1>2 DEF Lost
    <3>. QED
      BY <3>1, <3>2, <3>3, <2>2, <2>3
  <2>6. CASE m # g.module \/ r \notin Rest(g)
    <3>1. Runs(m, r)' <=> Runs(m, r)
      BY <2>4, <2>6 DEF Runs
    <3>2. Lost(m, r)' <=> Lost(m, r)
      BY <2>6, <1>1, <1>2 DEF Lost
    <3>. QED
      BY <3>1, <3>2, <2>2, <2>3
  <2>. QED
    BY <2>5, <2>6
<1>. QED
  BY <1>5, <1>6, <1>7 DEF DInv

\* Stuttering steps.
LEMMA StutterDInv == DInv /\ UNCHANGED vars => DInv'
<1>. SUFFICES ASSUME DInv, UNCHANGED vars PROVE DInv'
  OBVIOUS
<1>. USE DEF vars
<1>1. TypeOK'
  BY DEF DInv, TypeOK
<1>2. AllChunks'
  BY DEF DInv, AllChunks, Chunk
<1>3. Apart'
  BY DEF DInv, Apart
<1>4. Placed'
  BY DEF DInv, Placed, Waits, Runs, Given, Lost, Rest
<1>. QED
  BY <1>1, <1>2, <1>3, <1>4 DEF DInv

\* The invariant of the dispatcher: what is on its way is cut into batches
\* that have no record in common, and every record that logRead returned is,
\* for every module, in exactly one of four places (PbLogReader.Start).
THEOREM DispatchInvariant == Spec => []DInv
<1>1. Init => DInv
  BY InitDInv
<1>2. DInv /\ [Next]_vars => DInv'
  BY LogReadDInv, GoDInv, UpdateDInv, PanicDInv, StutterDInv DEF Next
<1>. QED
  BY <1>1, <1>2, PTL DEF Spec

\* The types of the state of the dispatcher: goroutines work on batches of
\* records, and a module is given no record that was not returned.
THEOREM DispatchTypes == Spec => []TypeOK
<1>1. DInv => TypeOK
  BY DEF DInv
<1>. QED
  BY <1>1, DispatchInvariant, PTL

-----------------------------------------------------------------------------
(* The counts *)

\* A finite set has as many elements as one, or as none.
LEMMA OneOrNone ==
  ASSUME NEW S, \A x, y \in S : x = y
  PROVE  Cardinality(S) = Bit(S # {})
<1>1. CASE S = {}
  BY <1>1, FS_EmptySet DEF Bit
<1>2. CASE S # {}
  <2>1. PICK x : x \in S
    BY <1>2
  <2>2. S = {x}
    BY <2>1
  <2>. QED
    BY <1>2, <2>2, FS_Singleton DEF Bit
<1>. QED
  BY <1>1, <1>2

\* For any modules, batch size, records and panics, the cutting into batches
\* and the goroutines lose and repeat nothing (PbLogReader.Start): a record
\* waits in one batch, or is to come in one goroutine of the module, or was
\* given to the module once, or fell to a panic of it.
THEOREM RecordOnce == Spec => []EachRecordOnce
<1>1. DInv => EachRecordOnce
  <2>. SUFFICES ASSUME DInv, NEW m \in Module, NEW r \in 1 .. returned
                PROVE  Cardinality({k \in 1 .. Len(batches) : r \in Range(batches[k])})
                         + Cardinality({g \in running : g.module = m /\ r \in Rest(g)})
                         + updated[m][r]
                         + Bit(r \in dropped[m]) = 1
    BY DEF EachRecordOnce
  <2>1. r \in Record /\ r <= returned
    BY DispatchAssumption DEF DInv, TypeOK, Record
  <2>. DEFINE W == {k \in 1 .. Len(batches) : r \in Range(batches[k])}
              G == {g \in running : g.module = m /\ r \in Rest(g)}
  <2>2. Cardinality(W) = Bit(Waits(r))
    <3>1. \A k, l \in W : k = l
      BY DEF DInv, Apart
    <3>2. W # {} <=> Waits(r)
      BY DEF Waits
    <3>. HIDE DEF W
    <3>3. Cardinality(W) = Bit(W # {})
      BY <3>1, OneOrNone
    <3>. QED
      BY <3>2, <3>3 DEF Bit
  <2>3. Cardinality(G) = Bit(Runs(m, r))
    <3>1. \A g, h \in G : g = h
      BY OneGoroutine
    <3>2. G # {} <=> Runs(m, r)
      BY DEF Runs
    <3>. HIDE DEF G
    <3>3. Cardinality(G) = Bit(G # {})
      BY <3>1, OneOrNone
    <3>. QED
      BY <3>2, <3>3 DEF Bit
  <2>4. /\ updated[m][r] \in {0, 1}
        /\ Waits(r) \/ Runs(m, r) \/ Given(m, r) \/ Lost(m, r)
        /\ Waits(r) => ~Runs(m, r) /\ ~Given(m, r) /\ ~Lost(m, r)
        /\ Runs(m, r) => ~Given(m, r) /\ ~Lost(m, r)
        /\ Given(m, r) => ~Lost(m, r)
    BY <2>1, PlacedStep DEF DInv
  <2>5. updated[m][r] = Bit(Given(m, r)) /\ Bit(r \in dropped[m]) = Bit(Lost(m, r))
    BY <2>4 DEF Given, Lost, Bit
  <2>6. Bit(Waits(r)) + Bit(Runs(m, r)) + Bit(Given(m, r)) + Bit(Lost(m, r)) = 1
    BY <2>4 DEF Bit
  <2>. QED
    BY <2>2, <2>3, <2>5, <2>6
<1>. QED
  BY <1>1, DispatchInvariant, PTL

-----------------------------------------------------------------------------
(* What a panic costs *)

\* What the panics have cost so far, by module and record.
Cost == {p \in Module \X Record : p[2] \in dropped[p[1]]}

\* A goroutine has no more left than the size of a batch.
LEMMA RestIsSmall ==
  ASSUME DInv, NEW g \in running, MaxSizePerBatch > 0
  PROVE  /\ IsFiniteSet({g.module} \X Rest(g))
         /\ Cardinality({g.module} \X Rest(g)) <= MaxSizePerBatch
<1>1. Chunk(g.batch) /\ returned \in 0 .. MaxRecord /\ g.done \in Nat
  BY DispatchAssumption DEF DInv, AllChunks, TypeOK
<1>2. Len(g.batch) \in Nat /\ Len(g.batch) <= MaxSizePerBatch
  BY <1>1, ChunkFacts DEF Chunk
<1>. DEFINE S == g.done + 1 .. Len(g.batch)
            T == {g.module} \X Rest(g)
            f == [i \in S |-> <<g.module, g.batch[i]>>]
<1>3. f \in Surjection(S, T)
  <2>1. T = {<<g.module, g.batch[i]>> : i \in S}
    BY DEF Rest
  <2>2. f \in [S -> T] /\ \A t \in T : \E i \in S : f[i] = t
    BY <2>1
  <2>. HIDE DEF f, S, T
  <2>. QED
    BY <2>2 DEF Surjection
<1>4. IsFiniteSet(S) /\ Cardinality(S) <= MaxSizePerBatch /\ Cardinality(S) \in Nat
  <2>1. PICK a, b : a = g.done + 1 /\ b = Len(g.batch)
    OBVIOUS
  <2>2. a \in Int /\ a > 0 /\ b \in Int /\ b >= 0 /\ b <= MaxSizePerBatch /\ S = a .. b
    BY <2>1, <1>1, <1>2
  <2>. HIDE DEF S
  <2>3. IsFiniteSet(a .. b) /\ Cardinality(a .. b) = IF a > b THEN 0 ELSE b - a + 1
    BY <2>2, FS_Interval
  <2>. QED
    BY <2>2, <2>3, DispatchAssumption
<1>. HIDE DEF S, T, f
<1>5. IsFiniteSet(T) /\ Cardinality(T) <= Cardinality(S)
  BY <1>3, <1>4, FS_Surjection
<1>6. Cardinality(T) \in Nat
  BY <1>5, FS_CardinalityType
<1>. QED
  BY <1>4, <1>5, <1>6, DispatchAssumption DEF T

\* The cost of a panic is the rest of a batch.
Contained ==
  MaxSizePerBatch > 0 => IsFiniteSet(Cost) /\ Cardinality(Cost) <= panics * MaxSizePerBatch

\* For any modules and batch size, n panics cost at most n batches of one
\* module each, and the other modules and batches nothing (the deferred recover
\* of the goroutines of PbLogReader.Start).
THEOREM PanicContained == Spec => []PanicIsContained
<1>1. Init => Contained
  <2>. SUFFICES ASSUME Init PROVE Contained
    OBVIOUS
  <2>1. Cost = {} /\ panics = 0
    BY DEF Init, Cost
  <2>2. 0 * MaxSizePerBatch = 0
    BY DispatchAssumption
  <2>. QED
    BY <2>1, <2>2, FS_EmptySet DEF Contained
<1>2. DInv /\ Contained /\ [Next]_vars => Contained'
  <2>. SUFFICES ASSUME DInv, Contained, [Next]_vars, MaxSizePerBatch > 0
                PROVE  IsFiniteSet(Cost') /\ Cardinality(Cost') <= panics' * MaxSizePerBatch
    BY DEF Contained
  <2>1. IsFiniteSet(Cost) /\ Cardinality(Cost) <= panics * MaxSizePerBatch
    BY DEF Contained
  <2>2. CASE UNCHANGED <<dropped, panics>>
    BY <2>1, <2>2 DEF Cost
  <2>3. ASSUME NEW g \in running, Panic(g)
        PROVE  IsFiniteSet(Cost') /\ Cardinality(Cost') <= panics' * MaxSizePerBatch
    <3>. DEFINE T == {g.module} \X Rest(g)
    <3>1. /\ panics' = panics + 1
          /\ dropped' = [dropped EXCEPT ![g.module] = @ \cup Rest(g)]
      BY <2>3 DEF Panic, Recover
    <3>2. dropped \in [Module -> SUBSET Record] /\ panics \in Nat /\ g.module \in Module
      BY DispatchAssumption DEF DInv, TypeOK
    <3>3. Cost' \subseteq Cost \cup T
      <4>1. SUFFICES ASSUME NEW m \in Module, NEW r \in Record, r \in dropped'[m], r \notin dropped[m]
                     PROVE  m = g.module /\ r \in Rest(g)
        BY DEF Cost
      <4>. QED
        BY <4>1, <3>1, <3>2
    <3>4. IsFiniteSet(T) /\ Cardinality(T) <= MaxSizePerBatch
      BY RestIsSmall
    <3>. HIDE DEF T
    <3>5. IsFiniteSet(Cost \cup T) /\ Cardinality(Cost \cup T) <= Cardinality(Cost) + Cardinality(T)
      <4>1. /\ IsFiniteSet(Cost \cup T)
            /\ Cardinality(Cost \cup T) = Cardinality(Cost) + Cardinality(T) - Cardinality(Cost \cap T)
        BY <2>1, <3>4, FS_Union
      <4>2. Cardinality(Cost \cap T) \in Nat /\ Cardinality(Cost) \in Nat /\ Cardinality(T) \in Nat
        BY <2>1, <3>4, FS_Intersection, FS_CardinalityType
      <4>. QED
        BY <4>1, <4>2
    <3>6. PICK D : D = Cost'
      OBVIOUS
    <3>7. IsFiniteSet(D) /\ Cardinality(D) <= Cardinality(Cost \cup T)
      BY <3>3, <3>5, <3>6, FS_Subset
    <3>8. /\ Cardinality(D) \in Nat /\ Cardinality(Cost) \in Nat /\ Cardinality(T) \in Nat
          /\ Cardinality(Cost \cup T) \in Nat
      BY <3>7, <3>5, <3>4, <2>1, FS_CardinalityType
    <3>9. /\ (panics + 1) * MaxSizePerBatch = panics * MaxSizePerBatch + MaxSizePerBatch
          /\ panics * MaxSizePerBatch \in Int
      BY <3>2, DispatchAssumption, OneMore
    <3>10. Cardinality(D) <= (panics + 1) * MaxSizePerBatch
      BY <3>4, <3>5, <3>7, <3>8, <3>9, <2>1, DispatchAssumption
    <3>. QED
      BY <3>1, <3>6, <3>7, <3>10
  <2>4. ASSUME NEW g \in running, Update(g) PROVE UNCHANGED <<dropped, panics>>
    BY <2>4 DEF Update
  <2>. QED
    BY <2>2, <2>3, <2>4 DEF Next, LogRead, Go, vars
<1>3. Contained => PanicIsContained
  BY DEF Contained, Cost, PanicIsContained
<1>. QED
  BY <1>1, <1>2, <1>3, DispatchInvariant, PTL DEF Spec

\* For any modules, batch size, records and panics, every record that logRead
\* returned is accounted for, for every module (PbLogReader.Start).
THEOREM RecordsSafe == Spec => []RecordsAccountedFor
BY RecordOnce, PanicContained, PTL DEF RecordsAccountedFor
=============================================================================
