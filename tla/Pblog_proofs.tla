---------------------------- MODULE Pblog_proofs ----------------------------
(***************************************************************************)
(* Proofs about bfe-pblog-tool, for every size of the chunks, buffers and  *)
(* channels.                                                               *)
(*                                                                         *)
(* Both commands only ever parse runs: consecutive pieces of one file.     *)
(* RunFrames says what PbBuffParse makes of a run, and the invariants say  *)
(* which run each buffer holds.                                            *)
(***************************************************************************)
EXTENDS PblogTool, SequenceLemmas

-----------------------------------------------------------------------------
(* Numbers *)

\* Halves of a natural number.
LEMMA Halves ==
  ASSUME NEW x \in Nat
  PROVE  /\ x \div 2 \in Nat
         /\ x % 2 = 0 \/ x % 2 = 1
         /\ x % 2 = 0 => x = 2 * (x \div 2)
         /\ x % 2 = 1 => x = 2 * (x \div 2) + 1
<1>1. x \div 2 \in Nat /\ (x % 2 = 0 \/ x % 2 = 1)
  OBVIOUS
<1>2. x % 2 = 1 => \E k \in Int : x = 2 * k + 1
  OBVIOUS
<1>3. x % 2 = 0 => \E k \in Int : x = 2 * k
  OBVIOUS
<1>4. \A k \in Int : (2 * k) \div 2 = k /\ (2 * k + 1) \div 2 = k
  OBVIOUS
<1>. QED
  BY <1>1, <1>2, <1>3, <1>4

\* Odd numbers are those of the form 2 k - 1.
LEMMA Odd ==
  ASSUME NEW k \in Int
  PROVE  /\ (2 * k - 1) % 2 = 1
         /\ (2 * k) % 2 = 0
         /\ (2 * k) \div 2 = k
         /\ (2 * k + 1) \div 2 = k
  OBVIOUS

LEMMA LeastIs ==
  ASSUME NEW a \in Int, NEW b \in Int
  PROVE  Least(a, b) = IF a <= b THEN a ELSE b
<1>. DEFINE m == IF a <= b THEN a ELSE b
<1>1. m \in {a, b} /\ \A y \in {a, b} : m <= y
  OBVIOUS
<1>2. \A x \in {a, b} : (\A y \in {a, b} : x <= y) => x = m
  OBVIOUS
<1>. HIDE DEF m
<1>3. (CHOOSE x \in {a, b} : \A y \in {a, b} : x <= y) = m
  BY <1>1, <1>2
<1>. QED
  BY <1>3 DEF Least, Min, m

LEMMA MaxIs ==
  ASSUME NEW a \in Int, NEW b \in Int
  PROVE  Max({a, b}) = IF a >= b THEN a ELSE b
<1>. DEFINE m == IF a >= b THEN a ELSE b
<1>1. m \in {a, b} /\ \A y \in {a, b} : m >= y
  OBVIOUS
<1>2. \A x \in {a, b} : (\A y \in {a, b} : x >= y) => x = m
  OBVIOUS
<1>. HIDE DEF m
<1>3. (CHOOSE x \in {a, b} : \A y \in {a, b} : x >= y) = m
  BY <1>1, <1>2
<1>. QED
  BY <1>3 DEF Max, m

-----------------------------------------------------------------------------
(* Selections and runs *)

\* The first m values of g, and what is at those positions of s.
Values(g, m) == {g[k] : k \in 1 .. m}
At(s, g, m)  == [k \in 1 .. m |-> s[g[k]]]
Increasing(g, m) == \A i, j \in 1 .. m : i < j => g[i] < g[j]

\* The elements at increasing positions g[1] < g[2] < ... < g[m].
LEMMA SelectAtIncreasing ==
  ASSUME NEW T, NEW s \in Seq(T), NEW m \in Nat, NEW g \in [1 .. m -> 1 .. Len(s)],
         Increasing(g, m)
  PROVE  SelectAt(s, Values(g, m)) = At(s, g, m)
<1>. DEFINE S == {g[k] : k \in 1 .. m}
<1>0. Len(s) \in Nat /\ S \subseteq 1 .. Len(s)
  OBVIOUS
<1>1. \A i, j \in 1 .. m : g[i] \in Int /\ (g[i] <= g[j] <=> i <= j)
  <2>1. TAKE i, j \in 1 .. m
  <2>2. g[i] \in Int /\ g[j] \in Int /\ (i < j => g[i] < g[j]) /\ (j < i => g[j] < g[i])
    BY <1>0 DEF Increasing
  <2>. QED
    BY <2>2
<1>2. ASSUME NEW n1 \in 0 .. m
      PROVE  Cardinality({g[k] : k \in 1 .. n1}) = n1
  <2>. DEFINE D == 1 .. n1
              R == {g[k] : k \in D}
              h == [k \in D |-> g[k]]
  <2>1. IsFiniteSet(D) /\ Cardinality(D) = n1
    <3>1. IsFiniteSet(1 .. n1) /\ Cardinality(1 .. n1) = IF 1 > n1 THEN 0 ELSE n1 - 1 + 1
      BY FS_Interval
    <3>. QED
      BY <3>1
  <2>2. D \subseteq 1 .. m
    OBVIOUS
  <2>3. \A i, j \in D : g[i] = g[j] => i = j
    <3>1. TAKE i, j \in D
    <3>2. i \in 1 .. m /\ j \in 1 .. m /\ g[i] \in Int
      BY <1>1, <2>2
    <3>. QED
      BY <1>1, <3>2
  <2>. HIDE DEF D
  <2>4. h \in [D -> R] /\ \A k \in D : h[k] = g[k]
    OBVIOUS
  <2>5. \A r \in R : \E k \in D : h[k] = r
    OBVIOUS
  <2>. HIDE DEF R, h
  <2>6. h \in Bijection(D, R)
    BY <2>3, <2>4, <2>5 DEF Bijection, Injection, Surjection, IsInjective
  <2>7. ExistsBijection(D, R)
    BY <2>6 DEF ExistsBijection
  <2>8. Cardinality(R) = n1
    BY <2>1, <2>7, FS_Bijection
  <2>. QED
    BY <2>8 DEF R, D
<1>3. Cardinality(S) = m
  BY <1>2
<1>4. ASSUME NEW k \in 1 .. m
      PROVE  Rank(S, g[k]) = k
  <2>1. {j \in S : j <= g[k]} = {g[i] : i \in 1 .. k}
    BY <1>1
  <2>2. k \in 0 .. m
    OBVIOUS
  <2>3. Cardinality({g[i] : i \in 1 .. k}) = k
    BY <1>2, <2>2
  <2>. QED
    BY <2>1, <2>3 DEF Rank
<1>5. ASSUME NEW k \in 1 .. m
      PROVE  (CHOOSE i \in S : Rank(S, i) = k) = g[k]
  <2>1. g[k] \in S /\ Rank(S, g[k]) = k
    BY <1>4
  <2>2. \A i \in S : Rank(S, i) = k => i = g[k]
    BY <1>4
  <2>. QED
    BY <2>1, <2>2
<1>. HIDE DEF S
<1>6. SelectAt(s, S) = [k \in 1 .. m |-> s[CHOOSE i \in S : Rank(S, i) = k]]
  BY <1>3 DEF SelectAt
<1>7. SelectAt(s, S) = [k \in 1 .. m |-> s[g[k]]]
  BY <1>5, <1>6
<1>. QED
  BY <1>7 DEF S, Values, At

\* A run: the pieces of a file between two positions.
IsRun(s, f, a, b) ==
  /\ s \in Seq(Piece) /\ Len(s) = b - a
  /\ \A j \in 1 .. b - a : s[j] = <<f, a + j>>

LEMMA RunTypes ==
  ASSUME NEW f \in File, NEW a \in Nat, NEW b \in Nat, a <= b, b <= MaxPiece
  PROVE  IsRun(Chunk(f, a, b), f, a, b)
<1>1. b - a \in Nat /\ MaxPiece \in Nat
  BY LogAssumption
<1>2. \A j \in 1 .. b - a : <<f, a + j>> \in Piece
  BY <1>1 DEF Piece
<1>3. Chunk(f, a, b) \in [1 .. b - a -> Piece]
  BY <1>2 DEF Chunk
<1>4. Chunk(f, a, b) \in Seq(Piece) /\ Len(Chunk(f, a, b)) = b - a
  BY <1>1, <1>3, SeqDef
<1>. QED
  BY <1>1, <1>4 DEF Chunk, IsRun

\* A run is its chunk.
LEMMA RunIsChunk ==
  ASSUME NEW f \in File, NEW a \in Nat, NEW b \in Nat, a <= b, b <= MaxPiece,
         NEW s, IsRun(s, f, a, b)
  PROVE  s = Chunk(f, a, b)
<1>. DEFINE u == Chunk(f, a, b)
<1>1. IsRun(u, f, a, b)
  BY RunTypes
<1>. HIDE DEF u
<1>2. /\ s \in Seq(Piece) /\ u \in Seq(Piece) /\ Len(s) = Len(u)
      /\ \A i \in 1 .. Len(s) : s[i] = u[i]
  BY <1>1 DEF IsRun
<1>3. s = u
  BY <1>2, SeqEqual
<1>. QED
  BY <1>3 DEF u

\* Two runs of which one begins where the other ends make one run.
LEMMA RunJoin ==
  ASSUME NEW f \in File, NEW a \in Nat, NEW b \in Nat, NEW c \in Nat,
         a <= b, b <= c, c <= MaxPiece
  PROVE  Chunk(f, a, b) \o Chunk(f, b, c) = Chunk(f, a, c)
<1>. DEFINE s == Chunk(f, a, b)
            t == Chunk(f, b, c)
<1>0. MaxPiece \in Nat /\ a <= c /\ b <= MaxPiece
  BY LogAssumption
<1>1. IsRun(s, f, a, b) /\ IsRun(t, f, b, c)
  BY <1>0, RunTypes
<1>. HIDE DEF s, t
<1>2. s \in Seq(Piece) /\ t \in Seq(Piece) /\ Len(s) = b - a /\ Len(t) = c - b
  BY <1>1 DEF IsRun
<1>3. /\ s \o t \in Seq(Piece) /\ Len(s \o t) = Len(s) + Len(t)
      /\ \A i \in 1 .. Len(s) + Len(t) : (s \o t)[i] = IF i <= Len(s) THEN s[i] ELSE t[i - Len(s)]
  BY <1>2, ConcatProperties
<1>4. PICK u : u = s \o t
  OBVIOUS
<1>5. /\ u \in Seq(Piece) /\ Len(u) = Len(s) + Len(t)
      /\ \A i \in 1 .. Len(s) + Len(t) : u[i] = IF i <= Len(s) THEN s[i] ELSE t[i - Len(s)]
  BY <1>3, <1>4
<1>6. Len(u) = c - a
  BY <1>2, <1>5
<1>7. ASSUME NEW i \in 1 .. c - a
      PROVE  u[i] = <<f, a + i>>
  <2>0. i \in 1 .. Len(s) + Len(t) /\ i \in Int
    BY <1>2
  <2>1. CASE i <= Len(s)
    <3>1. u[i] = s[i] /\ i \in 1 .. b - a
      BY <1>2, <1>5, <2>0, <2>1
    <3>. QED
      BY <1>1, <3>1 DEF IsRun
  <2>2. CASE ~(i <= Len(s))
    <3>1. u[i] = t[i - Len(s)] /\ i - Len(s) \in 1 .. c - b /\ b + (i - Len(s)) = a + i
      BY <1>2, <1>5, <2>0, <2>2
    <3>2. t[i - Len(s)] = <<f, b + (i - Len(s))>>
      BY <1>1, <3>1 DEF IsRun
    <3>. QED
      BY <3>1, <3>2
  <2>. QED
    BY <2>1, <2>2
<1>8. IsRun(u, f, a, c)
  BY <1>5, <1>6, <1>7 DEF IsRun
<1>9. u = Chunk(f, a, c)
  BY <1>0, <1>8, RunIsChunk
<1>. QED
  BY <1>4, <1>9 DEF s, t

-----------------------------------------------------------------------------
(* What PbBuffParse makes of a run *)

\* How many frames are complete in the run from a to b, and which they are.
Complete(a, b) == IF a = b THEN 0 ELSE (b \div 2) - ((a + 1) \div 2)
RecordsOf(f, a, b) ==
  [k \in 1 .. Complete(a, b) |-> <<f, 2 * (((a + 1) \div 2) + k) - 1>>]
\* Where what is left of it begins.
RestFrom(a, b) == IF a < b /\ b % 2 = 1 THEN b - 1 ELSE b

LEMMA CompleteIs ==
  ASSUME NEW a \in Nat, NEW b \in Nat, a <= b
  PROVE  /\ (a + 1) \div 2 \in Nat /\ b \div 2 \in Nat
         /\ a <= 2 * ((a + 1) \div 2) /\ 2 * ((a + 1) \div 2) <= a + 1
         /\ 2 * (b \div 2) <= b /\ b <= 2 * (b \div 2) + 1
         /\ Complete(a, b) \in Nat
         /\ a < b => Complete(a, b) = (b \div 2) - ((a + 1) \div 2)
<1>1. /\ (a + 1) \div 2 \in Nat
      /\ a <= 2 * ((a + 1) \div 2) /\ 2 * ((a + 1) \div 2) <= a + 1
  BY Halves, a + 1 \in Nat
<1>2. /\ b \div 2 \in Nat
      /\ 2 * (b \div 2) <= b /\ b <= 2 * (b \div 2) + 1
  BY Halves
<1>. QED
  BY <1>1, <1>2 DEF Complete

\* The frames of a run begin at its odd pieces that have a successor.
LEMMA RunStarts ==
  ASSUME NEW f \in File, NEW a \in Nat, NEW b \in Nat, a <= b, b <= MaxPiece
  PROVE  FrameStarts(Chunk(f, a, b))
           = {2 * (((a + 1) \div 2) + k) - 1 - a : k \in 1 .. Complete(a, b)}
<1>. DEFINE A == (a + 1) \div 2
            H == b \div 2
            m == Complete(a, b)
            G(k) == 2 * (A + k) - 1 - a
<1>1. PICK s : s = Chunk(f, a, b)
  OBVIOUS
<1>2. IsRun(s, f, a, b)
  BY <1>1, RunTypes
<1>3. /\ A \in Nat /\ H \in Nat /\ m \in Nat
      /\ a <= 2 * A /\ 2 * A <= a + 1 /\ 2 * H <= b /\ b <= 2 * H + 1
      /\ a < b => m = H - A
      /\ a = b => m = 0
  BY CompleteIs DEF Complete
<1>. HIDE DEF A, H, m
<1>4. ASSUME NEW i \in 1 .. b - a - 1
      PROVE  /\ s[i] = <<f, a + i>> /\ s[i + 1] = <<f, (a + i) + 1>>
             /\ s[i + 1] = Next1(s[i])
             /\ IsHead(s[i]) <=> (a + i) % 2 = 1
  <2>1. i \in 1 .. b - a /\ i + 1 \in 1 .. b - a
    OBVIOUS
  <2>2. s[i] = <<f, a + i>> /\ s[i + 1] = <<f, a + (i + 1)>>
    BY <1>2, <2>1 DEF IsRun
  <2>3. a + (i + 1) = (a + i) + 1
    OBVIOUS
  <2>4. s[i + 1] = <<f, (a + i) + 1>>
    BY <2>2, <2>3
  <2>. QED
    BY <2>2, <2>4 DEF Next1, IsHead
<1>5. ASSUME NEW i \in FrameStarts(s)
      PROVE  \E k \in 1 .. m : i = G(k)
  <2>1. i \in 1 .. Len(s) - 1 /\ IsHead(s[i])
    BY DEF FrameStarts
  <2>2. i \in 1 .. b - a - 1
    BY <1>2, <2>1 DEF IsRun
  <2>0. a + i \in Nat /\ i \in Int /\ a < b /\ 1 <= i /\ i + 1 <= b - a
    BY <2>2
  <2>3. (a + i) % 2 = 1
    BY <1>4, <2>1, <2>2
  <2>4. PICK h \in Int : a + i = 2 * h + 1
    BY <2>0, <2>3
  <2>5. A <= h /\ h + 1 <= H
    BY <1>3, <2>0, <2>4
  <2>7. h + 1 - A \in 1 .. m
    BY <1>3, <2>0, <2>5
  <2>8. A + (h + 1 - A) = h + 1 /\ i = 2 * (h + 1) - 1 - a
    BY <1>3, <2>0, <2>4
  <2>6. h + 1 - A \in 1 .. m /\ i = G(h + 1 - A)
    BY <2>7, <2>8
  <2>. QED
    BY <2>6
<1>6. ASSUME NEW k \in 1 .. m
      PROVE  G(k) \in FrameStarts(s)
  <2>1. a < b /\ A + k <= H
    BY <1>3
  <2>2. G(k) \in 1 .. b - a - 1
    BY <1>3, <2>1
  <2>3. a + G(k) = 2 * (A + k) - 1 /\ (2 * (A + k) - 1) % 2 = 1
    BY <1>3, Odd, A + k \in Int
  <2>4. G(k) \in 1 .. Len(s) - 1
    BY <1>2, <2>2 DEF IsRun
  <2>. HIDE DEF G
  <2>5. IsHead(s[G(k)]) /\ s[G(k) + 1] = Next1(s[G(k)])
    BY <1>4, <2>2, <2>3
  <2>. QED
    BY <2>4, <2>5 DEF FrameStarts
<1>7. FrameStarts(s) = {G(k) : k \in 1 .. m}
  BY <1>5, <1>6
<1>. QED
  BY <1>1, <1>7 DEF A, m

\* PbBuffParse of a run: its complete records, in their order.
LEMMA RunFrames ==
  ASSUME NEW f \in File, NEW a \in Nat, NEW b \in Nat, a <= b, b <= MaxPiece
  PROVE  FrameSeq(Chunk(f, a, b)) = RecordsOf(f, a, b)
<1>. DEFINE A == (a + 1) \div 2
            m == Complete(a, b)
            g == [k \in 1 .. m |-> 2 * (A + k) - 1 - a]
<1>1. PICK s : s = Chunk(f, a, b)
  OBVIOUS
<1>2. IsRun(s, f, a, b) /\ s \in Seq(Piece) /\ Len(s) = b - a
  BY <1>1, RunTypes DEF IsRun
<1>3. A \in Nat /\ m \in Nat
  BY CompleteIs
<1>4. FrameStarts(s) = {2 * (A + k) - 1 - a : k \in 1 .. m}
  BY <1>1, RunStarts
<1>. HIDE DEF A, m
<1>5. FrameStarts(s) = Values(g, m)
  BY <1>4 DEF Values
<1>6. \A k \in 1 .. m : g[k] \in FrameStarts(s) /\ g[k] = 2 * (A + k) - 1 - a
  BY <1>5 DEF Values
<1>7. \A i \in FrameStarts(s) : i \in 1 .. Len(s) /\ i \in 1 .. b - a
  BY <1>2 DEF FrameStarts
<1>8. Increasing(g, m)
  BY <1>3, <1>6 DEF Increasing
<1>9. g \in [1 .. m -> 1 .. Len(s)]
  BY <1>6, <1>7
<1>10. \A k \in 1 .. m : s[g[k]] = <<f, 2 * (A + k) - 1>>
  <2>. TAKE k \in 1 .. m
  <2>1. g[k] \in 1 .. b - a /\ g[k] = 2 * (A + k) - 1 - a
    BY <1>6, <1>7
  <2>2. a + g[k] = 2 * (A + k) - 1
    BY <1>3, <2>1
  <2>3. s[g[k]] = <<f, a + g[k]>>
    BY <1>2, <2>1 DEF IsRun
  <2>. QED
    BY <2>2, <2>3
<1>. HIDE DEF g
<1>11. SelectAt(s, Values(g, m)) = At(s, g, m)
  BY <1>2, <1>3, <1>8, <1>9, SelectAtIncreasing
<1>12. FrameSeq(s) = [k \in 1 .. m |-> s[g[k]]]
  BY <1>5, <1>11 DEF FrameSeq, At
<1>13. FrameSeq(s) = [k \in 1 .. m |-> <<f, 2 * (A + k) - 1>>]
  BY <1>10, <1>12
<1>. QED
  BY <1>1, <1>13 DEF RecordsOf, A, m

\* What remains of a run is the run from RestFrom on.
LEMMA RunRemainder ==
  ASSUME NEW f \in File, NEW a \in Nat, NEW b \in Nat, a <= b, b <= MaxPiece
  PROVE  /\ RestFrom(a, b) \in Nat /\ a <= RestFrom(a, b) /\ RestFrom(a, b) <= b
         /\ Remainder(Chunk(f, a, b)) = Chunk(f, RestFrom(a, b), b)
         /\ RestFrom(a, b) = b => Remainder(Chunk(f, a, b)) = <<>>
         /\ RestFrom(a, b) # b => Remainder(Chunk(f, a, b)) = << <<f, b>> >>
<1>1. PICK s : s = Chunk(f, a, b)
  OBVIOUS
<1>2. IsRun(s, f, a, b) /\ s \in Seq(Piece) /\ Len(s) = b - a
  BY <1>1, RunTypes DEF IsRun
<1>3. RestFrom(a, b) \in Nat /\ a <= RestFrom(a, b) /\ RestFrom(a, b) <= b
  BY DEF RestFrom
<1>4. Chunk(f, b, b) = <<>>
  <2>1. IsRun(<<>>, f, b, b)
    BY DEF IsRun
  <2>. QED
    BY <2>1, RunIsChunk
<1>5. CASE a = b
  <2>1. s = <<>>
    BY <1>1, <1>4, <1>5
  <2>2. Remainder(s) = <<>> /\ RestFrom(a, b) = b
    BY <2>1, <1>5 DEF Remainder, RestFrom
  <2>. QED
    BY <1>1, <1>3, <1>4, <2>2
<1>6. CASE a < b
  <2>1. s # <<>> /\ b - a \in 1 .. b - a /\ Len(s) = b - a /\ a + (b - a) = b
    BY <1>2, <1>6
  <2>2. s[Len(s)] = <<f, b>>
    <3>1. s[b - a] = <<f, a + (b - a)>>
      BY <1>2, <2>1 DEF IsRun
    <3>. QED
      BY <2>1, <3>1
  <2>3. IsHead(s[Len(s)]) <=> b % 2 = 1
    BY <2>2 DEF IsHead
  <2>4. CASE b % 2 = 1
    <3>1. RestFrom(a, b) = b - 1 /\ b - 1 \in Nat /\ b - (b - 1) = 1 /\ (b - 1) + 1 = b
      BY <1>6, <2>4 DEF RestFrom
    <3>2. Remainder(s) = << <<f, b>> >>
      BY <2>1, <2>2, <2>3, <2>4 DEF Remainder
    <3>3. Chunk(f, b - 1, b) = << <<f, b>> >>
      <4>1. \A j \in 1 .. 1 : j = 1
        OBVIOUS
      <4>2. <<f, b>> \in Piece
        BY LogAssumption, <1>6 DEF Piece
      <4>3. IsRun(<< <<f, b>> >>, f, b - 1, b)
        BY <3>1, <4>1, <4>2 DEF IsRun
      <4>. QED
        BY <3>1, <4>3, RunIsChunk
    <3>. QED
      BY <1>1, <1>3, <3>1, <3>2, <3>3
  <2>5. CASE b % 2 # 1
    <3>1. RestFrom(a, b) = b
      BY <2>5 DEF RestFrom
    <3>2. Remainder(s) = <<>>
      BY <2>3, <2>5 DEF Remainder
    <3>. QED
      BY <1>1, <1>3, <1>4, <3>1, <3>2
  <2>. QED
    BY <2>4, <2>5
<1>. QED
  BY <1>5, <1>6

\* The records of f between a and b are in s.
Covers(s, f, a, b) ==
  \A p \in Nat : p % 2 = 1 /\ a < p /\ p < b => \E k \in 1 .. Len(s) : s[k] = <<f, p>>

\* The records of a run.
LEMMA RunRecords ==
  ASSUME NEW f \in File, NEW a \in Nat, NEW b \in Nat, a <= b, b <= MaxPiece
  PROVE  /\ RecordsOf(f, a, b) \in Seq(Record)
         /\ Len(RecordsOf(f, a, b)) = Complete(a, b)
         /\ \A k \in 1 .. Complete(a, b) :
              RecordsOf(f, a, b)[k] = <<f, 2 * (((a + 1) \div 2) + k) - 1>>
         /\ Covers(RecordsOf(f, a, b), f, a, b)
<1>. DEFINE A == (a + 1) \div 2
            m == Complete(a, b)
<1>1. PICK r : r = RecordsOf(f, a, b)
  OBVIOUS
<1>2. /\ A \in Nat /\ b \div 2 \in Nat /\ m \in Nat
      /\ a <= 2 * A /\ 2 * A <= a + 1 /\ 2 * (b \div 2) <= b /\ b <= 2 * (b \div 2) + 1
      /\ a < b => m = (b \div 2) - A
      /\ a = b => m = 0
  BY CompleteIs DEF Complete
<1>. HIDE DEF A, m
<1>3. r = [k \in 1 .. m |-> <<f, 2 * (A + k) - 1>>]
  BY <1>1 DEF RecordsOf, A, m
<1>4. ASSUME NEW k \in 1 .. m
      PROVE  <<f, 2 * (A + k) - 1>> \in Record
  <2>1. a < b /\ A + k <= b \div 2
    BY <1>2
  <2>2. 2 * (A + k) - 1 \in 1 .. MaxPiece /\ A + k \in Int
    BY <1>2, <2>1, LogAssumption
  <2>3. (2 * (A + k) - 1) % 2 = 1
    BY <2>2, Odd
  <2>. QED
    BY <2>2, <2>3 DEF Record, Piece, IsHead
<1>5. r \in [1 .. m -> Record]
  BY <1>3, <1>4
<1>6. r \in Seq(Record) /\ Len(r) = m
  BY <1>2, <1>5, SeqDef
<1>7. \A k \in 1 .. m : r[k] = <<f, 2 * (A + k) - 1>>
  BY <1>3
<1>8. ASSUME NEW p \in Nat, p % 2 = 1, a < p, p < b
      PROVE  \E k \in 1 .. m : r[k] = <<f, p>>
  <2>1. PICK h \in Int : p = 2 * h + 1
    BY <1>8
  <2>2. h + 1 - A \in 1 .. m
    BY <1>2, <1>8, <2>1
  <2>3. 2 * (A + (h + 1 - A)) - 1 = p
    BY <1>2, <2>1
  <2>. QED
    BY <1>7, <2>2, <2>3
<1>9. Covers(r, f, a, b)
  BY <1>6, <1>8 DEF Covers
<1>. QED
  BY <1>1, <1>6, <1>7, <1>9 DEF A, m

\* PbBuffParse of any buffer returns records and leaves at most a piece.
LEMMA FrameTypes ==
  ASSUME NEW buf \in Seq(Piece)
  PROVE  FrameSeq(buf) \in Seq(Record) /\ Remainder(buf) \in Seq(Piece)
<1>1. FrameStarts(buf) \in SUBSET (1 .. Len(buf))
  BY LenProperties DEF FrameStarts
<1>2. PICK S : S = FrameStarts(buf)
  OBVIOUS
<1>3. PICK r : r = FrameSeq(buf)
  OBVIOUS
<1>4. \A i \in S : buf[i] \in Record
  BY <1>1, <1>2, ElementOfSeq DEF FrameStarts, Record
<1>5. /\ Cardinality(S) \in Nat /\ r \in Seq(Piece) /\ Len(r) = Cardinality(S)
      /\ \A k \in 1 .. Cardinality(S) : \E i \in S : r[k] = buf[i]
  BY <1>1, <1>2, <1>3, SelectAtProperties DEF FrameSeq
<1>6. \A k \in 1 .. Len(r) : r[k] \in Record
  BY <1>4, <1>5
<1>7. r \in [1 .. Len(r) -> Record] /\ Len(r) \in Nat
  <2>1. Len(r) \in Nat /\ r \in [1 .. Len(r) -> Piece]
    BY <1>5, LenProperties
  <2>. QED
    BY <1>6, <2>1
<1>8. r \in Seq(Record)
  BY <1>7, SeqDef
<1>9. Remainder(buf) \in Seq(Piece)
  <2>1. CASE buf # <<>>
    <3>1. Len(buf) \in 1 .. Len(buf)
      BY <2>1, EmptySeq
    <3>2. buf[Len(buf)] \in Piece
      BY <3>1, ElementOfSeq
    <3>. QED
      BY <3>2 DEF Remainder
  <2>2. CASE buf = <<>>
    BY <2>2 DEF Remainder
  <2>. QED
    BY <2>1, <2>2
<1>. QED
  BY <1>3, <1>8, <1>9

-----------------------------------------------------------------------------
(* The invariant *)

\* While a file is read from it is open, and cat stands inside of it.  What the
\* path names, if anything, is the file BFE writes to.
TailPhases ==
  /\ pc \in {"stat", "chunk", "poll", "read", "print"} => fd \in File
  /\ pc \in {"chunk", "emit", "follow"} => inode \in File
  /\ pc # "exit" => n >= 1
CatPhases ==
  /\ reader = "open" => pos = 0
  /\ reader \in {"read", "send"} => LogFd \in File /\ pos <= size[LogFd]

TInv == TypeOK /\ path \in {cur, NoFile} /\ TailPhases /\ CatPhases

\* A sequence of records in the order of the log, all before position p of f.
Ordered(s) == \A i, j \in 1 .. Len(s) : i < j => Earlier(s[i], s[j])
Behind(s, f, p) ==
  /\ Ordered(s)
  /\ \A i \in 1 .. Len(s) : Earlier(s[i], <<f, p>>)

\* The records of f up to position a, where a frame ends.
Whole(s, f, a) ==
  /\ a = 2 * Len(s)
  /\ \A i \in 1 .. Len(s) : s[i] = <<f, 2 * i - 1>>

\* cat: printed is what comes before position a of its file f; from there to
\* marks[0] goes the run that the printer works on, and from each mark to the
\* next a buffer of the channel.  Without a failed read nothing is missing.
Flow(f, a, marks) ==
  /\ reader \in {"read", "send", "done"}
  /\ LogFd = (IF failed THEN NoFile ELSE f)
  /\ failed => reader = "done"
  /\ a <= marks[0]
  /\ \A i \in 0 .. Len(bufChan) : marks[i] <= pos
  /\ \A i \in 1 .. Len(bufChan) :
       marks[i - 1] <= marks[i] /\ bufChan[i] = Chunk(f, marks[i - 1], marks[i])
  /\ IF reader = "send" THEN read = Chunk(f, marks[Len(bufChan)], pos)
     ELSE marks[Len(bufChan)] = pos
  /\ printer \in {"receive", "parse"} => DataBuffer = Chunk(f, a, marks[0])
  /\ printer \in {"append", "assign"} => local = Chunk(f, a, marks[0])
  /\ Behind(printed, f, a)
  /\ ~failed => Whole(printed, f, a)
  /\ ~failed /\ printer \in {"receive", "assign", "done"} => marks[0] <= a + 1
  /\ printer = "done" => reader = "done" /\ bufChan = <<>>
  /\ printer = "crashed" => failed

NotOpen ==
  /\ reader = "open" /\ printer = "receive" /\ bufChan = <<>> /\ DataBuffer = <<>>
  /\ LogFd = NoFile /\ pos = 0 /\ printed = <<>> /\ ~failed
NoLog ==
  /\ reader = "done" /\ printer = "done"
  /\ LogFd = NoFile /\ pos = 0 /\ printed = <<>> /\ ~failed
Flowing ==
  \E f \in File, a \in 0 .. MaxPiece :
    \E marks \in [0 .. Len(bufChan) -> 0 .. MaxPiece] : Flow(f, a, marks)

CInv == NotOpen \/ NoLog \/ Flowing

\* What tail -n prints of a file of the given size.
LastOf(f, end) ==
  LET all  == end \div 2
      kept == Least(n, all)
  IN  [k \in 1 .. kept |-> <<f, 2 * (all - kept + k) - 1>>]

\* tailLastN: as long as the first chunk takes the whole file, its records are
\* parsed at once.
LastN ==
  /\ pc \in {"open", "stat", "chunk"} => out = <<>>
  /\ pc \in {"open", "stat"} =>
       parsedRecords = <<>> /\ remainder = <<>> /\ buffer = <<>> /\ chunkSize = initialChunk
  /\ pc = "chunk" => fd = inode
  /\ pc = "chunk" /\ base <= initialChunk =>
       \/ /\ offset = base /\ parsedRecords = <<>> /\ remainder = <<>> /\ buffer = <<>>
          /\ chunkSize = initialChunk
       \/ offset = 0 /\ parsedRecords = RecordsOf(inode, 0, base)
  /\ pc = "emit" /\ base <= initialChunk => out \o parsedRecords = LastOf(inode, base)

\* followFrom: the records between base and offset of the open file are
\* printed or parsed, and the incomplete frame is kept.
Passed ==
  /\ pc \in {"emit", "follow", "reopen"} => remainder = <<>>
  /\ pc \in {"follow", "reopen", "poll", "read"} => parsedRecords = <<>>
  /\ pc = "reopen" => base = 0 /\ offset = 0
  /\ pc \in {"poll", "read", "print"} =>
       /\ base <= offset
       /\ remainder = (IF RestFrom(base, offset) = offset THEN <<>> ELSE << <<fd, offset>> >>)
       /\ \A r \in Record :
            r[1] = fd /\ base < r[2] /\ r[2] < offset
              => \E i \in 1 .. Len(out \o parsedRecords) : (out \o parsedRecords)[i] = r

\* What is printed is in order and behind the place that is read next.
InOrder ==
  /\ pc = "stat" => fd <= cur
  /\ pc \in {"chunk", "emit", "follow"} => base <= size[inode] /\ inode <= cur
  /\ MaxPiece <= initialChunk /\ ~raced =>
       /\ Ordered(out)
       /\ pc \in {"emit", "follow"} => Behind(out \o parsedRecords, inode, base)
       /\ pc \in {"poll", "reopen", "read", "print"} =>
            /\ inode \in File /\ inode <= cur /\ offset <= size[inode]
            /\ Behind(out \o parsedRecords, inode, RestFrom(base, offset))
       /\ pc = "poll" => inode <= fd /\ fd <= cur
       /\ pc \in {"read", "print"} => fd = inode

Inv == TInv /\ CInv /\ LastN /\ Passed /\ InOrder

-----------------------------------------------------------------------------
(* Order *)

LEMMA EarlierTrans ==
  ASSUME NEW r, NEW s, NEW t,
         r[1] \in Int, r[2] \in Int, s[1] \in Int, s[2] \in Int, t[1] \in Int, t[2] \in Int,
         Earlier(r, s), Earlier(s, t)
  PROVE  Earlier(r, t)
  BY DEF Earlier

\* A record is a pair of numbers.
LEMMA RecordParts ==
  ASSUME NEW r \in Record
  PROVE  /\ r[1] \in File /\ r[1] \in Int /\ r[2] \in Nat /\ r[2] % 2 = 1
         /\ r[2] \in 1 .. MaxPiece /\ r = <<r[1], r[2]>>
  BY LogAssumption DEF Record, Piece, File, IsHead

\* The records of a run lie between its ends, and before what remains of it.
LEMMA RunBetween ==
  ASSUME NEW f \in File, NEW a \in Nat, NEW b \in Nat, a <= b, b <= MaxPiece,
         NEW k \in 1 .. Complete(a, b)
  PROVE  /\ RecordsOf(f, a, b)[k][1] = f
         /\ RecordsOf(f, a, b)[k][2] = 2 * (((a + 1) \div 2) + k) - 1
         /\ RecordsOf(f, a, b)[k][2] \in Int
         /\ a < RecordsOf(f, a, b)[k][2]
         /\ RecordsOf(f, a, b)[k][2] < RestFrom(a, b)
<1>. DEFINE A == (a + 1) \div 2
            H == b \div 2
<1>1. PICK p : p = 2 * (A + k) - 1
  OBVIOUS
<1>2. RecordsOf(f, a, b)[k] = <<f, p>>
  BY <1>1, RunRecords
<1>3. /\ A \in Nat /\ H \in Nat /\ Complete(a, b) \in Nat
      /\ a <= 2 * A /\ 2 * A <= a + 1 /\ 2 * H <= b /\ b <= 2 * H + 1
      /\ a < b => Complete(a, b) = H - A
      /\ a = b => Complete(a, b) = 0
  BY CompleteIs DEF Complete
<1>4. b % 2 = 1 => b = 2 * H + 1
  BY Halves
<1>. HIDE DEF A, H
<1>5. a < b /\ A + k <= H
  BY <1>3
<1>6. p \in Int /\ a < p /\ p < RestFrom(a, b)
  BY <1>1, <1>3, <1>4, <1>5 DEF RestFrom
<1>. QED
  BY <1>1, <1>2, <1>6 DEF A

\* What PbBuffParse cuts off a run comes behind all that is before the run.
LEMMA AppendInOrder ==
  ASSUME NEW f \in File, NEW a \in Nat, NEW b \in Nat, a <= b, b <= MaxPiece,
         NEW s \in Seq(Record), Behind(s, f, a)
  PROVE  Behind(s \o RecordsOf(f, a, b), f, RestFrom(a, b))
<1>. DEFINE m == Complete(a, b)
<1>1. PICK r : r = RecordsOf(f, a, b)
  OBVIOUS
<1>2. r \in Seq(Record) /\ Len(r) = m
  BY <1>1, RunRecords
<1>3. m \in Nat /\ Len(s) \in Nat
  BY CompleteIs, LenProperties
<1>4. PICK u : u = s \o r
  OBVIOUS
<1>5. /\ Len(u) = Len(s) + m
      /\ \A i \in 1 .. Len(s) + m : u[i] = IF i <= Len(s) THEN s[i] ELSE r[i - Len(s)]
  BY <1>2, <1>4, ConcatProperties
<1>6. RestFrom(a, b) \in Int /\ a <= RestFrom(a, b)
  BY DEF RestFrom
<1>7. ASSUME NEW k \in 1 .. m
      PROVE  /\ r[k][1] = f /\ r[k][2] \in Int /\ a < r[k][2] /\ r[k][2] < RestFrom(a, b)
             /\ r[k][2] = 2 * (((a + 1) \div 2) + k) - 1
  BY <1>1, RunBetween
<1>8. f \in Int
  BY DEF File
<1>9. ASSUME NEW i \in 1 .. Len(s)
      PROVE  s[i][1] \in Int /\ s[i][2] \in Int /\ Earlier(s[i], <<f, a>>)
  <2>1. s[i] \in Record
    BY ElementOfSeq
  <2>2. s[i][1] \in Int /\ s[i][2] \in Nat
    BY <2>1, RecordParts
  <2>3. Earlier(s[i], <<f, a>>)
    BY DEF Behind
  <2>. QED
    BY <2>2, <2>3
<1>10. ASSUME NEW i \in 1 .. Len(u)
       PROVE  Earlier(u[i], <<f, RestFrom(a, b)>>)
  <2>0. i \in 1 .. Len(s) + m
    BY <1>5
  <2>1. CASE i <= Len(s)
    <3>1. u[i] = s[i] /\ i \in 1 .. Len(s)
      BY <1>3, <1>5, <2>0, <2>1
    <3>. QED
      BY <1>6, <1>8, <1>9, <3>1 DEF Earlier
  <2>2. CASE ~(i <= Len(s))
    <3>1. u[i] = r[i - Len(s)] /\ i - Len(s) \in 1 .. m
      BY <1>3, <1>5, <2>0, <2>2
    <3>. QED
      BY <1>7, <3>1 DEF Earlier
  <2>. QED
    BY <2>1, <2>2
<1>11. ASSUME NEW i \in 1 .. Len(u), NEW j \in 1 .. Len(u), i < j
       PROVE  Earlier(u[i], u[j])
  <2>0. i \in 1 .. Len(s) + m /\ j \in 1 .. Len(s) + m
    BY <1>5
  <2>1. CASE j <= Len(s)
    <3>1. u[i] = s[i] /\ i \in 1 .. Len(s) /\ u[j] = s[j] /\ j \in 1 .. Len(s)
      BY <1>3, <1>5, <1>11, <2>0, <2>1
    <3>. QED
      BY <1>11, <3>1 DEF Behind, Ordered
  <2>2. CASE i <= Len(s) /\ ~(j <= Len(s))
    <3>1. /\ u[i] = s[i] /\ i \in 1 .. Len(s)
          /\ u[j] = r[j - Len(s)] /\ j - Len(s) \in 1 .. m
      BY <1>3, <1>5, <2>0, <2>2
    <3>2. u[j][1] = f /\ u[j][2] \in Int /\ a < u[j][2]
      BY <1>7, <3>1
    <3>3. u[i][1] \in Int /\ u[i][2] \in Int /\ Earlier(u[i], <<f, a>>)
      BY <1>9, <3>1
    <3>. QED
      BY <1>8, <3>2, <3>3 DEF Earlier
  <2>3. CASE ~(i <= Len(s)) /\ ~(j <= Len(s))
    <3>1. /\ u[i] = r[i - Len(s)] /\ i - Len(s) \in 1 .. m
          /\ u[j] = r[j - Len(s)] /\ j - Len(s) \in 1 .. m
          /\ i - Len(s) < j - Len(s)
      BY <1>3, <1>5, <1>11, <2>0, <2>3
    <3>2. (a + 1) \div 2 \in Int
      BY CompleteIs
    <3>3. /\ u[i][1] = f /\ u[i][2] = 2 * (((a + 1) \div 2) + (i - Len(s))) - 1
          /\ u[j][1] = f /\ u[j][2] = 2 * (((a + 1) \div 2) + (j - Len(s))) - 1
      BY <1>7, <3>1
    <3>4. u[i][2] < u[j][2]
      BY <3>1, <3>2, <3>3, SMTT(20)
    <3>. QED
      BY <3>3, <3>4 DEF Earlier
  <2>. QED
    BY <1>3, <1>11, <2>0, <2>1, <2>2, <2>3
<1>12. Behind(u, f, RestFrom(a, b))
  BY <1>10, <1>11 DEF Behind, Ordered
<1>. QED
  BY <1>1, <1>4, <1>12

\* If all up to the run was cut off, all up to what remains of the run is.
LEMMA AppendWhole ==
  ASSUME NEW f \in File, NEW a \in Nat, NEW b \in Nat, a <= b, b <= MaxPiece,
         NEW s \in Seq(Record), Whole(s, f, a)
  PROVE  /\ Whole(s \o RecordsOf(f, a, b), f, RestFrom(a, b))
         /\ b <= RestFrom(a, b) + 1
<1>. DEFINE m == Complete(a, b)
            A == (a + 1) \div 2
            H == b \div 2
<1>1. PICK r : r = RecordsOf(f, a, b)
  OBVIOUS
<1>2. r \in Seq(Record) /\ Len(r) = m /\ \A k \in 1 .. m : r[k] = <<f, 2 * (A + k) - 1>>
  BY <1>1, RunRecords
<1>3. Len(s) \in Nat /\ a = 2 * Len(s)
  BY LenProperties DEF Whole
<1>4. /\ A = Len(s) /\ H \in Nat /\ m \in Nat
      /\ a < b => m = H - A
      /\ a = b => m = 0
      /\ b % 2 = 0 \/ b % 2 = 1
      /\ b % 2 = 0 => b = 2 * H
      /\ b % 2 = 1 => b = 2 * H + 1
  <2>1. (a + 1) \div 2 = Len(s)
    BY <1>3, Odd
  <2>2. H \in Nat /\ m \in Nat /\ (a < b => m = H - A)
    BY CompleteIs
  <2>3. a = b => m = 0
    BY DEF Complete
  <2>4. /\ b % 2 = 0 \/ b % 2 = 1
        /\ b % 2 = 0 => b = 2 * H
        /\ b % 2 = 1 => b = 2 * H + 1
    BY Halves
  <2>. QED
    BY <2>1, <2>2, <2>3, <2>4
<1>. HIDE DEF m, A, H
<1>5. RestFrom(a, b) = 2 * (Len(s) + m) /\ b <= RestFrom(a, b) + 1
  BY <1>3, <1>4 DEF RestFrom
<1>6. PICK u : u = s \o r
  OBVIOUS
<1>7. /\ Len(u) = Len(s) + m
      /\ \A i \in 1 .. Len(s) + m : u[i] = IF i <= Len(s) THEN s[i] ELSE r[i - Len(s)]
  BY <1>2, <1>6, ConcatProperties
<1>8. ASSUME NEW i \in 1 .. Len(u)
      PROVE  u[i] = <<f, 2 * i - 1>>
  <2>0. i \in 1 .. Len(s) + m
    BY <1>7
  <2>1. CASE i <= Len(s)
    <3>1. u[i] = s[i] /\ i \in 1 .. Len(s)
      BY <1>3, <1>4, <1>7, <2>0, <2>1
    <3>. QED
      BY <3>1 DEF Whole
  <2>2. CASE ~(i <= Len(s))
    <3>1. u[i] = r[i - Len(s)] /\ i - Len(s) \in 1 .. m
      BY <1>3, <1>4, <1>7, <2>0, <2>2
    <3>2. u[i] = <<f, 2 * (A + (i - Len(s))) - 1>> /\ A + (i - Len(s)) = i
      BY <1>2, <1>3, <1>4, <3>1, SMTT(20)
    <3>. QED
      BY <3>2
  <2>. QED
    BY <2>1, <2>2
<1>9. Whole(u, f, RestFrom(a, b))
  BY <1>5, <1>7, <1>8 DEF Whole
<1>. QED
  BY <1>1, <1>5, <1>6, <1>9

-----------------------------------------------------------------------------
(* Types *)

CatTypeOK ==
  /\ reader \in {"open", "read", "send", "done"}
  /\ printer \in {"receive", "append", "parse", "assign", "done", "crashed"}
  /\ LogFd \in File \cup {NoFile} /\ pos \in 0 .. MaxPiece
  /\ {read, DataBuffer, local} \subseteq Seq(Piece)
  /\ bufChan \in Seq(Seq(Piece)) /\ Len(bufChan) <= ChanCap
  /\ printed \in Seq(Record) /\ failed \in BOOLEAN

LEMMA TInvParts ==
  /\ TInv <=> /\ LogTypeOK /\ path \in {cur, NoFile}
              /\ TailTypeOK /\ TailPhases /\ cmd \in {"tail", "cat"}
              /\ CatTypeOK /\ CatPhases
  /\ TInv' <=> /\ LogTypeOK' /\ path' \in {cur', NoFile}
               /\ TailTypeOK' /\ TailPhases' /\ cmd' \in {"tail", "cat"}
               /\ CatTypeOK' /\ CatPhases'
  BY DEF TInv, TypeOK, CatTypeOK

\* -n is at least one and at most MaxTailRecords.
LEMMA ValidatedIs ==
  ASSUME NEW k \in Int, k >= 0
  PROVE  Validated(k) \in 1 .. MaxTailRecords
<1>1. /\ defaultTailN \in 1 .. MaxTailRecords /\ MaxTailRecords \in Nat \ {0}
  BY TailAssumption
<1>2. Least(k, MaxTailRecords) = IF k <= MaxTailRecords THEN k ELSE MaxTailRecords
  BY <1>1, LeastIs
<1>. QED
  BY <1>1, <1>2 DEF Validated

LEMMA InitTypes == Init => TInv
<1>. SUFFICES ASSUME Init PROVE TInv
  OBVIOUS
<1>0. MaxFile \in Nat \ {0} /\ MaxPiece \in Nat /\ initialChunk \in 1 .. maxChunk
      /\ maxChunk \in Nat /\ MaxTailRecords \in Nat /\ ChanCap \in Nat \ {0}
  BY LogAssumption, TailAssumption, CatAssumption
<1>1. LogTypeOK /\ path \in {cur, NoFile}
  BY <1>0 DEF Init, LogInit, LogTypeOK, File
<1>2. TailTypeOK /\ TailPhases
  <2>1. PICK k \in Asked : IF k < 0 THEN pc = "exit" /\ n = 0
                           ELSE pc = "open" /\ n = Validated(k)
    BY DEF Init, TailInit
  <2>2. k \in Int
    BY TailAssumption
  <2>3. ~(k < 0) => Validated(k) \in 1 .. MaxTailRecords
    BY <2>2, ValidatedIs
  <2>4. n \in 0 .. MaxTailRecords /\ pc \in {"open", "exit"} /\ (pc # "exit" => n >= 1)
    BY <1>0, <2>1, <2>3
  <2>5. /\ fd = NoFile /\ inode = NoFile /\ offset = 0 /\ toRead = 0 /\ base = 0
        /\ chunkSize = initialChunk
        /\ buffer = <<>> /\ remainder = <<>> /\ parsedRecords = <<>> /\ out = <<>>
        /\ canceled = FALSE /\ raced = FALSE
    BY DEF Init, TailInit
  <2>6. <<>> \in Seq(Piece) /\ <<>> \in Seq(Record) /\ 0 \in 0 .. MaxPiece
    BY <1>0
  <2>7. TailTypeOK
    BY <1>0, <2>4, <2>5, <2>6 DEF TailTypeOK
  <2>. QED
    BY <2>4, <2>7 DEF TailPhases
<1>3. CatTypeOK /\ CatPhases
  <2>1. /\ reader = "open" /\ printer = "receive" /\ LogFd = NoFile /\ pos = 0
        /\ read = <<>> /\ bufChan = <<>> /\ DataBuffer = <<>> /\ local = <<>>
        /\ printed = <<>> /\ failed = FALSE
    BY DEF Init, CatInit
  <2>2. /\ <<>> \in Seq(Piece) /\ <<>> \in Seq(Record) /\ <<>> \in Seq(Seq(Piece))
        /\ Len(<<>>) = 0 /\ 0 \in 0 .. MaxPiece
    BY <1>0
  <2>3. Len(bufChan) = 0 /\ 0 <= ChanCap /\ bufChan \in Seq(Seq(Piece))
    BY <1>0, <2>1, <2>2
  <2>4. {read, DataBuffer, local} \subseteq Seq(Piece) /\ printed \in Seq(Record)
    BY <2>1, <2>2
  <2>5. CatTypeOK
    BY <2>1, <2>2, <2>3, <2>4 DEF CatTypeOK
  <2>. QED
    BY <2>1, <2>5 DEF CatPhases
<1>. QED
  BY <1>1, <1>2, <1>3, TInvParts DEF Init

\* BFE's files only grow, and it moves on to the next one only.
LEMMA BfeStep ==
  ASSUME TInv, Write \/ Rename \/ Create
  PROVE  /\ LogTypeOK' /\ path' \in {cur', NoFile}
         /\ cur' \in Int /\ cur <= cur'
         /\ \A f \in File : size[f] \in Nat /\ size'[f] \in Nat /\ size[f] <= size'[f]
<1>0. LogTypeOK /\ path \in {cur, NoFile} /\ MaxFile \in Nat \ {0} /\ MaxPiece \in Nat
  BY LogAssumption, TInvParts
<1>1. CASE Write
  BY <1>0, <1>1 DEF Write, LogTypeOK, File
<1>2. CASE Rename
  BY <1>0, <1>2 DEF Rename, LogTypeOK, File
<1>3. CASE Create
  BY <1>0, <1>3 DEF Create, LogTypeOK, File
<1>. QED
  BY <1>1, <1>2, <1>3

\* One io.ReadFull of followFrom takes no more than is asked for and no more
\* than there is.
Got == Least(Least(toRead, MAX_BUFF_SIZE), Max({size[fd] - offset, 0}))

LEMMA GotIs ==
  ASSUME TInv, pc = "read"
  PROVE  /\ Got \in Nat /\ Got <= toRead /\ toRead - Got \in 0 .. MaxPiece
         /\ fd \in File /\ size[fd] \in 0 .. MaxPiece
         /\ Got > 0 => offset + Got <= size[fd]
         /\ offset + Got \in 0 .. MaxPiece
<1>1. /\ fd \in File /\ size[fd] \in 0 .. MaxPiece /\ MaxPiece \in Nat
      /\ offset \in 0 .. MaxPiece /\ toRead \in 0 .. MaxPiece /\ MAX_BUFF_SIZE \in Nat
  BY TInvParts, LogAssumption, TailAssumption DEF TailPhases, TailTypeOK, LogTypeOK
<1>. DEFINE x == size[fd] - offset
<1>2. x \in Int
  BY <1>1
<1>. HIDE DEF x
<1>3. Max({x, 0}) = IF x >= 0 THEN x ELSE 0
  BY <1>2, MaxIs
<1>4. Least(toRead, MAX_BUFF_SIZE) = IF toRead <= MAX_BUFF_SIZE THEN toRead ELSE MAX_BUFF_SIZE
  BY <1>1, LeastIs
<1>5. Max({x, 0}) \in Nat /\ Least(toRead, MAX_BUFF_SIZE) \in Nat
      /\ Least(toRead, MAX_BUFF_SIZE) <= toRead
  BY <1>1, <1>2, <1>3, <1>4
<1>. DEFINE y == Max({x, 0})
            z == Least(toRead, MAX_BUFF_SIZE)
<1>. HIDE DEF y, z
<1>6. Least(z, y) = IF z <= y THEN z ELSE y
  BY <1>5, LeastIs DEF y, z
<1>7. Got = IF z <= y THEN z ELSE y
  BY <1>6 DEF Got, x, y, z
<1>8. /\ y = IF x >= 0 THEN x ELSE 0
      /\ z \in Nat /\ z <= toRead
  BY <1>3, <1>5 DEF y, z
<1>. QED
  BY <1>1, <1>7, <1>8 DEF x

\* The last records of a sequence are some of its records.
LEMMA KeepLastIs ==
  ASSUME NEW s \in Seq(Record), n \in Nat
  PROVE  /\ KeepLast(s) \in Seq(Record)
         /\ Len(KeepLast(s)) = Least(n, Len(s))
         /\ Least(n, Len(s)) \in Nat /\ Least(n, Len(s)) <= Len(s)
         /\ \A k \in 1 .. Least(n, Len(s)) :
              KeepLast(s)[k] = s[Len(s) - Least(n, Len(s)) + k]
<1>1. Len(s) \in Nat
  BY LenProperties
<1>2. Least(n, Len(s)) = IF n <= Len(s) THEN n ELSE Len(s)
  BY <1>1, LeastIs
<1>. DEFINE kept == Least(n, Len(s))
<1>3. kept \in Nat /\ kept <= Len(s)
  BY <1>1, <1>2
<1>. HIDE DEF kept
<1>4. PICK lo : lo = Len(s) - kept + 1
  OBVIOUS
<1>5. lo \in Int /\ 1 <= lo /\ lo <= Len(s) + 1
  BY <1>1, <1>3, <1>4
<1>6. PICK t : t = SubSeq(s, lo, Len(s))
  OBVIOUS
<1>7. /\ t \in Seq(Record)
      /\ Len(t) = IF lo <= Len(s) THEN Len(s) - lo + 1 ELSE 0
      /\ \A k \in 1 .. Len(s) - lo + 1 : t[k] = s[lo + k - 1]
  BY <1>1, <1>5, <1>6, SubSeqProperties
<1>8. Len(t) = kept
  BY <1>1, <1>3, <1>4, <1>7
<1>9. \A k \in 1 .. kept : t[k] = s[Len(s) - kept + k]
  <2>1. TAKE k \in 1 .. kept
  <2>2. k \in 1 .. Len(s) - lo + 1 /\ lo + k - 1 = Len(s) - kept + k
    BY <1>1, <1>3, <1>4
  <2>3. t[k] = s[lo + k - 1]
    BY <1>7, <2>2
  <2>. QED
    BY <2>2, <2>3
<1>10. KeepLast(s) = t
  BY <1>4, <1>6 DEF KeepLast, kept
<1>. QED
  BY <1>3, <1>7, <1>8, <1>9, <1>10 DEF kept

\* The tail command keeps the types of its variables.
LEMMA TailTypes ==
  ASSUME TInv, TailStep \/ Interrupt, UNCHANGED bfeVars
  PROVE  TailTypeOK' /\ TailPhases'
<1>0. /\ LogTypeOK /\ path \in {cur, NoFile} /\ TailTypeOK /\ TailPhases
      /\ MaxPiece \in Nat /\ MaxTailRecords \in Nat
      /\ initialChunk \in 1 .. maxChunk /\ maxChunk \in Nat
  BY LogAssumption, TailAssumption, TInvParts
<1>1. /\ path \in File \cup {NoFile}
      /\ \A f \in File : size[f] \in 0 .. MaxPiece
      /\ path # NoFile => path \in File
  BY <1>0 DEF LogTypeOK
<1>2. CASE TailOpen
  BY <1>0, <1>1, <1>2 DEF TailOpen, TailTypeOK, TailPhases, chunkVars
<1>3. CASE TailStat
  BY <1>0, <1>1, <1>3 DEF TailStat, TailTypeOK, TailPhases, chunkVars
<1>4. CASE ReadChunk
  <2>. DEFINE len == Least(chunkSize, offset)
              all == Join(Chunk(fd, offset - len, offset))
  <2>1. /\ fd \in File /\ offset \in 0 .. MaxPiece /\ offset > 0
        /\ chunkSize \in 1 .. maxChunk
        /\ buffer \in Seq(Piece) /\ remainder \in Seq(Piece) /\ parsedRecords \in Seq(Record)
    BY <1>0, <1>4 DEF ReadChunk, MoreChunks, TailTypeOK, TailPhases
  <2>2. len = IF chunkSize <= offset THEN chunkSize ELSE offset
    BY <1>0, <2>1, LeastIs
  <2>3. /\ len \in Nat /\ len > 0 /\ len <= chunkSize
        /\ offset - len \in 0 .. MaxPiece /\ offset - len <= offset /\ offset <= MaxPiece
    BY <1>0, <2>1, <2>2
  <2>. HIDE DEF len
  <2>4. Least(2 * len, maxChunk) \in 1 .. maxChunk
    <3>1. Least(2 * len, maxChunk) = IF 2 * len <= maxChunk THEN 2 * len ELSE maxChunk
      BY <1>0, <2>3, LeastIs
    <3>. QED
      BY <1>0, <2>3, <3>1
  <2>5. Chunk(fd, offset - len, offset) \in Seq(Piece)
    BY <2>1, <2>3, RunTypes DEF IsRun
  <2>6. all \in Seq(Piece)
    BY <2>1, <2>5, ConcatProperties DEF Join
  <2>7. /\ offset' = offset - len /\ buffer' = all
        /\ parsedRecords' = parsedRecords \o FrameSeq(all)
        /\ remainder' = Remainder(all) /\ chunkSize' = Least(2 * len, maxChunk)
        /\ UNCHANGED <<pc, n, fd, inode, toRead, canceled, out, base, raced>>
    BY <1>4 DEF ReadChunk, len
  <2>. HIDE DEF all
  <2>8. FrameSeq(all) \in Seq(Record) /\ Remainder(all) \in Seq(Piece)
    BY <2>6, FrameTypes
  <2>9. parsedRecords' \in Seq(Record)
    BY <2>1, <2>7, <2>8, ConcatProperties
  <2>10. TailTypeOK'
    BY <1>0, <2>3, <2>4, <2>6, <2>7, <2>8, <2>9 DEF TailTypeOK
  <2>. QED
    BY <1>0, <2>7, <2>10 DEF TailPhases
<1>5. CASE ChunksRead
  <2>1. n \in Nat /\ parsedRecords \in Seq(Record)
    BY <1>0 DEF TailTypeOK
  <2>2. KeepLast(parsedRecords) \in Seq(Record)
    BY <2>1, KeepLastIs
  <2>3. <<>> \in Seq(Piece)
    OBVIOUS
  <2>. QED
    BY <1>0, <1>5, <2>2, <2>3 DEF ChunksRead, TailTypeOK, TailPhases
<1>6. CASE Emit
  <2>1. CASE canceled
    BY <1>0, <1>6, <2>1 DEF Emit, TailTypeOK, TailPhases, chunkVars
  <2>2. CASE ~canceled
    <3>1. /\ out' = Append(out, Head(parsedRecords)) /\ parsedRecords' = Tail(parsedRecords)
          /\ UNCHANGED <<pc, n, fd, inode, offset, chunkSize, buffer, remainder, toRead,
                         canceled, base, raced>>
      BY <1>6, <2>2 DEF Emit, chunkVars
    <3>2. out' \in Seq(Record) /\ parsedRecords' \in Seq(Record)
      <4>1. out \in Seq(Record) /\ parsedRecords \in Seq(Record) /\ parsedRecords # <<>>
        BY <1>0, <1>6 DEF Emit, TailTypeOK
      <4>. QED
        BY <3>1, <4>1, TakeHead
    <3>. QED
      BY <1>0, <3>1, <3>2 DEF TailTypeOK, TailPhases
  <2>. QED
    BY <2>1, <2>2
<1>7. CASE TailDone
  BY <1>0, <1>7 DEF TailDone, TailTypeOK, TailPhases, chunkVars
<1>8. CASE FollowOpen
  BY <1>0, <1>1, <1>8 DEF FollowOpen, StartOffset, TailTypeOK, TailPhases, chunkVars
<1>9. CASE PollRotated
  <2>1. RemainderReset \in Seq(Piece) /\ size[path] \in 0 .. MaxPiece /\ path \in File
    BY <1>1, <1>9 DEF PollRotated, RemainderReset
  <2>. QED
    BY <1>0, <1>9, <2>1 DEF PollRotated, TailTypeOK, TailPhases, chunkVars
<1>10. CASE Reopen
  <2>1. pc' \in {"exit", "read", "poll"} /\ (pc' # "exit" => path # NoFile)
    BY <1>10 DEF Reopen
  <2>2. raced' \in BOOLEAN
    BY <1>0, <1>10 DEF Reopen, TailTypeOK
  <2>3. /\ fd' = path /\ pc # "exit"
        /\ UNCHANGED <<n, inode, offset, chunkSize, buffer, remainder, parsedRecords,
                       toRead, canceled, out, base>>
    BY <1>10 DEF Reopen, chunkVars
  <2>. QED
    BY <1>0, <1>1, <2>1, <2>2, <2>3 DEF TailTypeOK, TailPhases
<1>11. CASE PollGrown
  <2>1. /\ path \in File /\ toRead' = size[path] - offset /\ size[path] > offset
        /\ offset \in 0 .. MaxPiece
    BY <1>0, <1>1, <1>11 DEF PollGrown, Grown, TailTypeOK
  <2>2. toRead' \in 0 .. MaxPiece
    BY <1>0, <1>1, <2>1
  <2>. QED
    BY <1>0, <1>11, <2>2 DEF PollGrown, TailTypeOK, TailPhases, chunkVars
<1>12. CASE FollowRead
  <2>. DEFINE buf == WithRemainder(Chunk(fd, offset, offset + Got))
  <2>1. CASE Got = 0
    BY <1>0, <1>12, <2>1 DEF FollowRead, Got, TailTypeOK, TailPhases, chunkVars
  <2>2. CASE Got # 0
    <3>1. /\ offset' = offset + Got /\ toRead' = toRead - Got
          /\ parsedRecords' = FrameSeq(buf) /\ remainder' = Remainder(buf)
          /\ pc' = "print"
          /\ UNCHANGED <<n, fd, inode, chunkSize, buffer, canceled, out, base, raced>>
      BY <1>12, <2>2 DEF FollowRead, Got, chunkVars
    <3>2. pc = "read"
      BY <1>12 DEF FollowRead
    <3>3. /\ Got \in Nat /\ toRead - Got \in 0 .. MaxPiece /\ fd \in File
          /\ offset + Got \in 0 .. MaxPiece
      BY <3>2, GotIs
    <3>4. offset \in Nat /\ offset <= offset + Got /\ offset + Got <= MaxPiece
          /\ offset + Got \in Nat /\ remainder \in Seq(Piece)
      BY <1>0, <3>3 DEF TailTypeOK
    <3>5. Chunk(fd, offset, offset + Got) \in Seq(Piece)
      BY <3>3, <3>4, RunTypes DEF IsRun
    <3>6. buf \in Seq(Piece)
      BY <3>4, <3>5, ConcatProperties DEF WithRemainder
    <3>. HIDE DEF buf
    <3>7. FrameSeq(buf) \in Seq(Record) /\ Remainder(buf) \in Seq(Piece)
      BY <3>6, FrameTypes
    <3>8. TailTypeOK'
      BY <1>0, <3>1, <3>3, <3>7 DEF TailTypeOK
    <3>. QED
      BY <1>0, <3>1, <3>2, <3>3, <3>8 DEF TailPhases
  <2>. QED
    BY <2>1, <2>2
<1>13. CASE Printed
  BY <1>0, <1>13 DEF Printed, TailTypeOK, TailPhases, chunkVars
<1>14. CASE Interrupt
  BY <1>0, <1>14 DEF Interrupt, TailTypeOK, TailPhases, chunkVars
<1>. QED
  BY <1>2, <1>3, <1>4, <1>5, <1>6, <1>7, <1>8, <1>9, <1>10, <1>11, <1>12, <1>13, <1>14
     DEF TailStep

\* One FileRead of cat goes on where the last one ended.
ReadTo == IF pos + CatRead < size[LogFd] THEN pos + CatRead ELSE size[LogFd]

LEMMA ReadToIs ==
  ASSUME TInv, reader = "read"
  PROVE  /\ LogFd \in File /\ pos \in Nat /\ ReadTo \in Nat
         /\ pos <= ReadTo /\ ReadTo <= size[LogFd] /\ ReadTo <= MaxPiece
         /\ size[LogFd] \in 0 .. MaxPiece
<1>1. LogFd \in File /\ pos <= size[LogFd] /\ pos \in 0 .. MaxPiece
  BY TInvParts DEF CatPhases, CatTypeOK
<1>2. size[LogFd] \in 0 .. MaxPiece /\ CatRead \in Nat /\ MaxPiece \in Nat
  BY <1>1, TInvParts, LogAssumption, CatAssumption DEF LogTypeOK
<1>. QED
  BY <1>1, <1>2 DEF ReadTo

\* The cat command keeps the types of its variables.
LEMMA CatTypes ==
  ASSUME TInv, ReaderStep \/ PrinterStep \/ FileReadFails, UNCHANGED bfeVars
  PROVE  CatTypeOK' /\ CatPhases'
<1>0. /\ LogTypeOK /\ path \in {cur, NoFile} /\ CatTypeOK /\ CatPhases
      /\ MaxPiece \in Nat /\ ChanCap \in Nat \ {0}
      /\ path \in File \cup {NoFile} /\ size' = size
      /\ \A f \in File : size[f] \in 0 .. MaxPiece
  BY LogAssumption, CatAssumption, TInvParts DEF LogTypeOK, bfeVars
<1>1. CASE CatOpen
  <2>1. /\ LogFd' = path /\ reader' \in {"done", "read"} /\ printer' \in {"done", printer}
        /\ reader' = "read" => path # NoFile
        /\ UNCHANGED <<pos, read, bufChan, DataBuffer, local, printed, failed>>
    BY <1>1 DEF CatOpen
  <2>2. CatTypeOK'
    BY <1>0, <2>1 DEF CatTypeOK
  <2>3. reader = "open" /\ pos' = 0 /\ reader' # "open" /\ (reader' = "read" => LogFd' \in File)
    BY <1>0, <1>1, <2>1 DEF CatPhases, CatOpen
  <2>4. reader' = "read" => pos' <= size'[LogFd']
    BY <1>0, <2>3
  <2>5. CatPhases'
    BY <2>1, <2>3, <2>4 DEF CatPhases
  <2>. QED
    BY <2>2, <2>5
<1>2. CASE FileRead
  <2>1. /\ reader = "read" /\ pos' = ReadTo
        /\ read' = (IF ReadTo = pos THEN <<>> ELSE Chunk(LogFd, pos, ReadTo))
        /\ reader' = (IF ReadTo = pos THEN "done" ELSE "send")
        /\ UNCHANGED <<printer, LogFd, bufChan, DataBuffer, local, printed, failed>>
    BY <1>2 DEF FileRead, ReadTo
  <2>2. /\ LogFd \in File /\ pos \in Nat /\ ReadTo \in Nat
        /\ pos <= ReadTo /\ ReadTo <= size[LogFd] /\ ReadTo <= MaxPiece
    BY <2>1, ReadToIs
  <2>3. Chunk(LogFd, pos, ReadTo) \in Seq(Piece)
    BY <2>2, RunTypes DEF IsRun
  <2>4. read' \in Seq(Piece) /\ pos' \in 0 .. MaxPiece
    BY <1>0, <2>1, <2>2, <2>3
  <2>5. CatTypeOK'
    BY <1>0, <2>1, <2>4 DEF CatTypeOK
  <2>. QED
    BY <1>0, <2>1, <2>2, <2>5 DEF CatPhases
<1>3. CASE Send
  <2>1. /\ bufChan \in Seq(Seq(Piece)) /\ read \in Seq(Piece) /\ Len(bufChan) < ChanCap
        /\ reader = "send"
        /\ bufChan' = Append(bufChan, read) /\ read' = <<>> /\ reader' = "read"
        /\ UNCHANGED <<printer, LogFd, pos, DataBuffer, local, printed, failed>>
    BY <1>0, <1>3 DEF Send, CatTypeOK
  <2>2. bufChan' \in Seq(Seq(Piece)) /\ Len(bufChan') <= ChanCap
    <3>1. Len(bufChan) \in Nat /\ Len(Append(bufChan, read)) = Len(bufChan) + 1
          /\ Append(bufChan, read) \in Seq(Seq(Piece))
      BY <2>1, AppendProperties
    <3>. QED
      BY <1>0, <2>1, <3>1
  <2>3. read' \in Seq(Piece)
    BY <2>1
  <2>4. CatTypeOK'
    BY <1>0, <2>1, <2>2, <2>3 DEF CatTypeOK
  <2>. QED
    BY <1>0, <2>1, <2>4 DEF CatPhases
<1>4. CASE FileReadFails
  <2>1. /\ failed' = TRUE /\ LogFd' = NoFile /\ DataBuffer' = <<>> /\ reader' = "done"
        /\ printer' \in {printer, "crashed"}
        /\ UNCHANGED <<pos, read, bufChan, local, printed>>
    BY <1>4 DEF FileReadFails
  <2>2. <<>> \in Seq(Piece)
    OBVIOUS
  <2>. QED
    BY <1>0, <2>1, <2>2 DEF CatTypeOK, CatPhases
<1>5. CASE Receive
  <2>1. /\ bufChan \in Seq(Seq(Piece)) /\ bufChan # <<>> /\ DataBuffer \in Seq(Piece)
        /\ local' = DataBuffer \o Head(bufChan) /\ bufChan' = Tail(bufChan)
        /\ printer' = "append"
        /\ UNCHANGED <<reader, LogFd, pos, read, DataBuffer, printed, failed>>
    BY <1>0, <1>5 DEF Receive, CatTypeOK
  <2>2. /\ Head(bufChan) \in Seq(Piece) /\ Tail(bufChan) \in Seq(Seq(Piece))
        /\ Len(Tail(bufChan)) = Len(bufChan) - 1 /\ Len(bufChan) \in Nat
    BY <2>1, HeadTailProperties
  <2>3. local' \in Seq(Piece)
    BY <2>1, <2>2, ConcatProperties
  <2>4. bufChan' \in Seq(Seq(Piece)) /\ Len(bufChan') <= ChanCap
    <3>1. Len(bufChan) <= ChanCap
      BY <1>0 DEF CatTypeOK
    <3>. QED
      BY <1>0, <2>1, <2>2, <3>1
  <2>5. CatTypeOK'
    BY <1>0, <2>1, <2>3, <2>4 DEF CatTypeOK
  <2>. QED
    BY <1>0, <2>1, <2>5 DEF CatPhases
<1>6. CASE AppendData
  <2>1. <<>> \in Seq(Piece)
    OBVIOUS
  <2>. QED
    BY <1>0, <1>6, <2>1 DEF AppendData, CatTypeOK, CatPhases
<1>7. CASE DataBufferParse
  <2>1. DataBuffer \in Seq(Piece) /\ printed \in Seq(Record)
    BY <1>0 DEF CatTypeOK
  <2>2. FrameSeq(DataBuffer) \in Seq(Record) /\ Remainder(DataBuffer) \in Seq(Piece)
    BY <2>1, FrameTypes
  <2>3. printed' \in Seq(Record)
    BY <1>7, <2>1, <2>2, ConcatProperties DEF DataBufferParse
  <2>. QED
    BY <1>0, <1>7, <2>2, <2>3 DEF DataBufferParse, DataBufferRest, CatTypeOK, CatPhases
<1>8. CASE DataBufferAssign
  <2>1. <<>> \in Seq(Piece)
    OBVIOUS
  <2>. QED
    BY <1>0, <1>8, <2>1 DEF DataBufferAssign, CatTypeOK, CatPhases
<1>9. CASE PrinterDone
  BY <1>0, <1>9 DEF PrinterDone, CatTypeOK, CatPhases
<1>. QED
  BY <1>1, <1>2, <1>3, <1>4, <1>5, <1>6, <1>7, <1>8, <1>9 DEF ReaderStep, PrinterStep

LEMMA TypeStep ==
  ASSUME TInv, [Next]_vars
  PROVE  TInv'
<1>0. /\ LogTypeOK /\ path \in {cur, NoFile} /\ TailTypeOK /\ TailPhases
      /\ cmd \in {"tail", "cat"} /\ CatTypeOK /\ CatPhases
  BY TInvParts
<1>1. CASE Bfe
  <2>1. /\ LogTypeOK' /\ path' \in {cur', NoFile}
        /\ \A f \in File : size[f] \in Nat /\ size'[f] \in Nat /\ size[f] <= size'[f]
    BY <1>1, BfeStep DEF Bfe
  <2>2. UNCHANGED tailVars /\ UNCHANGED catVars /\ UNCHANGED cmd
    BY <1>1 DEF Bfe
  <2>3. TailTypeOK' /\ TailPhases'
    BY <1>0, <2>2 DEF tailVars, TailTypeOK, TailPhases
  <2>4. CatTypeOK'
    BY <1>0, <2>2 DEF catVars, CatTypeOK
  <2>5. CatPhases'
    <3>1. pos \in Nat
      BY <1>0 DEF CatTypeOK
    <3>. QED
      BY <1>0, <2>1, <2>2, <3>1 DEF catVars, CatPhases
  <2>. QED
    BY <1>0, <2>1, <2>2, <2>3, <2>4, <2>5, TInvParts
<1>2. CASE TailRuns \/ Signal
  <2>1. TailTypeOK' /\ TailPhases'
    BY <1>2, TailTypes DEF TailRuns, Signal
  <2>2. UNCHANGED bfeVars /\ UNCHANGED catVars /\ UNCHANGED cmd
    BY <1>2 DEF TailRuns, Signal
  <2>3. LogTypeOK' /\ path' \in {cur', NoFile}
    BY <1>0, <2>2 DEF bfeVars, LogTypeOK
  <2>4. CatTypeOK' /\ CatPhases'
    BY <1>0, <2>2 DEF bfeVars, catVars, CatTypeOK, CatPhases
  <2>. QED
    BY <1>0, <2>1, <2>2, <2>3, <2>4, TInvParts
<1>3. CASE CatReads \/ CatPrints \/ CatFails
  <2>1. CatTypeOK' /\ CatPhases'
    BY <1>3, CatTypes DEF CatReads, CatPrints, CatFails
  <2>2. UNCHANGED bfeVars /\ UNCHANGED tailVars /\ UNCHANGED cmd
    BY <1>3 DEF CatReads, CatPrints, CatFails
  <2>3. LogTypeOK' /\ path' \in {cur', NoFile}
    BY <1>0, <2>2 DEF bfeVars, LogTypeOK
  <2>4. TailTypeOK' /\ TailPhases'
    BY <1>0, <2>2 DEF tailVars, TailTypeOK, TailPhases
  <2>. QED
    BY <1>0, <2>1, <2>2, <2>3, <2>4, TInvParts
<1>4. CASE UNCHANGED vars
  <2>1. UNCHANGED bfeVars /\ UNCHANGED tailVars /\ UNCHANGED catVars /\ UNCHANGED cmd
    BY <1>4 DEF vars
  <2>2. LogTypeOK' /\ path' \in {cur', NoFile}
    BY <1>0, <2>1 DEF bfeVars, LogTypeOK
  <2>3. TailTypeOK' /\ TailPhases'
    BY <1>0, <2>1 DEF tailVars, TailTypeOK, TailPhases
  <2>4. CatTypeOK' /\ CatPhases'
    BY <1>0, <2>1 DEF bfeVars, catVars, CatTypeOK, CatPhases
  <2>. QED
    BY <1>0, <2>1, <2>2, <2>3, <2>4, TInvParts
<1>. QED
  BY <1>1, <1>2, <1>3, <1>4 DEF Next

-----------------------------------------------------------------------------
(* cat *)

LEMMA EmptyRun ==
  ASSUME NEW f \in File, NEW b \in 0 .. MaxPiece
  PROVE  Chunk(f, b, b) = <<>>
<1>1. MaxPiece \in Nat
  BY LogAssumption
<1>2. IsRun(<<>>, f, b, b)
  BY <1>1 DEF IsRun
<1>. QED
  BY <1>1, <1>2, RunIsChunk

\* What is behind a place is behind every later one.
LEMMA BehindMore ==
  ASSUME NEW f \in File, NEW a \in Int, NEW b \in Int, a <= b,
         NEW s \in Seq(Record), Behind(s, f, a)
  PROVE  Behind(s, f, b)
<1>1. ASSUME NEW i \in 1 .. Len(s)
      PROVE  Earlier(s[i], <<f, b>>)
  <2>1. s[i] \in Record /\ f \in Int
    BY ElementOfSeq DEF File
  <2>2. s[i][1] \in Int /\ s[i][2] \in Nat
    BY <2>1, RecordParts
  <2>3. Earlier(s[i], <<f, a>>)
    BY DEF Behind
  <2>. QED
    BY <2>1, <2>2, <2>3 DEF Earlier
<1>. QED
  BY <1>1 DEF Behind

LEMMA NothingBehind ==
  ASSUME NEW f
  PROVE  /\ \A a : Behind(<<>>, f, a)
         /\ Whole(<<>>, f, 0)
  BY DEF Behind, Whole, Ordered

\* cat opens its file.
LEMMA FlowOpen ==
  ASSUME TInv, CInv, CatOpen
  PROVE  CInv'
<1>0. /\ reader = "open" /\ LogFd' = path
      /\ UNCHANGED <<pos, read, bufChan, DataBuffer, local, printed, failed>>
  BY DEF CatOpen
<1>1. NotOpen
  BY <1>0 DEF CInv, NoLog, Flowing, Flow
<1>2. CASE path = NoFile
  <2>1. reader' = "done" /\ printer' = "done"
    BY <1>2 DEF CatOpen
  <2>2. NoLog'
    BY <1>0, <1>1, <1>2, <2>1 DEF NotOpen, NoLog
  <2>. QED
    BY <2>2 DEF CInv
<1>3. CASE path # NoFile
  <2>1. reader' = "read" /\ printer' = "receive"
    BY <1>1, <1>3 DEF CatOpen, NotOpen
  <2>2. PICK f \in File : f = path
    BY <1>3, TInvParts DEF LogTypeOK
  <2>3. 0 \in 0 .. MaxPiece
    BY LogAssumption
  <2>4. PICK marks \in [0 .. 0 -> 0 .. MaxPiece] : marks[0] = 0
    <3>. DEFINE m == [i \in 0 .. 0 |-> 0]
    <3>1. m \in [0 .. 0 -> 0 .. MaxPiece] /\ m[0] = 0
      BY <2>3
    <3>. HIDE DEF m
    <3>. QED
      BY <3>1
  <2>5. bufChan' = <<>> /\ Len(bufChan') = 0
    BY <1>0, <1>1 DEF NotOpen
  <2>6. Chunk(f, 0, 0) = <<>>
    BY <2>3, EmptyRun
  <2>7. Behind(<<>>, f, 0) /\ Whole(<<>>, f, 0)
    BY NothingBehind
  <2>8. Flow(f, 0, marks)'
    <3>1. /\ LogFd' = f /\ pos' = 0 /\ printed' = <<>> /\ failed' = FALSE /\ DataBuffer' = <<>>
      BY <1>0, <1>1, <2>2 DEF NotOpen
    <3>. QED
      BY <2>1, <2>4, <2>5, <2>6, <2>7, <3>1 DEF Flow
  <2>9. Flowing'
    BY <2>3, <2>4, <2>5, <2>8 DEF Flowing
  <2>. QED
    BY <2>9 DEF CInv
<1>. QED
  BY <1>2, <1>3

\* A step that keeps the buffers of the channel may keep the marks.
LEMMA SameMarks ==
  ASSUME NEW f \in File, NEW a \in 0 .. MaxPiece,
         NEW marks \in [0 .. Len(bufChan) -> 0 .. MaxPiece],
         Flow(f, a, marks)', UNCHANGED bufChan
  PROVE  CInv'
  BY DEF CInv, Flowing

\* The goroutine that reads.
LEMMA FlowRead ==
  ASSUME TInv, NEW f \in File, NEW a \in 0 .. MaxPiece,
         NEW marks \in [0 .. Len(bufChan) -> 0 .. MaxPiece], Flow(f, a, marks),
         FileRead
  PROVE  CInv'
<1>1. /\ reader = "read" /\ pos' = ReadTo
      /\ read' = (IF ReadTo = pos THEN <<>> ELSE Chunk(LogFd, pos, ReadTo))
      /\ reader' = (IF ReadTo = pos THEN "done" ELSE "send")
      /\ UNCHANGED <<printer, LogFd, bufChan, DataBuffer, local, printed, failed>>
  BY DEF FileRead, ReadTo
<1>2. /\ pos \in Nat /\ ReadTo \in Nat /\ pos <= ReadTo
  BY <1>1, ReadToIs
<1>3. LogFd = f /\ ~failed /\ printer # "done" /\ marks[Len(bufChan)] = pos
  BY <1>1 DEF Flow
<1>4. \A i \in 0 .. Len(bufChan) : marks[i] \in Nat /\ marks[i] <= pos'
  <2>1. TAKE i \in 0 .. Len(bufChan)
  <2>2. marks[i] <= pos /\ marks[i] \in Nat
    BY DEF Flow
  <2>. QED
    BY <1>1, <1>2, <2>2
<1>5. IF reader' = "send" THEN read' = Chunk(f, marks[Len(bufChan)], pos')
      ELSE marks[Len(bufChan)] = pos'
  BY <1>1, <1>3
<1>6. Flow(f, a, marks)'
  BY <1>1, <1>3, <1>4, <1>5 DEF Flow
<1>. QED
  BY <1>1, <1>6, SameMarks

LEMMA FlowSend ==
  ASSUME TInv, NEW f \in File, NEW a \in 0 .. MaxPiece,
         NEW marks \in [0 .. Len(bufChan) -> 0 .. MaxPiece], Flow(f, a, marks),
         Send
  PROVE  CInv'
<1>1. /\ reader = "send" /\ bufChan' = Append(bufChan, read) /\ reader' = "read"
      /\ UNCHANGED <<printer, LogFd, pos, DataBuffer, local, printed, failed>>
  BY DEF Send
<1>2. /\ bufChan \in Seq(Seq(Piece)) /\ read \in Seq(Piece) /\ pos \in 0 .. MaxPiece
  BY TInvParts DEF CatTypeOK
<1>3. PICK L \in Nat : L = Len(bufChan)
  BY <1>2, LenProperties
<1>4. /\ Len(bufChan') = L + 1 /\ bufChan'[L + 1] = read
      /\ \A i \in 1 .. L : bufChan'[i] = bufChan[i]
  BY <1>1, <1>2, <1>3, AppendProperties
<1>5. PICK m : m = [i \in 0 .. L + 1 |-> IF i <= L THEN marks[i] ELSE pos]
  OBVIOUS
<1>6. /\ m \in [0 .. L + 1 -> 0 .. MaxPiece] /\ m[0] = marks[0] /\ m[L + 1] = pos
      /\ \A i \in 0 .. L : m[i] = marks[i]
  BY <1>2, <1>3, <1>5
<1>7. read = Chunk(f, marks[L], pos) /\ marks[L] <= pos
  <2>1. L \in 0 .. Len(bufChan)
    BY <1>3
  <2>. QED
    BY <1>1, <1>3, <2>1 DEF Flow
<1>8. \A i \in 0 .. Len(bufChan') : m[i] <= pos
  <2>1. TAKE i \in 0 .. Len(bufChan')
  <2>2. i \in 0 .. L \/ i = L + 1
    BY <1>3, <1>4
  <2>3. i \in 0 .. L => marks[i] <= pos
    BY <1>3 DEF Flow
  <2>. QED
    BY <1>2, <1>6, <2>2, <2>3
<1>9. \A i \in 1 .. Len(bufChan') : m[i - 1] <= m[i] /\ bufChan'[i] = Chunk(f, m[i - 1], m[i])
  <2>1. TAKE i \in 1 .. Len(bufChan')
  <2>2. CASE i \in 1 .. L
    <3>1. i - 1 \in 0 .. L /\ i \in 0 .. L
      BY <1>3, <2>2
    <3>2. marks[i - 1] <= marks[i] /\ bufChan[i] = Chunk(f, marks[i - 1], marks[i])
      BY <1>3, <2>2 DEF Flow
    <3>. QED
      BY <1>4, <1>6, <2>2, <3>1, <3>2
  <2>3. CASE i = L + 1
    <3>1. i - 1 = L /\ L \in 0 .. L
      BY <1>3, <2>3
    <3>. QED
      BY <1>4, <1>6, <1>7, <2>3, <3>1
  <2>. QED
    BY <1>3, <1>4, <2>2, <2>3
<1>10. ~failed /\ printer # "done"
  BY <1>1 DEF Flow
<1>11. Flow(f, a, m)'
  BY <1>1, <1>4, <1>6, <1>8, <1>9, <1>10 DEF Flow
<1>. QED
  BY <1>4, <1>6, <1>11 DEF CInv, Flowing

\* A read fails: what the printer has not taken out of DataBuffer is lost.
LEMMA FlowFails ==
  ASSUME TInv, NEW f \in File, NEW a \in 0 .. MaxPiece,
         NEW marks \in [0 .. Len(bufChan) -> 0 .. MaxPiece], Flow(f, a, marks),
         FileReadFails
  PROVE  CInv'
<1>1. /\ reader = "read" /\ failed' = TRUE /\ LogFd' = NoFile /\ DataBuffer' = <<>>
      /\ reader' = "done"
      /\ printer' = printer \/ (printer \in {"append", "parse"} /\ printer' = "crashed")
      /\ UNCHANGED <<pos, read, bufChan, local, printed>>
  <2>1. reader = "read" /\ failed' = TRUE /\ LogFd' = NoFile /\ DataBuffer' = <<>>
        /\ reader' = "done" /\ UNCHANGED <<pos, read, bufChan, local, printed>>
    BY DEF FileReadFails
  <2>2. printer' = printer \/ (printer \in {"append", "parse"} /\ printer' = "crashed")
    BY DEF FileReadFails
  <2>. QED
    BY <2>1, <2>2
<1>2. 0 \in 0 .. Len(bufChan) /\ printed \in Seq(Record) /\ marks[0] \in 0 .. MaxPiece
  <2>1. Len(bufChan) \in Nat /\ printed \in Seq(Record)
    BY TInvParts, LenProperties DEF CatTypeOK
  <2>. QED
    BY <2>1
<1>3. printer # "done" /\ marks[Len(bufChan)] = pos /\ a <= marks[0] /\ Behind(printed, f, a)
  BY <1>1 DEF Flow
<1>4. CASE printer \in {"receive", "parse"} /\ printer' = printer
  <2>1. PICK b \in 0 .. MaxPiece : b = marks[0]
    BY <1>2
  <2>2. Behind(printed, f, b)
    BY <1>2, <1>3, <2>1, BehindMore
  <2>3. Chunk(f, b, marks[0]) = <<>>
    BY <2>1, EmptyRun
  <2>4. printer' = printer /\ b <= marks[0]
    BY <1>1, <1>4, <2>1
  <2>5. Flow(f, b, marks)'
    BY <1>1, <1>3, <1>4, <2>2, <2>3, <2>4 DEF Flow
  <2>. QED
    BY <1>1, <2>5, SameMarks
<1>5. CASE printer \notin {"receive", "parse"} \/ printer' = "crashed"
  <2>1. printer' \notin {"receive", "parse", "done"}
        /\ (printer' \in {"append", "assign"} => printer' = printer)
    BY <1>1, <1>3, <1>5
  <2>2. Flow(f, a, marks)'
    BY <1>1, <1>3, <2>1 DEF Flow
  <2>. QED
    BY <1>1, <2>2, SameMarks
<1>. QED
  BY <1>1, <1>4, <1>5

\* The goroutine that prints takes the next buffer.
LEMMA FlowReceive ==
  ASSUME TInv, NEW f \in File, NEW a \in 0 .. MaxPiece,
         NEW marks \in [0 .. Len(bufChan) -> 0 .. MaxPiece], Flow(f, a, marks),
         Receive
  PROVE  CInv'
<1>1. /\ printer = "receive" /\ bufChan # <<>>
      /\ local' = DataBuffer \o Head(bufChan) /\ bufChan' = Tail(bufChan)
      /\ printer' = "append"
      /\ UNCHANGED <<reader, LogFd, pos, read, DataBuffer, printed, failed>>
  BY DEF Receive
<1>2. bufChan \in Seq(Seq(Piece)) /\ MaxPiece \in Nat
  BY TInvParts, LogAssumption DEF CatTypeOK
<1>3. PICK L : L = Len(bufChan)
  OBVIOUS
<1>4. /\ L \in Nat /\ L >= 1 /\ Len(bufChan') = L - 1 /\ Head(bufChan) = bufChan[1]
      /\ \A i \in 1 .. L - 1 : bufChan'[i] = bufChan[i + 1]
  <2>1. L \in Nat /\ L # 0
    BY <1>1, <1>2, <1>3, EmptySeq, LenProperties
  <2>2. /\ Len(Tail(bufChan)) = L - 1 /\ Head(bufChan) = bufChan[1]
        /\ \A i \in 1 .. Len(Tail(bufChan)) : Tail(bufChan)[i] = bufChan[i + 1]
    BY <1>1, <1>2, <1>3, HeadTailProperties
  <2>. QED
    BY <1>1, <2>1, <2>2
<1>5. PICK m : m = [i \in 0 .. L - 1 |-> marks[i + 1]]
  OBVIOUS
<1>6. \A i \in 0 .. L - 1 : i + 1 \in 0 .. Len(bufChan) /\ i + 1 \in 1 .. L
  BY <1>3, <1>4
<1>7. /\ m \in [0 .. L - 1 -> 0 .. MaxPiece]
      /\ \A i \in 0 .. L - 1 : m[i] = marks[i + 1]
  BY <1>5, <1>6
<1>8. 0 \in 0 .. L - 1 /\ L - 1 \in 0 .. L - 1 /\ (L - 1) + 1 = L /\ 0 + 1 = 1
      /\ 0 \in 0 .. Len(bufChan) /\ 1 \in 0 .. Len(bufChan) /\ 1 \in 1 .. Len(bufChan)
  BY <1>3, <1>4
<1>9. m[0] = marks[1] /\ m[L - 1] = marks[L]
  BY <1>7, <1>8
<1>10. /\ a <= marks[0] /\ marks[0] <= marks[1]
       /\ bufChan[1] = Chunk(f, marks[0], marks[1])
       /\ DataBuffer = Chunk(f, a, marks[0])
       /\ marks[0] \in 0 .. MaxPiece /\ marks[1] \in 0 .. MaxPiece
  <2>1. 1 - 1 = 0
    OBVIOUS
  <2>2. a <= marks[0] /\ DataBuffer = Chunk(f, a, marks[0])
    BY <1>1 DEF Flow
  <2>3. marks[1 - 1] <= marks[1] /\ bufChan[1] = Chunk(f, marks[1 - 1], marks[1])
    BY <1>8 DEF Flow
  <2>. QED
    BY <1>8, <2>1, <2>2, <2>3
<1>11. local' = Chunk(f, a, m[0]) /\ a <= m[0]
  <2>1. PICK b \in 0 .. MaxPiece, c \in 0 .. MaxPiece : b = marks[0] /\ c = marks[1]
    BY <1>10
  <2>2. a \in Nat /\ b \in Nat /\ c \in Nat /\ a <= b /\ b <= c /\ c <= MaxPiece
    BY <1>2, <1>10, <2>1
  <2>3. Chunk(f, a, b) \o Chunk(f, b, c) = Chunk(f, a, c)
    BY <2>2, RunJoin
  <2>4. local' = Chunk(f, a, b) \o Chunk(f, b, c)
    BY <1>1, <1>4, <1>10, <2>1, Zenon
  <2>5. local' = Chunk(f, a, c)
    BY <2>3, <2>4, Zenon
  <2>6. m[0] = c /\ a <= c
    BY <1>9, <2>1, <2>2
  <2>. QED
    BY <2>5, <2>6
<1>12. \A i \in 0 .. Len(bufChan') : m[i] <= pos
  <2>1. TAKE i \in 0 .. Len(bufChan')
  <2>2. i \in 0 .. L - 1
    BY <1>4
  <2>3. marks[i + 1] <= pos
    BY <1>6, <2>2 DEF Flow
  <2>. QED
    BY <1>7, <2>2, <2>3
<1>13. \A i \in 1 .. Len(bufChan') : m[i - 1] <= m[i] /\ bufChan'[i] = Chunk(f, m[i - 1], m[i])
  <2>1. TAKE i \in 1 .. Len(bufChan')
  <2>2. i \in 0 .. L - 1 /\ i - 1 \in 0 .. L - 1 /\ (i - 1) + 1 = i /\ i \in 1 .. L - 1
        /\ (i + 1) - 1 = i /\ i + 1 \in 1 .. Len(bufChan)
    BY <1>3, <1>4
  <2>3. marks[(i + 1) - 1] <= marks[i + 1] /\ bufChan[i + 1] = Chunk(f, marks[(i + 1) - 1], marks[i + 1])
    BY <2>2 DEF Flow
  <2>4. m[i] = marks[i + 1] /\ m[i - 1] = marks[i]
    <3>1. m[i - 1] = marks[(i - 1) + 1]
      BY <1>7, <2>2
    <3>. QED
      BY <1>7, <2>2, <3>1
  <2>5. bufChan'[i] = bufChan[i + 1]
    BY <1>4, <2>2
  <2>. QED
    BY <2>2, <2>3, <2>4, <2>5
<1>14. m[Len(bufChan')] = marks[Len(bufChan)]
  BY <1>3, <1>4, <1>9
<1>15. Flow(f, a, m)'
  BY <1>1, <1>11, <1>12, <1>13, <1>14 DEF Flow
<1>16. m \in [0 .. Len(bufChan') -> 0 .. MaxPiece]
  BY <1>4, <1>7
<1>. QED
  BY <1>15, <1>16 DEF CInv, Flowing

\* It appends it, parses the run, and keeps what remains.
LEMMA FlowPrint ==
  ASSUME TInv, NEW f \in File, NEW a \in 0 .. MaxPiece,
         NEW marks \in [0 .. Len(bufChan) -> 0 .. MaxPiece], Flow(f, a, marks),
         AppendData \/ DataBufferParse \/ DataBufferAssign \/ PrinterDone
  PROVE  CInv'
<1>0. /\ UNCHANGED bufChan /\ UNCHANGED <<reader, LogFd, pos, read, failed>>
      /\ printed \in Seq(Record) /\ Len(bufChan) \in Nat /\ MaxPiece \in Nat
  BY TInvParts, LenProperties, LogAssumption
     DEF CatTypeOK, AppendData, DataBufferParse, DataBufferAssign, PrinterDone
<1>1. CASE AppendData
  <2>1. printer = "append" /\ printer' = "parse" /\ DataBuffer' = local /\ printed' = printed
    BY <1>1 DEF AppendData
  <2>2. Flow(f, a, marks)'
    BY <1>0, <2>1 DEF Flow
  <2>. QED
    BY <1>0, <2>2, SameMarks
<1>2. CASE DataBufferParse
  <2>1. /\ printer = "parse" /\ printer' = "assign"
        /\ printed' = printed \o FrameSeq(DataBuffer) /\ local' = Remainder(DataBuffer)
    BY <1>2 DEF DataBufferParse, DataBufferRest
  <2>2. /\ DataBuffer = Chunk(f, a, marks[0]) /\ Behind(printed, f, a) /\ a <= marks[0]
        /\ ~failed => Whole(printed, f, a)
    BY <2>1 DEF Flow
  <2>3. PICK b \in 0 .. MaxPiece : b = marks[0]
    <3>1. 0 \in 0 .. Len(bufChan)
      BY <1>0
    <3>. QED
      BY <3>1
  <2>4. a \in Nat /\ b \in Nat /\ a <= b /\ b <= MaxPiece
    BY <1>0, <2>2, <2>3
  <2>5. PICK r : r = RestFrom(a, b)
    OBVIOUS
  <2>6. /\ r \in 0 .. MaxPiece /\ r <= b
        /\ Remainder(Chunk(f, a, b)) = Chunk(f, r, b)
        /\ FrameSeq(Chunk(f, a, b)) = RecordsOf(f, a, b)
    <3>1. RestFrom(a, b) \in Nat /\ RestFrom(a, b) <= b
          /\ Remainder(Chunk(f, a, b)) = Chunk(f, RestFrom(a, b), b)
      BY <2>4, RunRemainder
    <3>2. FrameSeq(Chunk(f, a, b)) = RecordsOf(f, a, b)
      BY <2>4, RunFrames
    <3>. QED
      BY <1>0, <2>4, <2>5, <3>1, <3>2
  <2>7. Behind(printed', f, r)
    <3>1. Behind(printed \o RecordsOf(f, a, b), f, RestFrom(a, b))
      BY <1>0, <2>2, <2>4, AppendInOrder
    <3>. QED
      BY <2>1, <2>2, <2>3, <2>5, <2>6, <3>1
  <2>8. ~failed => Whole(printed', f, r) /\ b <= r + 1
    <3>. SUFFICES ASSUME ~failed PROVE Whole(printed', f, r) /\ b <= r + 1
      OBVIOUS
    <3>1. /\ Whole(printed \o RecordsOf(f, a, b), f, RestFrom(a, b))
          /\ b <= RestFrom(a, b) + 1
      BY <1>0, <2>2, <2>4, AppendWhole
    <3>. QED
      BY <2>1, <2>2, <2>3, <2>5, <2>6, <3>1
  <2>9. local' = Chunk(f, r, marks[0])
    BY <2>1, <2>2, <2>3, <2>6
  <2>10. Flow(f, r, marks)'
    BY <1>0, <2>1, <2>3, <2>6, <2>7, <2>8, <2>9 DEF Flow
  <2>. QED
    BY <1>0, <2>6, <2>10, SameMarks
<1>3. CASE DataBufferAssign
  <2>1. printer = "assign" /\ printer' = "receive" /\ DataBuffer' = local /\ printed' = printed
    BY <1>3 DEF DataBufferAssign
  <2>2. Flow(f, a, marks)'
    BY <1>0, <2>1 DEF Flow
  <2>. QED
    BY <1>0, <2>2, SameMarks
<1>4. CASE PrinterDone
  <2>1. /\ printer = "receive" /\ printer' = "done" /\ reader = "done" /\ bufChan = <<>>
        /\ printed' = printed
    BY <1>4 DEF PrinterDone, RangeEnds, Closed
  <2>2. Flow(f, a, marks)'
    BY <1>0, <2>1 DEF Flow
  <2>. QED
    BY <1>0, <2>2, SameMarks
<1>. QED
  BY <1>1, <1>2, <1>3, <1>4

LEMMA FlowStep ==
  ASSUME TInv, CInv, [Next]_vars
  PROVE  CInv'
<1>1. CASE UNCHANGED catVars
  BY <1>1 DEF catVars, CInv, NotOpen, NoLog, Flowing, Flow
<1>2. CASE CatOpen
  BY <1>2, FlowOpen
<1>3. CASE /\ ~CatOpen
           /\ ReaderStep \/ PrinterStep \/ FileReadFails
  <2>1. Flowing
    <3>1. ~NotOpen
      BY <1>3 DEF NotOpen, ReaderStep, PrinterStep, FileRead, Send, FileReadFails, Receive,
                  AppendData, DataBufferParse, DataBufferAssign, PrinterDone, RangeEnds, Closed
    <3>2. ~NoLog
      BY <1>3 DEF NoLog, ReaderStep, PrinterStep, FileRead, Send, FileReadFails, Receive,
                  AppendData, DataBufferParse, DataBufferAssign, PrinterDone
    <3>. QED
      BY <3>1, <3>2 DEF CInv
  <2>2. PICK f \in File, a \in 0 .. MaxPiece :
          \E marks \in [0 .. Len(bufChan) -> 0 .. MaxPiece] : Flow(f, a, marks)
    BY <2>1 DEF Flowing
  <2>3. PICK marks \in [0 .. Len(bufChan) -> 0 .. MaxPiece] : Flow(f, a, marks)
    BY <2>2
  <2>4. CASE FileRead
    BY <2>3, <2>4, FlowRead
  <2>5. CASE Send
    BY <2>3, <2>5, FlowSend
  <2>6. CASE FileReadFails
    BY <2>3, <2>6, FlowFails
  <2>7. CASE Receive
    BY <2>3, <2>7, FlowReceive
  <2>8. CASE AppendData \/ DataBufferParse \/ DataBufferAssign \/ PrinterDone
    BY <2>3, <2>8, FlowPrint
  <2>. QED
    BY <1>3, <2>4, <2>5, <2>6, <2>7, <2>8 DEF ReaderStep, PrinterStep
<1>. QED
  BY <1>1, <1>2, <1>3
     DEF Next, Bfe, TailRuns, Signal, CatReads, CatPrints, CatFails, ReaderStep, vars

\* The invariant says what cat promises.
LEMMA CatPromise ==
  ASSUME TInv, CInv
  PROVE  CatPrefix
<1>0. printed \in Seq(Record) /\ DOMAIN printed = 1 .. Len(printed) /\ Len(printed) \in Nat
  BY TInvParts, LenProperties DEF CatTypeOK
<1>1. CASE NotOpen \/ NoLog
  <2>1. printed = <<>> /\ pos = 0 /\ ~failed
    BY <1>1 DEF NotOpen, NoLog
  <2>2. Len(printed) = 0 /\ pos \div 2 = 0
    <3>1. (2 * 0) \div 2 = 0
      BY Odd
    <3>. QED
      BY <2>1, <3>1
  <2>. QED
    BY <1>0, <2>1, <2>2 DEF CatPrefix
<1>2. CASE Flowing
  <2>1. PICK f \in File, a \in 0 .. MaxPiece :
          \E marks \in [0 .. Len(bufChan) -> 0 .. MaxPiece] : Flow(f, a, marks)
    BY <1>2 DEF Flowing
  <2>2. PICK marks \in [0 .. Len(bufChan) -> 0 .. MaxPiece] : Flow(f, a, marks)
    BY <2>1
  <2>3. CASE failed
    BY <1>0, <2>2, <2>3 DEF Flow, Behind, Ordered, CatPrefix
  <2>4. CASE ~failed
    <3>1. LogFd = f /\ a = 2 * Len(printed) /\ \A i \in 1 .. Len(printed) : printed[i] = <<f, 2 * i - 1>>
      BY <2>2, <2>4 DEF Flow, Whole
    <3>2. ASSUME printer = "done"
          PROVE  Len(printed) = pos \div 2
      <4>1. bufChan = <<>> /\ marks[Len(bufChan)] = pos /\ a <= marks[0] /\ marks[0] <= a + 1
        BY <2>2, <2>4, <3>2 DEF Flow
      <4>2. a <= pos /\ pos <= a + 1 /\ pos \in Nat
        <5>1. Len(bufChan) = 0 /\ pos \in Nat
          BY <4>1, TInvParts DEF CatTypeOK
        <5>. QED
          BY <4>1, <5>1
      <4>3. PICK k \in Nat : k = Len(printed)
        BY <1>0
      <4>4. a = 2 * k
        BY <3>1, <4>3
      <4>5. pos = 2 * k \/ pos = 2 * k + 1
        BY <4>2, <4>4
      <4>6. pos \div 2 = k
        BY <4>5, Odd
      <4>. QED
        BY <4>3, <4>6
    <3>. QED
      BY <1>0, <2>4, <3>1, <3>2 DEF CatPrefix
  <2>. QED
    BY <2>3, <2>4
<1>. QED
  BY <1>1, <1>2 DEF CInv

-----------------------------------------------------------------------------
(* tailLastN *)

\* The records of a file from its start on.
LEMMA RecordsFromStart ==
  ASSUME NEW f \in File, NEW b \in 0 .. MaxPiece
  PROVE  /\ RecordsOf(f, 0, b) \in Seq(Record)
         /\ Len(RecordsOf(f, 0, b)) = b \div 2
         /\ b \div 2 \in Nat /\ 2 * (b \div 2) <= b
         /\ \A k \in 1 .. b \div 2 : RecordsOf(f, 0, b)[k] = <<f, 2 * k - 1>>
         /\ RecordsOf(f, 0, 0) = <<>>
<1>0. MaxPiece \in Nat /\ b \in Nat /\ 0 \in Nat /\ 0 <= b /\ b <= MaxPiece
  BY LogAssumption
<1>1. (0 + 1) \div 2 = 0 /\ (2 * 0) \div 2 = 0
  BY Odd
<1>2. b \div 2 \in Nat /\ 2 * (b \div 2) <= b
  BY <1>0, Halves
<1>3. Complete(0, b) = b \div 2
  BY <1>0, <1>1, <1>2 DEF Complete
<1>4. PICK r : r = RecordsOf(f, 0, b)
  OBVIOUS
<1>5. /\ r \in Seq(Record) /\ Len(r) = Complete(0, b)
      /\ \A k \in 1 .. Complete(0, b) : r[k] = <<f, 2 * (((0 + 1) \div 2) + k) - 1>>
  BY <1>0, <1>4, RunRecords
<1>6. \A k \in 1 .. b \div 2 : r[k] = <<f, 2 * k - 1>>
  <2>1. TAKE k \in 1 .. b \div 2
  <2>2. r[k] = <<f, 2 * (((0 + 1) \div 2) + k) - 1>>
    BY <1>3, <1>5
  <2>3. ((0 + 1) \div 2) + k = k
    BY <1>1
  <2>. QED
    BY <2>2, <2>3
<1>7. RecordsOf(f, 0, 0) = <<>>
  <2>1. Complete(0, 0) = 0
    BY DEF Complete
  <2>. QED
    BY <2>1 DEF RecordsOf
<1>. QED
  BY <1>2, <1>3, <1>4, <1>5, <1>6, <1>7

\* The last n of them are what tail -n promises, and lie before the end.
LEMMA LastOfIs ==
  ASSUME NEW f \in File, NEW b \in 0 .. MaxPiece, n \in Nat
  PROVE  /\ KeepLast(RecordsOf(f, 0, b)) = LastOf(f, b)
         /\ Behind(LastOf(f, b), f, b)
<1>. DEFINE all == b \div 2
            kept == Least(n, all)
<1>1. PICK r : r = RecordsOf(f, 0, b)
  OBVIOUS
<1>2. /\ r \in Seq(Record) /\ Len(r) = all /\ all \in Nat /\ 2 * all <= b
      /\ \A k \in 1 .. all : r[k] = <<f, 2 * k - 1>>
  BY <1>1, RecordsFromStart
<1>3. PICK t : t = KeepLast(r)
  OBVIOUS
<1>4. /\ t \in Seq(Record) /\ Len(t) = kept /\ kept \in Nat /\ kept <= all
      /\ \A k \in 1 .. kept : t[k] = r[all - kept + k]
  BY <1>2, <1>3, KeepLastIs
<1>5. PICK u : u = LastOf(f, b)
  OBVIOUS
<1>6. u = [k \in 1 .. kept |-> <<f, 2 * (all - kept + k) - 1>>]
  BY <1>5 DEF LastOf
<1>. HIDE DEF all, kept
<1>7. \A k \in 1 .. kept : u[k] = <<f, 2 * (all - kept + k) - 1>> /\ t[k] = u[k]
  <2>1. TAKE k \in 1 .. kept
  <2>2. all - kept + k \in 1 .. all
    BY <1>2, <1>4
  <2>. QED
    BY <1>2, <1>4, <1>6, <2>2
<1>8. t = u
  <2>1. t \in [1 .. kept -> Record]
    BY <1>4, LenProperties
  <2>. QED
    BY <1>6, <1>7, <2>1
<1>9. Behind(t, f, b)
  <2>0. b \in Int
    OBVIOUS
  <2>1. ASSUME NEW i \in 1 .. Len(t)
        PROVE  Earlier(t[i], <<f, b>>)
    <3>1. t[i] = <<f, 2 * (all - kept + i) - 1>> /\ i \in 1 .. kept
      BY <1>4, <1>7
    <3>2. 2 * (all - kept + i) - 1 < b
      BY <1>2, <1>4, <2>0, <3>1
    <3>. QED
      BY <3>1, <3>2 DEF Earlier
  <2>2. ASSUME NEW i \in 1 .. Len(t), NEW j \in 1 .. Len(t), i < j
        PROVE  Earlier(t[i], t[j])
    <3>1. /\ t[i] = <<f, 2 * (all - kept + i) - 1>> /\ i \in 1 .. kept
          /\ t[j] = <<f, 2 * (all - kept + j) - 1>> /\ j \in 1 .. kept
      BY <1>4, <1>7
    <3>2. 2 * (all - kept + i) - 1 < 2 * (all - kept + j) - 1
      BY <1>2, <1>4, <2>2, <3>1
    <3>. QED
      BY <3>1, <3>2 DEF Earlier
  <2>. QED
    BY <2>1, <2>2 DEF Behind, Ordered
<1>. QED
  BY <1>1, <1>3, <1>5, <1>8, <1>9

\* What emit prints is what it takes from the parsed records.
LEMMA EmitMoves ==
  ASSUME TInv, Emit
  PROVE  /\ UNCHANGED <<n, fd, inode, offset, chunkSize, buffer, remainder, toRead, base, raced>>
         /\ \/ canceled /\ pc' = "exit" /\ out' = out
            \/ pc' = pc /\ out' \o parsedRecords' = out \o parsedRecords
<1>1. UNCHANGED <<n, fd, inode, offset, chunkSize, buffer, remainder, toRead, base, raced>>
  BY DEF Emit, chunkVars
<1>2. CASE canceled
  BY <1>1, <1>2 DEF Emit
<1>3. CASE ~canceled
  <2>1. out \in Seq(Record) /\ parsedRecords \in Seq(Record) /\ parsedRecords # <<>>
    BY TInvParts DEF TailTypeOK, Emit
  <2>2. /\ out' = Append(out, Head(parsedRecords)) /\ parsedRecords' = Tail(parsedRecords)
        /\ pc' = pc
    BY <1>3 DEF Emit
  <2>3. Append(out, Head(parsedRecords)) \o Tail(parsedRecords) = out \o parsedRecords
    BY <2>1, TakeHead
  <2>. QED
    BY <1>1, <2>2, <2>3
<1>. QED
  BY <1>2, <1>3

LEMMA LastNStep ==
  ASSUME TInv, LastN, [Next]_vars
  PROVE  LastN'
<1>0. MaxPiece \in Nat /\ TailTypeOK /\ TailPhases /\ initialChunk \in Nat
  BY LogAssumption, TailAssumption, TInvParts
<1>1. CASE UNCHANGED tailVars
  BY <1>1 DEF tailVars, LastN, LastOf
<1>2. CASE TailOpen
  BY <1>2 DEF TailOpen, LastN, chunkVars
<1>3. CASE TailStat
  BY <1>3 DEF TailStat, LastN, chunkVars
<1>4. CASE ReadChunk
  <2>1. /\ pc = "chunk" /\ pc' = "chunk" /\ fd = inode /\ out = <<>> /\ offset > 0
        /\ UNCHANGED <<n, fd, inode, out, base>>
    BY <1>4 DEF ReadChunk, MoreChunks, LastN
  <2>2. ASSUME base <= initialChunk
        PROVE  offset' = 0 /\ parsedRecords' = RecordsOf(inode, 0, base)
    <3>1. /\ offset = base /\ parsedRecords = <<>> /\ remainder = <<>> /\ buffer = <<>>
          /\ chunkSize = initialChunk
      BY <2>1, <2>2 DEF LastN
    <3>2. base \in 0 .. MaxPiece /\ inode \in File
      BY <1>0, <2>1 DEF TailTypeOK, TailPhases
    <3>3. base \in Nat /\ 0 <= base /\ base <= MaxPiece
      BY <1>0, <3>2
    <3>4. Least(chunkSize, offset) = base
      <4>1. Least(initialChunk, base) = IF initialChunk <= base THEN initialChunk ELSE base
        BY <1>0, <3>3, LeastIs
      <4>. QED
        BY <1>0, <2>2, <3>1, <3>3, <4>1
    <3>5. offset - Least(chunkSize, offset) = 0
      BY <3>1, <3>3, <3>4
    <3>6. PICK c : c = Chunk(inode, 0, base)
      OBVIOUS
    <3>7. c \in Seq(Piece) /\ c \o <<>> = c
      <4>1. c \in Seq(Piece)
        BY <3>2, <3>3, <3>6, RunTypes DEF IsRun
      <4>. QED
        BY <4>1, ConcatEmptySeq
    <3>8. Join(c) = c
      BY <3>1, <3>7 DEF Join
    <3>9. FrameSeq(c) = RecordsOf(inode, 0, base) /\ RecordsOf(inode, 0, base) \in Seq(Record)
      BY <3>2, <3>3, <3>6, RunFrames, RunRecords
    <3>10. /\ offset' = 0 /\ parsedRecords' = parsedRecords \o FrameSeq(c)
      BY <1>4, <2>1, <3>1, <3>5, <3>6, <3>8 DEF ReadChunk
    <3>11. <<>> \o RecordsOf(inode, 0, base) = RecordsOf(inode, 0, base)
      BY <3>9, ConcatEmptySeq
    <3>. QED
      BY <3>1, <3>9, <3>10, <3>11
  <2>. QED
    BY <2>1, <2>2 DEF LastN
<1>5. CASE ChunksRead
  <2>1. /\ pc = "chunk" /\ pc' = "emit" /\ out = <<>> /\ fd = inode
        /\ parsedRecords' = KeepLast(parsedRecords)
        /\ ~MoreChunks /\ n >= 1
        /\ UNCHANGED <<n, inode, out, base>>
    BY <1>0, <1>5 DEF ChunksRead, LastN, TailPhases
  <2>2. ASSUME base <= initialChunk
        PROVE  out' \o parsedRecords' = LastOf(inode, base)'
    <3>1. base \in 0 .. MaxPiece /\ inode \in File /\ n \in Nat /\ offset \in 0 .. MaxPiece
      BY <1>0, <2>1 DEF TailTypeOK, TailPhases
    <3>2. parsedRecords = RecordsOf(inode, 0, base)
      <4>1. CASE offset = base /\ parsedRecords = <<>>
        <5>1. offset = 0
          BY <1>0, <2>1, <3>1, <4>1 DEF MoreChunks
        <5>. QED
          BY <3>1, <4>1, <5>1, RecordsFromStart
      <4>. QED
        BY <2>1, <2>2, <4>1 DEF LastN
    <3>3. parsedRecords' = LastOf(inode, base)
      BY <2>1, <3>1, <3>2, LastOfIs
    <3>4. parsedRecords' \in Seq(Record)
      <4>1. parsedRecords \in Seq(Record)
        BY <1>0 DEF TailTypeOK
      <4>. QED
        BY <2>1, <3>1, <4>1, KeepLastIs
    <3>5. <<>> \o parsedRecords' = parsedRecords'
      BY <3>4, ConcatEmptySeq
    <3>6. LastOf(inode, base)' = LastOf(inode, base)
      BY <2>1 DEF LastOf
    <3>. QED
      BY <2>1, <3>3, <3>5, <3>6
  <2>. QED
    BY <2>1, <2>2 DEF LastN
<1>6. CASE Emit
  <2>1. pc \in {"emit", "print"}
    BY <1>6 DEF Emit
  <2>2. /\ UNCHANGED <<n, inode, base>>
        /\ pc' = "exit" \/ (pc' = pc /\ out' \o parsedRecords' = out \o parsedRecords)
    BY <1>6, EmitMoves
  <2>. QED
    BY <2>1, <2>2 DEF LastN, LastOf
<1>7. CASE TailDone \/ FollowOpen \/ PollRotated \/ Reopen \/ PollGrown \/ FollowRead \/ Printed
  <2>1. pc' \in {"follow", "exit", "poll", "reopen", "read", "print"}
    BY <1>7 DEF TailDone, FollowOpen, PollRotated, Reopen, PollGrown, FollowRead, Printed
  <2>. QED
    BY <2>1 DEF LastN
<1>8. CASE Interrupt
  <2>1. /\ pc' \in {pc, "exit"}
        /\ UNCHANGED <<n, fd, inode, offset, chunkSize, buffer, remainder, parsedRecords, out, base>>
    BY <1>8 DEF Interrupt, chunkVars
  <2>. QED
    BY <2>1 DEF LastN, LastOf
<1>. QED
  BY <1>1, <1>2, <1>3, <1>4, <1>5, <1>6, <1>7, <1>8
     DEF Next, Bfe, TailRuns, Signal, CatReads, CatPrints, CatFails, TailStep, vars

-----------------------------------------------------------------------------
(* followFrom *)

LEMMA RestRest ==
  ASSUME NEW a \in Nat, NEW b \in Nat, NEW c \in Nat, a <= b, b < c
  PROVE  /\ RestFrom(RestFrom(a, b), c) = RestFrom(a, c)
         /\ RestFrom(b, b) = b
         /\ RestFrom(a, b) \in Nat /\ a <= RestFrom(a, b) /\ RestFrom(a, b) <= b
  BY DEF RestFrom

\* A read of followFrom parses the run from the incomplete frame on.
LEMMA FollowRun ==
  ASSUME TInv, Passed, FollowRead, Got # 0
  PROVE  /\ pc = "read" /\ pc' = "print" /\ fd \in File
         /\ base \in Nat /\ offset \in Nat /\ base <= offset
         /\ offset' \in Nat /\ offset < offset' /\ offset' <= size[fd] /\ offset' <= MaxPiece
         /\ parsedRecords = <<>>
         /\ parsedRecords' = RecordsOf(fd, RestFrom(base, offset), offset')
         /\ remainder' = Remainder(Chunk(fd, base, offset'))
         /\ UNCHANGED <<n, fd, inode, canceled, out, base, raced>>
<1>1. /\ pc = "read" /\ pc' = "print"
      /\ offset' = offset + Got
      /\ parsedRecords' = FrameSeq(WithRemainder(Chunk(fd, offset, offset + Got)))
      /\ remainder' = Remainder(WithRemainder(Chunk(fd, offset, offset + Got)))
      /\ UNCHANGED <<n, fd, inode, canceled, out, base, raced>>
  BY DEF FollowRead, Got
<1>2. /\ Got \in Nat /\ fd \in File /\ offset + Got <= size[fd] /\ size[fd] \in 0 .. MaxPiece
      /\ base \in 0 .. MaxPiece /\ offset \in 0 .. MaxPiece /\ MaxPiece \in Nat
  <2>1. Got \in Nat /\ fd \in File /\ (Got > 0 => offset + Got <= size[fd])
        /\ size[fd] \in 0 .. MaxPiece
    BY <1>1, GotIs
  <2>2. base \in 0 .. MaxPiece /\ offset \in 0 .. MaxPiece /\ MaxPiece \in Nat
    BY TInvParts, LogAssumption DEF TailTypeOK
  <2>. QED
    BY <2>1, <2>2
<1>3. /\ base <= offset /\ parsedRecords = <<>>
      /\ remainder = (IF RestFrom(base, offset) = offset THEN <<>> ELSE << <<fd, offset>> >>)
  BY <1>1 DEF Passed
<1>4. PICK o : o = offset + Got
  OBVIOUS
<1>5. /\ o \in Nat /\ offset < o /\ o <= size[fd] /\ o <= MaxPiece /\ base <= o
      /\ base \in Nat /\ offset \in Nat /\ base <= offset /\ offset <= MaxPiece
  BY <1>2, <1>3, <1>4
<1>6. PICK r : r = RestFrom(base, offset)
  OBVIOUS
<1>7. r \in Nat /\ base <= r /\ r <= offset /\ RestFrom(r, o) = RestFrom(base, o)
  BY <1>5, <1>6, RestRest
<1>8. remainder = Chunk(fd, r, offset)
  <2>1. /\ Remainder(Chunk(fd, base, offset)) = Chunk(fd, RestFrom(base, offset), offset)
        /\ RestFrom(base, offset) = offset => Remainder(Chunk(fd, base, offset)) = <<>>
        /\ RestFrom(base, offset) # offset
             => Remainder(Chunk(fd, base, offset)) = << <<fd, offset>> >>
    BY <1>2, <1>5, RunRemainder
  <2>. QED
    BY <1>3, <1>6, <2>1
<1>9. WithRemainder(Chunk(fd, offset, o)) = Chunk(fd, r, o)
  <2>1. Chunk(fd, r, offset) \o Chunk(fd, offset, o) = Chunk(fd, r, o)
    BY <1>2, <1>5, <1>7, RunJoin, SMTT(20)
  <2>. QED
    BY <1>8, <2>1 DEF WithRemainder
<1>10. r <= o
  BY <1>5, <1>7
<1>11. FrameSeq(Chunk(fd, r, o)) = RecordsOf(fd, r, o)
  BY <1>2, <1>5, <1>7, <1>10, RunFrames
<1>12. Remainder(Chunk(fd, r, o)) = Chunk(fd, RestFrom(r, o), o)
  BY <1>2, <1>5, <1>7, <1>10, RunRemainder
<1>13. Remainder(Chunk(fd, base, o)) = Chunk(fd, RestFrom(base, o), o)
  BY <1>2, <1>5, RunRemainder
<1>. QED
  BY <1>1, <1>2, <1>3, <1>4, <1>5, <1>6, <1>7, <1>9, <1>11, <1>12, <1>13

\* What the remainder of a run from base on is, in the terms of Passed.
LEMMA RemainderIs ==
  ASSUME NEW f \in File, NEW a \in Nat, NEW b \in Nat, a <= b, b <= MaxPiece
  PROVE  Remainder(Chunk(f, a, b)) = (IF RestFrom(a, b) = b THEN <<>> ELSE << <<f, b>> >>)
  BY RunRemainder

LEMMA PassedStep ==
  ASSUME TInv, Passed, [Next]_vars
  PROVE  Passed'
<1>0. TailTypeOK /\ TailPhases /\ MaxPiece \in Nat
  BY LogAssumption, TInvParts
<1>1. CASE UNCHANGED tailVars
  BY <1>1 DEF tailVars, Passed
<1>2. CASE TailOpen \/ TailStat \/ ReadChunk \/ ChunksRead
  <2>1. pc' \in {"exit", "stat", "chunk", "emit"} /\ (pc' = "emit" => remainder' = <<>>)
    BY <1>2 DEF TailOpen, TailStat, ReadChunk, ChunksRead
  <2>. QED
    BY <2>1 DEF Passed
<1>3. CASE Emit
  <2>1. pc \in {"emit", "print"}
    BY <1>3 DEF Emit
  <2>2. /\ UNCHANGED <<fd, offset, remainder, base>>
        /\ pc' = "exit" \/ (pc' = pc /\ out' \o parsedRecords' = out \o parsedRecords)
    BY <1>3, EmitMoves
  <2>3. CASE pc' = "exit"
    BY <2>3 DEF Passed
  <2>4. CASE pc' = pc /\ out' \o parsedRecords' = out \o parsedRecords
    <3>1. PICK s : s = out \o parsedRecords
      OBVIOUS
    <3>2. s = out' \o parsedRecords'
      BY <2>4, <3>1
    <3>3. pc = "print" =>
            /\ base <= offset
            /\ remainder = (IF RestFrom(base, offset) = offset THEN <<>> ELSE << <<fd, offset>> >>)
            /\ \A r \in Record : r[1] = fd /\ base < r[2] /\ r[2] < offset
                 => \E i \in 1 .. Len(s) : s[i] = r
      BY <3>1 DEF Passed
    <3>4. pc = "emit" => remainder = <<>>
      BY DEF Passed
    <3>. QED
      BY <2>1, <2>2, <2>4, <3>2, <3>3, <3>4 DEF Passed
  <2>. QED
    BY <2>2, <2>3, <2>4
<1>4. CASE TailDone
  <2>1. /\ pc = "emit" /\ pc' \in {"follow", "exit"} /\ parsedRecords' = <<>>
        /\ remainder' = remainder
    BY <1>4 DEF TailDone
  <2>. QED
    BY <2>1 DEF Passed
<1>5. CASE FollowOpen
  <2>1. /\ pc = "follow" /\ pc' \in {"exit", "poll"} /\ offset' = base /\ base' = base
        /\ UNCHANGED <<remainder, parsedRecords>>
    BY <1>5 DEF FollowOpen, StartOffset
  <2>2. base \in Nat /\ remainder = <<>> /\ parsedRecords = <<>>
    BY <1>0, <2>1 DEF TailTypeOK, Passed
  <2>3. RestFrom(base, base) = base
    BY <2>2 DEF RestFrom
  <2>4. \A r \in Record : ~(base < r[2] /\ r[2] < base)
    BY <2>2, RecordParts
  <2>. QED
    BY <2>1, <2>2, <2>3, <2>4 DEF Passed
<1>6. CASE PollRotated
  <2>1. /\ pc = "poll" /\ pc' = "reopen" /\ offset' = 0 /\ base' = 0 /\ remainder' = <<>>
        /\ parsedRecords' = parsedRecords
    BY <1>6 DEF PollRotated, RemainderReset
  <2>. QED
    BY <2>1 DEF Passed
<1>7. CASE Reopen
  <2>1. /\ pc = "reopen" /\ pc' \in {"exit", "poll", "read"}
        /\ UNCHANGED <<offset, base, remainder, parsedRecords>>
    BY <1>7 DEF Reopen
  <2>2. offset = 0 /\ base = 0 /\ remainder = <<>> /\ parsedRecords = <<>>
    BY <2>1 DEF Passed
  <2>3. RestFrom(0, 0) = 0
    BY DEF RestFrom
  <2>4. \A r \in Record : ~(0 < r[2] /\ r[2] < 0)
    BY RecordParts
  <2>. QED
    BY <2>1, <2>2, <2>3, <2>4 DEF Passed
<1>8. CASE PollGrown
  <2>1. /\ pc = "poll" /\ pc' = "read"
        /\ UNCHANGED <<fd, offset, base, remainder, parsedRecords, out>>
    BY <1>8 DEF PollGrown
  <2>. QED
    BY <2>1 DEF Passed
<1>9. CASE FollowRead /\ Got = 0
  <2>1. /\ pc = "read" /\ pc' = "poll"
        /\ UNCHANGED <<fd, offset, base, remainder, parsedRecords, out>>
    BY <1>9 DEF FollowRead, Got
  <2>. QED
    BY <2>1 DEF Passed
<1>10. CASE FollowRead /\ Got # 0
  <2>1. /\ pc = "read" /\ pc' = "print" /\ fd \in File
        /\ base \in Nat /\ offset \in Nat /\ base <= offset
        /\ offset' \in Nat /\ offset < offset' /\ offset' <= MaxPiece
        /\ parsedRecords = <<>>
        /\ parsedRecords' = RecordsOf(fd, RestFrom(base, offset), offset')
        /\ remainder' = Remainder(Chunk(fd, base, offset'))
        /\ UNCHANGED <<fd, out, base>>
    BY <1>10, FollowRun
  <2>2. PICK o : o = offset'
    OBVIOUS
  <2>3. base <= o /\ o \in Nat /\ offset < o /\ o <= MaxPiece
    BY <2>1, <2>2
  <2>4. remainder' = (IF RestFrom(base, o) = o THEN <<>> ELSE << <<fd, o>> >>)
    BY <2>1, <2>2, <2>3, RemainderIs
  <2>5. PICK a : a = RestFrom(base, offset)
    OBVIOUS
  <2>6. a \in Nat /\ base <= a /\ a <= offset /\ a <= o
    BY <2>1, <2>3, <2>5, RestRest
  <2>7. PICK q : q = RecordsOf(fd, a, o)
    OBVIOUS
  <2>8. /\ q \in Seq(Record) /\ Len(q) = Complete(a, o)
        /\ \A p \in Nat : p % 2 = 1 /\ a < p /\ p < o => \E k \in 1 .. Len(q) : q[k] = <<fd, p>>
    <3>1. q \in Seq(Record) /\ Len(q) = Complete(a, o)
      BY <2>1, <2>3, <2>6, <2>7, RunRecords
    <3>2. Covers(q, fd, a, o)
      BY <2>1, <2>3, <2>6, <2>7, RunRecords
    <3>. QED
      BY <3>1, <3>2 DEF Covers
  <2>9. out \in Seq(Record)
    BY <1>0 DEF TailTypeOK
  <2>10. PICK s : s = out \o q
    OBVIOUS
  <2>11. /\ Len(s) = Len(out) + Len(q) /\ Len(out) \in Nat /\ Len(q) \in Nat
         /\ \A i \in 1 .. Len(out) + Len(q) : s[i] = IF i <= Len(out) THEN out[i] ELSE q[i - Len(out)]
    BY <2>8, <2>9, <2>10, ConcatProperties, LenProperties
  <2>12. ASSUME NEW r \in Record, r[1] = fd, base < r[2], r[2] < o
         PROVE  \E i \in 1 .. Len(s) : s[i] = r
    <3>0. r[2] \in Nat /\ r[2] % 2 = 1 /\ r = <<fd, r[2]>>
      BY <2>12, RecordParts
    <3>1. CASE r[2] < offset
      <4>1. PICK i \in 1 .. Len(out \o parsedRecords) : (out \o parsedRecords)[i] = r
        BY <2>1, <2>12, <3>1 DEF Passed
      <4>2. out \o parsedRecords = out
        BY <2>1, <2>9, ConcatEmptySeq
      <4>3. i \in 1 .. Len(out) /\ out[i] = r
        BY <4>1, <4>2
      <4>. QED
        BY <2>11, <4>3
    <3>2. CASE r[2] >= offset
      <4>1. a < r[2]
        BY <2>1, <2>5, <2>12, <3>0, <3>2 DEF RestFrom
      <4>2. PICK k \in 1 .. Len(q) : q[k] = r
        BY <2>8, <2>12, <3>0, <4>1
      <4>3. Len(out) + k \in 1 .. Len(s) /\ ~(Len(out) + k <= Len(out))
            /\ (Len(out) + k) - Len(out) = k
        BY <2>11
      <4>4. s[Len(out) + k] = r
        BY <2>11, <4>2, <4>3
      <4>. QED
        BY <4>3, <4>4
    <3>. QED
      BY <2>1, <3>0, <3>1, <3>2
  <2>13. out' \o parsedRecords' = s
    BY <2>1, <2>2, <2>5, <2>7, <2>10
  <2>14. fd' = fd /\ base' = base /\ offset' = o
    BY <2>1, <2>2
  <2>15. \A r \in Record : r[1] = fd' /\ base' < r[2] /\ r[2] < offset'
           => \E i \in 1 .. Len(out' \o parsedRecords') : (out' \o parsedRecords')[i] = r
    BY <2>12, <2>13, <2>14
  <2>. QED
    BY <2>1, <2>3, <2>4, <2>14, <2>15 DEF Passed
<1>11. CASE Printed
  <2>1. /\ pc = "print" /\ parsedRecords = <<>> /\ pc' \in {"read", "poll"}
        /\ UNCHANGED <<fd, offset, base, remainder, parsedRecords, out>>
    BY <1>11 DEF Printed
  <2>. QED
    BY <2>1 DEF Passed
<1>12. CASE Interrupt
  <2>1. /\ pc' \in {pc, "exit"}
        /\ UNCHANGED <<fd, offset, base, remainder, parsedRecords, out>>
    BY <1>12 DEF Interrupt
  <2>. QED
    BY <2>1 DEF Passed
<1>. QED
  BY <1>1, <1>2, <1>3, <1>4, <1>5, <1>6, <1>7, <1>8, <1>9, <1>10, <1>11, <1>12
     DEF Next, Bfe, TailRuns, Signal, CatReads, CatPrints, CatFails, TailStep, vars

-----------------------------------------------------------------------------
(* The order of what is printed *)

\* The beginning of an ordered sequence is ordered.
LEMMA OrderedPart ==
  ASSUME NEW s \in Seq(Record), NEW t \in Seq(Record), Ordered(s \o t)
  PROVE  Ordered(s)
<1>1. PICK u : u = s \o t
  OBVIOUS
<1>2. /\ Len(u) = Len(s) + Len(t) /\ Len(s) \in Nat /\ Len(t) \in Nat
      /\ \A i \in 1 .. Len(s) + Len(t) : u[i] = IF i <= Len(s) THEN s[i] ELSE t[i - Len(s)]
  BY <1>1, ConcatProperties, LenProperties
<1>3. \A i \in 1 .. Len(s) : i \in 1 .. Len(u) /\ u[i] = s[i]
  BY <1>2
<1>4. Ordered(u)
  BY <1>1
<1>. QED
  BY <1>3, <1>4 DEF Ordered

\* What lies in a file lies before every place of a later one.
LEMMA BehindNext ==
  ASSUME NEW f \in File, NEW g \in File, f < g, NEW a \in Int, NEW b \in Int,
         NEW s \in Seq(Record), Behind(s, f, a)
  PROVE  Behind(s, g, b)
<1>1. ASSUME NEW i \in 1 .. Len(s)
      PROVE  Earlier(s[i], <<g, b>>)
  <2>1. s[i] \in Record /\ f \in Int /\ g \in Int
    BY ElementOfSeq DEF File
  <2>2. s[i][1] \in Int /\ s[i][2] \in Nat
    BY <2>1, RecordParts
  <2>3. Earlier(s[i], <<f, a>>)
    BY DEF Behind
  <2>. QED
    BY <2>1, <2>2, <2>3 DEF Earlier
<1>. QED
  BY <1>1 DEF Behind

\* The two halves of the invariant: where the tool stands, and what is behind.
Stands ==
  /\ pc = "stat" => fd <= cur
  /\ pc \in {"chunk", "emit", "follow"} => base <= size[inode] /\ inode <= cur
InFront ==
  /\ Ordered(out)
  /\ pc \in {"emit", "follow"} => Behind(out \o parsedRecords, inode, base)
  /\ pc \in {"poll", "reopen", "read", "print"} =>
       /\ inode \in File /\ inode <= cur /\ offset <= size[inode]
       /\ Behind(out \o parsedRecords, inode, RestFrom(base, offset))
  /\ pc = "poll" => inode <= fd /\ fd <= cur
  /\ pc \in {"read", "print"} => fd = inode

LEMMA InOrderParts ==
  /\ InOrder <=> Stands /\ (MaxPiece <= initialChunk /\ ~raced => InFront)
  /\ InOrder' <=> Stands' /\ (MaxPiece <= initialChunk /\ ~raced' => InFront')
  BY DEF InOrder, Stands, InFront

\* Only what BFE does changes cur and size.
LEMMA BfeOrQuiet ==
  ASSUME TInv, [Next]_vars
  PROVE  \/ UNCHANGED tailVars
         \/ (TailStep \/ Interrupt) /\ UNCHANGED bfeVars
  BY DEF Next, Bfe, TailRuns, Signal, CatReads, CatPrints, CatFails, vars

LEMMA CurOnly ==
  ASSUME TInv, [Next]_vars, UNCHANGED tailVars
  PROVE  /\ cur \in Int /\ cur' \in Int /\ cur <= cur'
         /\ \A f \in File : size[f] \in Nat /\ size'[f] \in Nat /\ size[f] <= size'[f]
<1>1. LogTypeOK /\ cur \in Int /\ \A f \in File : size[f] \in Nat
  <2>1. LogTypeOK
    BY TInvParts
  <2>. QED
    BY <2>1, LogAssumption DEF LogTypeOK, File
<1>2. CASE Bfe
  BY <1>1, <1>2, BfeStep DEF Bfe
<1>3. CASE UNCHANGED bfeVars
  BY <1>1, <1>3 DEF bfeVars
<1>. QED
  BY <1>2, <1>3 DEF Next, TailRuns, Signal, CatReads, CatPrints, CatFails, vars

LEMMA StandsStep ==
  ASSUME TInv, Stands, [Next]_vars
  PROVE  Stands'
<1>0. /\ LogTypeOK /\ path \in {cur, NoFile} /\ TailTypeOK /\ TailPhases
      /\ cur \in Int /\ \A f \in File : size[f] \in Nat /\ f \in Int
  <2>1. LogTypeOK /\ path \in {cur, NoFile} /\ TailTypeOK /\ TailPhases
    BY TInvParts
  <2>. QED
    BY <2>1, LogAssumption DEF LogTypeOK, File
<1>1. CASE UNCHANGED tailVars
  <2>1. /\ cur' \in Int /\ cur <= cur'
        /\ \A f \in File : size'[f] \in Nat /\ size[f] <= size'[f]
    BY <1>1, CurOnly
  <2>2. UNCHANGED <<pc, fd, inode, base>>
    BY <1>1 DEF tailVars
  <2>3. base \in Int /\ (pc \in {"chunk", "emit", "follow"} => inode \in File)
        /\ (pc = "stat" => fd \in File)
    BY <1>0 DEF TailTypeOK, TailPhases
  <2>. QED
    BY <1>0, <2>1, <2>2, <2>3 DEF Stands
<1>2. CASE (TailStep \/ Interrupt) /\ UNCHANGED bfeVars
  <2>0. cur' = cur /\ size' = size
    BY <1>2 DEF bfeVars
  <2>1. CASE TailOpen
    <3>1. fd' = path /\ (pc' = "stat" => path # NoFile) /\ pc' \in {"stat", "exit"}
      BY <2>1 DEF TailOpen
    <3>. QED
      BY <1>0, <2>0, <3>1 DEF Stands
  <2>2. CASE TailStat
    <3>1. pc = "stat" /\ pc' = "chunk" /\ base' = size[fd] /\ inode' = fd
      BY <2>2 DEF TailStat
    <3>2. fd \in File /\ fd <= cur
      BY <1>0, <3>1 DEF Stands, TailPhases
    <3>. QED
      BY <1>0, <2>0, <3>1, <3>2 DEF Stands
  <2>3. CASE ReadChunk \/ ChunksRead \/ Emit \/ TailDone \/ Interrupt
    <3>1. /\ pc \in {"chunk", "emit"} \/ pc' = pc \/ pc' \notin {"stat", "chunk", "emit", "follow"}
          /\ pc' # "stat" \/ pc' = pc
          /\ pc' = pc => UNCHANGED fd
          /\ UNCHANGED <<inode, base>>
      BY <2>3 DEF ReadChunk, ChunksRead, Emit, TailDone, Interrupt
    <3>. QED
      BY <2>0, <3>1 DEF Stands
  <2>4. CASE FollowOpen \/ PollRotated \/ Reopen \/ PollGrown \/ FollowRead \/ Printed
    <3>1. pc' \in {"exit", "poll", "reopen", "read", "print"}
      BY <2>4 DEF FollowOpen, PollRotated, Reopen, PollGrown, FollowRead, Printed
    <3>. QED
      BY <3>1 DEF Stands
  <2>. QED
    BY <1>2, <2>1, <2>2, <2>3, <2>4 DEF TailStep
<1>. QED
  BY <1>1, <1>2, BfeOrQuiet

\* Once raced, always raced.
LEMMA RacedStays ==
  ASSUME TInv, [Next]_vars, ~raced'
  PROVE  ~raced
<1>1. CASE UNCHANGED tailVars
  BY <1>1 DEF tailVars
<1>2. CASE TailStep \/ Interrupt
  BY <1>2 DEF TailStep, Interrupt, TailOpen, TailStat, ReadChunk, ChunksRead, Emit, TailDone,
              FollowOpen, PollRotated, Reopen, PollGrown, FollowRead, Printed
<1>. QED
  BY <1>1, <1>2, BfeOrQuiet

LEMMA InFrontStep ==
  ASSUME TInv, LastN, Passed, Stands, InFront, MaxPiece <= initialChunk, ~raced', LastN',
         [Next]_vars
  PROVE  InFront'
<1>0. /\ LogTypeOK /\ path \in {cur, NoFile} /\ TailTypeOK /\ TailPhases
      /\ cur \in Int /\ \A f \in File : size[f] \in Nat /\ f \in Int
  <2>1. LogTypeOK /\ path \in {cur, NoFile} /\ TailTypeOK /\ TailPhases
    BY TInvParts
  <2>. QED
    BY <2>1, LogAssumption DEF LogTypeOK, File
<1>a. /\ MaxPiece \in Nat /\ initialChunk \in Nat /\ base \in 0 .. MaxPiece
      /\ offset \in 0 .. MaxPiece /\ out \in Seq(Record) /\ parsedRecords \in Seq(Record)
  BY <1>0, LogAssumption, TailAssumption DEF TailTypeOK
<1>b. out \o <<>> = out
  BY <1>a, ConcatEmptySeq
<1>1. CASE UNCHANGED tailVars
  <2>1. /\ cur' \in Int /\ cur <= cur'
        /\ \A f \in File : size'[f] \in Nat /\ size[f] <= size'[f]
    BY <1>1, CurOnly
  <2>2. UNCHANGED <<pc, fd, inode, base, offset, out, parsedRecords>>
    BY <1>1 DEF tailVars
  <2>3. pc = "poll" => fd \in Int /\ fd <= cur
    BY <1>0 DEF InFront, TailPhases
  <2>4. pc \in {"poll", "reopen", "read", "print"} => inode \in File /\ inode <= cur /\ offset <= size[inode]
    BY DEF InFront
  <2>5. pc = "poll" => fd <= cur'
    BY <1>0, <2>1, <2>3
  <2>6. pc \in {"poll", "reopen", "read", "print"} =>
          inode <= cur' /\ offset <= size'[inode]
    BY <1>0, <1>a, <2>1, <2>4
  <2>. QED
    BY <2>2, <2>5, <2>6 DEF InFront
<1>2. CASE UNCHANGED bfeVars /\ (TailOpen \/ TailStat \/ ReadChunk)
  <2>1. pc' \in {"exit", "stat", "chunk"} /\ out' = out
    BY <1>2 DEF TailOpen, TailStat, ReadChunk
  <2>. QED
    BY <2>1 DEF InFront
<1>3. CASE UNCHANGED bfeVars /\ ChunksRead
  <2>1. /\ pc = "chunk" /\ pc' = "emit" /\ out' = out /\ inode' = inode /\ base' = base /\ n' = n
    BY <1>3 DEF ChunksRead
  <2>2. inode \in File /\ n \in Nat
    BY <1>0, <2>1 DEF TailPhases, TailTypeOK
  <2>3. base' <= initialChunk
    BY <1>a, <2>1
  <2>4. out' \o parsedRecords' = LastOf(inode, base)'
    BY <2>1, <2>3 DEF LastN
  <2>5. LastOf(inode, base)' = LastOf(inode, base)
    BY <2>1 DEF LastOf
  <2>6. Behind(LastOf(inode, base), inode, base)
    BY <1>a, <2>2, LastOfIs
  <2>. QED
    BY <2>1, <2>4, <2>5, <2>6 DEF InFront
<1>4. CASE UNCHANGED bfeVars /\ Emit
  <2>1. pc \in {"emit", "print"}
    BY <1>4 DEF Emit
  <2>2. /\ UNCHANGED <<fd, inode, offset, base>>
        /\ \/ pc' = "exit" /\ out' = out
           \/ pc' = pc /\ out' \o parsedRecords' = out \o parsedRecords
    BY <1>4, EmitMoves
  <2>3. CASE pc' = "exit" /\ out' = out
    BY <2>3 DEF InFront
  <2>4. CASE pc' = pc /\ out' \o parsedRecords' = out \o parsedRecords
    <3>1. PICK s : s = out \o parsedRecords
      OBVIOUS
    <3>2. s = out' \o parsedRecords'
      BY <2>4, <3>1
    <3>3. Ordered(s)
      BY <2>1, <3>1 DEF InFront, Behind
    <3>4. out' \in Seq(Record) /\ parsedRecords' \in Seq(Record)
      <4>1. TailTypeOK'
        BY <1>4, TailTypes DEF TailStep
      <4>. QED
        BY <4>1 DEF TailTypeOK
    <3>5. Ordered(out)'
      <4>1. PICK o, p : o = out' /\ p = parsedRecords'
        OBVIOUS
      <4>2. Ordered(o)
        BY <3>2, <3>3, <3>4, <4>1, OrderedPart
      <4>. QED
        BY <4>1, <4>2 DEF Ordered
    <3>6. pc = "emit" => Behind(s, inode, base)
      BY <3>1 DEF InFront
    <3>7. pc = "print" => /\ inode \in File /\ inode <= cur /\ offset <= size[inode]
                          /\ Behind(s, inode, RestFrom(base, offset)) /\ fd = inode
      BY <3>1 DEF InFront
    <3>. QED
      BY <1>4, <2>1, <2>2, <2>4, <3>2, <3>5, <3>6, <3>7 DEF InFront, bfeVars
  <2>. QED
    BY <2>2, <2>3, <2>4
<1>5. CASE UNCHANGED bfeVars /\ TailDone
  <2>1. /\ pc = "emit" /\ pc' \in {"follow", "exit"}
        /\ UNCHANGED <<inode, base, out, parsedRecords>>
    BY <1>5 DEF TailDone
  <2>. QED
    BY <2>1 DEF InFront
<1>6. CASE UNCHANGED bfeVars /\ FollowOpen
  <2>1. /\ pc = "follow" /\ pc' = (IF path = NoFile THEN "exit" ELSE "poll")
        /\ fd' = path /\ offset' = base
        /\ UNCHANGED <<inode, base, out, parsedRecords>> /\ cur' = cur /\ size' = size
    BY <1>6 DEF FollowOpen, StartOffset, bfeVars
  <2>2. RestFrom(base, base) = base
    BY <1>a DEF RestFrom
  <2>3. /\ Behind(out \o parsedRecords, inode, base) /\ inode \in File
        /\ base <= size[inode] /\ inode <= cur
    BY <1>0, <2>1 DEF InFront, Stands, TailPhases
  <2>4. pc' = "poll" => inode <= fd' /\ fd' <= cur'
    BY <1>0, <2>1, <2>3
  <2>. QED
    BY <2>1, <2>2, <2>3, <2>4 DEF InFront
<1>7. CASE UNCHANGED bfeVars /\ PollRotated
  <2>1. /\ pc = "poll" /\ pc' = "reopen" /\ path # NoFile /\ Rotated
        /\ inode' = path /\ offset' = 0 /\ base' = 0
        /\ UNCHANGED <<out, parsedRecords>> /\ cur' = cur /\ size' = size
    BY <1>7 DEF PollRotated, bfeVars
  <2>2. /\ inode \in File /\ inode <= cur /\ offset <= size[inode]
        /\ Behind(out \o parsedRecords, inode, RestFrom(base, offset))
    BY <2>1 DEF InFront
  <2>3. path \in File /\ path = cur
    BY <1>0, <2>1 DEF LogTypeOK
  <2>4. path # inode
    BY <1>0, <1>a, <2>1, <2>2 DEF Rotated
  <2>5. inode < path
    BY <1>0, <2>2, <2>3, <2>4
  <2>6. RestFrom(0, 0) = 0 /\ RestFrom(base, offset) \in Int
    BY <1>a DEF RestFrom
  <2>7. out \o parsedRecords \in Seq(Record)
    BY <1>a, ConcatProperties
  <2>8. Behind(out \o parsedRecords, path, 0)
    <3>1. PICK s : s = out \o parsedRecords
      OBVIOUS
    <3>2. PICK f \in File, g \in File, a \in Int : f = inode /\ g = path /\ a = RestFrom(base, offset)
      BY <2>2, <2>3, <2>6
    <3>3. s \in Seq(Record)
      BY <2>7, <3>1
    <3>4. f < g
      BY <2>5, <3>2
    <3>5. Behind(s, f, a)
      BY <2>2, <3>1, <3>2
    <3>6. 0 \in Int
      OBVIOUS
    <3>7. Behind(s, g, 0)
      BY <3>3, <3>4, <3>5, <3>6, BehindNext
    <3>. QED
      BY <3>1, <3>2, <3>7
  <2>9. 0 <= size[path]
    BY <1>0, <2>3
  <2>. QED
    BY <1>0, <2>1, <2>3, <2>6, <2>8, <2>9 DEF InFront
<1>8. CASE UNCHANGED bfeVars /\ Reopen
  <2>1. /\ pc = "reopen" /\ pc' \in {"exit", "poll", "read"} /\ fd' = path
        /\ pc' # "exit" => path # NoFile
        /\ UNCHANGED <<inode, offset, base, out, parsedRecords>> /\ cur' = cur /\ size' = size
    BY <1>8 DEF Reopen, bfeVars
  <2>2. path \in {inode, NoFile}
    BY <1>8 DEF Reopen
  <2>3. /\ inode \in File /\ inode <= cur /\ offset <= size[inode]
        /\ Behind(out \o parsedRecords, inode, RestFrom(base, offset))
    BY <2>1 DEF InFront
  <2>4. pc' # "exit" => fd' = inode
    BY <2>1, <2>2
  <2>5. inode <= inode
    BY <1>0, <2>3
  <2>. QED
    BY <2>1, <2>3, <2>4, <2>5 DEF InFront
<1>9. CASE UNCHANGED bfeVars /\ PollGrown
  <2>1. /\ pc = "poll" /\ pc' = "read" /\ path # NoFile /\ path = inode
        /\ UNCHANGED <<fd, inode, offset, base, out, parsedRecords>> /\ cur' = cur /\ size' = size
    BY <1>9 DEF PollGrown, Rotated, bfeVars
  <2>2. /\ inode \in File /\ inode <= cur /\ offset <= size[inode]
        /\ Behind(out \o parsedRecords, inode, RestFrom(base, offset))
        /\ inode <= fd /\ fd <= cur
    BY <2>1 DEF InFront
  <2>3. fd \in Int /\ inode \in Int /\ cur \in Int
    <3>1. fd \in File /\ cur \in File
      BY <1>0, <2>1 DEF TailPhases, LogTypeOK
    <3>. QED
      BY <2>2, <3>1, LogAssumption DEF File
  <2>4. path = cur
    BY <1>0, <2>1
  <2>5. fd = inode
    BY <2>1, <2>2, <2>3, <2>4
  <2>. QED
    BY <2>1, <2>2, <2>5 DEF InFront
<1>10. CASE UNCHANGED bfeVars /\ FollowRead /\ Got = 0
  <2>1. /\ pc = "read" /\ pc' = "poll"
        /\ UNCHANGED <<fd, inode, offset, base, out, parsedRecords>> /\ cur' = cur /\ size' = size
    BY <1>10 DEF FollowRead, Got, bfeVars
  <2>2. /\ inode \in File /\ inode <= cur /\ offset <= size[inode]
        /\ Behind(out \o parsedRecords, inode, RestFrom(base, offset))
        /\ fd = inode
    BY <2>1 DEF InFront
  <2>3. inode <= inode
    BY <1>0, <2>2
  <2>. QED
    BY <2>1, <2>2, <2>3 DEF InFront
<1>11. CASE UNCHANGED bfeVars /\ FollowRead /\ Got # 0
  <2>1. /\ pc = "read" /\ pc' = "print" /\ fd \in File
        /\ base \in Nat /\ offset \in Nat /\ base <= offset
        /\ offset' \in Nat /\ offset < offset' /\ offset' <= size[fd] /\ offset' <= MaxPiece
        /\ parsedRecords = <<>>
        /\ parsedRecords' = RecordsOf(fd, RestFrom(base, offset), offset')
        /\ UNCHANGED <<fd, inode, out, base>> /\ cur' = cur /\ size' = size
    BY <1>11, FollowRun DEF bfeVars
  <2>2. /\ inode \in File /\ inode <= cur /\ fd = inode
        /\ Behind(out, inode, RestFrom(base, offset))
    BY <1>b, <2>1 DEF InFront
  <2>3. PICK o : o = offset'
    OBVIOUS
  <2>4. PICK a : a = RestFrom(base, offset)
    OBVIOUS
  <2>5. a \in Nat /\ a <= offset /\ RestFrom(a, o) = RestFrom(base, o)
    BY <2>1, <2>3, <2>4, RestRest
  <2>6. a <= o /\ o \in Nat /\ o <= MaxPiece
    BY <2>1, <2>3, <2>5
  <2>7. Behind(out \o RecordsOf(inode, a, o), inode, RestFrom(a, o))
    BY <1>a, <2>2, <2>4, <2>5, <2>6, AppendInOrder
  <2>8. out' \o parsedRecords' = out \o RecordsOf(inode, a, o)
    BY <2>1, <2>2, <2>3, <2>4
  <2>9. Ordered(out)
    BY DEF InFront
  <2>10. base' = base /\ offset' = o /\ inode' = inode /\ fd' = inode /\ o <= size'[inode]
    BY <2>1, <2>2, <2>3
  <2>11. out' = out
    BY <2>1
  <2>. QED
    BY <2>1, <2>2, <2>5, <2>7, <2>8, <2>9, <2>10, <2>11 DEF InFront
<1>12. CASE UNCHANGED bfeVars /\ Printed
  <2>1. /\ pc = "print" /\ pc' \in {"read", "poll"}
        /\ UNCHANGED <<fd, inode, offset, base, out, parsedRecords>> /\ cur' = cur /\ size' = size
    BY <1>12 DEF Printed, bfeVars
  <2>2. /\ inode \in File /\ inode <= cur /\ offset <= size[inode]
        /\ Behind(out \o parsedRecords, inode, RestFrom(base, offset))
        /\ fd = inode
    BY <2>1 DEF InFront
  <2>3. inode <= inode
    BY <1>0, <2>2
  <2>. QED
    BY <2>1, <2>2, <2>3 DEF InFront
<1>13. CASE UNCHANGED bfeVars /\ Interrupt
  <2>1. /\ pc' \in {pc, "exit"}
        /\ UNCHANGED <<fd, inode, offset, base, out, parsedRecords>> /\ cur' = cur /\ size' = size
    BY <1>13 DEF Interrupt, bfeVars
  <2>. QED
    BY <2>1 DEF InFront
<1>14. UNCHANGED tailVars \/ (UNCHANGED bfeVars /\ (TailStep \/ Interrupt))
  BY BfeOrQuiet
<1>. QED
  BY <1>1, <1>2, <1>3, <1>4, <1>5, <1>6, <1>7, <1>8, <1>9, <1>10, <1>11, <1>12, <1>13, <1>14
     DEF TailStep

-----------------------------------------------------------------------------
(* The invariant and what follows from it *)

LEMMA InitInv == Init => Inv
<1> SUFFICES ASSUME Init PROVE Inv
  OBVIOUS
<1>1. TInv
  BY InitTypes
<1>2. pc \in {"exit", "open"} /\ base = 0 /\ offset = 0 /\ chunkSize = initialChunk
      /\ buffer = <<>> /\ remainder = <<>> /\ parsedRecords = <<>> /\ out = <<>>
  BY DEF Init, TailInit
<1>3. CInv
  BY DEF Init, CatInit, CInv, NotOpen
<1>4. LastN
  BY <1>2 DEF LastN
<1>5. Passed
  BY <1>2 DEF Passed
<1>6. InOrder
  BY <1>2 DEF InOrder, Ordered
<1>. QED
  BY <1>1, <1>3, <1>4, <1>5, <1>6 DEF Inv

LEMMA InvStep ==
  ASSUME Inv, [Next]_vars
  PROVE  Inv'
<1>1. TInv /\ CInv /\ LastN /\ Passed /\ InOrder
  BY DEF Inv
<1>2. TInv' /\ CInv' /\ LastN' /\ Passed'
  BY <1>1, TypeStep, FlowStep, LastNStep, PassedStep
<1>3. Stands /\ (MaxPiece <= initialChunk /\ ~raced => InFront)
  BY <1>1, InOrderParts
<1>4. Stands'
  BY <1>1, <1>3, StandsStep
<1>5. ASSUME MaxPiece <= initialChunk, ~raced'
      PROVE  InFront'
  <2>1. ~raced
    BY <1>1, <1>5, RacedStays
  <2>2. InFront
    BY <1>3, <1>5, <2>1
  <2>. QED
    BY <1>1, <1>2, <1>3, <1>5, <2>2, InFrontStep
<1>6. InOrder'
  BY <1>4, <1>5, InOrderParts
<1>. QED
  BY <1>2, <1>6 DEF Inv

\* The invariant of the tool: every buffer is a run of its file, what is
\* printed is in front of what is read next.
THEOREM PblogInvariant == Spec => []Inv
<1>1. Init => Inv
  BY InitInv
<1>2. Inv /\ [Next]_vars => Inv'
  BY InvStep
<1>. QED
  BY <1>1, <1>2, PTL DEF Spec

\* Every variable of the tool keeps its type; the channel of cat keeps its
\* capacity.
THEOREM PblogTypes == Spec => []TypeOK
<1>1. Inv => TypeOK
  BY DEF Inv, TInv
<1>. QED
  BY <1>1, PblogInvariant, PTL

\* cat prints its file from the first record on, in order and without a gap,
\* and to the end it saw; after a failed read it still keeps the order.
THEOREM CatPrintsPrefix == Spec => []CatPrefix
<1>1. Inv => CatPrefix
  BY CatPromise DEF Inv
<1>. QED
  BY <1>1, PblogInvariant, PTL

\* followFrom passes no record by, whatever the chunks and the rotations.
THEOREM FollowPassesNone == Spec => []NothingPassed
<1>1. Inv => NothingPassed
  <2> SUFFICES ASSUME Inv, fd # NoFile, pc \in {"poll", "read", "print"},
                      NEW r \in Record, r[1] = fd, base < r[2], r[2] < offset
               PROVE  \E i \in DOMAIN (out \o parsedRecords) : (out \o parsedRecords)[i] = r
    BY DEF NothingPassed
  <2>1. out \in Seq(Record) /\ parsedRecords \in Seq(Record)
    BY DEF Inv, TInv, TypeOK, TailTypeOK
  <2>2. out \o parsedRecords \in Seq(Record)
    BY <2>1, ConcatProperties
  <2>3. PICK s \in Seq(Record) : s = out \o parsedRecords
    BY <2>2
  <2>4. \E i \in 1 .. Len(s) : s[i] = r
    BY <2>3 DEF Inv, Passed
  <2>5. DOMAIN s = 1 .. Len(s)
    OBVIOUS
  <2>. QED
    BY <2>3, <2>4, <2>5
<1>. QED
  BY <1>1, PblogInvariant, PTL

\* The incomplete frame that followFrom keeps is the piece just before the place
\* it has reached in the file it has open: a rotation leaves nothing of the
\* old file to be completed with the bytes of the new one.
THEOREM RemainderStays == Spec => []RemainderAtOffset
<1>1. Inv => RemainderAtOffset
  BY DEF Inv, Passed, RemainderAtOffset
<1>. QED
  BY <1>1, PblogInvariant, PTL

\* tail -n prints the last n records of a file that the first chunk takes as a
\* whole (of a longer one it prints too many: the run PblogTool_chunks).
THEOREM TailLastRecords == Spec => [](base <= initialChunk => LastRecords)
<1>1. Inv => (base <= initialChunk => LastRecords)
  BY DEF Inv, LastN, LastRecords, LastOf
<1>. QED
  BY <1>1, PblogInvariant, PTL

\* As long as no file is longer than the first chunk, tail -f prints in the
\* order of the log and no record twice, through the handover from tailLastN
\* to followFrom and through every rotation that does not race a reopening.
THEOREM TailInOrder ==
  ASSUME MaxPiece <= initialChunk
  PROVE  Spec => []InOrderOnce
<1>1. Inv => InOrderOnce
  <2> SUFFICES ASSUME Inv, ~raced PROVE \A i, j \in DOMAIN out : i < j => Earlier(out[i], out[j])
    BY DEF InOrderOnce
  <2>1. Ordered(out)
    BY DEF Inv, InOrder
  <2>2. out \in Seq(Record)
    BY DEF Inv, TInv, TypeOK, TailTypeOK
  <2>3. DOMAIN out = 1 .. Len(out)
    BY <2>2
  <2>. QED
    BY <2>1, <2>3 DEF Ordered
<1>. QED
  BY <1>1, PblogInvariant, PTL
=============================================================================
