--------------------------- MODULE SimulatorProofs --------------------------
(***************************************************************************)
(* The groups a run posts, the histories it saves and the verdict on them, *)
(* for any captures, any number of inputs and any engine, whatever         *)
(* requests and writes fail and in whatever order the threads end.         *)
(*                                                                         *)
(* What is posted rests on closed forms: InOrder lists a set in order,     *)
(* FlattenSeq of blocks of D lines has line l at (l - 1) div D and         *)
(* (l - 1) mod D, and Grouped divides again, by input_count.               *)
(***************************************************************************)
EXTENDS Simulator, SequenceTheorems, FiniteSetTheorems, FunctionTheorems,
        WellFoundedInduction, TLAPS


-----------------------------------------------------------------------------
(* Division.                                                               *)

\* Division with remainder.
LEMMA Remainder ==
  ASSUME NEW D \in Nat, D > 0, NEW a \in Nat
  PROVE  /\ a \div D \in Nat /\ a % D \in 0..(D - 1)
         /\ a = D * (a \div D) + (a % D)
OBVIOUS

\* One block more is at least a whole block more.
LEMMA Multiples ==
  ASSUME NEW D \in Nat, NEW x \in Nat, NEW q \in Nat, x >= q + 1
  PROVE  D * x >= D * q + D
<1>1. PICK e \in Nat : x = q + 1 + e
  <2>1. x - q - 1 \in Nat /\ x = q + 1 + (x - q - 1)
    OBVIOUS
  <2> QED
    BY <2>1
<1>2. D * x = D * q + D + D * e
  BY <1>1
<1>3. D * e \in Nat
  OBVIOUS
<1> QED
  BY <1>2, <1>3

\* The quotient and the remainder of so many whole blocks and a part of one.
LEMMA Split ==
  ASSUME NEW D \in Nat, D > 0, NEW q \in Nat, NEW r \in 0..(D - 1)
  PROVE  /\ q * D + r \in Nat
         /\ (q * D + r) \div D = q /\ (q * D + r) % D = r
<1>1. q * D \in Nat /\ q * D + r \in Nat
  OBVIOUS
<1>2. PICK a \in Nat : a = q * D + r
  BY <1>1
<1>3. PICK x \in Nat : x = a \div D
  BY Remainder
<1>4. PICK y \in 0..(D - 1) : y = a % D
  BY Remainder
<1>5. a = D * x + y
  BY <1>3, <1>4, Remainder
<1>6. D * q + r = D * x + y
  BY <1>2, <1>5
<1>7. PICK m \in Nat, l \in Nat : m = D * q /\ l = D * x
  OBVIOUS
<1>8. ~(x >= q + 1)
  <2> SUFFICES ASSUME x >= q + 1 PROVE FALSE
    OBVIOUS
  <2>1. l >= m + D
    BY Multiples, <1>7
  <2> QED
    BY <2>1, <1>6, <1>7
<1>9. ~(q >= x + 1)
  <2> SUFFICES ASSUME q >= x + 1 PROVE FALSE
    OBVIOUS
  <2>1. m >= l + D
    BY Multiples, <1>7
  <2> QED
    BY <2>1, <1>6, <1>7
<1>10. x = q
  BY <1>8, <1>9
<1>11. y = r
  BY <1>6, <1>7, <1>10
<1> QED
  BY <1>1, <1>2, <1>3, <1>4, <1>10, <1>11

-----------------------------------------------------------------------------
(* Blocks of lines, one after the other.                                   *)

\* A set of naturals with 0 and the successor of each of its elements has them all.
LEMMA Induction ==
  ASSUME NEW S, 0 \in S, \A k \in Nat : k \in S => k + 1 \in S
  PROVE  Nat \subseteq S
<1> DEFINE T == {k \in Nat : k \notin S}
<1> SUFFICES ASSUME T # {} PROVE FALSE
  OBVIOUS
<1>1. PICK x \in T : \A y \in T : ~(<<y, x>> \in OpToRel(<, Nat))
  BY NatLessThanWellFounded, WFMin
<1>2. x \in Nat /\ x # 0
  OBVIOUS
<1>3. x - 1 \in Nat /\ x - 1 < x /\ (x - 1) + 1 = x
  BY <1>2
<1>4. x - 1 \notin T
  BY <1>1, <1>3 DEF OpToRel
<1> QED
  BY <1>3, <1>4

\* Line l of i blocks of D lines.
Lines(s, D, i) ==
  [l \in 1..(i * D) |-> s[((l - 1) \div D) + 1][((l - 1) % D) + 1]]

\* The block and the place in it of the d-th line of block w.
LEMMA PlaceInBlock ==
  ASSUME NEW D \in Nat, D > 0, NEW w \in Nat, w > 0, NEW d \in 1..D
  PROVE  LET l == (w - 1) * D + d
         IN  /\ l \in Nat /\ l > 0
             /\ ((l - 1) \div D) + 1 = w /\ ((l - 1) % D) + 1 = d
<1>1. PICK q \in Nat : q = w - 1
  BY w - 1 \in Nat
<1>2. PICK r \in 0..(D - 1) : r = d - 1
  BY d - 1 \in 0..(D - 1)
<1>3. PICK m \in Nat : m = q * D
  OBVIOUS
<1>4. m + d - 1 = m + r
  BY <1>2
<1>5. (m + r) \div D = q /\ (m + r) % D = r
  BY <1>3, Split
<1> QED
  BY <1>1, <1>2, <1>3, <1>4, <1>5

\* C is A followed by B, element by element.
IsJoin(C, A, B, m, D) == \A l \in 1..(m + D) : C[l] = IF l <= m THEN A[l] ELSE B[l - m]

\* What is so element by element is the concatenation.
LEMMA Joined ==
  ASSUME NEW S, NEW m \in Nat, NEW D \in Nat, NEW A \in [1..m -> S], NEW B \in [1..D -> S],
         NEW C \in [1..(m + D) -> S], IsJoin(C, A, B, m, D)
  PROVE  C = A \o B
<1>1. A \in Seq(S) /\ Len(A) = m
  OBVIOUS
<1>2. B \in Seq(S) /\ Len(B) = D
  OBVIOUS
<1>3. C \in Seq(S) /\ Len(C) = m + D
  BY m + D \in Nat
<1>4. A \o B \in Seq(S) /\ Len(A \o B) = m + D
  BY <1>1, <1>2, ConcatProperties
<1>5. \A l \in 1..(m + D) : (A \o B)[l] = C[l]
  BY <1>1, <1>2, ConcatProperties DEF IsJoin
<1> QED
  BY <1>3, <1>4, <1>5, SeqEqual

\* W blocks of D lines each.
InBlocks(s, W, D) ==
  /\ Len(s) = W /\ s = [w \in 1..W |-> s[w]]
  /\ \A w \in 1..W : s[w] = [d \in 1..D |-> s[w][d]]

\* The lines of the first i blocks are those of the blocks before and block i.
LEMMA OneBlockMore ==
  ASSUME NEW W \in Nat, NEW D \in Nat, D > 0, NEW s, InBlocks(s, W, D), NEW i \in 1..W
  PROVE  /\ i = 1 => Lines(s, D, i) = s[i]
         /\ i # 1 => Lines(s, D, i) = Lines(s, D, i - 1) \o s[i]
<1> DEFINE S == {s[p[1]][p[2]] : p \in (1..W) \X (1..D)}
<1>1. \A l \in 1..(i * D) :
        ((l - 1) \div D) + 1 \in 1..i /\ ((l - 1) % D) + 1 \in 1..D
  <2> SUFFICES ASSUME NEW l \in 1..(i * D)
               PROVE  ((l - 1) \div D) + 1 \in 1..i /\ ((l - 1) % D) + 1 \in 1..D
    OBVIOUS
  <2>1. PICK a \in Nat : a = l - 1
    BY l - 1 \in Nat
  <2>2. PICK x \in Nat, y \in 0..(D - 1) : x = a \div D /\ y = a % D
    BY Remainder
  <2>3. a = D * x + y
    BY <2>2, Remainder
  <2>4. PICK m \in Nat, k \in Nat : m = i * D /\ k = D * x /\ m = D * i
    OBVIOUS
  <2>5. ~(x >= i)
    <3> SUFFICES ASSUME x >= i PROVE FALSE
      OBVIOUS
    <3>1. PICK j \in Nat : i = j + 1
      BY i - 1 \in Nat, i = (i - 1) + 1
    <3>2. D * x >= D * j + D
      BY <3>1, Multiples
    <3>3. D * i = D * j + D
      BY <3>1
    <3>4. k >= m
      BY <2>4, <3>2, <3>3
    <3> QED
      BY <2>1, <2>3, <2>4, <3>4
  <2> QED
    BY <2>1, <2>2, <2>5
<1>2. \A k \in 1..i : Lines(s, D, k) \in [1..(k * D) -> S]
  <2> SUFFICES ASSUME NEW k \in 1..i, NEW l \in 1..(k * D)
               PROVE  s[((l - 1) \div D) + 1][((l - 1) % D) + 1] \in S
    BY DEF Lines
  <2>1. k * D \in Nat /\ k * D <= i * D
    <3>1. PICK e \in Nat : i = k + e
      BY i - k \in Nat, i = k + (i - k)
    <3>2. i * D = k * D + e * D /\ e * D \in Nat /\ k * D \in Nat
      BY <3>1
    <3> QED
      BY <3>2
  <2>2. l \in 1..(i * D)
    <3>1. PICK m \in Nat, k1 \in Nat : m = i * D /\ k1 = k * D
      OBVIOUS
    <3> QED
      BY <2>1, <3>1
  <2>3. PICK w \in 1..W, d \in 1..D : w = ((l - 1) \div D) + 1 /\ d = ((l - 1) % D) + 1
    BY <1>1, <2>2
  <2>4. <<w, d>> \in (1..W) \X (1..D) /\ <<w, d>>[1] = w /\ <<w, d>>[2] = d
    OBVIOUS
  <2>5. s[w][d] \in S
    BY <2>4
  <2> QED
    BY <2>3, <2>5
<1>3. s[i] \in [1..D -> S]
  <2>1. \A d \in 1..D : s[i][d] \in S
    <3> SUFFICES ASSUME NEW d \in 1..D PROVE s[i][d] \in S
      OBVIOUS
    <3>1. <<i, d>> \in (1..W) \X (1..D)
      OBVIOUS
    <3> QED
      BY <3>1
  <2> QED
    BY <2>1 DEF InBlocks
<1> HIDE DEF S
<1>4. PICK j \in Nat : i = j + 1
  BY i - 1 \in Nat, i = (i - 1) + 1
<1>5. \A d \in 1..D : LET l == j * D + d
                      IN  l \in Nat /\ ((l - 1) \div D) + 1 = i /\ ((l - 1) % D) + 1 = d
  BY <1>4, PlaceInBlock
<1>6. i * D = j * D + D
  BY <1>4
<1>7. CASE i = 1
  <2>1. j = 0 /\ j * D = 0 /\ i * D = D
    BY <1>4, <1>7
  <2>2. \A d \in 1..D : ((d - 1) \div D) + 1 = i /\ ((d - 1) % D) + 1 = d
    BY <1>5, <2>1
  <2>3. Lines(s, D, i) = [d \in 1..D |-> s[i][d]]
    BY <2>1, <2>2 DEF Lines
  <2> QED
    BY <2>3, <1>7 DEF InBlocks
<1>8. CASE i # 1
  <2>1. j \in 1..i /\ i - 1 = j
    BY <1>4, <1>8
  <2>2. PICK m \in Nat : m = j * D
    OBVIOUS
  <2> DEFINE A == Lines(s, D, j)
             B == s[i]
             C == Lines(s, D, i)
  <2>3. A \in [1..m -> S] /\ B \in [1..D -> S] /\ C \in [1..(m + D) -> S]
    BY <1>2, <1>3, <1>6, <2>1, <2>2
  <2>4. IsJoin(C, A, B, m, D)
    <3> SUFFICES ASSUME NEW l \in 1..(m + D)
                 PROVE  C[l] = IF l <= m THEN A[l] ELSE B[l - m]
      BY DEF IsJoin
    <3>1. C[l] = s[((l - 1) \div D) + 1][((l - 1) % D) + 1]
      BY <1>6, <2>2 DEF Lines
    <3>2. CASE l <= m
      <4>1. l \in 1..(j * D)
        BY <3>2, <2>2
      <4>2. A[l] = s[((l - 1) \div D) + 1][((l - 1) % D) + 1]
        BY <4>1 DEF Lines
      <4> QED
        BY <3>1, <3>2, <4>2
    <3>3. CASE l > m
      <4>1. PICK d \in 1..D : l = m + d
        BY <3>3, l - m \in 1..D, l = m + (l - m)
      <4>2. ((l - 1) \div D) + 1 = i /\ ((l - 1) % D) + 1 = d
        BY <1>5, <2>2, <4>1
      <4>3. l - m = d /\ ~(l <= m)
        BY <4>1, <3>3
      <4> QED
        BY <3>1, <4>2, <4>3
    <3> QED
      BY <3>2, <3>3
  <2> HIDE DEF A, B, C, S
  <2>5. C = A \o B
    <3>1. m \in Nat /\ D \in Nat
      OBVIOUS
    <3> QED
      BY ONLY <2>3, <2>4, <3>1, Joined
  <2> QED
    BY <1>8, <2>1, <2>5 DEF A, B, C
<1> QED
  BY <1>7, <1>8

\* F[i] is the first i sequences of s, one after the other.
Accumulates(F, s, W) ==
  /\ F = [i \in 1..W |-> F[i]]
  /\ \A i \in 1..W : F[i] = IF i = 1 THEN s[i] ELSE F[i - 1] \o s[i]

\* What accumulates is what FlattenSeq returns.
LEMMA FlattenIs ==
  ASSUME NEW W \in Nat, W > 0, NEW s, Len(s) = W, NEW F, Accumulates(F, s, W)
  PROVE  FlattenSeq(s) = F[W]
<1> USE DEF Accumulates
<1> DEFINE Step(f) == f = [i \in 1..W |-> IF i = 1 THEN s[i] ELSE f[i - 1] \o s[i]]
           Same(f) == {k \in Nat : k + 1 \in 1..W => f[k + 1] = F[k + 1]}
<1>1. Step(F)
  <2>1. \A i \in 1..W : F[i] = IF i = 1 THEN s[i] ELSE F[i - 1] \o s[i]
    OBVIOUS
  <2> QED
    BY <2>1
<1>2. ASSUME NEW f, Step(f) PROVE f[W] = F[W]
  <2>1. \A i \in 1..W : f[i] = IF i = 1 THEN s[i] ELSE f[i - 1] \o s[i]
    BY <1>2
  <2>2. 0 \in Same(f)
    <3>1. f[1] = s[1] /\ F[1] = s[1]
      <4>1. 1 \in 1..W
        OBVIOUS
      <4>2. \A i \in 1..W : F[i] = IF i = 1 THEN s[i] ELSE F[i - 1] \o s[i]
        OBVIOUS
      <4> HIDE DEF Accumulates
      <4> QED
        BY <2>1, <4>1, <4>2, Zenon
    <3> QED
      BY <3>1, 0 + 1 = 1
  <2>3. ASSUME NEW k \in Nat, k \in Same(f) PROVE k + 1 \in Same(f)
    <3> SUFFICES ASSUME (k + 1) + 1 \in 1..W PROVE f[(k + 1) + 1] = F[(k + 1) + 1]
      OBVIOUS
    <3>1. PICK i \in 1..W : i = (k + 1) + 1
      OBVIOUS
    <3>2. i # 1 /\ i - 1 = k + 1 /\ k + 1 \in 1..W
      BY <3>1
    <3>3. f[i - 1] = F[i - 1]
      BY <2>3, <3>2
    <3>4. f[i] = f[i - 1] \o s[i] /\ F[i] = F[i - 1] \o s[i]
      BY <2>1, <3>2
    <3>5. f[i] = F[i]
      BY <3>3, <3>4
    <3> QED
      BY <3>1, <3>5
  <2> HIDE DEF Same
  <2>4. Nat \subseteq Same(f)
    BY <2>2, <2>3, Induction
  <2>5. PICK k \in Nat : k + 1 = W
    BY W - 1 \in Nat, (W - 1) + 1 = W
  <2>6. k \in Same(f) /\ k + 1 \in 1..W
    BY <2>4, <2>5
  <2>7. f[k + 1] = F[k + 1]
    BY <2>6 DEF Same
  <2> QED
    BY <2>5, <2>7
<1>3. FlattenSeq(s) = (CHOOSE f : Step(f))[W]
  BY DEF FlattenSeq
<1> HIDE DEF Step
<1>4. Step(CHOOSE f : Step(f))
  BY <1>1
<1> QED
  BY <1>2, <1>3, <1>4

\* Flattening blocks of D lines puts line l at the place division by D gives.
LEMMA FlattenBlocks ==
  ASSUME NEW W \in Nat, NEW D \in Nat, NEW s, InBlocks(s, W, D)
  PROVE  FlattenSeq(s) = Lines(s, D, W)
<1>1. \A i \in 1..W : /\ i = 1 => Lines(s, D, i) = s[i]
                      /\ i # 1 => Lines(s, D, i) = Lines(s, D, i - 1) \o s[i]
  <2>1. CASE D > 0
    BY <2>1, OneBlockMore
  <2>2. CASE D = 0
    <3>1. \A i \in 0..W : Lines(s, D, i) = <<>>
      <4> SUFFICES ASSUME NEW i \in 0..W PROVE Lines(s, D, i) = <<>>
        OBVIOUS
      <4>1. i * D = 0
        BY <2>2
      <4>2. Lines(s, D, i) = [l \in {} |-> s[((l - 1) \div D) + 1][((l - 1) % D) + 1]]
        BY <4>1 DEF Lines
      <4> QED
        BY <4>2
    <3>2. \A i \in 1..W : s[i] = <<>> /\ i - 1 \in 0..W /\ i \in 0..W
      BY <2>2 DEF InBlocks
    <3>3. <<>> \o <<>> = <<>>
      OBVIOUS
    <3> QED
      BY <3>1, <3>2, <3>3
  <2>3. D > 0 \/ D = 0
    OBVIOUS
  <2> QED
    BY <2>1, <2>2, <2>3, Zenon
<1>4. Len(s) = W
  BY DEF InBlocks
<1>2. CASE W = 0
  <2>1. s = <<>>
    BY <1>2 DEF InBlocks
  <2>2. Lines(s, D, W) = <<>>
    BY <1>2 DEF Lines
  <2> QED
    BY <1>2, <1>4, <2>1, <2>2 DEF FlattenSeq
<1>3. CASE W > 0
  <2> DEFINE F == [i \in 1..W |-> Lines(s, D, i)]
  <2>1. Accumulates(F, s, W)
    <3> SUFFICES ASSUME NEW i \in 1..W PROVE F[i] = IF i = 1 THEN s[i] ELSE F[i - 1] \o s[i]
      BY DEF Accumulates
    <3>1. i # 1 => i - 1 \in 1..W
      OBVIOUS
    <3>2. F[i] = Lines(s, D, i) /\ (i # 1 => F[i - 1] = Lines(s, D, i - 1))
      BY <3>1
    <3> QED
      BY <1>1, <3>2
  <2>2. F[W] = Lines(s, D, W)
    BY <1>3
  <2> HIDE DEF F
  <2>3. FlattenSeq(s) = F[W]
    BY <1>3, <1>4, <2>1, FlattenIs
  <2> QED
    BY <2>2, <2>3
<1> QED
  BY <1>2, <1>3

\* The number of the d-th in the w-th block of D.
Number(w, D, d) == (w - 1) * D + d

\* A number is in one way a place in a block.
LEMMA OnePlace ==
  ASSUME NEW D \in Nat, D > 0, NEW w \in Nat, w > 0, NEW v \in Nat, v > 0,
         NEW d \in 1..D, NEW e \in 1..D, Number(w, D, d) = Number(v, D, e)
  PROVE  w = v /\ d = e
<1> DEFINE l == (w - 1) * D + d
<1>1. ((l - 1) \div D) + 1 = w /\ ((l - 1) % D) + 1 = d
  BY PlaceInBlock
<1>2. ((l - 1) \div D) + 1 = v /\ ((l - 1) % D) + 1 = e
  <2>1. l = (v - 1) * D + e
    BY DEF Number
  <2> HIDE DEF l
  <2> QED
    BY <2>1, PlaceInBlock
<1> HIDE DEF l
<1>3. ((l - 1) % D) \in Int
  <2>1. l \in Nat /\ l > 0
    BY PlaceInBlock DEF l
  <2>2. PICK a \in Nat : a = l - 1
    BY <2>1, l - 1 \in Nat
  <2> QED
    BY <2>2, Remainder
<1> QED
  BY <1>1, <1>2, <1>3

-----------------------------------------------------------------------------
(* The elements of a set in order.                                         *)

\* One more than the number of smaller elements.
Place(S, x) == Cardinality({y \in S : y < x}) + 1

\* The places of the elements of a finite set are in their order.
LEMMA PlaceInOrder ==
  ASSUME NEW S \in SUBSET Nat, IsFiniteSet(S)
  PROVE  /\ Cardinality(S) \in Nat
         /\ \A x \in S : Place(S, x) \in 1..Cardinality(S)
         /\ \A x, y \in S : x < y => Place(S, x) < Place(S, y)
<1> DEFINE Below(x) == {y \in S : y < x}
<1>1. Cardinality(S) \in Nat
  BY FS_CardinalityType
<1>2. ASSUME NEW x \in S
      PROVE  /\ IsFiniteSet(Below(x)) /\ Cardinality(Below(x)) \in Nat
             /\ Cardinality(Below(x)) < Cardinality(S)
  <2>1. Below(x) \in SUBSET S /\ x \notin Below(x)
    OBVIOUS
  <2> HIDE DEF Below
  <2>2. /\ IsFiniteSet(Below(x)) /\ Cardinality(Below(x)) <= Cardinality(S)
        /\ Cardinality(S) = Cardinality(Below(x)) => S = Below(x)
    BY <2>1, FS_Subset
  <2>3. Cardinality(Below(x)) \in Nat
    BY <2>2, FS_CardinalityType
  <2> QED
    BY <1>1, <2>1, <2>2, <2>3
<1>3. ASSUME NEW x \in S, NEW y \in S, x < y
      PROVE  Cardinality(Below(x)) < Cardinality(Below(y))
  <2>1. Below(x) \in SUBSET Below(y) /\ x \notin Below(x) /\ x \in Below(y)
    <3>1. \A z \in S : z < x => z < y
      BY <1>3
    <3>2. ~(x < x)
      OBVIOUS
    <3> QED
      BY <1>3, <3>1, <3>2
  <2> HIDE DEF Below
  <2>2. /\ Cardinality(Below(x)) <= Cardinality(Below(y))
        /\ Cardinality(Below(y)) = Cardinality(Below(x)) => Below(y) = Below(x)
    BY <1>2, <2>1, FS_Subset
  <2> QED
    BY <1>2, <2>1, <2>2
<1>4. \A x : Place(S, x) = Cardinality(Below(x)) + 1
  BY DEF Place
<1> HIDE DEF Below
<1> QED
  BY <1>1, <1>2, <1>3, <1>4

\* InOrder lists every element of a finite set once, and in order.
LEMMA InOrderSorts ==
  ASSUME NEW S \in SUBSET Nat, IsFiniteSet(S)
  PROVE  /\ Cardinality(S) \in Nat
         /\ InOrder(S) \in [1..Cardinality(S) -> S]
         /\ \A i, j \in 1..Cardinality(S) : i < j => InOrder(S)[i] < InOrder(S)[j]
         /\ \A i, j \in 1..Cardinality(S) : InOrder(S)[i] = InOrder(S)[j] => i = j
         /\ \A x \in S : \E i \in 1..Cardinality(S) : InOrder(S)[i] = x
<1> DEFINE n == Cardinality(S)
           Sorted(s) == \A i, j \in 1..n : i < j => s[i] < s[j]
           r == [x \in S |-> Place(S, x)]
<1>1. n \in Nat
  BY PlaceInOrder
<1>2. r \in [S -> 1..n] /\ \A x, y \in S : x < y => r[x] < r[y]
  BY PlaceInOrder
<1> HIDE DEF r
<1>3. \A x, y \in S : r[x] = r[y] => x = y
  <2> SUFFICES ASSUME NEW x \in S, NEW y \in S, x # y PROVE r[x] # r[y]
    OBVIOUS
  <2>1. x < y \/ y < x
    OBVIOUS
  <2>2. r[x] \in Nat /\ r[y] \in Nat
    BY <1>2
  <2> QED
    BY <1>2, <2>1, <2>2
<1>4. r \in Surjection(S, 1..n)
  <2>1. r \in Injection(S, 1..n)
    BY <1>2, <1>3, Fun_IsInj
  <2>2. IsFiniteSet(1..n) /\ Cardinality(1..n) = n
    BY <1>1, FS_Interval
  <2> QED
    BY <2>1, <2>2, FS_Injection
<1>5. \A k \in 1..n : \E x \in S : r[x] = k
  BY <1>4, Fun_SurjectionProperties
<1>6. \E s \in [1..n -> S] : Sorted(s)
  <2> DEFINE s == [k \in 1..n |-> CHOOSE x \in S : r[x] = k]
  <2>1. \A k \in 1..n : s[k] \in S /\ r[s[k]] = k
    BY <1>5
  <2>2. s \in [1..n -> S]
    BY <2>1
  <2> HIDE DEF s
  <2>3. Sorted(s)
    <3> SUFFICES ASSUME NEW i \in 1..n, NEW j \in 1..n, i < j, ~(s[i] < s[j]) PROVE FALSE
      OBVIOUS
    <3>1. PICK a \in Nat, b \in Nat : a = s[i] /\ b = s[j]
      BY <2>1
    <3>3. s[j] < s[i] \/ s[i] = s[j]
      BY <3>1
    <3>2. r[s[j]] < r[s[i]] \/ r[s[i]] = r[s[j]]
      BY <1>2, <2>1, <3>3
    <3> QED
      BY <2>1, <3>2
  <2> QED
    BY <2>2, <2>3
<1>7. InOrder(S) \in [1..n -> S] /\ Sorted(InOrder(S))
  BY <1>6 DEF InOrder
<1> HIDE DEF n
<1>8. \A i, j \in 1..n : InOrder(S)[i] = InOrder(S)[j] => i = j
  <2> SUFFICES ASSUME NEW i \in 1..n, NEW j \in 1..n, i # j
               PROVE  InOrder(S)[i] # InOrder(S)[j]
    OBVIOUS
  <2>1. i < j \/ j < i
    BY <1>1
  <2>2. InOrder(S)[i] \in Nat /\ InOrder(S)[j] \in Nat
    BY <1>7
  <2> QED
    BY <1>7, <2>1, <2>2
<1>9. InOrder(S) \in Surjection(1..n, S)
  <2>1. InOrder(S) \in Injection(1..n, S)
    BY <1>7, <1>8, Fun_IsInj
  <2>2. Cardinality(1..n) = n
    BY <1>1, FS_Interval
  <2> QED
    BY <2>1, <2>2, FS_Injection DEF n
<1>10. \A x \in S : \E i \in 1..n : InOrder(S)[i] = x
  BY <1>9 DEF Surjection
<1> QED
  BY <1>1, <1>7, <1>8, <1>10 DEF n

-----------------------------------------------------------------------------
(* PacketEncoder.                                                          *)

\* Window files: packets in windows.
Files == Seq(Seq(Packet))

\* The numbers up to k are k.
LEMMA Interval == \A k \in Nat : IsFiniteSet(1..k) /\ Cardinality(1..k) = k
<1> SUFFICES ASSUME NEW k \in Nat PROVE IsFiniteSet(1..k) /\ Cardinality(1..k) = k
  OBVIOUS
<1>1. IsFiniteSet(1..k) /\ Cardinality(1..k) = IF 1 > k THEN 0 ELSE k - 1 + 1
  BY FS_Interval
<1> QED
  BY <1>1

\* The types of a window and of the packets sent in it.
LEMMA WindowOf ==
  ASSUME NEW fs \in Files, NEW w \in DOMAIN fs
  PROVE  /\ Len(fs) \in Nat /\ DOMAIN fs = 1..Len(fs)
         /\ fs[w] \in Seq(Packet) /\ Len(fs[w]) \in Nat /\ DOMAIN fs[w] = 1..Len(fs[w])
         /\ \A m \in DOMAIN fs[w] : fs[w][m] \in Packet
         /\ Sent(fs[w]) \in SUBSET Nat /\ IsFiniteSet(Sent(fs[w]))
<1>1. /\ Len(fs) \in Nat /\ DOMAIN fs = 1..Len(fs)
      /\ fs[w] \in Seq(Packet)
  BY DEF Files
<1>2. /\ Len(fs[w]) \in Nat /\ DOMAIN fs[w] = 1..Len(fs[w])
      /\ \A m \in DOMAIN fs[w] : fs[w][m] \in Packet
  BY <1>1
<1>3. Sent(fs[w]) \in SUBSET (1..Len(fs[w]))
  BY <1>2 DEF Sent
<1>4. IsFiniteSet(1..Len(fs[w]))
  BY <1>2, Interval, Zenon
<1> QED
  BY <1>1, <1>2, <1>3, <1>4, FS_Subset

\* A window has finitely many packets of a device.
LEMMA PlacesFinite ==
  ASSUME NEW fs \in Files, NEW w \in DOMAIN fs, NEW device
  PROVE  Places(fs[w], device) \in SUBSET Nat /\ IsFiniteSet(Places(fs[w], device))
<1>1. Places(fs[w], device) \in SUBSET Sent(fs[w])
  BY DEF Places
<1> QED
  BY <1>1, WindowOf, FS_Subset

\* The files have finitely many devices.
LEMMA AttackersFinite ==
  ASSUME NEW fs \in Files
  PROVE  Attackers(fs) \in SUBSET Nat /\ IsFiniteSet(Attackers(fs))
<1> DEFINE Of(window) == {window[m].device : m \in Sent(window)}
           All == {Of(fs[w]) : w \in DOMAIN fs}
<1>1. Attackers(fs) = UNION All
  BY DEF Attackers, Range
<1>2. ASSUME NEW w \in DOMAIN fs PROVE Of(fs[w]) \in SUBSET Nat /\ IsFiniteSet(Of(fs[w]))
  <2> DEFINE f == [m \in Sent(fs[w]) |-> fs[w][m].device]
  <2>1. f \in Surjection(Sent(fs[w]), Of(fs[w]))
    BY DEF Surjection
  <2>2. \A m \in Sent(fs[w]) : fs[w][m].device \in Nat
    BY WindowOf DEF Sent, Packet
  <2> HIDE DEF f
  <2>3. IsFiniteSet(Of(fs[w]))
    BY <2>1, WindowOf, FS_Surjection
  <2> QED
    BY <2>2, <2>3
<1>3. IsFiniteSet(All)
  <2> DEFINE g == [w \in DOMAIN fs |-> Of(fs[w])]
  <2>1. g \in Surjection(DOMAIN fs, All)
    BY DEF Surjection
  <2>2. IsFiniteSet(DOMAIN fs)
    <3>1. Len(fs) \in Nat /\ DOMAIN fs = 1..Len(fs)
      BY DEF Files
    <3> QED
      BY <3>1, Interval, Zenon
  <2> HIDE DEF g, All
  <2> QED
    BY <2>1, <2>2, FS_Surjection
<1>4. IsFiniteSet(UNION All)
  <2>1. \A T \in All : IsFiniteSet(T)
    BY <1>2
  <2> HIDE DEF All
  <2> QED
    BY <1>3, <2>1, FS_UNION
<1> QED
  BY <1>1, <1>2, <1>4

\* _discover_devices lists every device that sent something, once.
LEMMA DevicesInOrder ==
  ASSUME NEW fs \in Files
  PROVE  LET D == Len(_discover_devices(fs))
         IN  /\ D \in Nat /\ DOMAIN _discover_devices(fs) = 1..D
             /\ \A d \in 1..D : _discover_devices(fs)[d] \in Attackers(fs)
             /\ \A d, e \in 1..D : _discover_devices(fs)[d] = _discover_devices(fs)[e] => d = e
             /\ \A x \in Attackers(fs) : \E d \in 1..D : _discover_devices(fs)[d] = x
<1> DEFINE A == Attackers(fs)
<1>1. A \in SUBSET Nat /\ IsFiniteSet(A)
  BY AttackersFinite
<1> HIDE DEF A
<1> DEFINE n == Cardinality(A)
           s == InOrder(A)
<1>2. /\ n \in Nat /\ s \in [1..n -> A]
      /\ \A d, e \in 1..n : s[d] = s[e] => d = e
      /\ \A x \in A : \E d \in 1..n : s[d] = x
  BY <1>1, InOrderSorts
<1>3. _discover_devices(fs) = s
  BY DEF _discover_devices, A
<1> HIDE DEF n, s
<1>4. Len(s) = n /\ DOMAIN s = 1..n
  BY <1>2
<1> QED
  BY <1>2, <1>3, <1>4 DEF A

\* A line is the symbols of a device's packets in their order, and an end marker.
LEMMA LineIs ==
  ASSUME NEW fs \in Files, NEW w \in DOMAIN fs, NEW device
  PROVE  LET P == Places(fs[w], device)
             line == Line(fs[w], device)
         IN  /\ line \in Seq(1..5) /\ Cardinality(P) \in Nat
             /\ Len(line) - 1 = Cardinality(P)
             /\ \A m \in 1..Cardinality(P) :
                  InOrder(P)[m] \in P /\ line[m] = _symbol(fs[w][InOrder(P)[m]])
<1> DEFINE P == Places(fs[w], device)
           n == Cardinality(P)
           packets == FromDevice(fs[w], device)
           body == [m \in DOMAIN packets |-> _symbol(packets[m])]
<1>1. n \in Nat /\ InOrder(P) \in [1..n -> P]
  BY PlacesFinite, InOrderSorts
<1>2. packets = [m \in 1..n |-> fs[w][InOrder(P)[m]]]
  BY <1>1 DEF FromDevice
<1>3. body = [m \in 1..n |-> _symbol(fs[w][InOrder(P)[m]])]
  BY <1>2
<1>4. \A packet : _symbol(packet) \in 1..4
  BY DEF _symbol
<1>5. Line(fs[w], device) = Append(body, 5)
  BY DEF Line, EndOfSubstream
<1> HIDE DEF P, n, packets
<1>6. body \in [1..n -> 1..4]
  BY <1>3, <1>4
<1>7. \A m \in 1..n : body[m] = _symbol(fs[w][InOrder(P)[m]])
  BY <1>3
<1> HIDE DEF body
<1>8. body \in Seq(1..5) /\ Len(body) = n
  BY <1>1, <1>6
<1>9. /\ Append(body, 5) \in Seq(1..5) /\ Len(Append(body, 5)) = n + 1
      /\ \A m \in 1..n : Append(body, 5)[m] = body[m]
  BY <1>1, <1>8
<1> QED
  BY <1>1, <1>5, <1>7, <1>9 DEF P, n

\* The encoded lines are every window's, a line for each device, idle or not.
LEMMA Encoded ==
  ASSUME NEW fs \in Files
  PROVE  LET devices == _discover_devices(fs)
             D == Len(devices)
             lines == encode_packets(fs)
         IN  /\ Len(lines) = Len(fs) * D /\ DOMAIN lines = 1..(Len(fs) * D)
             /\ \A w \in DOMAIN fs, d \in 1..D :
                  lines[(w - 1) * D + d] = Line(fs[w], devices[d])
<1> DEFINE devices == _discover_devices(fs)
           D == Len(devices)
           W == Len(fs)
           s == [w \in DOMAIN fs |-> [d \in DOMAIN devices |-> Line(fs[w], devices[d])]]
<1>1. D \in Nat /\ DOMAIN devices = 1..D
  BY DevicesInOrder
<1>2. W \in Nat /\ DOMAIN fs = 1..W
  BY DEF Files
<1>3. encode_packets(fs) = FlattenSeq(s)
  BY DEF encode_packets
<1> HIDE DEF devices, D, W
<1>4. \A w \in 1..W : s[w] = [d \in 1..D |-> Line(fs[w], devices[d])]
  BY <1>1, <1>2
<1>10. DOMAIN s = 1..W /\ s = [w \in 1..W |-> s[w]]
  BY <1>2
<1> HIDE DEF s
<1>5. InBlocks(s, W, D)
  <2>1. DOMAIN s = 1..W /\ s = [w \in 1..W |-> s[w]]
    BY <1>10
  <2>2. \A w \in 1..W : s[w] = [d \in 1..D |-> s[w][d]]
    BY <1>4
  <2>3. Len(s) = W
    BY <1>2, <2>1
  <2> QED
    BY <2>1, <2>2, <2>3 DEF InBlocks
<1>6. encode_packets(fs) = Lines(s, D, W)
  BY <1>1, <1>2, <1>3, <1>5, FlattenBlocks
<1>7. W * D \in Nat
  BY <1>1, <1>2
<1>8. /\ DOMAIN Lines(s, D, W) = 1..(W * D)
      /\ Len(Lines(s, D, W)) = W * D
  BY <1>7 DEF Lines
<1>9. \A w \in 1..W, d \in 1..D : Lines(s, D, W)[(w - 1) * D + d] = Line(fs[w], devices[d])
  <2> SUFFICES ASSUME NEW w \in 1..W, NEW d \in 1..D
               PROVE  Lines(s, D, W)[(w - 1) * D + d] = Line(fs[w], devices[d])
    OBVIOUS
  <2>1. PICK l \in Nat : l = (w - 1) * D + d /\ l > 0 /\ ((l - 1) \div D) + 1 = w
                 /\ ((l - 1) % D) + 1 = d
    BY <1>1, PlaceInBlock
  <2>2. l \in 1..(W * D)
    <3>1. PICK j \in Nat : W = w + j
      BY <1>2, W - w \in Nat, W = w + (W - w)
    <3>2. PICK i \in Nat : w = i + 1
      BY w - 1 \in Nat, w = (w - 1) + 1
    <3>3. W * D = i * D + D + j * D
      BY <1>1, <3>1, <3>2
    <3>4. PICK a \in Nat, b \in Nat : a = i * D /\ b = j * D
      BY <1>1
    <3>5. l = i * D + d
      BY <2>1, <3>2
    <3> QED
      BY <1>1, <3>3, <3>4, <3>5, <2>1
  <2>3. Lines(s, D, W)[l] = s[w][d]
    BY <2>1, <2>2 DEF Lines
  <2>4. s[w][d] = Line(fs[w], devices[d])
    BY <1>4
  <2> QED
    BY <2>1, <2>3, <2>4
<1> QED
  BY <1>2, <1>6, <1>8, <1>9 DEF devices, D, W

-----------------------------------------------------------------------------
(* The groups.                                                             *)

\* The constants are numbers.
LEMMA Inputs == input_count \in Nat /\ input_count > 0 /\ MaxRuns \in Nat
BY SimulatorAssumption

\* The groups that N lines make.
GroupCount(N) == (N + input_count - 1) \div input_count

\* Group k of N lines.
GroupAt(lines, N, k) ==
  [i \in 1..input_count |-> IF (k - 1) * input_count + i <= N
                            THEN lines[(k - 1) * input_count + i] ELSE <<EndOfSubstream>>]

\* Grouping makes GroupCount groups and puts every line in one of them.
LEMMA GroupsOf ==
  ASSUME NEW lines, NEW N \in Nat, Len(lines) = N
  PROVE  /\ GroupCount(N) \in Nat /\ DOMAIN Grouped(lines) = 1..GroupCount(N)
         /\ Len(Grouped(lines)) = GroupCount(N)
         /\ \A k \in 1..GroupCount(N) : Grouped(lines)[k] = GroupAt(lines, N, k)
         /\ \A l \in 1..N : \E k \in 1..GroupCount(N), i \in 1..input_count :
              l = (k - 1) * input_count + i
<1> DEFINE c == input_count
           K == (N + c - 1) \div c
<1>1. c \in Nat /\ c > 0
  BY Inputs
<1> HIDE DEF c
<1>2. PICK b \in Nat : b = N + c - 1
  BY <1>1, N + c - 1 \in Nat
<1>3. K \in Nat /\ b = c * K + (b % c) /\ b % c \in 0..(c - 1)
  BY <1>1, <1>2, Remainder
<1>4. ASSUME NEW l \in 1..N
      PROVE  \E k \in 1..K, i \in 1..c : l = (k - 1) * c + i
  <2>1. PICK a \in Nat : a = l - 1
    BY l - 1 \in Nat
  <2>2. PICK x \in Nat, y \in 0..(c - 1) : x = a \div c /\ y = a % c
    BY <1>1, Remainder
  <2>3. a = c * x + y
    BY <1>1, <2>2, Remainder
  <2>4. PICK r \in 0..(c - 1) : r = b % c
    BY <1>3
  <2>5. PICK k \in Nat : k = K
    BY <1>3
  <2>6. ~(x >= k)
    <3> SUFFICES ASSUME x >= k PROVE FALSE
      OBVIOUS
    <3>1. PICK j \in Nat : x = k + j
      BY x - k \in Nat, x = k + (x - k)
    <3>2. c * x = c * k + c * j
      BY <1>1, <3>1
    <3>3. PICK p \in Nat, q \in Nat, t \in Nat : p = c * k /\ q = c * j /\ t = c * x
      BY <1>1
    <3>4. t >= p
      BY <3>2, <3>3
    <3> QED
      BY <1>1, <1>2, <1>3, <2>1, <2>3, <2>4, <2>5, <3>3, <3>4
  <2>7. x + 1 \in 1..K /\ y + 1 \in 1..c /\ l = ((x + 1) - 1) * c + (y + 1)
    <3>1. ((x + 1) - 1) * c = c * x
      BY <1>1
    <3> QED
      BY <1>1, <2>1, <2>3, <2>5, <2>6, <3>1
  <2> QED
    BY <2>7
<1>5. /\ DOMAIN Grouped(lines) = 1..K
      /\ \A k \in 1..K : Grouped(lines)[k] = GroupAt(lines, N, k)
  BY DEF Grouped, GroupAt, c
<1>7. GroupCount(N) = K
  BY DEF GroupCount, c
<1> HIDE DEF K
<1>6. Len(Grouped(lines)) = K
  BY <1>3, <1>5
<1> QED
  BY <1>3, <1>4, <1>5, <1>6, <1>7 DEF c

\* With as many devices as inputs, every group is the lines of one window.
LEMMA OneWindowAGroup ==
  ASSUME NEW fs \in Files, Len(_discover_devices(fs)) = input_count
  PROVE  LET gs == Grouped(encode_packets(fs))
         IN  /\ Len(gs) = Len(fs) /\ DOMAIN gs = 1..Len(fs)
             /\ \A k \in DOMAIN gs :
                  gs[k] = [i \in 1..input_count |-> Line(fs[k], _discover_devices(fs)[i])]
<1> DEFINE c == input_count
           lines == encode_packets(fs)
           gs == Grouped(lines)
           W == Len(fs)
<1>1. c \in Nat /\ c > 0 /\ W \in Nat /\ DOMAIN fs = 1..W
  BY Inputs DEF Files
<1>2. /\ Len(lines) = W * c
      /\ \A w \in 1..W, d \in 1..c : lines[(w - 1) * c + d] = Line(fs[w], _discover_devices(fs)[d])
  BY <1>1, Encoded
<1> HIDE DEF c, W, lines
<1>3. PICK N \in Nat : N = W * c
  BY <1>1
<1>4. (N + c - 1) \div c = W
  <2>1. c - 1 \in 0..(c - 1) /\ N + (c - 1) = N + c - 1
    BY <1>1
  <2> QED
    BY <1>1, <1>3, <2>1, Split
<1>5. /\ DOMAIN gs = 1..W /\ Len(gs) = W
      /\ \A k \in 1..W :
           gs[k] = [i \in 1..c |-> IF (k - 1) * c + i <= N
                                   THEN lines[(k - 1) * c + i] ELSE <<EndOfSubstream>>]
  <2>1. Len(lines) = N
    BY <1>2, <1>3
  <2> HIDE DEF gs
  <2>2. /\ DOMAIN gs = 1..GroupCount(N) /\ Len(gs) = GroupCount(N)
        /\ \A k \in 1..GroupCount(N) : gs[k] = GroupAt(lines, N, k)
    BY <2>1, GroupsOf DEF gs
  <2>3. GroupCount(N) = W
    BY <1>4 DEF GroupCount, c
  <2>4. \A k \in 1..W : gs[k] = GroupAt(lines, N, k)
    BY <2>2, <2>3
  <2> QED
    BY <2>2, <2>3, <2>4 DEF GroupAt, c
<1> HIDE DEF gs
<1>6. \A k \in 1..W : \A i \in 1..c : (k - 1) * c + i <= N
  <2> SUFFICES ASSUME NEW k \in 1..W, NEW i \in 1..c PROVE (k - 1) * c + i <= N
    OBVIOUS
  <2>1. PICK j \in Nat, e \in Nat : k = j + 1 /\ W = j + 1 + e
    BY <1>1, k - 1 \in Nat, W - k \in Nat, k = (k - 1) + 1, W = (k - 1) + 1 + (W - k)
  <2>2. N = j * c + c + e * c
    BY <1>1, <1>3, <2>1
  <2>3. PICK p \in Nat, q \in Nat : p = j * c /\ q = e * c
    BY <1>1
  <2>4. (k - 1) * c + i = p + i
    BY <2>1, <2>3
  <2> QED
    BY <1>1, <2>2, <2>3, <2>4
<1>7. \A k \in 1..W : gs[k] = [i \in 1..c |-> Line(fs[k], _discover_devices(fs)[i])]
  BY <1>2, <1>5, <1>6
<1> QED
  BY <1>5, <1>7 DEF gs, c, W, lines

\* The windows of a capture come first, and replace all of as many as it has.
LEMMA Overwritten ==
  ASSUME NEW new \in Files, NEW old \in Files
  PROVE  /\ Over(new, old) \in Files
         /\ Len(Over(new, old)) = Len(new) => Over(new, old) = new
         /\ \A w \in DOMAIN Over(new, old) :
              w <= Len(new) => Over(new, old)[w] \in Range(new)
<1> DEFINE S == Seq(Packet)
           rest == SubSeq(old, Len(new) + 1, Len(old))
<1>1. new \in Seq(S) /\ old \in Seq(S) /\ Len(new) \in Nat /\ Len(old) \in Nat
  BY DEF Files
<1> HIDE DEF S
<1>2. rest \in Seq(S) /\ Len(rest) \in Nat
  <2>1. rest \in Seq(S)
    BY <1>1, Len(new) + 1 \in Nat
  <2> HIDE DEF rest
  <2> QED
    BY <2>1
<1> HIDE DEF rest
<1>3. new \o rest \in Seq(S) /\ Len(new \o rest) = Len(new) + Len(rest)
  BY <1>1, <1>2
<1>4. ASSUME Len(new \o rest) = Len(new) PROVE new \o rest = new
  <2>1. Len(rest) = 0
    BY <1>1, <1>2, <1>3, <1>4
  <2>2. rest = <<>>
    BY <1>2, <2>1
  <2> QED
    BY <1>1, <2>2, ConcatEmptySeq
<1>5. Over(new, old) = new \o rest
  BY DEF Over, rest
<1>6. ASSUME NEW w \in DOMAIN (new \o rest), w <= Len(new)
      PROVE  (new \o rest)[w] \in Range(new)
  <2>1. w \in 1..Len(new)
    BY <1>1, <1>2, <1>3, <1>6
  <2>2. (new \o rest)[w] = new[w] /\ w \in DOMAIN new
    BY <1>1, <1>2, <2>1
  <2> QED
    BY <2>2 DEF Range
<1> QED
  BY <1>3, <1>4, <1>5, <1>6 DEF Files, S

\* Every line is that of a window and a device.
LEMMA OnLine ==
  ASSUME NEW W \in Nat, NEW D \in Nat, NEW l \in 1..(W * D)
  PROVE  \E w \in 1..W, d \in 1..D : l = (w - 1) * D + d
<1>1. D > 0
  <2> SUFFICES ASSUME D = 0 PROVE FALSE
    OBVIOUS
  <2>1. W * D = 0
    OBVIOUS
  <2> QED
    BY <2>1
<1>2. PICK N \in Nat : N = W * D
  OBVIOUS
<1>3. PICK a \in Nat : a = l - 1
  BY <1>2, l - 1 \in Nat
<1>4. PICK x \in Nat, y \in 0..(D - 1) : x = a \div D /\ y = a % D
  BY <1>1, Remainder
<1>5. a = D * x + y
  BY <1>1, <1>4, Remainder
<1>6. ~(x >= W)
  <2> SUFFICES ASSUME x >= W PROVE FALSE
    OBVIOUS
  <2>1. PICK e \in Nat : x = W + e
    BY x - W \in Nat, x = W + (x - W)
  <2>2. D * x = W * D + D * e
    BY <2>1
  <2>3. PICK p \in Nat, q \in Nat : p = D * x /\ q = D * e
    OBVIOUS
  <2> QED
    BY <1>2, <1>3, <1>5, <2>2, <2>3
<1>7. ((x + 1) - 1) * D = D * x
  OBVIOUS
<1>8. PICK p \in Nat : p = D * x
  OBVIOUS
<1>9. x + 1 \in 1..W /\ y + 1 \in 1..D /\ l = ((x + 1) - 1) * D + (y + 1)
  BY <1>1, <1>2, <1>3, <1>5, <1>6, <1>7, <1>8
<1> QED
  BY <1>9

\* Every encoded line is a sequence of symbols and end markers.
LEMMA EncodedLines ==
  ASSUME NEW fs \in Files
  PROVE  /\ Len(encode_packets(fs)) \in Nat
         /\ \A l \in 1..Len(encode_packets(fs)) : encode_packets(fs)[l] \in Seq(1..5)
<1> DEFINE devices == _discover_devices(fs)
           lines == encode_packets(fs)
<1>1. PICK D \in Nat : D = Len(devices)
  BY DevicesInOrder
<1>2. PICK W \in Nat : W = Len(fs) /\ DOMAIN fs = 1..W
  BY DEF Files
<1>3. /\ Len(lines) = W * D
      /\ \A w \in 1..W, d \in 1..D : lines[(w - 1) * D + d] = Line(fs[w], devices[d])
  BY <1>1, <1>2, Encoded
<1>4. \A w \in 1..W, d \in 1..D : Line(fs[w], devices[d]) \in Seq(1..5)
  BY <1>2, LineIs
<1> HIDE DEF devices, lines
<1>5. ASSUME NEW l \in 1..(W * D) PROVE lines[l] \in Seq(1..5)
  <2>1. PICK w \in 1..W, d \in 1..D : l = (w - 1) * D + d
    BY OnLine
  <2> QED
    BY <1>3, <1>4, <2>1
<1>6. W * D \in Nat
  OBVIOUS
<1> QED
  BY <1>3, <1>5, <1>6 DEF lines

\* What is posted in one request.
Group == [1..input_count -> Seq(1..EndOfSubstream)]

\* Every group has input_count lines, the last one by its padding.
LEMMA GroupsAreFull ==
  ASSUME NEW fs \in Files, NEW k \in DOMAIN Grouped(encode_packets(fs))
  PROVE  /\ Grouped(encode_packets(fs))[k] \in Group
         /\ Len(Grouped(encode_packets(fs))[k]) = input_count
<1> DEFINE lines == encode_packets(fs)
<1>1. PICK N \in Nat : N = Len(lines)
  BY EncodedLines
<1>2. \A l \in 1..N : lines[l] \in Seq(1..5)
  BY <1>1, EncodedLines
<1>3. k \in 1..GroupCount(N) /\ GroupCount(N) \in Nat /\ Grouped(lines)[k] = GroupAt(lines, N, k)
  BY <1>1, GroupsOf
<1> HIDE DEF lines
<1>4. input_count \in Nat /\ input_count > 0
  BY Inputs
<1>5. \A i \in 1..input_count : (k - 1) * input_count + i \in Nat /\ (k - 1) * input_count + i > 0
  <2>1. PICK j \in Nat : k = j + 1
    BY <1>3, k - 1 \in Nat, k = (k - 1) + 1
  <2>2. PICK p \in Nat : p = j * input_count
    BY <1>4
  <2>3. (k - 1) * input_count = p
    BY <2>1, <2>2
  <2> QED
    BY <1>4, <2>3
<1>6. <<EndOfSubstream>> \in Seq(1..5)
  BY DEF EndOfSubstream
<1>7. ASSUME NEW i \in 1..input_count
      PROVE  (IF (k - 1) * input_count + i <= N
              THEN lines[(k - 1) * input_count + i] ELSE <<EndOfSubstream>>) \in Seq(1..5)
  <2>1. PICK l \in Nat : l = (k - 1) * input_count + i /\ l > 0
    BY <1>5
  <2>2. (IF l <= N THEN lines[l] ELSE <<EndOfSubstream>>) \in Seq(1..5)
    <3>1. CASE l <= N
      BY <1>2, <2>1, <3>1
    <3>2. CASE ~(l <= N)
      BY <1>6, <3>2
    <3> QED
      BY <3>1, <3>2
  <2> QED
    BY <2>1, <2>2
<1>8. GroupAt(lines, N, k) \in [1..input_count -> Seq(1..5)]
  BY <1>7 DEF GroupAt
<1>9. Len(GroupAt(lines, N, k)) = input_count
  BY <1>4 DEF GroupAt
<1> QED
  BY <1>3, <1>8, <1>9 DEF lines, Group, EndOfSubstream

-----------------------------------------------------------------------------
(* The histories.                                                          *)

Pcs == {"preprocess", "simulate", "fetched", "not joined", "score", "scored", "raised"}

Stages == {"new", "posted", "writing", "backoff", "reposted", "rewriting", "saved", "gave up",
           "hung"}

\* Some thread was never started.
Unstarted == \E k \in DOMAIN thread : thread[k] = "new"

\* A thread for each group and a history for each thread.  After simulate all have
\* ended, or some will never start.
Threads ==
  /\ DOMAIN thread = DOMAIN groups /\ DOMAIN thread \subseteq DOMAIN histories
  /\ thread = [k \in DOMAIN thread |-> thread[k]]
  /\ histories = [k \in DOMAIN histories |-> histories[k]]
  /\ \A k \in DOMAIN thread : thread[k] \in Stages
  /\ pc \in Pcs
  /\ pc \notin {"preprocess", "simulate"} => AllEnded \/ Unstarted
  /\ pc = "preprocess" => DOMAIN thread = {}

\* A history that this run opened has nothing but what its own group is marked with.
HistoryOk(k) ==
  /\ histories[k] \in [by : 0..run, marks : SUBSET Feature, cut : BOOLEAN]
  /\ histories[k].by = 0 => histories[k] = Absent
  /\ histories[k].by = run =>
       k \in DOMAIN groups /\ histories[k].marks \subseteq Marks(groups[k])

\* A history that a thread is at, or saved, is of this run: the saved one whole.
ThreadOk(k) ==
  /\ thread[k] \in {"writing", "rewriting"} => histories[k].by = run
  /\ thread[k] = "saved" =>
       histories[k] = [by |-> run, marks |-> Marks(groups[k]), cut |-> FALSE]

HistoryInv ==
  /\ Threads /\ run \in Nat \ {0}
  /\ \A k \in DOMAIN histories : HistoryOk(k)
  /\ \A k \in DOMAIN thread : ThreadOk(k)

\* The histories of an empty directory.
LEMMA HistoryInit == Init => HistoryInv
  BY DEF Init, HistoryInv, Threads, Pcs

\* Preprocessing makes its threads and touches no history that is there.
LEMMA PreprocessMakes ==
  ASSUME Threads, Preprocess
  PROVE  /\ thread' = [k \in DOMAIN groups' |-> "new"]
         /\ DOMAIN thread' = DOMAIN groups'
         /\ DOMAIN histories' = DOMAIN histories \cup DOMAIN groups'
         /\ histories' = [k \in DOMAIN histories' |-> histories'[k]]
         /\ \A k \in DOMAIN histories' :
              histories'[k] = IF k \in DOMAIN histories THEN histories[k] ELSE Absent
  BY DEF Preprocess

\* What a step of thread k leaves alone.
ThreadFrame(k) ==
  /\ Running /\ ~Ended(k)
  /\ thread[k] = "new" => pc = "simulate"
  /\ UNCHANGED <<run, capture, pc, files, groups, result, unread, seen>>
  /\ DOMAIN thread' = DOMAIN thread /\ DOMAIN histories' = DOMAIN histories
  /\ thread' = [j \in DOMAIN thread' |-> thread'[j]]
  /\ histories' = [j \in DOMAIN histories' |-> histories'[j]]
  /\ \A j \in DOMAIN thread : j # k => thread'[j] = thread[j]
  /\ \A j \in DOMAIN histories : j # k => histories'[j] = histories[j]
  /\ thread'[k] \in Stages

\* A thread's step touches its own history and nothing else, and keeps it right.
LEMMA ThreadSteps ==
  ASSUME HistoryInv, NEW k \in DOMAIN thread, Work(k) \/ Start(k)
  PROVE  /\ ThreadFrame(k)
         /\ HistoryOk(k)' /\ ThreadOk(k)'
         /\ histories'[k] = histories[k] \/ histories'[k].by = run
<1>1. /\ Threads /\ k \in DOMAIN histories /\ k \in DOMAIN groups
      /\ HistoryOk(k) /\ ThreadOk(k) /\ run \in Nat \ {0}
  BY DEF HistoryInv, Threads
<1>2. Marks(groups[k]) \subseteq Feature
  BY DEF Marks
<1>3. ASSUME UNCHANGED <<run, groups, histories>>,
             thread'[k] \notin {"writing", "rewriting", "saved"}
      PROVE  HistoryOk(k)' /\ ThreadOk(k)'
  BY <1>1, <1>3 DEF HistoryOk, ThreadOk, Marks
<1>4. ASSUME Start(k) \/ Fail(k) \/ Hang(k) \/ Retry(k)
      PROVE  /\ ThreadFrame(k) /\ histories' = histories
             /\ UNCHANGED <<run, groups>> /\ thread'[k] \notin {"writing", "rewriting", "saved"}
  BY <1>1, <1>4 DEF Start, Fail, Failed, Hang, Retry, Posted, Writing, Running, Ended, dir,
       ThreadFrame, Threads, Stages
<1>5. CASE Write(k)
  <2>1. PICK begun \in Begun(k) : histories' = [histories EXCEPT ![k] = begun]
    BY <1>5 DEF Write
  <2>2. ThreadFrame(k)
    BY <1>1, <1>5, <2>1 DEF Write, Posted, Ended, ThreadFrame, Threads, Stages
  <2>3. histories'[k] = begun
    BY <1>1, <2>1
  <2>4. /\ begun \in [by : 0..run, marks : SUBSET Feature, cut : BOOLEAN]
        /\ begun.by = run /\ begun.marks \subseteq Marks(groups[k])
    <3>1. run \in 0..run
      BY <1>1
    <3>2. CASE begun \in [by : {run}, marks : SUBSET Marks(groups[k]), cut : {FALSE}]
      BY <1>2, <3>1, <3>2
    <3>3. CASE begun = [by |-> run, marks |-> {}, cut |-> TRUE]
      BY <3>1, <3>3
    <3> QED
      BY <3>2, <3>3 DEF Begun
  <2>5. UNCHANGED <<run, groups>> /\ thread'[k] \in {"writing", "rewriting"}
    BY <1>1, <1>5 DEF Write, Threads
  <2> QED
    BY <1>1, <2>2, <2>3, <2>4, <2>5 DEF HistoryOk, ThreadOk, Marks
<1>6. CASE Save(k)
  <2>1. thread[k] \in {"writing", "rewriting"} /\ Running
    BY <1>6 DEF Save, Writing
  <2>2. histories[k].marks \subseteq Marks(groups[k])
    BY <1>1, <2>1 DEF HistoryOk, ThreadOk
  <2>3. Saved(k) = [by |-> run, marks |-> Marks(groups[k]), cut |-> FALSE]
    BY <2>2 DEF Saved
  <2>4. /\ ThreadFrame(k) /\ UNCHANGED <<run, groups>> /\ thread'[k] = "saved"
        /\ histories'[k] = Saved(k)
    BY <1>1, <1>6, <2>1 DEF Save, Ended, ThreadFrame, Threads, Stages
  <2> QED
    BY <1>1, <1>2, <2>3, <2>4 DEF HistoryOk, ThreadOk, Marks
<1> QED
  BY <1>3, <1>4, <1>5, <1>6 DEF Work

\* Every step keeps the histories right.
LEMMA HistoryNext == HistoryInv /\ [Next]_vars => HistoryInv'
<1> SUFFICES ASSUME HistoryInv, [Next]_vars PROVE HistoryInv'
  OBVIOUS
<1>1. /\ Threads /\ run \in Nat \ {0}
      /\ \A k \in DOMAIN histories : HistoryOk(k)
      /\ \A k \in DOMAIN thread : ThreadOk(k)
  BY DEF HistoryInv
<1>2. CASE Preprocess
  <2>1. Threads'
    BY <1>1, <1>2, PreprocessMakes DEF Threads, Preprocess, Pcs, Stages
  <2>2. run' = run /\ \A k \in DOMAIN thread' : thread'[k] = "new"
    BY <1>1, <1>2, PreprocessMakes DEF Preprocess
  <2>3. DOMAIN groups = {}
    BY <1>1, <1>2 DEF Preprocess, Threads
  <2>4. ASSUME NEW k \in DOMAIN histories' PROVE HistoryOk(k)'
    <3>1. CASE k \in DOMAIN histories
      <4>1. histories'[k] = histories[k] /\ HistoryOk(k)
        BY <1>1, <1>2, <3>1, PreprocessMakes
      <4> QED
        BY <2>2, <2>3, <4>1 DEF HistoryOk
    <3>2. CASE k \notin DOMAIN histories
      <4>1. histories'[k] = Absent
        BY <1>1, <1>2, <2>4, <3>2, PreprocessMakes
      <4> QED
        BY <1>1, <2>2, <4>1 DEF HistoryOk, Absent
    <3> QED
      BY <3>1, <3>2
  <2>5. ASSUME NEW k \in DOMAIN thread' PROVE ThreadOk(k)'
    BY <2>2, <2>5 DEF ThreadOk
  <2> QED
    BY <1>1, <2>1, <2>2, <2>4, <2>5 DEF HistoryInv
<1>3. ASSUME NEW k \in DOMAIN thread, Work(k) \/ Start(k) PROVE HistoryInv'
  <2>1. ThreadFrame(k) /\ HistoryOk(k)' /\ ThreadOk(k)'
    BY <1>3, ThreadSteps
  <2>2. pc \notin {"preprocess", "simulate"} => Unstarted'
    <3> SUFFICES ASSUME pc \notin {"preprocess", "simulate"} PROVE Unstarted'
      OBVIOUS
    <3>1. PICK j \in DOMAIN thread : thread[j] = "new"
      BY <1>1, <2>1 DEF Threads, ThreadFrame, AllEnded, Unstarted
    <3> QED
      BY <2>1, <3>1 DEF ThreadFrame, Unstarted
  <2>3. Threads'
    BY <1>1, <2>1, <2>2 DEF Threads, ThreadFrame, Running
  <2>4. ASSUME NEW j \in DOMAIN histories', j # k PROVE HistoryOk(j)'
    BY <1>1, <2>1, <2>4 DEF HistoryOk, ThreadFrame, Marks
  <2>5. ASSUME NEW j \in DOMAIN thread', j # k PROVE ThreadOk(j)'
    BY <1>1, <2>1, <2>5 DEF ThreadOk, ThreadFrame, Marks, Threads
  <2> QED
    BY <1>1, <2>1, <2>3, <2>4, <2>5 DEF HistoryInv, ThreadFrame
\* The steps of the main thread that leave the threads and the histories alone.
<1>4. ASSUME UNCHANGED <<run, histories, groups, thread>>, Threads'
      PROVE  HistoryInv'
  BY <1>1, <1>4 DEF HistoryInv, HistoryOk, ThreadOk, Marks
<1>5. CASE StartRaises
  BY <1>1, <1>4, <1>5 DEF StartRaises, dir, Threads, Unstarted, Pcs
<1>6. CASE Join
  BY <1>1, <1>4, <1>6 DEF Join, dir, Threads, AllEnded, Ended, Pcs
<1>7. CASE List
  BY <1>1, <1>4, <1>7 DEF List, dir, Threads, AllEnded, Ended, Unstarted, Pcs
<1>8. ASSUME NEW k \in DOMAIN histories, Read(k) \/ ReadRaises(k) PROVE HistoryInv'
  BY <1>1, <1>4, <1>8 DEF Read, ReadRaises, dir, Threads, AllEnded, Ended, Unstarted, Pcs
<1>9. CASE Score
  BY <1>1, <1>4, <1>9 DEF Score, Threads, AllEnded, Ended, Unstarted, Pcs
<1>10. CASE Rerun
  <2>1. run' = run + 1 /\ histories' = histories /\ groups' = <<>> /\ thread' = <<>>
        /\ pc' = "preprocess"
    BY <1>10 DEF Rerun, dir
  <2>2. Threads'
    <3>1. DOMAIN thread' = {} /\ DOMAIN groups' = {}
      BY <2>1
    <3>2. thread' = [k \in DOMAIN thread' |-> thread'[k]]
      BY <2>1
    <3>3. histories' = [k \in DOMAIN histories' |-> histories'[k]]
      BY <1>1, <2>1 DEF Threads
    <3> QED
      BY <2>1, <3>1, <3>2, <3>3 DEF Threads, Pcs
  <2>3. ASSUME NEW k \in DOMAIN histories PROVE HistoryOk(k)'
    <3>1. HistoryOk(k)
      BY <1>1
    <3>2. histories[k].by \in 0..run
      BY <3>1 DEF HistoryOk
    <3>3. histories[k].by # run + 1 /\ 0..run \subseteq 0..(run + 1)
      BY <1>1, <3>2
    <3> QED
      BY <2>1, <3>1, <3>3 DEF HistoryOk
  <2> QED
    BY <1>1, <2>1, <2>2, <2>3 DEF HistoryInv
<1>11. CASE UNCHANGED vars
  BY <1>1, <1>4, <1>11 DEF vars, dir, Threads, AllEnded, Ended, Unstarted
<1> QED
  BY <1>2, <1>3, <1>5, <1>6, <1>7, <1>8, <1>9, <1>10, <1>11 DEF Next, Main

-----------------------------------------------------------------------------
(* The verdict.                                                            *)

\* What is marked in some of the histories.
MarksOf(ks) == UNION {histories[k].marks : k \in ks}

\* What Analyzer has read: in the first run nothing but marks of its groups, and
\* once the threads are joined all that the histories are marked with.
ReadInv ==
  /\ unread \subseteq Present /\ seen \subseteq Feature /\ result \subseteq Feature
  /\ pc = "score" =>
       /\ run = 1 => seen \subseteq Marked(DOMAIN groups)
       /\ AllEnded => seen = MarksOf(Present \ unread)
  /\ pc = "scored" =>
       /\ run = 1 => result \subseteq Marked(DOMAIN groups)
       /\ AllEnded => result = MarksOf(Present)

VerdictInv == HistoryInv /\ ReadInv

\* Nothing is read before the first run.
LEMMA VerdictInit == Init => VerdictInv
  BY HistoryInit DEF Init, VerdictInv, ReadInv

\* In the first run every history that is there is one of the run's own groups'.
LEMMA FirstIsOwn ==
  ASSUME HistoryInv, run = 1, NEW k \in Present
  PROVE  histories[k].marks \subseteq Marked(DOMAIN groups)
<1>1. HistoryOk(k)
  BY DEF HistoryInv, Present
<1>2. histories[k].by = 1 /\ k \in DOMAIN groups /\ histories[k].marks \subseteq Marks(groups[k])
  BY <1>1 DEF HistoryOk, Present
<1> QED
  BY <1>2 DEF Marked

\* A step that changes neither the groups nor the threads and the histories changes
\* nothing that is said of them.
LEMMA SameMarks ==
  ASSUME UNCHANGED <<groups, thread, histories>>
  PROVE  /\ Marked(DOMAIN groups)' = Marked(DOMAIN groups) /\ AllEnded' = AllEnded
         /\ Present' = Present /\ \A ks : MarksOf(ks)' = MarksOf(ks)
  BY DEF Marked, Marks, AllEnded, Ended, Present, MarksOf

\* Every step keeps what is read.
LEMMA VerdictNext == VerdictInv /\ [Next]_vars => VerdictInv'
<1> SUFFICES ASSUME VerdictInv, [Next]_vars PROVE ReadInv'
  BY HistoryNext DEF VerdictInv
<1>1. HistoryInv /\ Threads /\ ReadInv
  BY DEF VerdictInv, HistoryInv
<1>2. unread \subseteq Present /\ seen \subseteq Feature /\ result \subseteq Feature
  BY <1>1 DEF ReadInv
<1>3. CASE Preprocess
  <2>1. UNCHANGED <<unread, seen, result>> /\ pc' = "simulate"
    BY <1>3 DEF Preprocess
  <2>2. Present \subseteq Present'
    BY <1>1, <1>3, PreprocessMakes DEF Present
  <2> QED
    BY <1>2, <2>1, <2>2 DEF ReadInv
<1>4. ASSUME NEW k \in DOMAIN thread, Work(k) \/ Start(k) PROVE ReadInv'
  <2>1. ThreadFrame(k) /\ (histories'[k] = histories[k] \/ histories'[k].by = run)
    BY <1>1, <1>4, ThreadSteps
  <2>2. UNCHANGED <<unread, seen, result, run, pc, groups>>
    BY <2>1 DEF ThreadFrame
  <2>3. Present \subseteq Present'
    <3> SUFFICES ASSUME NEW j \in Present PROVE j \in Present'
      OBVIOUS
    <3>1. j \in DOMAIN histories' /\ histories[j] # Absent
      BY <2>1 DEF Present, ThreadFrame
    <3>2. run # 0 /\ Absent.by = 0
      BY <1>1 DEF HistoryInv, Absent
    <3>3. histories'[j] # Absent
      BY <2>1, <3>1, <3>2 DEF ThreadFrame, Present
    <3> QED
      BY <3>1, <3>3 DEF Present
  <2>4. pc \in {"score", "scored"} => ~AllEnded'
    <3> SUFFICES ASSUME pc \in {"score", "scored"} PROVE ~AllEnded'
      OBVIOUS
    <3>1. PICK j \in DOMAIN thread : thread[j] = "new"
      BY <1>1, <2>1 DEF Threads, ThreadFrame, AllEnded, Unstarted
    <3>2. j \in DOMAIN thread' /\ thread'[j] = "new"
      BY <2>1, <3>1 DEF ThreadFrame
    <3> QED
      BY <3>2 DEF AllEnded, Ended
  <2>5. Marked(DOMAIN groups)' = Marked(DOMAIN groups)
    BY <2>2 DEF Marked, Marks
  <2> QED
    BY <1>1, <1>2, <2>2, <2>3, <2>4, <2>5 DEF ReadInv
<1>5. CASE StartRaises
  BY <1>2, <1>5, SameMarks DEF StartRaises, dir, ReadInv
<1>6. CASE Join
  BY <1>2, <1>6, SameMarks DEF Join, dir, ReadInv
<1>7. CASE List
  <2>1. UNCHANGED <<groups, thread, histories, result>> /\ pc' = "score"
        /\ unread' = Present /\ seen' = {}
    BY <1>7 DEF List, dir
  <2>2. MarksOf(Present \ Present) = {}
    BY DEF MarksOf
  <2> QED
    BY <1>2, <2>1, <2>2, SameMarks DEF ReadInv
<1>8. ASSUME NEW k \in DOMAIN histories, Read(k) PROVE ReadInv'
  <2>1. /\ UNCHANGED <<run, pc, groups, thread, histories, result>> /\ pc = "score"
        /\ k \in unread /\ unread' = unread \ {k} /\ seen' = seen \cup histories[k].marks
    BY <1>8 DEF Read, dir
  <2>2. Present \ unread' = (Present \ unread) \cup {k}
    BY <1>2, <2>1
  <2>3. MarksOf(Present \ unread') = MarksOf(Present \ unread) \cup histories[k].marks
    BY <2>2 DEF MarksOf
  <2>4. k \in Present /\ HistoryOk(k)
    BY <1>1, <1>2, <2>1 DEF HistoryInv
  <2>5. histories[k].marks \subseteq Feature
    BY <2>4 DEF HistoryOk
  <2>6. run = 1 => histories[k].marks \subseteq Marked(DOMAIN groups)
    BY <1>1, <2>4, FirstIsOwn
  <2> QED
    BY <1>1, <1>2, <2>1, <2>3, <2>5, <2>6, SameMarks DEF ReadInv
<1>9. ASSUME NEW k \in DOMAIN histories, ReadRaises(k) PROVE ReadInv'
  BY <1>2, <1>9, SameMarks DEF ReadRaises, dir, ReadInv
<1>10. CASE Score
  <2>1. /\ UNCHANGED <<run, groups, thread, histories, seen, unread>> /\ pc = "score"
        /\ pc' = "scored" /\ unread = {} /\ result' = seen
    BY <1>10 DEF Score
  <2>2. Present \ unread = Present
    BY <2>1
  <2> QED
    BY <1>1, <1>2, <2>1, <2>2, SameMarks DEF ReadInv
<1>11. CASE Rerun
  BY <1>2, <1>11 DEF Rerun, dir, ReadInv
<1>12. CASE UNCHANGED vars
  <2>1. UNCHANGED <<run, pc, groups, thread, histories, seen, unread, result>>
    BY <1>12 DEF vars, dir
  <2> QED
    BY <1>1, <2>1, SameMarks DEF ReadInv
<1> QED
  BY <1>3, <1>4, <1>5, <1>6, <1>7, <1>8, <1>9, <1>10, <1>11, <1>12 DEF Next, Main

\* A saved history is there, and is marked with what its group is.
LEMMA SavedIsThere ==
  ASSUME HistoryInv, NEW k \in SavedOnes
  PROVE  /\ k \in Present /\ k \in DOMAIN groups
         /\ histories[k].marks = Marks(groups[k]) /\ histories[k].by = run
<1>1. histories[k] = [by |-> run, marks |-> Marks(groups[k]), cut |-> FALSE] /\ run # 0
      /\ k \in DOMAIN histories /\ k \in DOMAIN groups
  BY DEF HistoryInv, ThreadOk, SavedOnes, Threads
<1> QED
  BY <1>1 DEF Present, Absent

\* In a new directory no failure adds a feature to the verdict, and once the threads
\* are joined none takes away what a saved group is marked with.
THEOREM FirstVerdictIsBetween == Spec => []FirstVerdict
<1>1. VerdictInv => FirstVerdict
  <2> SUFFICES ASSUME VerdictInv, run = 1, pc = "scored"
               PROVE  /\ result \subseteq Marked(DOMAIN groups)
                      /\ AllEnded => Marked(SavedOnes) \subseteq result
    BY DEF FirstVerdict
  <2>1. result \subseteq Marked(DOMAIN groups) /\ (AllEnded => result = MarksOf(Present))
    BY DEF VerdictInv, ReadInv
  <2>2. Marked(SavedOnes) \subseteq MarksOf(Present)
    BY SavedIsThere DEF VerdictInv, Marked, MarksOf
  <2> QED
    BY <2>1, <2>2
<1>2. QED
  BY <1>1, VerdictInit, VerdictNext, PTL DEF Spec

-----------------------------------------------------------------------------
(* The groups of a run.                                                    *)

\* The files are windows of packets, those of the capture first and those only when
\* it has as many, and once it is posted the groups are those of the files.
EncodedInv ==
  /\ capture \in Captures /\ files \in Files
  /\ pc # "preprocess" =>
       /\ groups = Grouped(encode_packets(files))
       /\ Len(files) = Len(capture) => files = capture
       /\ \A w \in DOMAIN files : w <= Len(capture) => files[w] \in Range(capture)
  /\ \A k \in DOMAIN groups : groups[k] \in Group /\ Len(groups[k]) = input_count

\* The inductive invariant of the encoding and of the histories.
SimulatorInv == VerdictInv /\ EncodedInv

\* The invariant holds of an empty directory.
LEMMA EncodedInit == Init => SimulatorInv
<1> SUFFICES ASSUME Init PROVE EncodedInv
  BY VerdictInit DEF SimulatorInv
<1>1. files \in Files
  BY DEF Init, Files
<1> QED
  BY <1>1 DEF Init, EncodedInv

\* Preprocess establishes the invariant for what it finds in the directory; what
\* comes after changes neither the files nor the groups.
LEMMA EncodedNext == SimulatorInv /\ [Next]_vars => SimulatorInv'
<1> SUFFICES ASSUME SimulatorInv, [Next]_vars PROVE EncodedInv'
  BY VerdictNext DEF SimulatorInv
<1>1. EncodedInv /\ HistoryInv
  BY DEF SimulatorInv, VerdictInv
<1>2. CASE Preprocess
  <2>1. capture' = capture /\ files' = Over(capture, files) /\ pc' = "simulate"
        /\ groups' = Grouped(encode_packets(files'))
    BY <1>2 DEF Preprocess
  <2>2. capture \in Files /\ files \in Files
    BY <1>1, SimulatorAssumption DEF EncodedInv, Files
  <2>3. /\ files' \in Files /\ (Len(files') = Len(capture) => files' = capture)
        /\ \A w \in DOMAIN files' : w <= Len(capture) => files'[w] \in Range(capture)
    BY <2>1, <2>2, Overwritten
  <2>4. \A k \in DOMAIN groups' : groups'[k] \in Group /\ Len(groups'[k]) = input_count
    BY <2>1, <2>3, GroupsAreFull
  <2> QED
    BY <1>1, <2>1, <2>3, <2>4 DEF EncodedInv
<1>3. ASSUME NEW k \in DOMAIN thread, Work(k) \/ Start(k) PROVE EncodedInv'
  <2>1. ThreadFrame(k)
    BY <1>1, <1>3, ThreadSteps
  <2> QED
    BY <1>1, <2>1 DEF EncodedInv, ThreadFrame
<1>4. CASE StartRaises \/ Join \/ List
  BY <1>1, <1>4 DEF StartRaises, Join, List, dir, EncodedInv, Threads
<1>5. ASSUME NEW k \in DOMAIN histories, Read(k) \/ ReadRaises(k) PROVE EncodedInv'
  BY <1>1, <1>5 DEF Read, ReadRaises, dir, EncodedInv
<1>6. CASE Score
  BY <1>1, <1>6 DEF Score, EncodedInv
<1>7. CASE Rerun
  BY <1>1, <1>7 DEF Rerun, dir, EncodedInv
<1>8. CASE UNCHANGED vars
  BY <1>1, <1>8 DEF vars, dir, EncodedInv
<1> QED
  BY <1>2, <1>3, <1>4, <1>5, <1>6, <1>7, <1>8 DEF Next, Main

\* With as many devices as inputs, _chunk_input_spike_trains cuts the lines at the
\* windows' ends, for every capture and whatever an earlier run left.
THEOREM GroupsAreWindows == Spec => []GroupIsWindow
<1>1. SimulatorInv => GroupIsWindow
  <2> SUFFICES ASSUME EncodedInv, pc # "preprocess", Len(_discover_devices(files)) = input_count
               PROVE  /\ Len(groups) = Len(files)
                      /\ \A k \in DOMAIN groups : \A i \in 1..input_count :
                           groups[k][i] = Line(files[k], _discover_devices(files)[i])
    BY DEF SimulatorInv, GroupIsWindow
  <2>1. files \in Files /\ groups = Grouped(encode_packets(files))
    BY DEF EncodedInv
  <2>2. /\ Len(groups) = Len(files)
        /\ \A k \in DOMAIN groups :
             groups[k] = [i \in 1..input_count |-> Line(files[k], _discover_devices(files)[i])]
    BY <2>1, OneWindowAGroup
  <2> QED
    BY <2>2
<1> QED
  BY <1>1, EncodedInit, EncodedNext, PTL DEF Spec

-----------------------------------------------------------------------------

\* The runs are counted to MaxRuns.
Counted == run \in 1..MaxRuns

\* The type invariant follows from the others.
LEMMA TypesHold ==
  ASSUME SimulatorInv, Counted
  PROVE  TypeOK
<1>1. /\ Threads /\ EncodedInv /\ ReadInv
      /\ \A k \in DOMAIN histories :
           histories[k] \in [by : 0..run, marks : SUBSET Feature, cut : BOOLEAN]
  BY DEF SimulatorInv, VerdictInv, HistoryInv, HistoryOk
<1>2. Range(thread) \subseteq Stages
  BY <1>1 DEF Threads, Range
<1>3. Range(histories) \subseteq [by : 0..run, marks : SUBSET Feature, cut : BOOLEAN]
  BY <1>1 DEF Range
<1>4. \A k \in DOMAIN groups : k \in DOMAIN histories /\ Len(groups[k]) = input_count
  BY <1>1 DEF Threads, EncodedInv
<1> QED
  BY <1>1, <1>2, <1>3, <1>4
     DEF TypeOK, Counted, Threads, EncodedInv, ReadInv, Stages, Pcs

\* Only Rerun counts, and not past the bound.
LEMMA CountedNext == SimulatorInv /\ Counted /\ [Next]_vars => Counted'
<1> SUFFICES ASSUME SimulatorInv, Counted, [Next]_vars PROVE Counted'
  OBVIOUS
<1>1. CASE Rerun
  BY <1>1, Inputs DEF Rerun, Counted
<1>2. ASSUME NEW k \in DOMAIN thread, Work(k) \/ Start(k) PROVE Counted'
  BY <1>2, ThreadSteps DEF SimulatorInv, VerdictInv, ThreadFrame, Counted
<1>3. CASE Preprocess \/ StartRaises \/ Join \/ List \/ Score
  BY <1>3 DEF Preprocess, StartRaises, Join, List, Score, Counted
<1>4. ASSUME NEW k \in DOMAIN histories, Read(k) \/ ReadRaises(k) PROVE Counted'
  BY <1>4 DEF Read, ReadRaises, Counted
<1>5. CASE UNCHANGED vars
  BY <1>5 DEF vars, Counted
<1> QED
  BY <1>1, <1>2, <1>3, <1>4, <1>5 DEF Next, Main

\* The type invariant, for any engine.
THEOREM Typing == Spec => []TypeOK
<1>1. Init => Counted
  BY SimulatorAssumption DEF Init, Counted
<1>2. SimulatorInv /\ Counted => TypeOK
  BY TypesHold
<1> QED
  BY <1>1, <1>2, EncodedInit, EncodedNext, CountedNext, PTL DEF Spec

-----------------------------------------------------------------------------
(* The verdict of a later run.                                             *)

\* With as many devices as inputs a group is the request for its window.
LEMMA GroupIsRequest ==
  ASSUME EncodedInv, pc # "preprocess", Len(_discover_devices(files)) = input_count
  PROVE  /\ DOMAIN groups = 1..Len(files) /\ DOMAIN files = 1..Len(files)
         /\ \A k \in DOMAIN groups :
              groups[k] = Request(files[k], _discover_devices(files))
<1>1. files \in Files /\ groups = Grouped(encode_packets(files))
  BY DEF EncodedInv
<1>2. /\ DOMAIN groups = 1..Len(files)
      /\ \A k \in DOMAIN groups :
           groups[k] = [i \in 1..input_count |-> Line(files[k], _discover_devices(files)[i])]
  BY <1>1, OneWindowAGroup
<1>3. DOMAIN files = 1..Len(files)
  BY <1>1 DEF Files
<1> QED
  BY <1>2, <1>3 DEF Request

\* A run that replaces all that the run before it left is scored by the windows of
\* its own capture: nothing of the other one reaches the verdict.
THEOREM RerunIsItsOwn == Spec => []RerunVerdict
<1>1. SimulatorInv => RerunVerdict
  <2> DEFINE ds == _discover_devices(capture)
             Shown == UNION {Marks(Request(window, ds)) : window \in Range(capture)}
  <2> SUFFICES ASSUME SimulatorInv, pc = "scored", SavedOnes = DOMAIN thread,
                      Len(files) = Len(capture), DOMAIN histories = DOMAIN groups,
                      Len(ds) = input_count
               PROVE  result = Shown
    BY DEF RerunVerdict
  <2>1. EncodedInv /\ HistoryInv /\ Threads /\ ReadInv
    BY DEF SimulatorInv, VerdictInv, HistoryInv
  <2>2. files = capture
    BY <2>1 DEF EncodedInv
  <2>3. AllEnded
    BY DEF AllEnded, SavedOnes, Ended
  <2>4. result = MarksOf(Present)
    BY <2>1, <2>3 DEF ReadInv
  <2>5. \A k \in DOMAIN groups : k \in Present /\ histories[k].marks = Marks(groups[k])
    BY <2>1, SavedIsThere DEF Threads
  <2>6. Present = DOMAIN groups
    BY <2>5 DEF Present
  <2>7. DOMAIN groups = DOMAIN capture
        /\ \A k \in DOMAIN groups : groups[k] = Request(capture[k], ds)
    BY <2>1, <2>2, GroupIsRequest
  <2> HIDE DEF ds
  <2>8. \A k \in DOMAIN capture : histories[k].marks = Marks(Request(capture[k], ds))
    BY <2>5, <2>7
  <2>9. MarksOf(DOMAIN capture) = Shown
    BY <2>8 DEF MarksOf, Range
  <2> QED
    BY <2>4, <2>6, <2>7, <2>9
<1> QED
  BY <1>1, EncodedInit, EncodedNext, PTL DEF Spec

\* A feature that no window of the capture shows is that of a window file or of a
\* history that an earlier run left: failures, kills and retries, of whichever run,
\* let nothing else of an earlier capture through.
THEOREM StaleIsLeftOver == Spec => []StaleOnlyLeftOver
<1>1. SimulatorInv => StaleOnlyLeftOver
  <2> DEFINE ds == _discover_devices(files)
             Own(f) == \E window \in Range(capture) : f \in Marks(Request(window, ds))
             Past(f) == \E w \in (Len(capture) + 1)..Len(files) : f \in Marks(Request(files[w], ds))
             Kept(f) == \E k \in Present \ SavedOnes :
                          histories[k].by < run /\ f \in histories[k].marks
  <2> SUFFICES ASSUME SimulatorInv, pc = "scored", AllEnded, Len(ds) = input_count,
                      NEW f \in result
               PROVE  Own(f) \/ Past(f) \/ Kept(f)
    BY DEF StaleOnlyLeftOver
  <2>1. EncodedInv /\ HistoryInv /\ ReadInv /\ run \in Nat
    BY DEF SimulatorInv, VerdictInv, HistoryInv
  <2>2. PICK k \in Present : f \in histories[k].marks
    BY <2>1 DEF ReadInv, MarksOf
  <2>3. HistoryOk(k)
    BY <2>1 DEF HistoryInv, Present
  <2>4. CASE histories[k].by = run
    <3>1. k \in DOMAIN groups /\ f \in Marks(groups[k])
      BY <2>2, <2>3, <2>4 DEF HistoryOk
    <3>2. k \in 1..Len(files) /\ k \in DOMAIN files /\ groups[k] = Request(files[k], ds)
      BY <2>1, <3>1, GroupIsRequest
    <3>3. Len(files) \in Nat /\ Len(capture) \in Nat
      BY <2>1, SimulatorAssumption DEF EncodedInv, Files
    <3>4. CASE k <= Len(capture)
      BY <2>1, <3>1, <3>2, <3>4 DEF EncodedInv
    <3>5. CASE ~(k <= Len(capture))
      <4>1. k \in (Len(capture) + 1)..Len(files)
        BY <3>2, <3>3, <3>5
      <4> QED
        BY <3>1, <3>2, <4>1
    <3> QED
      BY <3>4, <3>5
  <2>5. CASE histories[k].by # run
    <3>1. histories[k].by < run
      BY <2>1, <2>3, <2>5 DEF HistoryOk
    <3>2. k \notin SavedOnes
      BY <2>1, <2>5, SavedIsThere
    <3> QED
      BY <2>2, <3>1, <3>2
  <2> QED
    BY <2>4, <2>5
<1> QED
  BY <1>1, EncodedInit, EncodedNext, PTL DEF Spec

-----------------------------------------------------------------------------
(* Every packet is posted.                                                 *)

\* The devices of the window files.
devices == _discover_devices(files)

\* The groups are made of the files.
Filed == files \in Files /\ groups = Grouped(encode_packets(files))

\* Line i of group k is that of device d for window w.
IsLineOf(k, i, w, d) ==
  Number(k, input_count, i) = Number(w, Len(devices), d)

\* p is a place in the line of device d for window w.
IsPlaceOf(p, w, d) ==
  /\ w \in DOMAIN files /\ d \in 1..Len(devices)
  /\ IsLineOf(p[1], p[2], w, d)
  /\ p[3] \in 1..Cardinality(Places(files[w], devices[d]))

\* The place of its packet in the window.
PacketAt(p, w, d) == InOrder(Places(files[w], devices[d]))[p[3]]

\* A line of a group is a device's for a window, or padding.
LEMMA GroupLines ==
  ASSUME Filed, NEW k \in DOMAIN groups, NEW i \in 1..input_count
  PROVE  /\ k \in Nat /\ k > 0
         /\ \A w \in DOMAIN files, d \in 1..Len(devices) :
              IsLineOf(k, i, w, d) => groups[k][i] = Line(files[w], devices[d])
         /\ \/ groups[k][i] = <<EndOfSubstream>>
            \/ \E w \in DOMAIN files, d \in 1..Len(devices) : IsLineOf(k, i, w, d)
<1> DEFINE lines == encode_packets(files)
<1>1. PICK D \in Nat : D = Len(devices) /\ DOMAIN devices = 1..D
  BY DevicesInOrder DEF Filed, devices
<1>2. PICK W \in Nat : W = Len(files) /\ DOMAIN files = 1..W
  BY DEF Filed, Files
<1>3. /\ Len(lines) = W * D
      /\ \A w \in 1..W, d \in 1..D : lines[(w - 1) * D + d] = Line(files[w], devices[d])
  BY <1>1, <1>2, Encoded DEF Filed, devices
<1>4. PICK N \in Nat : N = W * D
  OBVIOUS
<1>5. /\ GroupCount(N) \in Nat /\ k \in 1..GroupCount(N)
      /\ groups[k] = GroupAt(lines, N, k)
  BY <1>3, <1>4, GroupsOf DEF Filed
<1> HIDE DEF lines
<1>6. groups[k][i] = IF (k - 1) * input_count + i <= N
                     THEN lines[(k - 1) * input_count + i] ELSE <<EndOfSubstream>>
  BY <1>5 DEF GroupAt
<1>7. PICK l \in Nat : l = (k - 1) * input_count + i /\ l > 0
  BY <1>5, Inputs, PlaceInBlock
<1>8. ASSUME NEW w \in 1..W, NEW d \in 1..D, l = (w - 1) * D + d
      PROVE  groups[k][i] = Line(files[w], devices[d])
  <2>1. l <= N
    <3>1. PICK j \in Nat, e \in Nat : w = j + 1 /\ W = j + 1 + e
      BY w - 1 \in Nat, W - w \in Nat, w = (w - 1) + 1, W = (w - 1) + 1 + (W - w)
    <3>2. W * D = j * D + D + e * D
      BY <3>1
    <3>3. PICK x \in Nat, y \in Nat : x = j * D /\ y = e * D
      OBVIOUS
    <3>4. l = x + d
      BY <1>8, <3>1, <3>3
    <3> QED
      BY <1>4, <3>2, <3>3, <3>4
  <2> QED
    BY <1>3, <1>6, <1>7, <1>8, <2>1
<1>9. ASSUME l <= N PROVE \E w \in 1..W, d \in 1..D : l = (w - 1) * D + d
  <2>1. l \in 1..(W * D)
    BY <1>4, <1>7, <1>9
  <2> QED
    BY <2>1, OnLine
<1>10. ASSUME ~(l <= N) PROVE groups[k][i] = <<EndOfSubstream>>
  BY <1>6, <1>7, <1>10
<1>11. \A w, d : IsLineOf(k, i, w, d) <=> l = (w - 1) * D + d
  BY <1>1, <1>7, Zenon DEF IsLineOf, Number
<1>12. \A w \in 1..W, d \in 1..D :
         IsLineOf(k, i, w, d) => groups[k][i] = Line(files[w], devices[d])
  BY <1>8, <1>11
<1>13. \/ groups[k][i] = <<EndOfSubstream>>
       \/ \E w \in 1..W, d \in 1..D : IsLineOf(k, i, w, d)
  BY <1>9, <1>10, <1>11
<1>14. k \in Nat /\ k > 0
  BY <1>5
<1> QED
  BY <1>1, <1>2, <1>12, <1>13, <1>14

\* The parts of a place of a symbol.
LEMMA PostedPlace ==
  ASSUME NEW p \in PostedPlaces
  PROVE  /\ p = <<p[1], p[2], p[3]>> /\ p[1] \in DOMAIN groups /\ p[2] \in 1..input_count
         /\ p[3] \in 1..(Len(groups[p[1]][p[2]]) - 1)
BY DEF PostedPlaces

\* Every symbol posted is at a place of some window and device.
LEMMA PostedIsPlace ==
  ASSUME Filed, NEW p \in PostedPlaces
  PROVE  \E w \in DOMAIN files, d \in 1..Len(devices) : IsPlaceOf(p, w, d)
<1> DEFINE k == p[1]
           i == p[2]
<1>1. k \in DOMAIN groups /\ i \in 1..input_count /\ p[3] \in 1..(Len(groups[k][i]) - 1)
  BY PostedPlace
<1> HIDE DEF k, i
<1>2. groups[k][i] # <<EndOfSubstream>>
  <2> SUFFICES ASSUME groups[k][i] = <<EndOfSubstream>> PROVE FALSE
    OBVIOUS
  <2>1. Len(groups[k][i]) = 1
    OBVIOUS
  <2> QED
    BY <1>1, <2>1
<1>3. PICK w \in DOMAIN files, d \in 1..Len(devices) : IsLineOf(k, i, w, d)
  BY <1>1, <1>2, GroupLines
<1>4. groups[k][i] = Line(files[w], devices[d])
  BY <1>1, <1>3, GroupLines
<1>5. Len(Line(files[w], devices[d])) - 1 = Cardinality(Places(files[w], devices[d]))
  BY LineIs DEF Filed
<1> QED
  BY <1>1, <1>3, <1>4, <1>5 DEF IsPlaceOf, k, i

\* The symbol at a place is that of a packet sent.
LEMMA PlaceHasPacket ==
  ASSUME Filed, NEW p \in PostedPlaces, NEW w, NEW d, IsPlaceOf(p, w, d)
  PROVE  /\ <<w, PacketAt(p, w, d)>> \in SentPlaces
         /\ PacketAt(p, w, d) \in Places(files[w], devices[d])
         /\ groups[p[1]][p[2]][p[3]] = _symbol(files[w][PacketAt(p, w, d)])
<1> DEFINE P == Places(files[w], devices[d])
           m == PacketAt(p, w, d)
<1>1. /\ p[1] \in DOMAIN groups /\ p[2] \in 1..input_count
      /\ w \in DOMAIN files /\ d \in 1..Len(devices) /\ p[3] \in 1..Cardinality(P)
      /\ IsLineOf(p[1], p[2], w, d)
  BY PostedPlace DEF IsPlaceOf
<1>2. groups[p[1]][p[2]] = Line(files[w], devices[d])
  BY <1>1, GroupLines
<1>3. /\ InOrder(P)[p[3]] \in P
      /\ Line(files[w], devices[d])[p[3]] = _symbol(files[w][InOrder(P)[p[3]]])
  BY <1>1, LineIs DEF Filed
<1>4. m = InOrder(P)[p[3]]
  BY DEF PacketAt
<1> HIDE DEF m
<1>5. m \in Sent(files[w]) /\ files[w][m].device = devices[d]
  BY <1>3, <1>4 DEF Places
<1>6. <<w, m>> \in SentPlaces
  BY <1>1, <1>5 DEF Sent, SentPlaces
<1> QED
  BY <1>2, <1>3, <1>4, <1>6 DEF m

\* The parts of a place of a packet.
LEMMA SentPlace ==
  ASSUME NEW q \in SentPlaces
  PROVE  q = <<q[1], q[2]>> /\ q[1] \in DOMAIN files /\ q[2] \in Sent(files[q[1]])
BY DEF SentPlaces, Sent

\* Every packet sent has a place.
LEMMA SentHasPlace ==
  ASSUME Filed, NEW q \in SentPlaces
  PROVE  \E p \in PostedPlaces, d \in 1..Len(devices) :
           IsPlaceOf(p, q[1], d) /\ PacketAt(p, q[1], d) = q[2]
<1> DEFINE w == q[1]
           m == q[2]
           x == files[w][m].device
           P == Places(files[w], x)
<1>1. w \in DOMAIN files /\ m \in Sent(files[w])
  BY SentPlace
<1> HIDE DEF w, m
<1>2. x \in Attackers(files) /\ m \in P
  BY <1>1 DEF Attackers, Range, Places
<1>3. PICK d \in 1..Len(devices) : devices[d] = x
  BY <1>2, DevicesInOrder DEF Filed, devices
<1> HIDE DEF x, P
<1>4. PICK r \in 1..Cardinality(P) : InOrder(P)[r] = m
  <2>1. P \in SUBSET Nat /\ IsFiniteSet(P)
    BY <1>1, PlacesFinite DEF Filed, P
  <2> QED
    BY <1>2, <2>1, InOrderSorts
<1>5. PICK D \in Nat : D = Len(devices)
  BY DevicesInOrder DEF Filed, devices
<1>6. PICK W \in Nat : W = Len(files) /\ DOMAIN files = 1..W
  BY DEF Filed, Files
<1>7. PICK N \in Nat : N = W * D
  OBVIOUS
<1>8. PICK l \in 1..N : l = (w - 1) * D + d
  <2>1. PICK j \in Nat, e \in Nat : w = j + 1 /\ W = j + 1 + e
    BY <1>1, <1>6, w - 1 \in Nat, W - w \in Nat, w = (w - 1) + 1, W = (w - 1) + 1 + (W - w)
  <2>2. W * D = j * D + D + e * D
    BY <2>1
  <2>3. PICK a \in Nat, b \in Nat : a = j * D /\ b = e * D
    OBVIOUS
  <2>4. (w - 1) * D + d = a + d
    BY <2>1, <2>3
  <2> QED
    BY <1>3, <1>5, <1>7, <2>2, <2>3, <2>4
<1>9. PICK k \in DOMAIN groups, i \in 1..input_count : l = (k - 1) * input_count + i
  <2>1. Len(encode_packets(files)) = N
    BY <1>5, <1>6, <1>7, Encoded DEF Filed, devices
  <2>2. /\ DOMAIN groups = 1..GroupCount(N)
        /\ \A j \in 1..N : \E k \in 1..GroupCount(N), i \in 1..input_count :
             j = (k - 1) * input_count + i
    <3> DEFINE lines == encode_packets(files)
    <3>1. groups = Grouped(lines)
      BY DEF Filed
    <3> HIDE DEF lines
    <3>2. Len(lines) = N
      BY <2>1 DEF lines
    <3> QED
      BY <3>1, <3>2, GroupsOf
  <2> QED
    BY <2>2, Zenon
<1>10. IsLineOf(k, i, w, d) /\ groups[k][i] = Line(files[w], devices[d])
  <2>1. IsLineOf(k, i, w, d)
    BY <1>5, <1>8, <1>9, Zenon DEF IsLineOf, Number
  <2> QED
    BY <1>1, <2>1, GroupLines
<1>11. Len(groups[k][i]) - 1 = Cardinality(P)
  BY <1>1, <1>3, <1>10, LineIs DEF Filed, P
<1> DEFINE p == <<k, i, r>>
<1>12. p \in PostedPlaces
  <2> DEFINE At(a, b) == {a} \X {b} \X (1..(Len(groups[a][b]) - 1))
  <2>1. p \in At(k, i)
    BY <1>4, <1>11
  <2>2. PostedPlaces = UNION {At(a, b) : a \in DOMAIN groups, b \in 1..input_count}
    BY DEF PostedPlaces
  <2> HIDE DEF At, p
  <2> QED
    BY <2>1, <2>2
<1>13. IsPlaceOf(p, w, d) /\ PacketAt(p, w, d) = m
  BY <1>1, <1>3, <1>4, <1>10 DEF IsPlaceOf, PacketAt, P
<1> QED
  BY <1>12, <1>13 DEF w, m

\* A place is that of one packet, and a packet has one place.
LEMMA PlacesMatch ==
  ASSUME Filed, NEW p \in PostedPlaces, NEW w, NEW d, IsPlaceOf(p, w, d),
         NEW s \in PostedPlaces, NEW v, NEW e, IsPlaceOf(s, v, e)
  PROVE  /\ p = s => w = v /\ d = e
         /\ w = v /\ PacketAt(p, w, d) = PacketAt(s, v, e) => p = s
<1>1. PICK D \in Nat : D = Len(devices)
  BY DevicesInOrder DEF Filed, devices
<1>2. /\ w \in DOMAIN files /\ d \in 1..D
      /\ v \in DOMAIN files /\ e \in 1..D
      /\ IsLineOf(p[1], p[2], w, d) /\ IsLineOf(s[1], s[2], v, e)
      /\ p[3] \in 1..Cardinality(Places(files[w], devices[d]))
      /\ s[3] \in 1..Cardinality(Places(files[v], devices[e]))
  BY <1>1 DEF IsPlaceOf
<1>3. /\ p = <<p[1], p[2], p[3]>> /\ p[1] \in Nat /\ p[1] > 0 /\ p[2] \in 1..input_count
      /\ s = <<s[1], s[2], s[3]>> /\ s[1] \in Nat /\ s[1] > 0 /\ s[2] \in 1..input_count
  <2>1. /\ p = <<p[1], p[2], p[3]>> /\ p[1] \in DOMAIN groups /\ p[2] \in 1..input_count
        /\ s = <<s[1], s[2], s[3]>> /\ s[1] \in DOMAIN groups /\ s[2] \in 1..input_count
    BY PostedPlace
  <2>2. p[1] \in Nat /\ p[1] > 0 /\ s[1] \in Nat /\ s[1] > 0
    BY <2>1, GroupLines
  <2> QED
    BY <2>1, <2>2
<1>6. D > 0 /\ w \in Nat /\ w > 0 /\ v \in Nat /\ v > 0
  <2>1. PICK W \in Nat : DOMAIN files = 1..W
    BY DEF Filed, Files
  <2> QED
    BY <1>1, <1>2, <2>1
<1>4. ASSUME p = s PROVE w = v /\ d = e
  <2>1. Number(w, D, d) = Number(v, D, e)
    BY <1>1, <1>2, <1>4, Zenon DEF IsLineOf
  <2> QED
    BY <1>1, <1>2, <1>6, <2>1, OnePlace
<1>5. ASSUME w = v, PacketAt(p, w, d) = PacketAt(s, v, e) PROVE p = s
  <2>1. devices[d] = devices[e]
    <3>1. PacketAt(p, w, d) \in Places(files[w], devices[d])
      BY PlaceHasPacket
    <3>2. PacketAt(s, v, e) \in Places(files[v], devices[e])
      BY PlaceHasPacket
    <3> QED
      BY <1>5, <3>1, <3>2 DEF Places
  <2>2. d = e
    BY <1>1, <1>2, <2>1, DevicesInOrder DEF Filed, devices
  <2>3. p[1] = s[1] /\ p[2] = s[2]
    <3>1. Number(p[1], input_count, p[2]) = Number(s[1], input_count, s[2])
      BY <1>2, <1>5, <2>2, Zenon DEF IsLineOf
    <3> QED
      BY <1>3, <3>1, Inputs, OnePlace
  <2>4. p[3] = s[3]
    <3> DEFINE P == Places(files[w], devices[d])
    <3>1. P \in SUBSET Nat /\ IsFiniteSet(P)
      BY <1>2, PlacesFinite DEF Filed
    <3>2. p[3] \in 1..Cardinality(P) /\ s[3] \in 1..Cardinality(P)
      BY <1>2, <1>5, <2>2
    <3>3. InOrder(P)[p[3]] = InOrder(P)[s[3]]
      BY <1>5, <2>2 DEF PacketAt
    <3> HIDE DEF P
    <3> QED
      BY <3>1, <3>2, <3>3, InOrderSorts
  <2> QED
    BY <1>3, <2>3, <2>4
<1> QED
  BY <1>4, <1>5

\* There are finitely many packets.
LEMMA SentPlacesFinite == Filed => IsFiniteSet(SentPlaces)
<1> SUFFICES ASSUME Filed PROVE IsFiniteSet(SentPlaces)
  OBVIOUS
<1> DEFINE Of(w) == {w} \X Sent(files[w])
           All == {Of(w) : w \in DOMAIN files}
           g == [w \in DOMAIN files |-> Of(w)]
<1>1. SentPlaces = UNION All
  BY DEF SentPlaces, Sent
<1>2. ASSUME NEW w \in DOMAIN files PROVE IsFiniteSet(Of(w))
  <2>1. IsFiniteSet({w}) /\ IsFiniteSet(Sent(files[w]))
    BY FS_Singleton, WindowOf DEF Filed
  <2> QED
    BY <2>1, FS_Product
<1>3. g \in Surjection(DOMAIN files, All)
  BY DEF Surjection
<1>4. IsFiniteSet(DOMAIN files)
  <2>1. Len(files) \in Nat /\ DOMAIN files = 1..Len(files)
    BY DEF Filed, Files
  <2> QED
    BY <2>1, Interval, Zenon
<1>5. \A T \in All : IsFiniteSet(T)
  BY <1>2
<1> HIDE DEF All, g
<1>6. IsFiniteSet(All)
  BY <1>3, <1>4, FS_Surjection
<1> QED
  BY <1>1, <1>5, <1>6, FS_UNION

\* The places of a symbol in the groups and those of its packets in the files are as
\* many: each is that of the other.
LEMMA PostedAreSent ==
  ASSUME Filed, NEW symbol
  PROVE  Cardinality({p \in PostedPlaces : groups[p[1]][p[2]][p[3]] = symbol}) =
           Cardinality({q \in SentPlaces : _symbol(files[q[1]][q[2]]) = symbol})
<1> DEFINE A == {p \in PostedPlaces : groups[p[1]][p[2]][p[3]] = symbol}
           B == {q \in SentPlaces : _symbol(files[q[1]][q[2]]) = symbol}
           IsOf(q, p) == \E w \in DOMAIN files, d \in 1..Len(devices) :
                           IsPlaceOf(p, w, d) /\ q = <<w, PacketAt(p, w, d)>>
           f == [p \in A |-> CHOOSE q : IsOf(q, p)]
<1>1. ASSUME NEW p \in A
      PROVE  \E w \in DOMAIN files, d \in 1..Len(devices) :
               IsPlaceOf(p, w, d) /\ f[p] = <<w, PacketAt(p, w, d)>>
  <2>1. \E q : IsOf(q, p)
    BY PostedIsPlace
  <2>2. IsOf(f[p], p)
    BY <2>1
  <2> QED
    BY <2>2
<1> HIDE DEF f
<1>2. ASSUME NEW p \in A PROVE f[p] \in B
  <2>1. PICK w \in DOMAIN files, d \in 1..Len(devices) :
          IsPlaceOf(p, w, d) /\ f[p] = <<w, PacketAt(p, w, d)>>
    BY <1>1
  <2>2. /\ <<w, PacketAt(p, w, d)>> \in SentPlaces
        /\ _symbol(files[w][PacketAt(p, w, d)]) = symbol
    BY <2>1, PlaceHasPacket
  <2> QED
    BY <2>1, <2>2
<1>3. f \in [A -> B]
  BY <1>2 DEF f
<1>4. ASSUME NEW p \in A, NEW s \in A, f[p] = f[s] PROVE p = s
  <2>1. PICK w \in DOMAIN files, d \in 1..Len(devices) :
          IsPlaceOf(p, w, d) /\ f[p] = <<w, PacketAt(p, w, d)>>
    BY <1>1
  <2>2. PICK v \in DOMAIN files, e \in 1..Len(devices) :
          IsPlaceOf(s, v, e) /\ f[s] = <<v, PacketAt(s, v, e)>>
    BY <1>1
  <2>3. w = v /\ PacketAt(p, w, d) = PacketAt(s, v, e)
    <3>1. <<w, PacketAt(p, w, d)>> = <<v, PacketAt(s, v, e)>>
      BY <1>4, <2>1, <2>2, Zenon
    <3> QED
      BY <3>1
  <2> QED
    BY <2>1, <2>2, <2>3, PlacesMatch
<1>5. ASSUME NEW q \in B PROVE \E p \in A : f[p] = q
  <2>1. q = <<q[1], q[2]>> /\ _symbol(files[q[1]][q[2]]) = symbol
    BY SentPlace
  <2>2. PICK p \in PostedPlaces, d \in 1..Len(devices) :
          IsPlaceOf(p, q[1], d) /\ PacketAt(p, q[1], d) = q[2]
    BY SentHasPlace
  <2>3. groups[p[1]][p[2]][p[3]] = symbol
    BY <2>1, <2>2, PlaceHasPacket
  <2>4. PICK v \in DOMAIN files, e \in 1..Len(devices) :
          IsPlaceOf(p, v, e) /\ f[p] = <<v, PacketAt(p, v, e)>>
    BY <1>1, <2>3
  <2>5. v = q[1] /\ e = d
    BY <2>2, <2>4, PlacesMatch
  <2> QED
    BY <2>1, <2>2, <2>3, <2>4, <2>5
<1>6. IsFiniteSet(B)
  BY SentPlacesFinite, FS_Subset
<1> HIDE DEF A, B
<1>7. f \in Bijection(A, B)
  BY <1>3, <1>4, <1>5, Fun_IsBij
<1>8. ExistsBijection(B, A)
  BY <1>7, Fun_ExistsBijSymmetric DEF ExistsBijection
<1>9. Cardinality(A) = Cardinality(B)
  BY <1>6, <1>8, FS_Bijection
<1> QED
  BY <1>9 DEF A, B

\* No packet sent to the target port is lost between the windows and the requests,
\* none is posted twice and none is invented, for every capture and any input_count.
THEOREM PacketsArePosted == Spec => []EveryPacketPosted
<1>1. SimulatorInv => EveryPacketPosted
  BY PostedAreSent DEF SimulatorInv, EncodedInv, Filed, EveryPacketPosted
<1> QED
  BY <1>1, EncodedInit, EncodedNext, PTL DEF Spec
=============================================================================
