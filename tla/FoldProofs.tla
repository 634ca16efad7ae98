----------------------------- MODULE FoldProofs -----------------------------
(***************************************************************************)
(* Induction over the natural numbers with the property given as a set,    *)
(* remainders, and what FoldLeft computes: the last of the values that a   *)
(* loop over the elements of a sequence goes through.                      *)
(***************************************************************************)
EXTENDS Integers, SequencesExt, WellFoundedInduction, TLAPS

(* A set of natural numbers that is not empty has a least element.          *)
LEMMA LeastNat ==
  ASSUME NEW T \in SUBSET Nat, T # {}
  PROVE  \E x \in T : \A y \in T : x <= y
<1> DEFINE R == OpToRel(<, Nat)
<1>1. IsWellFoundedOn(R, Nat)
  BY NatLessThanWellFounded
<1>2. \A x, y \in Nat : y < x => <<y, x>> \in R
  BY DEF OpToRel
<1> HIDE DEF R
<1>3. \E x \in T : \A y \in T : ~ (<<y, x>> \in R)
  BY <1>1, WFMin
<1>4. \A x \in T : x \in Nat
  OBVIOUS
<1>5. \A x, y \in Nat : ~ (<<y, x>> \in R) => x <= y
  BY <1>2
<1> QED
  BY <1>3, <1>4, <1>5

(* What holds of 0, and of n + 1 whenever it holds of n, holds of all n up  *)
(* to any bound.                                                            *)
LEMMA InductionUpTo ==
  ASSUME NEW m \in Nat, NEW P \in SUBSET Nat, 0 \in P,
         \A n \in P : n < m => n + 1 \in P
  PROVE  \A n \in 0..m : n \in P
<1>1. SUFFICES ASSUME NEW k \in 0..m, k \notin P PROVE FALSE
  OBVIOUS
<1> DEFINE T == {j \in 0..m : j \notin P}
<1>2. T \in SUBSET Nat /\ T # {}
  BY <1>1
<1>3. PICK x \in T : \A y \in T : x <= y
  BY <1>2, LeastNat
<1>4. x \in 0..m /\ x \notin P /\ x # 0
  OBVIOUS
<1>5. x - 1 \in 0..m /\ x - 1 < m /\ ~(x <= x - 1)
  BY <1>4
<1>6. x - 1 \in P
  BY <1>3, <1>5
<1>7. x - 1 + 1 \in P
  BY <1>5, <1>6
<1> QED
  BY <1>4, <1>7

----------------------------------------------------------------------------
(* Numbers that differ by a multiple of m have the same remainder.          *)
LEMMA DivMod ==
  ASSUME NEW m \in Nat \ {0}, NEW a \in Int
  PROVE  /\ a \div m \in Int /\ a % m \in 0..m-1
         /\ a = m * (a \div m) + (a % m)
<1>1. a \div m \in Int
  OBVIOUS
<1>2. a % m \in Int /\ 0 <= a % m /\ a % m < m
  OBVIOUS
<1>3. a = m * (a \div m) + (a % m)
  OBVIOUS
<1> QED
  BY <1>1, <1>2, <1>3

LEMMA MultipleBelow ==
  ASSUME NEW m \in Nat \ {0}, NEW t \in Int, -m < m * t, m * t < m
  PROVE  t = 0
<1>1. \A j \in Nat : m * (j + 1) >= m
  <2> TAKE j \in Nat
  <2>1. m * j \in Nat
    OBVIOUS
  <2>2. m * (j + 1) = m * j + m
    OBVIOUS
  <2> QED
    BY <2>1, <2>2
<1>2. CASE t > 0
  <2>1. t - 1 \in Nat /\ m * (t - 1 + 1) >= m
    BY <1>1, <1>2
  <2> QED
    BY <2>1
<1>3. CASE t < 0
  <2>1. -t - 1 \in Nat /\ m * (-t - 1 + 1) >= m
    BY <1>1, <1>3
  <2>2. m * (-t) = -(m * t)
    OBVIOUS
  <2>3. -t - 1 + 1 = -t
    OBVIOUS
  <2> QED
    BY <2>1, <2>2, <2>3
<1> QED
  BY <1>2, <1>3

LEMMA SameRemainder ==
  ASSUME NEW m \in Nat \ {0}, NEW a \in Int, NEW b \in Int, NEW k \in Int,
         a = b + m * k
  PROVE  a % m = b % m
<1> DEFINE p == a \div m   q == b \div m   r == a % m   s == b % m
<1>1. /\ p \in Int /\ q \in Int /\ r \in 0..m-1 /\ s \in 0..m-1
      /\ a = m * p + r /\ b = m * q + s
  BY DivMod
<1> HIDE DEF p, q, r, s
<1>2. m * p + r = m * q + s + m * k
  BY <1>1
<1>3. m * (q + k - p) = m * q + m * k - m * p
  BY <1>1
<1>4. m * (q + k - p) = r - s
  <2>1. m * p \in Int /\ m * q \in Int /\ m * k \in Int
    BY <1>1
  <2> QED
    BY <1>1, <1>2, <1>3, <2>1
<1>5. -m < r - s /\ r - s < m
  BY <1>1
<1>6. q + k - p = 0
  BY <1>1, <1>4, <1>5, MultipleBelow
<1>7. m * 0 = 0
  OBVIOUS
<1>8. r = s
  BY <1>1, <1>4, <1>6, <1>7
<1> QED
  BY <1>8 DEF r, s
----------------------------------------------------------------------------
(* The function by which FoldLeft is defined: for a sequence w of n         *)
(* elements, and a loop body F that takes a value and an element, g[s] is   *)
(* what the elements at the indices in s make of the initial value.         *)
IsFold(g, n, w, F, base) ==
  g = [s \in SUBSET (1..n) |->
         IF s = {} THEN base ELSE F[<<g[s \ {Max(s)}], w[Max(s)]>>]]

HasFold(n, w, F, base, S) ==
  \E g \in [SUBSET (1..n) -> S] : IsFold(g, n, w, F, base)

LEMMA MaxOfSubset ==
  ASSUME NEW k \in Nat, NEW s \in SUBSET (1..k+1), k + 1 \in s
  PROVE  Max(s) = k + 1
<1>1. \A y \in s : k + 1 >= y
  OBVIOUS
<1>2. \A x \in s : (\A y \in s : x >= y) => x = k + 1
  OBVIOUS
<1> QED
  BY <1>1, <1>2 DEF Max

LEMMA FoldExists ==
  ASSUME NEW S, NEW X, NEW F \in [S \X X -> S], NEW base \in S,
         NEW m \in Nat, NEW w \in [1..m -> X]
  PROVE  HasFold(m, w, F, base, S)
<1> DEFINE P == {n \in Nat : n <= m => HasFold(n, w, F, base, S)}
<1>1. 0 \in P
  <2> DEFINE g == [s \in SUBSET (1..0) |-> base]
  <2>1. \A s \in SUBSET (1..0) : s = {}
    OBVIOUS
  <2>2. g \in [SUBSET (1..0) -> S]
    OBVIOUS
  <2>3. IsFold(g, 0, w, F, base)
    BY <2>1 DEF IsFold
  <2>4. HasFold(0, w, F, base, S)
    BY <2>2, <2>3 DEF HasFold
  <2> QED
    BY <2>4
<1>2. ASSUME NEW n \in P, n < m PROVE n + 1 \in P
  <2>0. HasFold(n, w, F, base, S)
    BY <1>2
  <2>1. PICK g \in [SUBSET (1..n) -> S] : IsFold(g, n, w, F, base)
    BY <2>0 DEF HasFold
  <2>n. n \in Nat /\ n + 1 \in 1..m
    BY <1>2
  <2> DEFINE Below(s) == s \ {n + 1}
             h == [s \in SUBSET (1..n+1) |->
                     IF n + 1 \in s THEN F[<<g[Below(s)], w[n + 1]>>] ELSE g[s]]
  <2>2. \A s \in SUBSET (1..n+1) : Below(s) \in SUBSET (1..n)
    BY <2>n
  <2>3. \A s \in SUBSET (1..n+1) : n + 1 \notin s => s \in SUBSET (1..n)
    BY <2>n
  <2>4. \A s \in SUBSET (1..n) : g[s] \in S
    OBVIOUS
  <2>5. h \in [SUBSET (1..n+1) -> S]
    <3> SUFFICES ASSUME NEW s \in SUBSET (1..n+1)
                 PROVE  (IF n + 1 \in s THEN F[<<g[Below(s)], w[n + 1]>>]
                         ELSE g[s]) \in S
      OBVIOUS
    <3>1. w[n + 1] \in X
      BY <2>n
    <3>2. CASE n + 1 \in s
      BY <2>2, <2>4, <3>1, <3>2
    <3>3. CASE n + 1 \notin s
      BY <2>3, <2>4, <3>3
    <3> QED
      BY <3>2, <3>3
  <2>6. ASSUME NEW s \in SUBSET (1..n+1)
        PROVE  h[s] = IF s = {} THEN base
                      ELSE F[<<h[s \ {Max(s)}], w[Max(s)]>>]
    <3>1. CASE n + 1 \in s
      <4>1. Max(s) = n + 1
        BY <2>n, <3>1, MaxOfSubset
      <4>2. h[Below(s)] = g[Below(s)] /\ Below(s) \in SUBSET (1..n+1)
        OBVIOUS
      <4>3. h[s] = F[<<g[Below(s)], w[n + 1]>>]
        BY <3>1
      <4> QED
        BY <3>1, <4>1, <4>2, <4>3
    <3>2. CASE n + 1 \notin s
      <4>1. s \in SUBSET (1..n) /\ h[s] = g[s]
        BY <2>3, <3>2
      <4>2. g[s] = IF s = {} THEN base
                   ELSE F[<<g[s \ {Max(s)}], w[Max(s)]>>]
        BY <2>1, <4>1 DEF IsFold
      <4>3. h[s \ {Max(s)}] = g[s \ {Max(s)}]
        BY <3>2
      <4> QED
        BY <4>1, <4>2, <4>3
    <3> QED
      BY <3>1, <3>2
  <2>7. IsFold(h, n + 1, w, F, base)
    BY <2>5, <2>6 DEF IsFold
  <2>8. HasFold(n + 1, w, F, base, S)
    BY <2>5, <2>7 DEF HasFold
  <2> QED
    BY <2>n, <2>8
<1>3. P \in SUBSET Nat
  OBVIOUS
<1> HIDE DEF P
<1>4. \A n \in 0..m : n \in P
  BY <1>1, <1>2, <1>3, InductionUpTo
<1> QED
  BY <1>4 DEF P

(* The largest element of a set of indices, and the sets that FoldLeft      *)
(* really looks at: those of the first k indices.                           *)
LEMMA MaxIsElement ==
  ASSUME NEW m \in Nat, NEW s \in SUBSET (1..m), s # {}
  PROVE  Max(s) \in s
<1> DEFINE T == {m - x : x \in s}
<1>1. T \in SUBSET Nat /\ T # {}
  <2>1. \A x \in s : x \in 1..m /\ m - x \in Nat
    OBVIOUS
  <2> QED
    BY <2>1
<1>2. PICK t \in T : \A y \in T : t <= y
  BY <1>1, LeastNat
<1>3. PICK x \in s : t = m - x
  BY <1>2
<1>4. \A y \in s : x >= y
  <2> TAKE y \in s
  <2>1. t <= m - y
    BY <1>2
  <2> QED
    BY <1>3, <2>1
<1> QED
  BY <1>4 DEF Max

LEMMA InitialIndices ==
  ASSUME NEW m \in Nat, NEW k \in 1..m
  PROVE  /\ 1..k \in SUBSET (1..m) /\ 1..k # {}
         /\ 1..(k - 1) \in SUBSET (1..m)
         /\ Max(1..k) = k /\ (1..k) \ {k} = 1..(k - 1)
<1>1. PICK j \in Nat : k = j + 1
  OBVIOUS
<1> DEFINE s == 1..j+1
<1>2. s \in SUBSET (1..j+1) /\ j + 1 \in s
  BY <1>1
<1>3. Max(s) = j + 1
  BY <1>1, <1>2, MaxOfSubset
<1> QED
  BY <1>1, <1>3

----------------------------------------------------------------------------
(* FoldLeft with addition: the values the sum goes through.                 *)
SumOf(words) == FoldLeft(LAMBDA a, b : a + b, 0, words)

IsSumRun(u, words) ==
  /\ u[0] = 0
  /\ \A k \in 1..Len(words) : u[k] = u[k - 1] + words[k]

LEMMA SumIsRun ==
  ASSUME NEW words \in Seq(Int)
  PROVE  \E u : IsSumRun(u, words) /\ SumOf(words) = u[Len(words)]
<1> DEFINE m == Len(words)
           F == [x \in Int \X Int |-> x[1] + x[2]]
           Rec(g) == g = [s \in SUBSET DOMAIN words |->
                            IF s = {} THEN 0
                            ELSE LET x == Max(s) IN g[s \ {x}] + words[x]]
           it == CHOOSE g : Rec(g)
           u == [k \in 0..m |-> it[1..k]]
<1>1. SumOf(words) = it[DOMAIN words]
  BY DEF SumOf, FoldLeft, MapThenFoldSet
<1>2. m \in Nat /\ DOMAIN words = 1..m /\ words \in [1..m -> Int]
  OBVIOUS
<1> HIDE DEF m
<1>3. F \in [Int \X Int -> Int] /\ 0 \in Int
  OBVIOUS
<1>f. \A a, b \in Int : F[<<a, b>>] = a + b
  OBVIOUS
<1> HIDE DEF F
<1>4. PICK g \in [SUBSET (1..m) -> Int] : IsFold(g, m, words, F, 0)
  BY <1>2, <1>3, FoldExists DEF HasFold
<1>5. Rec(g)
  <2>1. ASSUME NEW s \in SUBSET (1..m), s # {}
        PROVE  F[<<g[s \ {Max(s)}], words[Max(s)]>>]
                 = g[s \ {Max(s)}] + words[Max(s)]
    <3>1. Max(s) \in 1..m /\ s \ {Max(s)} \in SUBSET (1..m)
      BY <1>2, <2>1, MaxIsElement
    <3>2. words[Max(s)] \in Int /\ g[s \ {Max(s)}] \in Int
      BY <1>2, <3>1
    <3> QED
      BY <3>2, <1>f
  <2> QED
    BY <1>2, <1>4, <2>1 DEF IsFold
<1>6. Rec(it)
  BY <1>5
<1> HIDE DEF it
<1>7. /\ it[{}] = 0
      /\ \A s \in SUBSET (1..m) : s # {} =>
           it[s] = it[s \ {Max(s)}] + words[Max(s)]
  BY <1>2, <1>6
<1>8. u[0] = 0
  <2>1. 1..0 = {}
    OBVIOUS
  <2> QED
    BY <1>2, <1>7, <2>1
<1>9. ASSUME NEW k \in 1..m PROVE u[k] = u[k - 1] + words[k]
  <2>1. k \in 0..m /\ k - 1 \in 0..m
    BY <1>2
  <2>2. u[k] = it[1..k] /\ u[k - 1] = it[1..(k - 1)]
    BY <2>1
  <2>3. /\ 1..k \in SUBSET (1..m) /\ 1..k # {}
        /\ Max(1..k) = k /\ (1..k) \ {k} = 1..(k - 1)
    BY <1>2, InitialIndices
  <2>4. it[1..k] = it[(1..k) \ {k}] + words[k]
    BY <1>7, <2>3
  <2> QED
    BY <2>2, <2>3, <2>4
<1>10. u[m] = it[DOMAIN words]
  BY <1>2
<1>11. IsSumRun(u, words)
  BY <1>8, <1>9 DEF IsSumRun, m
<1> HIDE DEF u
<1> QED
  BY <1>1, <1>10, <1>11 DEF m

(* Its values are integers, natural numbers for natural numbers; and there  *)
(* is only one such sequence of values.                                     *)
LEMMA SumRunType ==
  ASSUME NEW words \in Seq(Int), NEW u, IsSumRun(u, words)
  PROVE  /\ \A k \in 0..Len(words) : u[k] \in Int
         /\ words \in Seq(Nat) => \A k \in 0..Len(words) : u[k] \in Nat
<1> DEFINE m == Len(words)
           P == {k \in Nat : k <= m =>
                   /\ u[k] \in Int
                   /\ words \in Seq(Nat) => u[k] \in Nat}
<1>m. m \in Nat /\ \A k \in 1..m : words[k] \in Int
                                   /\ (words \in Seq(Nat) => words[k] \in Nat)
  OBVIOUS
<1>1. 0 \in P
  BY DEF IsSumRun
<1>2. ASSUME NEW k \in P, k < m PROVE k + 1 \in P
  <2>1. /\ k \in Nat /\ k + 1 \in 1..m /\ k + 1 - 1 = k
        /\ u[k] \in Int /\ (words \in Seq(Nat) => u[k] \in Nat)
    BY <1>2
  <2>2. u[k + 1] = u[k] + words[k + 1]
    BY <2>1 DEF IsSumRun
  <2> QED
    BY <1>m, <2>1, <2>2
<1>3. P \in SUBSET Nat
  OBVIOUS
<1> HIDE DEF P
<1>4. \A k \in 0..m : k \in P
  BY <1>m, <1>1, <1>2, <1>3, InductionUpTo
<1> QED
  BY <1>4 DEF P

LEMMA OneSumRun ==
  ASSUME NEW words \in Seq(Int), NEW u, IsSumRun(u, words)
  PROVE  SumOf(words) = u[Len(words)]
<1> DEFINE m == Len(words)
<1>1. PICK v : IsSumRun(v, words) /\ SumOf(words) = v[m]
  BY SumIsRun
<1> DEFINE P == {k \in Nat : k <= m => u[k] = v[k]}
<1>m. m \in Nat
  OBVIOUS
<1>2. 0 \in P
  BY <1>1 DEF IsSumRun
<1>3. ASSUME NEW k \in P, k < m PROVE k + 1 \in P
  <2>1. k \in Nat /\ k + 1 \in 1..m /\ k + 1 - 1 = k /\ u[k] = v[k]
    BY <1>3
  <2>2. /\ u[k + 1] = u[k] + words[k + 1]
        /\ v[k + 1] = v[k] + words[k + 1]
    BY <1>1, <2>1 DEF IsSumRun
  <2> QED
    BY <2>1, <2>2
<1>4. P \in SUBSET Nat
  OBVIOUS
<1> HIDE DEF P
<1>5. \A k \in 0..m : k \in P
  BY <1>m, <1>2, <1>3, <1>4, InductionUpTo
<1> QED
  BY <1>1, <1>m, <1>5 DEF P

LEMMA SumType ==
  ASSUME NEW words \in Seq(Int)
  PROVE  SumOf(words) \in Int /\ (words \in Seq(Nat) => SumOf(words) \in Nat)
<1>1. PICK u : IsSumRun(u, words) /\ SumOf(words) = u[Len(words)]
  BY SumIsRun
<1>2. Len(words) \in 0..Len(words)
  OBVIOUS
<1> QED
  BY <1>1, <1>2, SumRunType

(* An empty sum; a sum with one more word behind, or one less in front.     *)
LEMMA SumEmpty == SumOf(<<>>) = 0
<1>0. <<>> \in Seq(Int)
  OBVIOUS
<1>1. PICK u : IsSumRun(u, <<>>) /\ SumOf(<<>>) = u[Len(<<>>)]
  BY <1>0, SumIsRun
<1> QED
  BY <1>1 DEF IsSumRun

LEMMA SumAppend ==
  ASSUME NEW words \in Seq(Int), NEW e \in Int
  PROVE  SumOf(Append(words, e)) = SumOf(words) + e
<1> DEFINE m == Len(words)
<1>1. PICK u : IsSumRun(u, words) /\ SumOf(words) = u[m]
  BY SumIsRun
<1> DEFINE v == [k \in 0..m+1 |-> IF k = m + 1 THEN u[m] + e ELSE u[k]]
<1>2. /\ m \in Nat /\ Append(words, e) \in Seq(Int)
      /\ Len(Append(words, e)) = m + 1
      /\ \A k \in 1..m : Append(words, e)[k] = words[k]
      /\ Append(words, e)[m + 1] = e
  OBVIOUS
<1>3. IsSumRun(v, Append(words, e))
  <2>1. v[0] = 0
    BY <1>1, <1>2 DEF IsSumRun
  <2>2. ASSUME NEW k \in 1..m+1
        PROVE  v[k] = v[k - 1] + Append(words, e)[k]
    <3>1. CASE k = m + 1
      BY <1>2, <3>1
    <3>2. CASE k # m + 1
      <4>1. k \in 1..m /\ k - 1 \in 0..m+1 /\ k - 1 # m + 1
        BY <1>2, <3>2
      <4> QED
        BY <1>1, <1>2, <3>2, <4>1 DEF IsSumRun
    <3> QED
      BY <3>1, <3>2
  <2> QED
    BY <1>2, <2>1, <2>2 DEF IsSumRun
<1>4. v[m + 1] = u[m] + e
  BY <1>2
<1> HIDE DEF v
<1> QED
  BY <1>1, <1>2, <1>3, <1>4, OneSumRun

LEMMA SumTail ==
  ASSUME NEW words \in Seq(Int), words # <<>>
  PROVE  SumOf(words) = Head(words) + SumOf(Tail(words))
<1> DEFINE m == Len(words)
<1>1. PICK u : IsSumRun(u, words) /\ SumOf(words) = u[m]
  BY SumIsRun
<1> DEFINE v == [k \in 0..m-1 |-> u[k + 1] - Head(words)]
<1>2. /\ m \in Nat \ {0} /\ Tail(words) \in Seq(Int)
      /\ Len(Tail(words)) = m - 1
      /\ \A k \in 1..m-1 : Tail(words)[k] = words[k + 1]
      /\ Head(words) = words[1] /\ Head(words) \in Int
      /\ \A k \in 1..m : words[k] \in Int
  OBVIOUS
<1>3. \A k \in 0..m : u[k] \in Int
  BY <1>1, SumRunType
<1>4. IsSumRun(v, Tail(words))
  <2>1. v[0] = 0
    <3>1. u[1] = u[1 - 1] + words[1] /\ u[0] = 0
      BY <1>1, <1>2 DEF IsSumRun
    <3>2. u[1] = Head(words)
      BY <1>2, <3>1
    <3> QED
      BY <1>2, <3>2
  <2>2. ASSUME NEW k \in 1..m-1
        PROVE  v[k] = v[k - 1] + Tail(words)[k]
    <3>1. k + 1 \in 1..m /\ k + 1 - 1 = k /\ k - 1 \in 0..m-1 /\ k \in 0..m-1
          /\ k \in 0..m /\ k + 1 \in 0..m
      BY <1>2
    <3>2. u[k + 1] = u[k] + words[k + 1]
      BY <1>1, <3>1 DEF IsSumRun
    <3>3. v[k] = u[k + 1] - Head(words) /\ v[k - 1] = u[k] - Head(words)
      BY <3>1
    <3> QED
      BY <1>2, <1>3, <3>1, <3>2, <3>3
  <2> QED
    BY <1>2, <2>1, <2>2 DEF IsSumRun
<1>5. v[m - 1] = u[m] - Head(words) /\ u[m] \in Int
  BY <1>2, <1>3
<1> HIDE DEF v
<1>6. SumOf(Tail(words)) = u[m] - Head(words)
  BY <1>2, <1>4, <1>5, OneSumRun
<1> QED
  BY <1>1, <1>2, <1>5, <1>6
=============================================================================
