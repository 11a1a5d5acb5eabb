----------------------------- MODULE KernelProofs -----------------------------
(***************************************************************************)
(* Theorems about the kernels of a step: the slots they write and read for *)
(* any batch on any history of the graphs' buffers, and what the sampler's *)
(* filters leave of any row in any batch.                                  *)
(***************************************************************************)
EXTENDS PagedDecode, Sampler, SequenceLemmas

-----------------------------------------------------------------------------
(* Buckets. *)

LEMMA DoubledLemma ==
  ASSUME NEW m \in Nat
  PROVE  /\ Doubled(m) \in [0 .. m -> Nat]
         /\ Doubled(m)[0] = 1
         /\ \A i \in 1 .. m : Doubled(m)[i] = 2 * Doubled(m)[i - 1]
<1> DEFINE step == [i \in 1 .. m |-> [y \in Nat |-> 2 * y]]
           IsDoubled(h) == h = [k \in 0 .. m |-> IF k = 0 THEN 1 ELSE 2 * h[k - 1]]
           left == CHOOSE h : IsDoubled(h)
<1>1. step \in [1 .. m -> [Nat -> Nat]] /\ \A i \in 1 .. m : \A y \in Nat : step[i][y] = 2 * y
  OBVIOUS
<1> HIDE DEF step
<1>2. PICK f \in [0 .. m -> Nat] : f[0] = 1 /\ \A i \in 1 .. m : f[i] = step[i][f[i - 1]]
  <2> DEFINE S == Nat
             c == 1
  <2>1. c \in S /\ step \in [1 .. m -> [S -> S]]
    BY <1>1
  <2> HIDE DEF S, c
  <2>2. \E f \in [0 .. m -> S] : f[0] = c /\ \A i \in 1 .. m : f[i] = step[i][f[i - 1]]
    BY <2>1, Recursion, SMTT(60)
  <2> QED BY <2>2 DEF S, c
<1>3. \A i \in 1 .. m : f[i] = 2 * f[i - 1]
  <2> SUFFICES ASSUME NEW i \in 1 .. m PROVE f[i] = 2 * f[i - 1]
    OBVIOUS
  <2>1. i - 1 \in 0 .. m
    OBVIOUS
  <2>2. f[i - 1] \in Nat
    BY <2>1
  <2> QED BY <1>1, <1>2, <2>2
<1>4. IsDoubled(left)
  <2> DEFINE g == [k \in 0 .. m |-> IF k = 0 THEN 1 ELSE 2 * f[k - 1]]
  <2>1. \A i \in 0 .. m : f[i] = g[i]
    BY <1>2, <1>3
  <2>2. f = [i \in 0 .. m |-> f[i]] /\ g = [i \in 0 .. m |-> g[i]]
    OBVIOUS
  <2>3. f = g
    <3> HIDE DEF g
    <3>1. [i \in 0 .. m |-> f[i]] = [i \in 0 .. m |-> g[i]]
      BY <2>1
    <3> QED BY <2>2, <3>1, Zenon
  <2>4. \E h : IsDoubled(h)
    BY <2>3
  <2> HIDE DEF IsDoubled
  <2> QED BY <2>4
<1>5. Doubled(m) = left
  BY DEF Doubled
<1> HIDE DEF left
<1>6. \A i \in 0 .. m : left[i] = IF i = 0 THEN 1 ELSE 2 * left[i - 1]
  BY <1>4
<1>7. left = [i \in 0 .. m |-> left[i]]
  <2> DEFINE v == [k \in 0 .. m |-> IF k = 0 THEN 1 ELSE 2 * left[k - 1]]
  <2>1. v = [i \in 0 .. m |-> v[i]]
    OBVIOUS
  <2>2. left = v
    BY <1>4
  <2> HIDE DEF v
  <2> QED BY <2>1, <2>2
<1>8. left[0] = f[0] /\ \A i \in 1 .. m : left[i - 1] = f[i - 1] => left[i] = f[i]
  <2>1. 0 \in 0 .. m /\ \A i \in 1 .. m : i \in 0 .. m /\ i # 0
    OBVIOUS
  <2>2. left[0] = 1 /\ \A i \in 1 .. m : left[i] = 2 * left[i - 1]
    BY <1>6, <2>1
  <2> QED BY <1>2, <1>3, <2>2
<1>9. \A i \in 0 .. m : left[i] = f[i]
  <2> DEFINE S == Nat
  <2>1. f \in [0 .. m -> S]
    OBVIOUS
  <2> HIDE DEF S
  <2> QED BY <1>8, <2>1, SameValues
<1>10. left \in [0 .. m -> Nat]
  <2>1. \A i \in 0 .. m : left[i] \in Nat
    BY <1>9
  <2> QED BY <1>7, <2>1
<1>11. left[0] = 1 /\ \A i \in 1 .. m : left[i] = 2 * left[i - 1]
  BY <1>6
<1> QED BY <1>5, <1>10, <1>11

\* Every batch has a bucket of its size or less than twice that.
LEMMA Buckets ==
  ASSUME NEW m \in Nat
  PROVE  /\ DefaultBuckets(m) \subseteq 0 .. m
         /\ \A n \in 1 .. m : \E b \in DefaultBuckets(m) : n <= b /\ b < 2 * n
<1> DEFINE f == Doubled(m)
<1>1. f \in [0 .. m -> Nat] /\ f[0] = 1 /\ \A i \in 1 .. m : f[i] = 2 * f[i - 1]
  BY DoubledLemma
<1> HIDE DEF f
<1>2. \A b : b \in DefaultBuckets(m) <=> b = m \/ \E i \in 0 .. m : b = f[i] /\ b < m
  BY <1>1 DEF DefaultBuckets, Range, f
<1>3. DefaultBuckets(m) \subseteq 0 .. m
  <2> SUFFICES ASSUME NEW b \in DefaultBuckets(m) PROVE b \in 0 .. m
    OBVIOUS
  <2>1. CASE b = m
    BY <2>1
  <2>2. CASE b # m
    <3>1. PICK i \in 0 .. m : b = f[i] /\ b < m
      BY <1>2, <2>2
    <3>2. f[i] \in Nat
      BY <1>1
    <3> QED BY <3>1, <3>2
  <2> QED BY <2>1, <2>2
<1>4. \A i \in 0 .. m : f[i] >= i + 1
  <2> DEFINE A == {i \in Nat : i <= m => f[i] >= i + 1}
  <2>1. 0 \in A
    BY <1>1
  <2>2. ASSUME NEW i \in Nat, i \in A PROVE i + 1 \in A
    <3> SUFFICES ASSUME i + 1 <= m PROVE f[i + 1] >= i + 2
      OBVIOUS
    <3> DEFINE j == i + 1
    <3>1. j \in 1 .. m /\ j - 1 = i /\ i \in 0 .. m /\ f[i] >= i + 1
      BY <2>2
    <3> HIDE DEF j
    <3>2. f[j] = 2 * f[i] /\ f[i] \in Nat
      BY <1>1, <3>1
    <3>3. f[j] >= i + 2
      BY <3>1, <3>2
    <3> QED BY <3>3 DEF j
  <2>3. \A i \in Nat : i \in A
    <3> HIDE DEF A
    <3> QED BY <2>1, <2>2, SetInduction
  <2> QED BY <2>3
<1>5. ASSUME NEW n \in 1 .. m PROVE \E b \in DefaultBuckets(m) : n <= b /\ b < 2 * n
  <2>1. CASE m < 2 * n
    BY <1>2, <2>1
  <2>2. CASE m >= 2 * n
    <3> DEFINE T == {i \in 0 .. m : f[i] >= n}
    <3>1. T \in SUBSET Nat /\ T # {}
      <4>1. n \in T
        BY <1>4, <1>1
      <4> QED BY <4>1
    <3>2. PICK k \in T : \A i \in T : k <= i
      <4> HIDE DEF T
      <4> QED BY <3>1, LeastNatural
    <3>3. f[k] < 2 * n
      <4>1. CASE k = 0
        BY <1>1, <4>1
      <4>2. CASE k # 0
        <5>1. k \in 1 .. m /\ k - 1 \in 0 .. m /\ k - 1 \notin T
          BY <3>2, <4>2
        <5>2. f[k - 1] < n /\ f[k - 1] \in Nat /\ f[k] = 2 * f[k - 1]
          BY <1>1, <5>1
        <5> QED BY <5>2
      <4> QED BY <4>1, <4>2
    <3>4. f[k] \in Nat /\ f[k] < m
      BY <1>1, <2>2, <3>3
    <3> QED BY <1>2, <3>2, <3>3, <3>4
  <2> QED BY <2>1, <2>2
<1> QED BY <1>3, <1>5

LEMMA PickBucketLemma ==
  ASSUME NEW n \in 1 .. MaxNumSeqs
  PROVE  /\ Fitting(n) # {}
         /\ PickBucket(n) \in DefaultBuckets(MaxNumSeqs)
         /\ n <= PickBucket(n) /\ PickBucket(n) < 2 * n /\ PickBucket(n) <= MaxNumSeqs
<1>1. /\ MaxNumSeqs \in Nat /\ DefaultBuckets(MaxNumSeqs) \subseteq 0 .. MaxNumSeqs
      /\ \E b \in DefaultBuckets(MaxNumSeqs) : n <= b /\ b < 2 * n
  BY DecodeAssumption, Buckets
<1> DEFINE F == Fitting(n)
<1>2. /\ F \in SUBSET Nat /\ \A b \in F : b \in DefaultBuckets(MaxNumSeqs) /\ n <= b /\ b <= MaxNumSeqs
      /\ \E b \in F : b < 2 * n
  BY <1>1 DEF Fitting
<1>3. PICK k \in F : \A b \in F : k <= b
  <2> HIDE DEF F
  <2> QED BY <1>2, LeastNatural
<1>4. PickBucket(n) = CHOOSE x \in F : \A y \in F : x <= y
  BY DEF PickBucket, Min
<1>5. PickBucket(n) \in F /\ \A b \in F : PickBucket(n) <= b
  <2> HIDE DEF F
  <2> QED BY <1>3, <1>4
<1> HIDE DEF F
<1>6. F # {} /\ PickBucket(n) < 2 * n
  <2>1. PICK b \in F : b < 2 * n
    BY <1>2
  <2>2. n \in Nat
    BY <1>1
  <2> DEFINE p == PickBucket(n)
  <2>3. p \in F /\ p <= b
    BY <1>5
  <2> HIDE DEF p
  <2>4. p \in Nat /\ b \in Nat
    BY <1>2, <2>3
  <2>5. p < 2 * n
    BY <2>1, <2>2, <2>3, <2>4
  <2> QED BY <2>1, <2>5 DEF p
<1> QED BY <1>2, <1>5, <1>6 DEF F

-----------------------------------------------------------------------------
(* Pages. *)

\* Where the parts of a concatenation are.
LEMMA FlattenParts ==
  ASSUME NEW S, NEW s \in Seq(Seq(S)), NEW f \in [0 .. Len(s) -> Nat], f[0] = 0,
         \A i \in 1 .. Len(s) : f[i] = f[i - 1] + Len(s[i])
  PROVE  /\ FlattenSeq(s) \in Seq(S) /\ Len(FlattenSeq(s)) = f[Len(s)]
         /\ \A i \in 1 .. Len(s) : \A k \in 1 .. Len(s[i]) : FlattenSeq(s)[f[i - 1] + k] = s[i][k]
<1> DEFINE n == Len(s)
<1>1. n \in Nat /\ \A i \in 1 .. n : s[i] \in Seq(S) /\ Len(s[i]) \in Nat
  OBVIOUS
<1>2. PICK g \in [0 .. n -> Seq(S)] : g[0] = << >> /\ \A i \in 1 .. n : g[i] = g[i - 1] \o s[i]
  BY Concatenations
<1>3. FlattenSeq(s) = g[n]
  BY <1>2, Flattening
<1>4. /\ f \in [0 .. n -> Nat] /\ f[0] = 0 /\ \A i \in 1 .. n : f[i] = f[i - 1] + Len(s[i])
  OBVIOUS
<1> HIDE DEF n
<1> DEFINE Placed(m) == \A i \in 1 .. m : \A k \in 1 .. Len(s[i]) :
                           f[i - 1] + k \in 1 .. f[m] /\ g[m][f[i - 1] + k] = s[i][k]
           A == {m \in Nat : m <= n => Len(g[m]) = f[m] /\ Placed(m)}
<1>5. 0 \in A
  BY <1>1, <1>2, <1>4, SMTT(40)
<1>6. ASSUME NEW m \in Nat, m \in A PROVE m + 1 \in A
  <2> SUFFICES ASSUME m + 1 <= n PROVE Len(g[m + 1]) = f[m + 1] /\ Placed(m + 1)
    OBVIOUS
  <2> DEFINE j == m + 1
  <2>1. j \in 1 .. n /\ j - 1 = m /\ m <= n /\ m \in 0 .. n /\ \A i \in 1 .. j : i \in 1 .. m \/ i = j
    BY <1>1
  <2>2. Len(g[m]) = f[m] /\ Placed(m)
    BY <1>6, <2>1
  <2> HIDE DEF j
  <2>3. /\ g[j] = g[m] \o s[j] /\ f[j] = f[m] + Len(s[j]) /\ g[m] \in Seq(S) /\ s[j] \in Seq(S)
        /\ f[m] \in Nat /\ Len(s[j]) \in Nat
    BY <1>1, <1>2, <1>4, <2>1
  <2>4. /\ Len(g[j]) = f[m] + Len(s[j])
        /\ \A k \in 1 .. f[m] : g[j][k] = g[m][k]
        /\ \A k \in 1 .. Len(s[j]) : g[j][f[m] + k] = s[j][k]
    <3> DEFINE a == g[m]
               b == s[j]
    <3>1. a \in Seq(S) /\ b \in Seq(S) /\ Len(a) = f[m] /\ g[j] = a \o b
      BY <2>2, <2>3
    <3> HIDE DEF a, b
    <3>0. \A y, z \in Seq(S) :
             /\ Len(y \o z) = Len(y) + Len(z)
             /\ \A k \in 1 .. Len(y) : (y \o z)[k] = y[k]
             /\ \A k \in 1 .. Len(z) : (y \o z)[Len(y) + k] = z[k]
      BY ConcatLemma
    <3>2. /\ Len(a \o b) = Len(a) + Len(b)
          /\ \A k \in 1 .. Len(a) : (a \o b)[k] = a[k]
          /\ \A k \in 1 .. Len(b) : (a \o b)[Len(a) + k] = b[k]
      BY <3>0, <3>1
    <3>3. /\ Len(g[j]) = f[m] + Len(b)
          /\ \A k \in 1 .. f[m] : g[j][k] = a[k]
          /\ \A k \in 1 .. Len(b) : g[j][f[m] + k] = b[k]
      BY <3>1, <3>2, Zenon
    <3> QED BY <3>3 DEF a, b
  <2>5. ASSUME NEW i \in 1 .. j, NEW k \in 1 .. Len(s[i])
        PROVE  f[i - 1] + k \in 1 .. f[j] /\ g[j][f[i - 1] + k] = s[i][k]
    <3>1. CASE i = j
      <4>1. f[i - 1] = f[m]
        BY <2>1, <3>1
      <4> DEFINE x == f[m]
                 l == Len(s[j])
      <4>2. k \in 1 .. l /\ x \in Nat /\ l \in Nat /\ f[j] = x + l /\ g[j][x + k] = s[j][k]
        BY <2>3, <2>4, <3>1
      <4> HIDE DEF x, l
      <4>3. x + k \in 1 .. f[j]
        BY <4>2
      <4> QED BY <3>1, <4>1, <4>2, <4>3 DEF x
    <3>2. CASE i # j
      <4>1. i \in 1 .. m
        BY <2>1, <3>2
      <4> DEFINE x == f[i - 1] + k
      <4>2. x \in 1 .. f[m] /\ g[m][x] = s[i][k]
        BY <2>2, <4>1
      <4> HIDE DEF x
      <4>3. g[j][x] = s[i][k]
        BY <2>4, <4>2
      <4>4. f[m] <= f[j] /\ f[m] \in Nat /\ f[j] \in Nat
        BY <2>3, SMTT(40)
      <4>5. x \in 1 .. f[j]
        BY <4>2, <4>4
      <4> QED BY <4>3, <4>5 DEF x
    <3> QED BY <3>1, <3>2
  <2>6. Len(g[j]) = f[j] /\ Placed(j)
    BY <2>3, <2>4, <2>5
  <2> QED BY <2>6 DEF j
<1>7. \A m \in Nat : m \in A
  <2> HIDE DEF A
  <2> QED BY <1>5, <1>6, SetInduction
<1>8. Len(g[n]) = f[n] /\ Placed(n)
  <2> HIDE DEF Placed
  <2>1. n \in Nat /\ n <= n
    BY <1>1
  <2>2. n \in A
    <3> HIDE DEF A
    <3> QED BY <1>7, <2>1
  <2> QED BY <2>1, <2>2
<1>9. g[n] \in Seq(S)
  BY <1>1, <1>2
<1> QED BY <1>3, <1>8, <1>9 DEF n

\* Quotient and remainder.
LEMMA Division ==
  ASSUME NEW n \in Nat, NEW d \in Nat \ {0}
  PROVE  n \div d \in Nat /\ n % d \in 0 .. d - 1 /\ n = (n \div d) * d + (n % d)
OBVIOUS

\* The pages of a sequence: the last one is in use, and every position is in one.
LEMMA PagesLemma ==
  ASSUME NEW n \in Nat \ {0}
  PROVE  /\ Pages(n) \in Nat \ {0}
         /\ n - (Pages(n) - 1) * BlockSize \in 1 .. BlockSize
         /\ \A i \in 0 .. n - 1 : i \div BlockSize + 1 \in 1 .. Pages(n)
<1> DEFINE d == BlockSize
           p == Pages(n)
           m == (n + d - 1) % d
<1>0. d \in Nat \ {0}
  BY DecodeAssumption
<1> HIDE DEF d
<1>1. p \in Nat /\ m \in 0 .. d - 1 /\ n + d - 1 = p * d + m
  <2>1. n + d - 1 \in Nat
    BY <1>0
  <2> QED BY <1>0, <2>1, Division DEF Pages, d
<1> HIDE DEF p, m
<1>2. p # 0 /\ p * d \in Nat /\ (p - 1) * d = p * d - d
  BY <1>0, <1>1
<1>3. n - (p - 1) * d \in 1 .. d
  BY <1>0, <1>1, <1>2
<1>4. ASSUME NEW i \in 0 .. n - 1 PROVE i \div d + 1 \in 1 .. p
  <2> DEFINE q == i \div d
             r == i % d
  <2>1. q \in Nat /\ r \in 0 .. d - 1 /\ i = q * d + r
    BY <1>0, Division
  <2> HIDE DEF q, r
  <2>2. ASSUME q >= p PROVE FALSE
    <3>1. q * d = p * d + (q - p) * d /\ (q - p) * d \in Nat /\ q * d \in Nat
      BY <1>0, <1>1, <2>1, <2>2
    <3>2. n <= p * d
      BY <1>0, <1>1
    <3> QED BY <1>0, <1>1, <1>2, <2>1, <3>1, <3>2
  <2>3. q + 1 \in 1 .. p
    BY <1>1, <2>1, <2>2
  <2> QED BY <2>3 DEF q
<1> QED BY <1>1, <1>2, <1>3, <1>4 DEF d, p

\* A row of a step, or one that pads it.
Page == 0 .. NumBlocks
WideRow ==
    {row \in [table : Seq(Page), q : Nat \ {0}, s : Nat \ {0}, sample : BOOLEAN] :
        row.q <= row.s /\ Pages(row.s) <= Len(row.table) /\ Pages(row.s) <= MaxBlocksPerSeq}

LEMMA WiderElements ==
  ASSUME NEW S, NEW T, S \subseteq T, NEW s \in Seq(S)
  PROVE  s \in Seq(T)
OBVIOUS

LEMMA RowsAreWide == BatchRow \subseteq WideRow /\ PaddingRow \in WideRow
<1>1. NumBlocks \in Nat /\ BlockSize \in Nat \ {0} /\ MaxBlocksPerSeq \in Nat \ {0}
  BY DecodeAssumption
<1>2. ASSUME NEW row \in BatchRow PROVE row \in WideRow
  <2>1. row \in [table : Seq(0 .. NumBlocks - 1), q : Nat \ {0}, s : Nat \ {0}, sample : BOOLEAN]
    BY DEF BatchRow
  <2>2. row.table \in Seq(Page)
    <3>1. row.table \in Seq(0 .. NumBlocks - 1) /\ 0 .. NumBlocks - 1 \subseteq Page
      BY <1>1, <2>1 DEF Page
    <3> QED BY <3>1, WiderElements
  <2>3. row \in [table : Seq(Page), q : Nat \ {0}, s : Nat \ {0}, sample : BOOLEAN]
    BY <2>1, <2>2
  <2> QED BY <2>3 DEF BatchRow, WideRow
<1>3. PaddingRow \in WideRow
  <2>1. Pages(1) = 1
    <3>1. 1 + BlockSize - 1 = 1 * BlockSize + 0 /\ BlockSize \div BlockSize = 1
      BY <1>1
    <3>2. 1 + BlockSize - 1 = BlockSize
      BY <1>1
    <3> QED BY <3>1, <3>2 DEF Pages
  <2>2. <<Scratch>> \in Seq(Page) /\ Len(<<Scratch>>) = 1
    BY <1>1 DEF Scratch, Page
  <2>3. PaddingRow \in [table : Seq(Page), q : Nat \ {0}, s : Nat \ {0}, sample : BOOLEAN]
    BY <2>2 DEF PaddingRow
  <2>4. PaddingRow.q = 1 /\ PaddingRow.s = 1 /\ PaddingRow.table = <<Scratch>>
    BY DEF PaddingRow
  <2> DEFINE r == PaddingRow
  <2>5. /\ r \in [table : Seq(Page), q : Nat \ {0}, s : Nat \ {0}, sample : BOOLEAN]
        /\ r.q <= r.s /\ Pages(r.s) <= Len(r.table) /\ Pages(r.s) <= MaxBlocksPerSeq
    BY <1>1, <2>1, <2>2, <2>3, <2>4
  <2> HIDE DEF r
  <2>6. r \in WideRow
    BY <2>5 DEF WideRow
  <2> QED BY <2>6 DEF r
<1> QED BY <1>2, <1>3

LEMMA WideRowType ==
  ASSUME NEW row \in WideRow
  PROVE  /\ row.table \in Seq(Page) /\ row.q \in Nat \ {0} /\ row.s \in Nat \ {0} /\ row.q <= row.s
         /\ Pages(row.s) \in Nat \ {0} /\ Pages(row.s) <= Len(row.table) /\ Pages(row.s) <= MaxBlocksPerSeq
BY PagesLemma DEF WideRow

\* Each row's pages are where indptr says, and together they fit the buffer.
LEMMA PlanLemma ==
  ASSUME NEW b \in Seq(WideRow)
  PROVE  LET plan == PagePlan(b)
         IN  /\ plan.indices \in Seq(Page) /\ Len(plan.indices) <= Len(b) * MaxBlocksPerSeq
             /\ \A i \in 1 .. Len(b) :
                   /\ plan.indptr[i - 1] \in Nat /\ plan.indptr[i] \in Nat
                   /\ plan.indptr[i] = plan.indptr[i - 1] + Pages(b[i].s)
                   /\ plan.indptr[i] <= Len(plan.indices)
                   /\ \A k \in 1 .. Pages(b[i].s) : plan.indices[plan.indptr[i - 1] + k] = b[i].table[k]
<1> DEFINE n == Len(b)
           sizes == [i \in 1 .. n |-> Pages(b[i].s)]
           parts == [i \in 1 .. n |-> SubSeq(b[i].table, 1, Pages(b[i].s))]
           f == Sums(sizes)
           ind == FlattenSeq(parts)
<1>1. n \in Nat /\ MaxBlocksPerSeq \in Nat
  BY DecodeAssumption
<1>2. \A i \in 1 .. n : /\ b[i].table \in Seq(Page) /\ Pages(b[i].s) \in Nat
                        /\ Pages(b[i].s) <= Len(b[i].table) /\ Pages(b[i].s) <= MaxBlocksPerSeq
  <2> SUFFICES ASSUME NEW i \in 1 .. n
               PROVE  /\ b[i].table \in Seq(Page) /\ Pages(b[i].s) \in Nat
                      /\ Pages(b[i].s) <= Len(b[i].table) /\ Pages(b[i].s) <= MaxBlocksPerSeq
    OBVIOUS
  <2>1. b[i] \in WideRow
    OBVIOUS
  <2> QED BY <2>1, WideRowType
<1>3. sizes \in Seq(Nat) /\ Len(sizes) = n /\ \A i \in 1 .. n : sizes[i] = Pages(b[i].s) /\ sizes[i] <= MaxBlocksPerSeq
  <2> HIDE DEF n
  <2> QED BY <1>1, <1>2
<1>4. \A i \in 1 .. n : /\ SubSeq(b[i].table, 1, Pages(b[i].s)) \in Seq(Page)
                        /\ Len(SubSeq(b[i].table, 1, Pages(b[i].s))) = Pages(b[i].s)
                        /\ \A k \in 1 .. Pages(b[i].s) : SubSeq(b[i].table, 1, Pages(b[i].s))[k] = b[i].table[k]
  <2> SUFFICES ASSUME NEW i \in 1 .. n
               PROVE  /\ SubSeq(b[i].table, 1, Pages(b[i].s)) \in Seq(Page)
                      /\ Len(SubSeq(b[i].table, 1, Pages(b[i].s))) = Pages(b[i].s)
                      /\ \A k \in 1 .. Pages(b[i].s) : SubSeq(b[i].table, 1, Pages(b[i].s))[k] = b[i].table[k]
    OBVIOUS
  <2> DEFINE t == b[i].table
             p == Pages(b[i].s)
  <2>1. t \in Seq(Page) /\ p \in 0 .. Len(t)
    BY <1>2
  <2> HIDE DEF t, p
  <2>2. /\ SubSeq(t, 1, p) \in Seq(Page) /\ Len(SubSeq(t, 1, p)) = p
        /\ \A k \in 1 .. p : SubSeq(t, 1, p)[k] = t[k]
    BY <2>1, TakeLemma
  <2> QED BY <2>2 DEF t, p
<1>5. parts \in Seq(Seq(Page)) /\ Len(parts) = n /\ \A i \in 1 .. n : parts[i] = SubSeq(b[i].table, 1, Pages(b[i].s))
  <2> HIDE DEF n
  <2> QED BY <1>1, <1>4
<1> HIDE DEF n, sizes, parts
<1>6. /\ f \in [0 .. n -> Nat] /\ f[0] = 0
      /\ \A i \in 1 .. n : f[i] = f[i - 1] + sizes[i]
      /\ \A i \in 0 .. n : f[i] <= f[n]
      /\ f[n] <= n * MaxBlocksPerSeq
  <2>1. /\ Sums(sizes) \in [0 .. Len(sizes) -> Nat] /\ Sums(sizes)[0] = 0
        /\ \A i \in 1 .. Len(sizes) : Sums(sizes)[i] = Sums(sizes)[i - 1] + sizes[i]
    BY <1>3, SumsLemma
  <2>2. /\ \A i \in 0 .. Len(sizes) : Sums(sizes)[i] <= Sums(sizes)[Len(sizes)]
        /\ Sums(sizes)[Len(sizes)] <= Len(sizes) * MaxBlocksPerSeq
    BY <1>1, <1>3, BoundSums
  <2> QED BY <1>3, <2>1, <2>2, Zenon
<1> HIDE DEF f
<1>7. \A i \in 1 .. n : f[i] = f[i - 1] + Len(parts[i])
  BY <1>3, <1>4, <1>5, <1>6, ZenonT(60)
<1>8. /\ ind \in Seq(Page) /\ Len(ind) = f[n]
      /\ \A i \in 1 .. n : \A k \in 1 .. Len(parts[i]) : ind[f[i - 1] + k] = parts[i][k]
  <2>1. f \in [0 .. Len(parts) -> Nat] /\ \A i \in 1 .. Len(parts) : f[i] = f[i - 1] + Len(parts[i])
    BY <1>5, <1>6, <1>7
  <2>2. /\ FlattenSeq(parts) \in Seq(Page) /\ Len(FlattenSeq(parts)) = f[Len(parts)]
        /\ \A i \in 1 .. Len(parts) : \A k \in 1 .. Len(parts[i]) : FlattenSeq(parts)[f[i - 1] + k] = parts[i][k]
    <3>1. parts \in Seq(Seq(Page)) /\ f[0] = 0
      BY <1>5, <1>6
    <3> QED BY <2>1, <3>1, FlattenParts, ZenonT(60)
  <2>3. ind = FlattenSeq(parts)
    OBVIOUS
  <2> HIDE DEF ind
  <2> QED BY <1>5, <2>2, <2>3
<1> HIDE DEF ind
<1>9. PagePlan(b).indptr = f /\ PagePlan(b).indices = ind
  BY DEF PagePlan, f, ind, sizes, parts, n
<1>10. \A i \in 1 .. n : /\ f[i - 1] \in Nat /\ f[i] \in Nat /\ f[i] = f[i - 1] + Pages(b[i].s) /\ f[i] <= Len(ind)
                         /\ \A k \in 1 .. Pages(b[i].s) : ind[f[i - 1] + k] = b[i].table[k]
  <2> SUFFICES ASSUME NEW i \in 1 .. n
               PROVE  /\ f[i - 1] \in Nat /\ f[i] \in Nat /\ f[i] = f[i - 1] + Pages(b[i].s) /\ f[i] <= Len(ind)
                      /\ \A k \in 1 .. Pages(b[i].s) : ind[f[i - 1] + k] = b[i].table[k]
    OBVIOUS
  <2>1. i - 1 \in 0 .. n /\ i \in 0 .. n
    BY <1>1
  <2>2. f[i - 1] \in Nat /\ f[i] \in Nat /\ f[i] = f[i - 1] + Pages(b[i].s) /\ f[i] <= Len(ind)
    BY <1>3, <1>6, <1>8, <2>1
  <2>3. Len(parts[i]) = Pages(b[i].s) /\ \A k \in 1 .. Pages(b[i].s) : parts[i][k] = b[i].table[k]
    BY <1>4, <1>5
  <2>4. \A k \in 1 .. Pages(b[i].s) : ind[f[i - 1] + k] = parts[i][k]
    BY <1>8, <2>3, Zenon
  <2> QED BY <2>2, <2>3, <2>4
<1>11. Len(ind) <= n * MaxBlocksPerSeq
  BY <1>6, <1>8
<1> QED BY <1>8, <1>9, <1>10, <1>11 DEF n

-----------------------------------------------------------------------------
(* Slots. *)

LEMMA SlotsType ==
  ASSUME NEW t, NEW n \in Nat
  PROVE  /\ Slots(t, n) \in Seq({Slot(t, i - 1) : i \in 1 .. n}) /\ Len(Slots(t, n)) = n
         /\ \A i \in 1 .. n : Slots(t, n)[i] = Slot(t, i - 1)
<1> DEFINE S == {Slot(t, i - 1) : i \in 1 .. n}
           f == [i \in 1 .. n |-> Slot(t, i - 1)]
<1>1. \A i \in 1 .. n : f[i] = Slot(t, i - 1) /\ Slot(t, i - 1) \in S
  OBVIOUS
<1>2. f = [i \in 1 .. n |-> f[i]]
  OBVIOUS
<1>3. \A i \in 1 .. n : f[i] \in S
  BY <1>1
<1> HIDE DEF S, f
<1>4. f \in Seq(S) /\ Len(f) = n
  BY <1>2, <1>3
<1> QED BY <1>1, <1>4 DEF Slots, S, f

\* The last tokens of a row are where the reference writes them, however the
\* positions are counted.
LEMMA LastSlots ==
  ASSUME NEW t, NEW s \in Nat, NEW q \in Nat, q <= s
  PROVE  SubSeq(Slots(t, s), s - q + 1, s) = [k \in 1 .. q |-> Slot(t, s - q + k - 1)]
<1> DEFINE S == {Slot(t, i - 1) : i \in 1 .. s}
           z == Slots(t, s)
           a == SubSeq(z, s - q + 1, s)
           b == [k \in 1 .. q |-> Slot(t, s - q + k - 1)]
<1>1. z \in Seq(S) /\ Len(z) = s /\ \A i \in 1 .. s : z[i] = Slot(t, i - 1)
  BY SlotsType
<1> HIDE DEF S, z
<1> DEFINE d == s - q
<1>2. d \in Nat /\ d + q = s
  OBVIOUS
<1>3. a \in Seq(S) /\ Len(a) = q /\ \A k \in 1 .. q : a[k] = z[d + k]
  <2>1. \A y \in Seq(S) : \A i, j \in Nat : i <= j /\ j <= Len(y) =>
           /\ SubSeq(y, i + 1, j) \in Seq(S) /\ Len(SubSeq(y, i + 1, j)) = j - i
           /\ \A k \in 1 .. j - i : SubSeq(y, i + 1, j)[k] = y[i + k]
    OBVIOUS
  <2>2. s - d = q /\ d <= s
    BY <1>2
  <2> HIDE DEF d
  <2>3. /\ SubSeq(z, d + 1, s) \in Seq(S) /\ Len(SubSeq(z, d + 1, s)) = s - d
        /\ \A k \in 1 .. s - d : SubSeq(z, d + 1, s)[k] = z[d + k]
    BY <1>1, <1>2, <2>1, <2>2
  <2>4. a = SubSeq(z, d + 1, s)
    BY DEF d
  <2> QED BY <2>2, <2>3, <2>4
<1>4. \A k \in 1 .. q : a[k] = Slot(t, d + k - 1)
  <2> SUFFICES ASSUME NEW k \in 1 .. q PROVE a[k] = Slot(t, d + k - 1)
    OBVIOUS
  <2> DEFINE i == d + k
  <2>1. i \in 1 .. s /\ a[k] = z[i]
    BY <1>2, <1>3
  <2> HIDE DEF i
  <2>2. a[k] = Slot(t, i - 1)
    BY <1>1, <2>1
  <2> QED BY <2>2 DEF i
<1>5. \A k \in 1 .. q : b[k] = Slot(t, d + k - 1)
  OBVIOUS
<1>6. b = [k \in 1 .. q |-> b[k]]
  OBVIOUS
<1> HIDE DEF a, b, d
<1>7. \A k \in 1 .. q : b[k] \in S
  <2> SUFFICES ASSUME NEW k \in 1 .. q PROVE b[k] \in S
    OBVIOUS
  <2>1. a[k] \in S
    BY <1>3
  <2> QED BY <1>4, <1>5, <2>1
<1>8. b \in Seq(S) /\ Len(b) = q
  BY <1>6, <1>7
<1>9. a = b
  <2>1. \A k \in 1 .. Len(a) : a[k] = b[k]
    BY <1>3, <1>4, <1>5
  <2> QED BY <1>3, <1>8, <2>1, SameSequence
<1> QED BY <1>9 DEF a, b, z

\* What SDPA does, as the other backends say it.
LEMMA Reference ==
  ASSUME NEW row \in WideRow
  PROVE  /\ SDPA(row) = [pos |-> row.s - row.q,
                         writes |-> [k \in 1 .. row.q |-> Slot(row.table, row.s - row.q + k - 1)],
                         reads |-> [k \in 1 .. row.q |-> SubSeq(Slots(row.table, row.s), 1, row.s - row.q + k)]]
         /\ row.q = 1 => SDPA(row) = [pos |-> row.s - 1, writes |-> <<Slot(row.table, row.s - 1)>>,
                                      reads |-> <<Slots(row.table, row.s)>>]
<1> DEFINE t == row.table
           s == row.s
           q == row.q
           w == [k \in 1 .. q |-> Slot(t, s - q + k - 1)]
           r == [k \in 1 .. q |-> SubSeq(Slots(t, s), 1, s - q + k)]
<1>1. s \in Nat \ {0} /\ q \in Nat \ {0} /\ q <= s
  BY WideRowType
<1> HIDE DEF s, q, t
<1>2. SubSeq(Slots(t, s), s - q + 1, s) = w
  BY <1>1, LastSlots
<1>3. SDPA(row) = [pos |-> s - q, writes |-> w, reads |-> r]
  BY <1>2 DEF SDPA, s, q, t
<1>4. ASSUME q = 1 PROVE w = <<Slot(t, s - 1)>> /\ r = <<Slots(t, s)>>
  <2>1. s - 1 + 1 - 1 = s - 1 /\ s - 1 + 1 = s
    BY <1>1
  <2>2. w[1] = Slot(t, s - 1) /\ w = [k \in 1 .. 1 |-> w[k]]
    <3>1. 1 \in 1 .. q
      BY <1>4
    <3>2. w[1] = Slot(t, s - q + 1 - 1)
      BY <3>1
    <3>3. s - q + 1 - 1 = s - 1
      BY <1>1, <1>4
    <3> QED BY <1>4, <3>2, <3>3
  <2>3. r[1] = Slots(t, s) /\ r = [k \in 1 .. 1 |-> r[k]]
    <3> DEFINE z == Slots(t, s)
               S == {Slot(t, i - 1) : i \in 1 .. s}
    <3>1. 1 \in 1 .. q
      BY <1>4
    <3>2. r[1] = SubSeq(z, 1, s - q + 1)
      BY <3>1
    <3>3. z \in Seq(S) /\ Len(z) = s
      BY <1>1, SlotsType
    <3> HIDE DEF z, S
    <3>4. SubSeq(z, 1, s) = z
      BY <3>3, TakeOneMore
    <3>5. s - q + 1 = s
      BY <1>1, <1>4
    <3> QED BY <1>4, <3>2, <3>4, <3>5 DEF z
  <2> HIDE DEF w, r
  <2>4. \A x : <<x>> = [k \in 1 .. 1 |-> x]
    OBVIOUS
  <2>5. w = [k \in 1 .. 1 |-> Slot(t, s - 1)] /\ r = [k \in 1 .. 1 |-> Slots(t, s)]
    <3>1. \A k \in 1 .. 1 : w[k] = Slot(t, s - 1) /\ r[k] = Slots(t, s)
      BY <2>2, <2>3
    <3> QED BY <2>2, <2>3, <3>1
  <2> QED BY <2>4, <2>5
<1>5. q = 1 => SDPA(row) = [pos |-> s - 1, writes |-> <<Slot(t, s - 1)>>, reads |-> <<Slots(t, s)>>]
  <2> HIDE DEF w, r
  <2> QED BY <1>3, <1>4
<1> QED BY <1>3, <1>5 DEF s, q, t

\* The paged kernel finds each row's slots, whatever is behind the pages of the
\* batch.
LEMMA PlannedLemma ==
  ASSUME NEW b \in Seq(WideRow), NEW i \in 1 .. Len(b), NEW plan, NEW S,
         plan.indptr = PagePlan(b).indptr, plan.last = PagePlan(b).last,
         plan.indices \in Seq(S), Len(PagePlan(b).indices) <= Len(plan.indices),
         \A k \in 1 .. Len(PagePlan(b).indices) : plan.indices[k] = PagePlan(b).indices[k]
  PROVE  PlannedSlots(plan, i) = Slots(b[i].table, b[i].s)
<1> DEFINE ind == PagePlan(b).indices
           old == plan.indices
           from == plan.indptr[i - 1]
           to == plan.indptr[i]
           t == b[i].table
           s == b[i].s
           p == Pages(s)
           pages == SubSeq(old, from + 1, to)
<1>1. /\ ind \in Seq(Page) /\ from \in Nat /\ to \in Nat /\ to = from + p /\ to <= Len(ind)
      /\ \A k \in 1 .. p : ind[from + k] = t[k]
  BY PlanLemma
<1>2. b[i] \in WideRow
  OBVIOUS
<1>3. s \in Nat \ {0} /\ p \in Nat \ {0} /\ \A j \in 0 .. s - 1 : j \div BlockSize + 1 \in 1 .. p
  BY <1>2, WideRowType, PagesLemma
<1>4. plan.last[i] = s - (p - 1) * BlockSize
  BY DEF PagePlan
<1>5. /\ old \in Seq(S) /\ Len(ind) <= Len(old) /\ Len(ind) \in Nat /\ Len(old) \in Nat
      /\ \A k \in 1 .. Len(ind) : old[k] = ind[k]
  BY <1>1
<1>6. PlannedSlots(plan, i) = Slots(pages, (Len(pages) - 1) * BlockSize + plan.last[i])
  BY DEF PlannedSlots
<1> HIDE DEF ind, old, from, to, s, t, p
<1>7. pages \in Seq(S) /\ Len(pages) = p /\ \A k \in 1 .. p : pages[k] = old[from + k]
  <2>1. \A y \in Seq(S) : \A j, k \in Nat : j <= k /\ k <= Len(y) =>
           /\ SubSeq(y, j + 1, k) \in Seq(S) /\ Len(SubSeq(y, j + 1, k)) = k - j
           /\ \A m \in 1 .. k - j : SubSeq(y, j + 1, k)[m] = y[j + m]
    OBVIOUS
  <2>2. from <= to /\ to <= Len(old) /\ to - from = p
    BY <1>1, <1>3, <1>5
  <2>3. /\ pages \in Seq(S) /\ Len(pages) = to - from
        /\ \A k \in 1 .. to - from : pages[k] = old[from + k]
    BY <1>1, <1>5, <2>1, <2>2, SMTT(40)
  <2> HIDE DEF pages
  <2> QED BY <2>2, <2>3
<1> HIDE DEF pages
<1>8. \A k \in 1 .. p : pages[k] = t[k]
  <2> SUFFICES ASSUME NEW k \in 1 .. p PROVE pages[k] = t[k]
    OBVIOUS
  <2>1. from + k \in 1 .. Len(ind)
    BY <1>1, <1>3, <1>5, SMTT(40)
  <2> QED BY <1>1, <1>5, <1>7, <2>1
<1>9. (Len(pages) - 1) * BlockSize + plan.last[i] = s
  <2> DEFINE x == (p - 1) * BlockSize
  <2>1. x \in Int /\ plan.last[i] = s - x
    BY <1>3, <1>4, DecodeAssumption
  <2> HIDE DEF x
  <2>2. x + plan.last[i] = s
    BY <1>3, <2>1
  <2> QED BY <1>7, <2>2 DEF x
<1>10. Slots(pages, s) = Slots(t, s)
  <2>1. \A j \in 1 .. s : Slot(pages, j - 1) = Slot(t, j - 1)
    <3> SUFFICES ASSUME NEW j \in 1 .. s PROVE Slot(pages, j - 1) = Slot(t, j - 1)
      OBVIOUS
    <3> DEFINE m == j - 1
    <3>1. m \in 0 .. s - 1
      BY <1>3
    <3> HIDE DEF m
    <3>2. m \div BlockSize + 1 \in 1 .. p
      BY <1>3, <3>1
    <3>3. pages[m \div BlockSize + 1] = t[m \div BlockSize + 1]
      BY <1>8, <3>2
    <3> QED BY <3>3 DEF Slot, m
  <2> QED BY <2>1 DEF Slots
<1> QED BY <1>6, <1>9, <1>10, Zenon DEF t, s

\* Eager attention is the reference, row by row.
LEMMA EagerAgrees ==
  ASSUME NEW b \in Seq(WideRow)
  PROVE  /\ Len(FlashInfer(b)) = Len(b)
         /\ \A i \in 1 .. Len(b) : FlashInfer(b)[i] = SDPA(b[i])
<1> DEFINE plan == PagePlan(b)
           Does(i) ==
             LET slots == PlannedSlots(plan, i)
                 q == b[i].q
             IN  [pos    |-> b[i].s - q,
                  writes |-> [k \in 1 .. q |-> Slot(b[i].table, b[i].s - q + k - 1)],
                  reads  |-> [k \in 1 .. q |-> SubSeq(slots, 1, Len(slots) - q + k)]]
<1>1. FlashInfer(b) = [i \in 1 .. Len(b) |-> Does(i)]
  BY DEF FlashInfer
<1>2. Len(FlashInfer(b)) = Len(b)
  <2>1. Len(b) \in Nat
    OBVIOUS
  <2> HIDE DEF Does
  <2> QED BY <1>1, <2>1
<1>3. ASSUME NEW i \in 1 .. Len(b) PROVE Does(i) = SDPA(b[i])
  <2>1. b[i] \in WideRow
    OBVIOUS
  <2>2. plan.indices \in Seq(Page)
    BY PlanLemma
  <2>3. PlannedSlots(plan, i) = Slots(b[i].table, b[i].s)
    <3>1. Len(plan.indices) <= Len(plan.indices)
      <4> HIDE DEF plan
      <4> QED BY <2>2
    <3> QED BY <2>2, <3>1, PlannedLemma
  <2>4. Len(Slots(b[i].table, b[i].s)) = b[i].s
    BY <2>1, SlotsType, WideRowType
  <2> HIDE DEF plan
  <2> QED BY <2>1, <2>3, <2>4, Reference
<1>4. \A i \in 1 .. Len(b) : FlashInfer(b)[i] = Does(i)
  <2> HIDE DEF Does
  <2> QED BY <1>1
<1> HIDE DEF Does
<1> QED BY <1>2, <1>3, <1>4

-----------------------------------------------------------------------------
(* Steps. *)

DecodeTypeOK ==
    /\ batch \in Seq(BatchRow) /\ Len(batch) \in 0 .. MaxNumSeqs
    /\ buffers \in [1 .. MaxNumSeqs -> {Entry(row) : row \in WideRow}]
    /\ DOMAIN plans = DefaultBuckets(MaxNumSeqs)
    /\ \A b \in DefaultBuckets(MaxNumSeqs) :
          plans[b].indices \in Seq(Page) /\ Len(plans[b].indices) = b * MaxBlocksPerSeq

DecodeInv == DecodeTypeOK /\ PathsAgree

LEMMA PaddedLemma ==
  ASSUME NEW rws \in Seq(BatchRow), NEW b \in Nat, Len(rws) <= b
  PROVE  /\ Padded(rws, b) \in Seq(WideRow) /\ Len(Padded(rws, b)) = b
         /\ \A i \in 1 .. b : Padded(rws, b)[i] = IF i <= Len(rws) THEN rws[i] ELSE PaddingRow
<1> DEFINE f == Padded(rws, b)
<1>1. f = [i \in 1 .. b |-> IF i <= Len(rws) THEN rws[i] ELSE PaddingRow]
  BY DEF Padded
<1>2. \A i \in 1 .. b : f[i] = (IF i <= Len(rws) THEN rws[i] ELSE PaddingRow) /\ f[i] \in WideRow
  <2> SUFFICES ASSUME NEW i \in 1 .. b
               PROVE  f[i] = (IF i <= Len(rws) THEN rws[i] ELSE PaddingRow) /\ f[i] \in WideRow
    OBVIOUS
  <2> HIDE DEF f
  <2>1. f[i] = IF i <= Len(rws) THEN rws[i] ELSE PaddingRow
    BY <1>1
  <2>2. i <= Len(rws) => rws[i] \in BatchRow
    OBVIOUS
  <2> QED BY <2>1, <2>2, RowsAreWide
<1>3. f = [i \in 1 .. b |-> f[i]]
  BY <1>1
<1> HIDE DEF f
<1>4. f \in Seq(WideRow) /\ Len(f) = b
  BY <1>2, <1>3
<1> QED BY <1>2, <1>4 DEF f

\* A new plan over the old buffer.
LEMMA ReplanLemma ==
  ASSUME NEW rws \in Seq(BatchRow), NEW b \in Nat, Len(rws) <= b, NEW indices \in Seq(Page),
         Len(indices) = b * MaxBlocksPerSeq,
         NEW plan, plan.indices = Overwrite(indices, PagePlan(Padded(rws, b)).indices),
         plan.indptr = PagePlan(Padded(rws, b)).indptr, plan.last = PagePlan(Padded(rws, b)).last
  PROVE  /\ plan.indices \in Seq(Page) /\ Len(plan.indices) = b * MaxBlocksPerSeq
         /\ \A i \in 1 .. b : PlannedSlots(plan, i) = Slots(Padded(rws, b)[i].table, Padded(rws, b)[i].s)
<1> DEFINE pad == Padded(rws, b)
           new == PagePlan(pad).indices
           rest == SubSeq(indices, Len(new) + 1, Len(indices))
<1>1. pad \in Seq(WideRow) /\ Len(pad) = b
  BY PaddedLemma
<1> HIDE DEF pad
<1>2. new \in Seq(Page) /\ Len(new) <= b * MaxBlocksPerSeq /\ Len(new) \in 0 .. Len(indices)
  <2>1. new \in Seq(Page) /\ Len(new) <= Len(pad) * MaxBlocksPerSeq
    BY <1>1, PlanLemma
  <2> HIDE DEF new
  <2>2. Len(new) \in Nat /\ Len(indices) \in Nat
    BY <2>1
  <2> QED BY <1>1, <2>1, <2>2
<1>3. plan.indptr = PagePlan(pad).indptr /\ plan.last = PagePlan(pad).last /\ plan.indices = new \o rest
  BY DEF Overwrite, pad
<1> HIDE DEF new
<1>4. rest \in Seq(Page) /\ Len(rest) = Len(indices) - Len(new)
  BY <1>2, DropLemma
<1> HIDE DEF rest
<1>5. /\ plan.indices \in Seq(Page) /\ Len(plan.indices) = Len(indices)
      /\ \A k \in 1 .. Len(new) : plan.indices[k] = new[k]
  <2>1. \A y, z \in Seq(Page) : /\ y \o z \in Seq(Page) /\ Len(y \o z) = Len(y) + Len(z)
                                /\ \A k \in 1 .. Len(y) : (y \o z)[k] = y[k]
    BY ConcatLemma
  <2> DEFINE c == new \o rest
  <2>2. c \in Seq(Page) /\ Len(c) = Len(new) + Len(rest) /\ \A k \in 1 .. Len(new) : c[k] = new[k]
    BY <1>2, <1>4, <2>1
  <2>3. plan.indices = c
    BY <1>3
  <2> HIDE DEF c
  <2> QED BY <1>2, <1>4, <2>2, <2>3
<1>6. \A i \in 1 .. b : PlannedSlots(plan, i) = Slots(pad[i].table, pad[i].s)
  <2> SUFFICES ASSUME NEW i \in 1 .. b PROVE PlannedSlots(plan, i) = Slots(pad[i].table, pad[i].s)
    OBVIOUS
  <2>1. Len(PagePlan(pad).indices) <= Len(plan.indices)
    BY <1>2, <1>5 DEF new
  <2>2. \A k \in 1 .. Len(PagePlan(pad).indices) : plan.indices[k] = PagePlan(pad).indices[k]
    BY <1>5 DEF new
  <2>3. i \in 1 .. Len(pad) /\ pad \in Seq(WideRow) /\ plan.indices \in Seq(Page)
    BY <1>1, <1>5
  <2>4. plan.indptr = PagePlan(pad).indptr /\ plan.last = PagePlan(pad).last
    BY <1>3
  <2> QED BY <2>1, <2>2, <2>3, <2>4, PlannedLemma
<1> QED BY <1>5, <1>6 DEF pad

LEMMA DecodeInitInv == DecodeInit => DecodeInv
<1> SUFFICES ASSUME DecodeInit PROVE DecodeInv
  OBVIOUS
<1> USE DEF DecodeInit
<1>1. MaxNumSeqs \in Nat /\ MaxBlocksPerSeq \in Nat /\ NumBlocks \in Nat /\ DefaultBuckets(MaxNumSeqs) \subseteq Nat
  BY DecodeAssumption, Buckets
<1>2. batch \in Seq(BatchRow) /\ Len(batch) \in 0 .. MaxNumSeqs /\ Len(batch) = 0 /\ Len(access) = 0
  BY <1>1
<1>3. buffers \in [1 .. MaxNumSeqs -> {Entry(row) : row \in WideRow}]
  <2>1. Entry(PaddingRow) \in {Entry(row) : row \in WideRow}
    BY RowsAreWide
  <2> QED BY <2>1
<1>4. ASSUME NEW b \in DefaultBuckets(MaxNumSeqs)
      PROVE  plans[b].indices \in Seq(Page) /\ Len(plans[b].indices) = b * MaxBlocksPerSeq
  <2> DEFINE zeros == [i \in 1 .. b * MaxBlocksPerSeq |-> 0]
             plan == [PagePlan(Padded(<< >>, b)) EXCEPT !.indices = Overwrite(zeros, @)]
  <2>1. b \in Nat /\ b * MaxBlocksPerSeq \in Nat /\ 0 \in Page
    BY <1>1 DEF Page
  <2>2. zeros \in Seq(Page) /\ Len(zeros) = b * MaxBlocksPerSeq
    BY <2>1
  <2>3. plans[b] = plan
    OBVIOUS
  <2> DEFINE rws == << >>
  <2>4. rws \in Seq(BatchRow) /\ Len(rws) <= b
    BY <2>1
  <2>5. /\ plan.indices = Overwrite(zeros, PagePlan(Padded(rws, b)).indices)
        /\ plan.indptr = PagePlan(Padded(rws, b)).indptr /\ plan.last = PagePlan(Padded(rws, b)).last
    BY DEF PagePlan
  <2> HIDE DEF zeros, plan, rws
  <2>6. plan.indices \in Seq(Page) /\ Len(plan.indices) = b * MaxBlocksPerSeq
    BY <2>1, <2>2, <2>4, <2>5, ReplanLemma
  <2> QED BY <2>3, <2>6
<1>5. DOMAIN plans = DefaultBuckets(MaxNumSeqs)
  OBVIOUS
<1>6. PathsAgree
  BY <1>2 DEF PathsAgree
<1> QED BY <1>2, <1>3, <1>4, <1>5, <1>6 DEF DecodeInv, DecodeTypeOK

\* A replay.
LEMMA RunGraphInv ==
  ASSUME DecodeInv, NEW rws \in Batches, batch' = rws, RunGraph(rws)
  PROVE  DecodeInv'
<1> USE DEF DecodeInv, DecodeTypeOK
<1> DEFINE n == Len(rws)
           b == PickBucket(n)
           D == DefaultBuckets(MaxNumSeqs)
           pad == Padded(rws, b)
           plan == Replan(plans[b], rws, b)
<1>1. rws \in Seq(BatchRow) /\ n \in 1 .. MaxNumSeqs /\ MaxNumSeqs \in Nat
  BY DecodeAssumption
<1>2. b \in D /\ n <= b /\ b <= MaxNumSeqs /\ b \in Nat
  <2>1. b \in D /\ n <= b /\ b <= MaxNumSeqs
    BY <1>1, PickBucketLemma
  <2> QED BY <1>1, <2>1, Buckets
<1>3. /\ buffers' = Refreshed(rws, b)
      /\ plans' = [plans EXCEPT ![b] = plan]
      /\ access' = Replay(buffers', plans'[b], b)
  BY DEF RunGraph
<1>4. /\ pad \in Seq(WideRow) /\ Len(pad) = b
      /\ \A i \in 1 .. b : pad[i] = IF i <= n THEN rws[i] ELSE PaddingRow
  BY <1>1, <1>2, PaddedLemma
<1>5. /\ plan.indices \in Seq(Page) /\ Len(plan.indices) = b * MaxBlocksPerSeq
      /\ \A i \in 1 .. b : PlannedSlots(plan, i) = Slots(pad[i].table, pad[i].s)
  <2> DEFINE indices == plans[b].indices
  <2>1. indices \in Seq(Page) /\ Len(indices) = b * MaxBlocksPerSeq
    BY <1>2
  <2>2. /\ plan.indices = Overwrite(indices, PagePlan(Padded(rws, b)).indices)
        /\ plan.indptr = PagePlan(Padded(rws, b)).indptr /\ plan.last = PagePlan(Padded(rws, b)).last
    BY DEF Replan, PagePlan
  <2>3. Len(rws) <= b /\ b \in Nat
    BY <1>2
  <2> HIDE DEF indices, plan, b
  <2>4. /\ plan.indices \in Seq(Page) /\ Len(plan.indices) = b * MaxBlocksPerSeq
        /\ \A i \in 1 .. b : PlannedSlots(plan, i) = Slots(Padded(rws, b)[i].table, Padded(rws, b)[i].s)
    BY <1>1, <2>1, <2>2, <2>3, ReplanLemma
  <2> QED BY <2>4
<1>6. PureDecode(rws)
  BY DEF RunGraph
<1> HIDE DEF plan, pad, b, D
<1>7. \A i \in 1 .. b : pad[i] \in WideRow /\ pad[i].q = 1
  <2> SUFFICES ASSUME NEW i \in 1 .. b PROVE pad[i] \in WideRow /\ pad[i].q = 1
    OBVIOUS
  <2>1. pad[i] \in WideRow
    BY <1>4
  <2>2. i <= n => rws[i].q = 1
    BY <1>1, <1>6 DEF PureDecode
  <2>3. PaddingRow.q = 1
    BY DEF PaddingRow
  <2> QED BY <1>4, <2>1, <2>2, <2>3
<1>8. buffers' = [i \in 1 .. MaxNumSeqs |-> IF i <= b THEN Entry(pad[i]) ELSE buffers[i]]
  BY <1>3 DEF Refreshed, pad
<1>9. buffers' \in [1 .. MaxNumSeqs -> {Entry(row) : row \in WideRow}]
  <2>1. \A i \in 1 .. MaxNumSeqs : i <= b => Entry(pad[i]) \in {Entry(row) : row \in WideRow}
    BY <1>2, <1>7
  <2>2. \A i \in 1 .. MaxNumSeqs : buffers[i] \in {Entry(row) : row \in WideRow}
    OBVIOUS
  <2> QED BY <1>8, <2>1, <2>2
<1>10. DOMAIN plans' = D /\ plans'[b] = plan /\ \A c \in D : c # b => plans'[c] = plans[c]
  BY <1>2, <1>3 DEF D
<1>11. \A c \in D : plans'[c].indices \in Seq(Page) /\ Len(plans'[c].indices) = c * MaxBlocksPerSeq
  BY <1>5, <1>10 DEF D
<1>12. access' = [i \in 1 .. b |-> [pos |-> buffers'[i].pos, writes |-> <<buffers'[i].slot>>,
                                    reads |-> <<PlannedSlots(plan, i)>>]]
  BY <1>3, <1>10 DEF Replay
<1>13. \A i \in 1 .. b : access'[i] = SDPA(pad[i])
  <2> SUFFICES ASSUME NEW i \in 1 .. b PROVE access'[i] = SDPA(pad[i])
    OBVIOUS
  <2>1. i \in 1 .. MaxNumSeqs /\ i <= b
    BY <1>1, <1>2
  <2>2. buffers'[i] = Entry(pad[i])
    BY <1>8, <2>1
  <2>3. buffers'[i].pos = pad[i].s - 1 /\ buffers'[i].slot = Slot(pad[i].table, pad[i].s - 1)
    BY <2>2 DEF Entry
  <2>4. access'[i] = [pos |-> pad[i].s - 1, writes |-> <<Slot(pad[i].table, pad[i].s - 1)>>,
                      reads |-> <<Slots(pad[i].table, pad[i].s)>>]
    BY <1>5, <1>12, <2>3
  <2> QED BY <1>7, <2>4, Reference
<1>14. Len(access') = b
  BY <1>2, <1>12
<1>15. PathsAgree'
  <2>1. \A i \in 1 .. b : IF i <= n THEN access'[i] = SDPA(rws[i]) ELSE access'[i] = SDPA(PaddingRow)
    BY <1>4, <1>13
  <2> QED BY <1>2, <1>14, <2>1 DEF PathsAgree
<1>16. batch' \in Seq(BatchRow) /\ Len(batch') \in 0 .. MaxNumSeqs
  BY <1>1
<1> QED BY <1>9, <1>10, <1>11, <1>15, <1>16 DEF D

LEMMA RunEagerInv ==
  ASSUME DecodeInv, NEW rws \in Batches, batch' = rws, RunEager(rws)
  PROVE  DecodeInv'
<1> USE DEF DecodeInv, DecodeTypeOK
<1>1. rws \in Seq(BatchRow) /\ Len(rws) \in 0 .. MaxNumSeqs /\ MaxNumSeqs \in Nat
  BY DecodeAssumption
<1>2. rws \in Seq(WideRow)
  BY <1>1, RowsAreWide, WiderElements
<1>3. access' = FlashInfer(rws) /\ UNCHANGED <<buffers, plans>>
  BY DEF RunEager
<1>4. PathsAgree'
  <2> DEFINE f == FlashInfer(rws)
  <2>1. Len(f) = Len(rws) /\ \A i \in 1 .. Len(rws) : f[i] = SDPA(rws[i])
    BY <1>2, EagerAgrees
  <2> HIDE DEF f
  <2>2. access' = f
    BY <1>3 DEF f
  <2> QED BY <1>1, <2>1, <2>2 DEF PathsAgree
<1> QED BY <1>1, <1>3, <1>4

LEMMA DecodeIsInductive == DecodeSpec => []DecodeInv
<1>1. DecodeInv /\ [DecodeNext]_decodeVars => DecodeInv'
  <2> SUFFICES ASSUME DecodeInv, [DecodeNext]_decodeVars PROVE DecodeInv'
    OBVIOUS
  <2>1. CASE DecodeNext
    <3>1. PICK rws \in Batches : batch' = rws /\ (RunGraph(rws) \/ RunEager(rws))
      BY <2>1 DEF DecodeNext
    <3> QED BY <3>1, RunGraphInv, RunEagerInv
  <2>2. CASE UNCHANGED decodeVars
    BY <2>2 DEF decodeVars, DecodeInv, DecodeTypeOK, PathsAgree
  <2> QED BY <2>1, <2>2
<1> QED BY <1>1, DecodeInitInv, PTL DEF DecodeSpec

\* FlashInfer, eager or replayed from a captured graph, writes and reads the slots
\* SDPA does, for every batch, bucket and history of the static buffers.
THEOREM PathsAlwaysAgree == DecodeSpec => []PathsAgree
<1>1. DecodeInv => PathsAgree
  BY DEF DecodeInv
<1> QED BY <1>1, DecodeIsInductive, PTL

\* Every decode step up to max_num_seqs rows has a graph, less than twice its size,
\* and its pages fit the buffers the graph was captured with (default_buckets,
\* pick_bucket, _make_wrapper of cuda_graph.py).
THEOREM GraphsAlwaysFit == DecodeSpec => []GraphsFit
<1>1. DecodeInv => GraphsFit
  <2> SUFFICES ASSUME DecodeInv, batch # << >>
               PROVE  /\ Fitting(Len(batch)) # {} /\ PickBucket(Len(batch)) < 2 * Len(batch)
                      /\ \A b \in DOMAIN plans : Len(plans[b].indices) = b * MaxBlocksPerSeq
    BY DEF GraphsFit
  <2>1. batch \in Seq(BatchRow) /\ Len(batch) \in 0 .. MaxNumSeqs
    BY DEF DecodeInv, DecodeTypeOK
  <2>2. Len(batch) \in 1 .. MaxNumSeqs
    BY <2>1
  <2>3. Fitting(Len(batch)) # {} /\ PickBucket(Len(batch)) < 2 * Len(batch)
    BY <2>2, PickBucketLemma
  <2> QED BY <2>3 DEF DecodeInv, DecodeTypeOK
<1> QED BY <1>1, DecodeIsInductive, PTL

-----------------------------------------------------------------------------
(* Sorting. *)

\* A strict total order of 1 .. n is the order of a permutation.
LEMMA OrderExists ==
  ASSUME NEW n \in Nat, NEW R,
         \A x \in 1 .. n : <<x, x>> \notin R,
         \A x, y, z \in 1 .. n : <<x, y>> \in R /\ <<y, z>> \in R => <<x, z>> \in R,
         \A x, y \in 1 .. n : x # y => <<x, y>> \in R \/ <<y, x>> \in R
  PROVE  \E p \in Bijection(1 .. n, 1 .. n) : \A i, j \in 1 .. n : i < j => <<p[i], p[j]>> \in R
<1> DEFINE D == 1 .. n
           B(x) == {y \in D : <<y, x>> \in R}
           rank == [x \in D |-> Cardinality(B(x)) + 1]
<1>1. IsFiniteSet(D) /\ Cardinality(D) = n
  <2>1. 1 \in Int /\ n \in Int
    OBVIOUS
  <2>2. IsFiniteSet(D) /\ Cardinality(D) = IF 1 > n THEN 0 ELSE n - 1 + 1
    BY <2>1, FS_Interval
  <2> QED BY <2>2
<1> HIDE DEF D
<1>2. ASSUME NEW x \in D PROVE IsFiniteSet(B(x)) /\ Cardinality(B(x)) + 1 \in D
  <2>1. IsFiniteSet(D \ {x}) /\ Cardinality(D \ {x}) = n - 1
    BY <1>1, FS_RemoveElement
  <2>2. B(x) \in SUBSET (D \ {x})
    BY DEF D
  <2> HIDE DEF B
  <2>3. IsFiniteSet(B(x)) /\ Cardinality(B(x)) <= n - 1
    BY <2>1, <2>2, FS_Subset
  <2>4. Cardinality(B(x)) \in Nat
    BY <2>3, FS_CardinalityType
  <2> QED BY <2>3, <2>4 DEF D
<1>3. ASSUME NEW x \in D, NEW y \in D, <<x, y>> \in R PROVE Cardinality(B(x)) < Cardinality(B(y))
  <2>1. B(x) \cup {x} \in SUBSET B(y) /\ x \notin B(x)
    BY <1>3 DEF D
  <2>2. IsFiniteSet(B(x)) /\ IsFiniteSet(B(y))
    BY <1>2
  <2> HIDE DEF B
  <2>3. Cardinality(B(x) \cup {x}) = Cardinality(B(x)) + 1
    BY <2>1, <2>2, FS_AddElement
  <2>4. Cardinality(B(x) \cup {x}) <= Cardinality(B(y))
    BY <2>1, <2>2, FS_Subset
  <2>5. Cardinality(B(x)) \in Nat /\ Cardinality(B(y)) \in Nat
    BY <2>2, FS_CardinalityType
  <2> QED BY <2>3, <2>4, <2>5
<1> HIDE DEF B
<1>4. \A x \in D : rank[x] = Cardinality(B(x)) + 1 /\ rank[x] \in D /\ Cardinality(B(x)) \in Nat
  BY <1>2, FS_CardinalityType
<1>5. rank \in [D -> D]
  BY <1>4
<1> HIDE DEF rank
<1>6. \A x, y \in D : <<x, y>> \in R => rank[x] < rank[y]
  BY <1>3, <1>4
<1>7. \A x, y \in D : rank[x] = rank[y] => x = y
  <2> SUFFICES ASSUME NEW x \in D, NEW y \in D, rank[x] = rank[y], x # y PROVE FALSE
    OBVIOUS
  <2>1. <<x, y>> \in R \/ <<y, x>> \in R
    BY DEF D
  <2>2. rank[x] < rank[y] \/ rank[y] < rank[x]
    BY <1>6, <2>1
  <2>3. rank[x] \in Int /\ rank[y] \in Int
    BY <1>4
  <2> QED BY <2>2, <2>3
<1>8. rank \in Injection(D, D)
  BY <1>5, <1>7 DEF Injection, IsInjective
<1>9. rank \in Surjection(D, D)
  BY <1>1, <1>8, FS_Injection
<1>10. \A k \in D : \E x \in D : rank[x] = k
  BY <1>9 DEF Surjection
<1> DEFINE p == [k \in D |-> CHOOSE x \in D : rank[x] = k]
<1>11. \A k \in D : p[k] \in D /\ rank[p[k]] = k
  BY <1>10
<1>12. p \in [D -> D]
  BY <1>11
<1> HIDE DEF p
<1>13. \A x \in D : p[rank[x]] = x
  BY <1>4, <1>7, <1>11
<1>14. p \in Bijection(D, D)
  <2>1. \A i, j \in D : p[i] = p[j] => i = j
    BY <1>11
  <2>2. \A x \in D : \E k \in D : p[k] = x
    BY <1>4, <1>13
  <2> QED BY <1>12, <2>1, <2>2 DEF Bijection, Injection, Surjection, IsInjective
<1>15. ASSUME NEW i \in D, NEW j \in D, i < j PROVE <<p[i], p[j]>> \in R
  <2>1. i \in Int /\ j \in Int
    BY DEF D
  <2>2. p[i] # p[j]
    BY <1>11, <1>15, <2>1
  <2>3. <<p[j], p[i]>> \notin R
    <3>1. <<p[j], p[i]>> \in R => rank[p[j]] < rank[p[i]]
      BY <1>6, <1>11
    <3>2. rank[p[j]] = j /\ rank[p[i]] = i
      BY <1>11
    <3> QED BY <1>15, <2>1, <3>1, <3>2
  <2> QED BY <1>11, <2>2, <2>3 DEF D
<1> QED BY <1>14, <1>15 DEF D

\* A sort orders the vocabulary.
LEMMA SortedLemma ==
  ASSUME NEW l \in [Vocab -> Int], NEW tie \in Orders
  PROVE  /\ Sorted(l, tie) \in Orders
         /\ \A i, j \in Vocab : i < j => l[Sorted(l, tie)[i]] >= l[Sorted(l, tie)[j]]
<1> DEFINE R == {r \in Vocab \X Vocab : l[r[1]] > l[r[2]] \/ (l[r[1]] = l[r[2]] /\ tie[r[1]] < tie[r[2]])}
           Follows(order) == \A i, j \in Vocab : i < j =>
                                \/ l[order[i]] > l[order[j]]
                                \/ l[order[i]] = l[order[j]] /\ tie[order[i]] < tie[order[j]]
<1>1. VocabSize \in Nat /\ Vocab = 1 .. VocabSize
  BY SamplerAssumption DEF Vocab
<1>2. tie \in [Vocab -> Vocab] /\ \A x, y \in Vocab : tie[x] = tie[y] => x = y
  BY DEF Orders, Bijection, Injection, IsInjective
<1>3. \A x \in Vocab : tie[x] \in Int /\ l[x] \in Int
  BY <1>1, <1>2
<1>4. \A x, y \in Vocab : <<x, y>> \in R <=> l[x] > l[y] \/ (l[x] = l[y] /\ tie[x] < tie[y])
  OBVIOUS
<1> HIDE DEF R
<1>5. \A x \in Vocab : <<x, x>> \notin R
  BY <1>3, <1>4
<1>6. \A x, y, z \in Vocab : <<x, y>> \in R /\ <<y, z>> \in R => <<x, z>> \in R
  BY <1>3, <1>4
<1>7. \A x, y \in Vocab : x # y => <<x, y>> \in R \/ <<y, x>> \in R
  BY <1>2, <1>3, <1>4
<1>8. PICK p \in Bijection(Vocab, Vocab) : \A i, j \in Vocab : i < j => <<p[i], p[j]>> \in R
  BY <1>1, <1>5, <1>6, <1>7, OrderExists
<1>9. p \in Orders /\ p \in [Vocab -> Vocab]
  BY <1>8 DEF Orders, Bijection, Injection
<1>10. Follows(p)
  BY <1>4, <1>8, <1>9
<1>11. Sorted(l, tie) = CHOOSE order \in Orders : Follows(order)
  BY DEF Sorted
<1>12. Sorted(l, tie) \in Orders /\ Follows(Sorted(l, tie))
  <2> HIDE DEF Follows
  <2> QED BY <1>9, <1>10, <1>11
<1>13. Sorted(l, tie) \in [Vocab -> Vocab]
  BY <1>12 DEF Orders, Bijection, Injection
<1> QED BY <1>3, <1>12, <1>13

-----------------------------------------------------------------------------
(* Mass. *)

LEMMA MassLemma ==
  ASSUME NEW l \in [Vocab -> Logits]
  PROVE  /\ \A S \in SUBSET Vocab : Mass(l, S) \in Nat
         /\ Mass(l, {}) = 0
         /\ \A S, T \in SUBSET Vocab : S \subseteq T => Mass(l, S) <= Mass(l, T)
         /\ \A S, T \in SUBSET Vocab : S \subseteq T /\ S # T => Mass(l, S) < Mass(l, T)
         /\ \A S, T \in SUBSET Vocab : S \cap T = {} => Mass(l, S) + Mass(l, T) <= Mass(l, Vocab)
<1> DEFINE n == VocabSize
           Terms(S) == [t \in Vocab |-> IF t \in S THEN Weight(l, t) ELSE 0]
<1>1. n \in Nat /\ Vocab = 1 .. n
  BY SamplerAssumption DEF Vocab
<1>2. \A t \in Vocab : Weight(l, t) \in Nat \ {0}
  BY SamplerAssumption DEF Weight
<1> HIDE DEF n
<1>3. \A S : /\ Terms(S) \in Seq(Nat) /\ Len(Terms(S)) = n
             /\ \A t \in Vocab : Terms(S)[t] = IF t \in S THEN Weight(l, t) ELSE 0
  <2> SUFFICES ASSUME NEW S
               PROVE  /\ Terms(S) \in Seq(Nat) /\ Len(Terms(S)) = n
                      /\ \A t \in Vocab : Terms(S)[t] = IF t \in S THEN Weight(l, t) ELSE 0
    OBVIOUS
  <2> DEFINE f == Terms(S)
  <2>1. \A t \in Vocab : f[t] = IF t \in S THEN Weight(l, t) ELSE 0
    OBVIOUS
  <2>2. f = [t \in Vocab |-> f[t]]
    OBVIOUS
  <2> HIDE DEF f
  <2>3. \A t \in Vocab : f[t] \in Nat
    BY <1>2, <2>1
  <2>4. f \in Seq(Nat) /\ Len(f) = n
    BY <1>1, <2>2, <2>3
  <2> QED BY <2>1, <2>4 DEF f
<1>4. \A S : Mass(l, S) = SumOf(Terms(S))
  BY DEF Mass
<1> HIDE DEF Terms
<1>5. ASSUME NEW S \in SUBSET Vocab, NEW T \in SUBSET Vocab, S \subseteq T
      PROVE  /\ Mass(l, S) \in Nat /\ Mass(l, S) <= Mass(l, T)
             /\ S # T => Mass(l, S) < Mass(l, T)
  <2> DEFINE f == Terms(S)
             g == Terms(T)
  <2>1. /\ f \in Seq(Nat) /\ g \in Seq(Nat) /\ Len(f) = n /\ Len(g) = n
        /\ \A t \in Vocab : f[t] = (IF t \in S THEN Weight(l, t) ELSE 0) /\ g[t] = (IF t \in T THEN Weight(l, t) ELSE 0)
    BY <1>3
  <2>2. \A t \in Vocab : f[t] <= g[t]
    BY <1>2, <1>5, <2>1, SMTT(40)
  <2>3. \A t \in Vocab : t \in T /\ t \notin S => f[t] < g[t]
    BY <1>2, <2>1
  <2> HIDE DEF f, g
  <2>4. Len(f) = Len(g) /\ \A i \in 1 .. Len(f) : f[i] <= g[i]
    BY <1>1, <2>1, <2>2
  <2>5. SumOf(f) \in Nat /\ SumOf(f) <= SumOf(g) /\ \A k \in 1 .. Len(f) : f[k] < g[k] => SumOf(f) < SumOf(g)
    BY <2>1, <2>4, CompareSums
  <2>6. S # T => SumOf(f) < SumOf(g)
    <3> SUFFICES ASSUME S # T PROVE SumOf(f) < SumOf(g)
      OBVIOUS
    <3>1. PICK t \in Vocab : t \in T /\ t \notin S
      BY <1>5
    <3>2. f[t] < g[t] /\ t \in 1 .. Len(f)
      BY <1>1, <2>1, <2>3, <3>1
    <3> QED BY <2>5, <3>2
  <2> QED BY <1>4, <2>5, <2>6 DEF f, g
<1>6. Mass(l, {}) = 0
  <2> DEFINE f == Terms({})
  <2>1. f \in Seq(Nat) /\ Len(f) = n /\ \A t \in Vocab : f[t] = 0
    BY <1>3
  <2> HIDE DEF f
  <2>2. \A i \in 1 .. Len(f) : f[i] <= 0
    BY <1>1, <2>1
  <2> DEFINE c == 0
  <2>3. c \in Nat /\ \A i \in 1 .. Len(f) : f[i] <= c
    BY <2>2
  <2>4. n * 0 = 0
    BY <1>1
  <2> HIDE DEF c
  <2>5. Sums(f)[Len(f)] <= Len(f) * c /\ \A i \in 0 .. Len(f) : Sums(f)[i] \in Nat
    BY <2>1, <2>3, BoundSums
  <2>6. Sums(f)[n] <= n * c /\ Sums(f)[n] \in Nat
    <3>1. n \in 0 .. Len(f)
      BY <1>1, <2>1
    <3> QED BY <2>1, <2>5, <3>1
  <2>7. Sums(f)[n] = 0
    BY <2>4, <2>6 DEF c
  <2> QED BY <1>4, <2>1, <2>7 DEF f, SumOf
<1>7. ASSUME NEW S \in SUBSET Vocab, NEW T \in SUBSET Vocab, S \cap T = {}
      PROVE  Mass(l, S) + Mass(l, T) <= Mass(l, Vocab)
  <2> DEFINE f == Terms(S)
             g == Terms(T)
             h == Terms(Vocab)
  <2>1. /\ f \in Seq(Nat) /\ g \in Seq(Nat) /\ h \in Seq(Nat) /\ Len(f) = n /\ Len(g) = n /\ Len(h) = n
        /\ \A t \in Vocab : /\ f[t] = IF t \in S THEN Weight(l, t) ELSE 0
                            /\ g[t] = IF t \in T THEN Weight(l, t) ELSE 0
                            /\ h[t] = Weight(l, t)
    BY <1>3
  <2>2. \A t \in Vocab : f[t] + g[t] <= h[t]
    <3> SUFFICES ASSUME NEW t \in Vocab PROVE f[t] + g[t] <= h[t]
      OBVIOUS
    <3> DEFINE w == Weight(l, t)
    <3>1. w \in Nat
      BY <1>2
    <3>2. f[t] = (IF t \in S THEN w ELSE 0) /\ g[t] = (IF t \in T THEN w ELSE 0) /\ h[t] = w
      BY <2>1
    <3>3. ~(t \in S /\ t \in T)
      BY <1>7
    <3> HIDE DEF w, f, g, h
    <3> QED BY <3>1, <3>2, <3>3
  <2> HIDE DEF f, g, h
  <2>3. Len(f) = Len(h) /\ Len(g) = Len(h) /\ \A i \in 1 .. Len(h) : f[i] + g[i] <= h[i]
    BY <1>1, <2>1, <2>2
  <2>4. SumOf(f) + SumOf(g) <= SumOf(h)
    BY <2>1, <2>3, AddSums
  <2> QED BY <1>4, <2>4 DEF f, g, h
<1> QED BY <1>5, <1>6, <1>7

-----------------------------------------------------------------------------
(* Filters. *)

RowOK(row) == row \in SamplerRow /\ row.logits \in [Vocab -> Logits] /\ Scaled(row) \in [Vocab -> Logits]

LEMMA OrderLemma ==
  ASSUME NEW order \in Orders
  PROVE  /\ order \in [Vocab -> Vocab]
         /\ \A i, j \in Vocab : order[i] = order[j] => i = j
         /\ \A t \in Vocab : \E k \in Vocab : order[k] = t
         /\ \A m \in 0 .. VocabSize : /\ Firsts(order, m) \in SUBSET Vocab /\ IsFiniteSet(Firsts(order, m))
                                      /\ Cardinality(Firsts(order, m)) = m
         /\ \A k \in Vocab : order[k] \notin Firsts(order, k - 1)
<1>1. VocabSize \in Nat /\ Vocab = 1 .. VocabSize
  BY SamplerAssumption DEF Vocab
<1>2. order \in [Vocab -> Vocab] /\ \A i, j \in Vocab : order[i] = order[j] => i = j
  BY DEF Orders, Bijection, Injection, IsInjective
<1>3. \A t \in Vocab : \E k \in Vocab : order[k] = t
  BY DEF Orders, Bijection, Surjection
<1>4. order \in Seq(Vocab) /\ Len(order) = VocabSize
  BY <1>1, <1>2
<1>5. IsInjective(order)
  BY <1>1, <1>2, <1>4, InjectiveSequence
<1>6. ASSUME NEW m \in 0 .. VocabSize
      PROVE  /\ Firsts(order, m) \in SUBSET Vocab /\ IsFiniteSet(Firsts(order, m))
             /\ Cardinality(Firsts(order, m)) = m
  <2> DEFINE s == SubSeq(order, 1, m)
  <2>1. s \in Seq(Vocab) /\ Len(s) = m /\ Range(s) = Firsts(order, m) /\ IsInjective(s)
    BY <1>4, <1>5, TakeLemma DEF Firsts
  <2> HIDE DEF s
  <2>2. IsFiniteSet(Range(s)) /\ Cardinality(Range(s)) = Len(s)
    BY <2>1, InjectiveLength
  <2>3. Firsts(order, m) \in SUBSET Vocab
    BY <1>1, <1>2 DEF Firsts
  <2> QED BY <2>1, <2>2, <2>3
<1>7. ASSUME NEW k \in Vocab, order[k] \in Firsts(order, k - 1) PROVE FALSE
  <2>1. PICK j \in 1 .. k - 1 : order[j] = order[k]
    BY <1>7 DEF Firsts
  <2>2. j \in Vocab /\ j # k
    BY <1>1
  <2> QED BY <1>2, <2>1, <2>2
<1> QED BY <1>2, <1>3, <1>6, <1>7

LEMMA Times ==
  ASSUME NEW a \in Nat, NEW x \in Nat, NEW y \in Nat, x <= y
  PROVE  a * x <= a * y /\ a * x \in Nat
OBVIOUS

\* What the filters leave of a row whose tokens of the ranks in `drop` top-p drops.
OwnCut(row, order, drop) == {order[k] : k \in {i \in Vocab : i <= TopK(row) /\ i \notin drop}}
Own(row, order, drop) ==
    {t \in OwnCut(row, order, drop) : \A u \in OwnCut(row, order, drop) :
        Weight(Scaled(row), t) * Whole >= row.minP * Weight(Scaled(row), u)}

\* What top-p drops of a row in a batch.
Dropped(b, row, sort) == {k \in Vocab : AnyTopP(b) /\ DropsByMass(row, sort, k)}

LEMMA RowFacts ==
  ASSUME NEW row, RowOK(row)
  PROVE  /\ TopK(row) \in Vocab /\ row.topP \in 1 .. Whole /\ row.minP \in 0 .. Whole /\ Whole \in Nat \ {0}
         /\ \A t \in Vocab : /\ Scaled(row)[t] \in Int
                             /\ Weight(Scaled(row), t) \in Nat \ {0}
         /\ \A t, u \in Vocab : Scaled(row)[t] <= Scaled(row)[u] =>
               Weight(Scaled(row), t) <= Weight(Scaled(row), u)
         /\ \A S \in SUBSET Vocab : Mass(Scaled(row), S) \in Nat
         /\ Mass(Scaled(row), {}) = 0 /\ 0 < Mass(Scaled(row), Vocab)
<1>1. VocabSize \in Nat \ {0} /\ Vocab = 1 .. VocabSize /\ Whole \in Nat \ {0}
  BY SamplerAssumption DEF Vocab
<1>2. row.topK \in Int /\ row.topP \in 1 .. Whole /\ row.minP \in 0 .. Whole
  BY DEF RowOK, SamplerRow
<1>3. TopK(row) \in Vocab
  BY <1>1, <1>2 DEF TopK
<1> DEFINE l == Scaled(row)
<1>4. l \in [Vocab -> Logits]
  BY DEF RowOK
<1> HIDE DEF l
<1>5. \A t \in Vocab : l[t] \in Int /\ Weight(l, t) \in Nat \ {0}
  BY <1>4, SamplerAssumption DEF Weight
<1>6. \A t, u \in Vocab : l[t] <= l[u] => Weight(l, t) <= Weight(l, u)
  BY <1>4, SamplerAssumption DEF Weight
<1>7. \A S \in SUBSET Vocab : Mass(l, S) \in Nat
  BY <1>4, MassLemma
<1>8. Mass(l, {}) = 0 /\ 0 < Mass(l, Vocab)
  <2>1. {} # Vocab /\ {} \in SUBSET Vocab /\ Vocab \in SUBSET Vocab
    BY <1>1
  <2> QED BY <1>4, <2>1, MassLemma
<1> QED BY <1>1, <1>2, <1>3, <1>5, <1>6, <1>7, <1>8 DEF l

Descends(l, order) == \A i, j \in Vocab : i < j => l[order[i]] >= l[order[j]]

SortOK(row, sort) ==
    /\ sort.scaled \in Orders
    /\ Descends(Scaled(row), sort.scaled)
    /\ sort.rounded \subseteq Undecided(row, sort.scaled)

\* The ranks dropped are not the first, have almost top_p before them, and those
\* that are not dropped not much more.
DropOK(row, order, drop) ==
    LET l == Scaled(row)
        Preceding(k) == Mass(l, Firsts(order, k - 1)) * Whole
    IN  /\ drop \subseteq Vocab /\ 1 \notin drop
        /\ \A k \in drop : Preceding(k) > (row.topP - 1) * Mass(l, Vocab)
        /\ \A k \in Vocab \ drop : ~(Preceding(k) >= (row.topP + 1) * Mass(l, Vocab))

LEMMA DroppedLemma ==
  ASSUME NEW b, NEW i \in DOMAIN b, RowOK(b[i]), NEW sort, SortOK(b[i], sort)
  PROVE  DropOK(b[i], sort.scaled, Dropped(b, b[i], sort))
<1> DEFINE row == b[i]
           order == sort.scaled
           drop == Dropped(b, row, sort)
           l == Scaled(row)
           p == row.topP
           whole == Mass(l, Vocab)
           Before(k) == Mass(l, Firsts(order, k - 1))
<1>1. VocabSize \in Nat /\ Vocab = 1 .. VocabSize /\ 1 \in Vocab
  BY SamplerAssumption DEF Vocab
<1>2. p \in 1 .. Whole /\ Whole \in Nat \ {0} /\ whole \in Nat /\ 0 < whole
  <2>1. Vocab \in SUBSET Vocab
    OBVIOUS
  <2> QED BY <2>1, RowFacts
<1>3. \A k \in Vocab : Before(k) \in Nat /\ Before(k) <= whole
  <2> SUFFICES ASSUME NEW k \in Vocab PROVE Before(k) \in Nat /\ Before(k) <= whole
    OBVIOUS
  <2>1. k - 1 \in 0 .. VocabSize
    BY <1>1
  <2> DEFINE F == Firsts(order, k - 1)
  <2>2. F \in SUBSET Vocab /\ Vocab \in SUBSET Vocab /\ F \subseteq Vocab
    BY <2>1, OrderLemma DEF SortOK
  <2>3. l \in [Vocab -> Logits]
    BY DEF RowOK
  <2> HIDE DEF F, l
  <2> QED BY <2>2, <2>3, MassLemma DEF F
<1>4. Before(1) = 0
  <2>1. Firsts(order, 1 - 1) = {}
    BY DEF Firsts
  <2> QED BY <2>1, RowFacts
<1>5. \A k \in Vocab : DropsByMass(row, sort, k) <=>
         Before(k) * Whole >= (p + 1) * whole \/ k \in sort.rounded
  BY DEF DropsByMass
<1>6. \A k \in sort.rounded : /\ k \in Vocab
                              /\ (p - 1) * whole < Before(k) * Whole
  BY DEF SortOK, Undecided
<1>7. ~AnyTopP(b) => p = Whole
  BY <1>2 DEF AnyTopP
<1>8. \A k : k \in drop <=> k \in Vocab /\ AnyTopP(b) /\ DropsByMass(row, sort, k)
  BY DEF Dropped
<1> HIDE DEF drop, p, whole, Before
<1> DEFINE low == (p - 1) * whole
           high == (p + 1) * whole
<1>9. low \in Nat /\ high \in Nat /\ low < high /\ 0 < high
  <2>1. p - 1 \in Nat /\ p + 1 \in Nat /\ high = low + whole + whole
    BY <1>2
  <2>2. low \in Nat
    BY <1>2, <2>1
  <2> HIDE DEF low, high
  <2> QED BY <1>2, <2>1, <2>2
<1>10. \A k \in Vocab : Before(k) * Whole \in Nat
  BY <1>2, <1>3
<1>11. \A k \in drop : Before(k) * Whole > low
  <2> SUFFICES ASSUME NEW k \in drop PROVE Before(k) * Whole > low
    OBVIOUS
  <2>1. k \in Vocab /\ (Before(k) * Whole >= high \/ k \in sort.rounded)
    BY <1>5, <1>8
  <2>2. k \in sort.rounded => low < Before(k) * Whole
    BY <1>6
  <2> DEFINE x == Before(k) * Whole
  <2>3. x \in Nat
    BY <1>10, <2>1
  <2> HIDE DEF x, low, high
  <2> QED BY <1>9, <2>1, <2>2, <2>3 DEF x
<1>12. 1 \notin drop
  <2>1. Before(1) * Whole = 0
    BY <1>2, <1>4
  <2> HIDE DEF low
  <2> QED BY <1>9, <1>11, <2>1
<1>13. \A k \in Vocab \ drop : ~(Before(k) * Whole >= high)
  <2> SUFFICES ASSUME NEW k \in Vocab \ drop PROVE ~(Before(k) * Whole >= high)
    OBVIOUS
  <2>1. CASE AnyTopP(b)
    BY <1>5, <1>8, <2>1
  <2>2. CASE ~AnyTopP(b)
    <3>1. Whole * Before(k) <= Whole * whole
      BY <1>2, <1>3, Times
    <3>2. high = Whole * whole + whole /\ Whole * whole \in Nat
      BY <1>2, <1>7, <2>2
    <3>3. Before(k) * Whole = Whole * Before(k) /\ Whole * Before(k) \in Nat
      BY <1>2, <1>3
    <3> DEFINE x == Whole * Before(k)
               y == Whole * whole
    <3> HIDE DEF x, y, high
    <3>4. x \in Nat /\ y \in Nat /\ x <= y /\ high = y + whole
      BY <3>1, <3>2, <3>3 DEF x, y
    <3>5. ~(x >= high)
      BY <1>2, <3>4
    <3> QED BY <3>3, <3>5 DEF x
  <2> QED BY <2>1, <2>2
<1>14. drop \subseteq Vocab
  BY <1>8
<1> QED BY <1>11, <1>12, <1>13, <1>14 DEF DropOK, drop, p, whole, Before

\* The switches of the batch change nothing but what top-p drops.
LEMMA KeptIsOwn ==
  ASSUME NEW b, NEW i \in DOMAIN b, RowOK(b[i]), NEW sort, sort.scaled \in Orders
  PROVE  Kept(b, b[i], sort) = Own(b[i], sort.scaled, Dropped(b, b[i], sort))
<1> DEFINE row == b[i]
           order == sort.scaled
           drop == Dropped(b, row, sort)
           l == Scaled(row)
           cut == {order[k] : k \in {j \in Vocab :
                     /\ j <= TopK(row)
                     /\ AnyTopP(b) => ~DropsByMass(row, sort, j)}}
           own == OwnCut(row, order, drop)
           sorted == AnyTopK(b) \/ AnyTopP(b)
           left == IF sorted THEN cut ELSE Vocab
<1>1. /\ TopK(row) \in Vocab /\ row.topP \in 1 .. Whole /\ row.minP \in 0 .. Whole /\ Whole \in Nat
      /\ \A t \in Vocab : Weight(l, t) \in Nat \ {0}
  BY RowFacts
<1>2. Vocab = 1 .. VocabSize /\ VocabSize \in Nat
  BY SamplerAssumption DEF Vocab
<1>3. ~AnyTopK(b) => TopK(row) = VocabSize
  BY <1>1, <1>2 DEF AnyTopK
<1>4. ~AnyMinP(b) => row.minP = 0
  BY <1>1 DEF AnyMinP
<1>5. Kept(b, row, sort) = IF AnyMinP(b)
                           THEN {t \in left : \A u \in left : Weight(l, t) * Whole >= row.minP * Weight(l, u)}
                           ELSE left
  BY DEF Kept
<1>6. cut = own
  <2>1. \A j \in Vocab : j \notin drop <=> (AnyTopP(b) => ~DropsByMass(row, sort, j))
    BY DEF Dropped
  <2> HIDE DEF drop
  <2> QED BY <2>1 DEF OwnCut
<1>7. order \in [Vocab -> Vocab] /\ \A t \in Vocab : \E k \in Vocab : order[k] = t
  BY OrderLemma
<1>8. ~sorted => own = Vocab
  <2> SUFFICES ASSUME ~sorted PROVE own = Vocab
    OBVIOUS
  <2>1. \A j \in Vocab : j <= TopK(row) /\ j \notin drop
    BY <1>2, <1>3 DEF Dropped
  <2> HIDE DEF drop
  <2>2. own = {order[k] : k \in Vocab}
    BY <2>1 DEF OwnCut
  <2> QED BY <1>7, <2>2
<1>9. left = own
  BY <1>6, <1>8
<1>10. own \subseteq Vocab
  BY <1>7 DEF OwnCut
<1>11. Own(row, order, drop) = {t \in own : \A u \in own : Weight(l, t) * Whole >= row.minP * Weight(l, u)}
  BY DEF Own
<1> HIDE DEF own, left, drop
<1>12. ~AnyMinP(b) => Own(row, order, drop) = own
  <2> SUFFICES ASSUME ~AnyMinP(b), NEW t \in own, NEW u \in own
               PROVE  Weight(l, t) * Whole >= row.minP * Weight(l, u)
    BY <1>11
  <2> HIDE DEF l, row
  <2>1. Weight(l, t) \in Nat /\ Weight(l, u) \in Nat
    BY <1>1, <1>10
  <2>2. 0 * Weight(l, u) = 0 /\ Weight(l, t) * Whole >= 0
    BY <1>1, <2>1
  <2> QED BY <1>4, <2>2
<1> QED BY <1>5, <1>9, <1>11, <1>12 DEF drop

\* What a row keeps by its own parameters, stated without the order.
NucleusOf(row, kept) ==
    LET l == Scaled(row)
        Above(t) == {u \in Vocab : l[u] > l[t]}
        Level(t) == {u \in Vocab \ {t} : l[u] >= l[t]}
        Exceeds(S) == Mass(l, S) * Whole >= (row.topP + 1) * Mass(l, Vocab)
        Nears(S) == Mass(l, S) * Whole > (row.topP - 1) * Mass(l, Vocab)
        NearTop(t) == \A u \in Vocab : Weight(l, t) * Whole >= row.minP * Weight(l, u)
    IN  /\ Cardinality(kept) <= TopK(row)
        /\ \A t \in kept : Cardinality(Above(t)) < TopK(row) /\ ~Exceeds(Above(t)) /\ NearTop(t)
        /\ \A t \in Vocab \ kept :
              Cardinality(Level(t)) >= TopK(row) \/ Nears(Level(t)) \/ ~NearTop(t)

\* The first token of the order is never cut, and no logit is above its.
LEMMA TopIsKept ==
  ASSUME NEW row, RowOK(row), NEW order \in Orders, Descends(Scaled(row), order), NEW drop, 1 \notin drop
  PROVE  /\ order[1] \in OwnCut(row, order, drop) /\ order[1] \in Own(row, order, drop) /\ order[1] \in Vocab
         /\ \A u \in Vocab : Scaled(row)[u] <= Scaled(row)[order[1]]
         /\ \A u \in Vocab : Weight(Scaled(row), u) <= Weight(Scaled(row), order[1])
         /\ OwnCut(row, order, drop) \subseteq Vocab
<1> DEFINE l == Scaled(row)
           top == order[1]
<1>1. VocabSize \in Nat /\ Vocab = 1 .. VocabSize /\ 1 \in Vocab
  BY SamplerAssumption DEF Vocab
<1>2. /\ order \in [Vocab -> Vocab]
      /\ \A t \in Vocab : \E k \in Vocab : order[k] = t
  BY OrderLemma
<1>3. /\ TopK(row) \in Vocab /\ row.topP \in 1 .. Whole /\ row.minP \in 0 .. Whole /\ Whole \in Nat
      /\ \A t \in Vocab : l[t] \in Int /\ Weight(l, t) \in Nat \ {0}
      /\ \A t, u \in Vocab : l[t] <= l[u] => Weight(l, t) <= Weight(l, u)
  BY RowFacts
<1>4. top \in Vocab /\ OwnCut(row, order, drop) \subseteq Vocab
  BY <1>1, <1>2 DEF OwnCut
<1>5. \A u \in Vocab : l[u] <= l[top]
  <2> SUFFICES ASSUME NEW u \in Vocab PROVE l[u] <= l[top]
    OBVIOUS
  <2>1. PICK k \in Vocab : order[k] = u
    BY <1>2
  <2>2. CASE k = 1
    BY <1>3, <2>1, <2>2
  <2>3. CASE k # 1
    <3>1. 1 < k
      BY <1>1, <2>3
    <3>2. l[order[1]] >= l[order[k]]
      BY <1>1, <3>1 DEF Descends
    <3> QED BY <1>3, <1>4, <2>1, <3>2
  <2> QED BY <2>2, <2>3
<1>6. \A u \in Vocab : Weight(l, u) <= Weight(l, top)
  <2> HIDE DEF l, top
  <2> QED BY <1>3, <1>4, <1>5
<1>8. top \in OwnCut(row, order, drop)
  BY <1>1, <1>3 DEF OwnCut
<1>9. ASSUME NEW u \in OwnCut(row, order, drop) PROVE Weight(l, top) * Whole >= row.minP * Weight(l, u)
  <2> DEFINE wt == Weight(l, top)
             wu == Weight(l, u)
             p == row.minP
  <2>1. wt \in Nat /\ wu \in Nat /\ wu <= wt /\ p \in 0 .. Whole /\ Whole \in Nat
    BY <1>3, <1>4, <1>6
  <2> HIDE DEF wt, wu, p
  <2>2. p * wu <= p * wt
    BY <2>1, Times
  <2>3. wt * p <= wt * Whole
    BY <2>1, Times
  <2>4. wt * p = p * wt /\ p * wu \in Int /\ p * wt \in Int /\ wt * Whole \in Int
    BY <2>1
  <2>5. wt * Whole >= p * wu
    BY <2>2, <2>3, <2>4
  <2> QED BY <2>5 DEF wt, wu, p
<1>10. top \in Own(row, order, drop)
  BY <1>8, <1>9 DEF Own
<1> QED BY <1>4, <1>5, <1>6, <1>8, <1>10

LEMMA NucleusLemma ==
  ASSUME NEW row, RowOK(row), NEW order \in Orders, Descends(Scaled(row), order),
         NEW drop, DropOK(row, order, drop)
  PROVE  /\ Own(row, order, drop) # {} /\ Own(row, order, drop) \subseteq Vocab
         /\ NucleusOf(row, Own(row, order, drop))
<1> DEFINE l == Scaled(row)
           kept == Own(row, order, drop)
           cut == OwnCut(row, order, drop)
           top == order[1]
           k0 == TopK(row)
           Above(t) == {u \in Vocab : l[u] > l[t]}
           Level(t) == {u \in Vocab \ {t} : l[u] >= l[t]}
           high == (row.topP + 1) * Mass(l, Vocab)
           low == (row.topP - 1) * Mass(l, Vocab)
           Exceeds(S) == Mass(l, S) * Whole >= high
           Nears(S) == Mass(l, S) * Whole > low
           NearTop(t) == \A u \in Vocab : Weight(l, t) * Whole >= row.minP * Weight(l, u)
<1>1. VocabSize \in Nat /\ Vocab = 1 .. VocabSize /\ 1 \in Vocab
  BY SamplerAssumption DEF Vocab
<1>2. /\ order \in [Vocab -> Vocab]
      /\ \A t \in Vocab : \E k \in Vocab : order[k] = t
      /\ \A m \in 0 .. VocabSize : /\ Firsts(order, m) \in SUBSET Vocab /\ IsFiniteSet(Firsts(order, m))
                                   /\ Cardinality(Firsts(order, m)) = m
      /\ \A k \in Vocab : order[k] \notin Firsts(order, k - 1)
  BY OrderLemma
<1>3. /\ k0 \in Vocab /\ row.topP \in 1 .. Whole /\ row.minP \in 0 .. Whole /\ Whole \in Nat
      /\ \A t \in Vocab : l[t] \in Int /\ Weight(l, t) \in Nat \ {0}
      /\ \A S \in SUBSET Vocab : Mass(l, S) \in Nat
  BY RowFacts
<1>4. /\ top \in cut /\ top \in kept /\ top \in Vocab /\ cut \subseteq Vocab
      /\ \A u \in Vocab : Weight(l, u) <= Weight(l, top)
  BY TopIsKept DEF DropOK
<1>5. \A S, T \in SUBSET Vocab : S \subseteq T => Mass(l, S) <= Mass(l, T)
  <2>1. l \in [Vocab -> Logits]
    BY DEF RowOK
  <2> HIDE DEF l
  <2> QED BY <2>1, MassLemma
<1>6. high \in Int /\ low \in Int
  <2>1. Vocab \in SUBSET Vocab
    OBVIOUS
  <2>2. Mass(l, Vocab) \in Nat
    BY <1>3, <2>1
  <2> DEFINE p == row.topP
             whole == Mass(l, Vocab)
  <2>3. p \in 1 .. Whole /\ Whole \in Nat /\ whole \in Nat
    BY <1>3, <2>2
  <2> HIDE DEF p, whole
  <2>4. (p + 1) * whole \in Int /\ (p - 1) * whole \in Int
    BY <2>3
  <2> QED BY <2>4 DEF p, whole
<1>7. /\ \A k \in drop : Nears(Firsts(order, k - 1))
      /\ \A k \in Vocab \ drop : ~Exceeds(Firsts(order, k - 1))
  BY DEF DropOK
<1>8. \A i, j \in Vocab : i < j => l[order[i]] >= l[order[j]]
  BY DEF Descends
<1>9. /\ cut = {order[k] : k \in {i \in Vocab : i <= k0 /\ i \notin drop}}
      /\ kept = {t \in cut : \A u \in cut : Weight(l, t) * Whole >= row.minP * Weight(l, u)}
  BY DEF OwnCut, Own
<1>10. IsFiniteSet(Vocab)
  BY <1>1, FS_Interval
<1> HIDE DEF l, kept, cut, k0, top, high, low
<1>11. \A S, T \in SUBSET Vocab : S \subseteq T => (Exceeds(S) => Exceeds(T)) /\ (Nears(S) => Nears(T))
  <2> SUFFICES ASSUME NEW S \in SUBSET Vocab, NEW T \in SUBSET Vocab, S \subseteq T
               PROVE  (Exceeds(S) => Exceeds(T)) /\ (Nears(S) => Nears(T))
    OBVIOUS
  <2> DEFINE s == Mass(l, S)
             t == Mass(l, T)
             x == Whole * s
             y == Whole * t
  <2>1. s \in Nat /\ t \in Nat /\ s <= t /\ Whole \in Nat
    BY <1>3, <1>5
  <2> HIDE DEF s, t
  <2>2. x <= y /\ x \in Nat /\ y \in Nat
    BY <2>1, Times
  <2>3. s * Whole = x /\ t * Whole = y
    BY <2>1
  <2> HIDE DEF x, y
  <2>4. (x >= high => y >= high) /\ (x > low => y > low)
    BY <1>6, <2>2
  <2> QED BY <2>3, <2>4 DEF s, t
<1>12. \A t \in Vocab : NearTop(t) <=> \A u \in cut : Weight(l, t) * Whole >= row.minP * Weight(l, u)
  <2> SUFFICES ASSUME NEW t \in Vocab, \A u \in cut : Weight(l, t) * Whole >= row.minP * Weight(l, u),
                      NEW u \in Vocab
               PROVE  Weight(l, t) * Whole >= row.minP * Weight(l, u)
    BY <1>4
  <2> DEFINE wt == Weight(l, top)
             wu == Weight(l, u)
             w == Weight(l, t)
             p == row.minP
  <2>1. wt \in Nat /\ wu \in Nat /\ wu <= wt /\ p \in 0 .. Whole /\ Whole \in Nat /\ w \in Nat /\ w * Whole >= p * wt
    BY <1>3, <1>4
  <2> HIDE DEF wt, wu, w, p
  <2>2. p * wu <= p * wt /\ p * wu \in Nat
    BY <2>1, Times
  <2>3. p * wt \in Int /\ w * Whole \in Int
    BY <2>1
  <2>4. w * Whole >= p * wu
    BY <2>1, <2>2, <2>3
  <2> QED BY <2>4 DEF wu, w, p
<1>13. \A k \in Vocab : Above(order[k]) \subseteq Firsts(order, k - 1)
  <2> SUFFICES ASSUME NEW k \in Vocab, NEW u \in Vocab, l[u] > l[order[k]]
               PROVE  u \in Firsts(order, k - 1)
    OBVIOUS
  <2>1. PICK j \in Vocab : order[j] = u
    BY <1>2
  <2>2. order[k] \in Vocab /\ l[order[k]] \in Int /\ l[u] \in Int
    BY <1>2, <1>3
  <2>3. j < k
    <3> SUFFICES ASSUME ~(j < k) PROVE FALSE
      OBVIOUS
    <3>1. CASE j = k
      BY <2>1, <2>2, <3>1
    <3>2. CASE k < j
      <4>1. l[order[k]] >= l[order[j]]
        BY <1>8, <3>2
      <4> QED BY <2>1, <2>2, <4>1
    <3> QED BY <1>1, <3>1, <3>2
  <2>4. j \in 1 .. k - 1
    BY <1>1, <2>3
  <2> QED BY <2>1, <2>4 DEF Firsts
<1>14. \A k \in Vocab : Firsts(order, k - 1) \subseteq Level(order[k])
  <2> SUFFICES ASSUME NEW k \in Vocab, NEW u \in Firsts(order, k - 1)
               PROVE  u \in Level(order[k])
    OBVIOUS
  <2>1. PICK j \in 1 .. k - 1 : order[j] = u
    BY DEF Firsts
  <2>2. j \in Vocab /\ j < k
    BY <1>1, <2>1
  <2>3. l[u] >= l[order[k]] /\ u \in Vocab
    BY <1>2, <1>8, <2>1, <2>2
  <2>4. u # order[k]
    BY <1>2
  <2> QED BY <2>3, <2>4
<1>15. kept # {} /\ kept \subseteq Vocab
  BY <1>4, <1>9
<1>16. Cardinality(kept) <= k0
  <2>1. k0 \in 0 .. VocabSize
    BY <1>1, <1>3
  <2>2. kept \subseteq Firsts(order, k0)
    <3> SUFFICES ASSUME NEW t \in cut PROVE t \in Firsts(order, k0)
      BY <1>9
    <3>1. PICK k \in Vocab : k <= k0 /\ order[k] = t
      BY <1>9
    <3>2. k \in 1 .. k0
      BY <1>1, <1>3, <3>1
    <3> QED BY <3>1, <3>2 DEF Firsts
  <2>3. IsFiniteSet(Firsts(order, k0)) /\ Cardinality(Firsts(order, k0)) = k0
    BY <1>2, <2>1
  <2> QED BY <2>2, <2>3, FS_Subset
<1>17. ASSUME NEW t \in kept
       PROVE  Cardinality(Above(t)) < k0 /\ ~Exceeds(Above(t)) /\ NearTop(t)
  <2>1. PICK k \in Vocab : k <= k0 /\ order[k] = t /\ k \notin drop
    BY <1>9
  <2>2. k - 1 \in 0 .. VocabSize
    BY <1>1
  <2> DEFINE F == Firsts(order, k - 1)
  <2>3. F \in SUBSET Vocab /\ IsFiniteSet(F) /\ Cardinality(F) = k - 1 /\ ~Exceeds(F)
    BY <1>2, <1>7, <2>1, <2>2
  <2>4. Above(t) \subseteq F
    BY <1>13, <2>1
  <2> DEFINE A == Above(t)
  <2> HIDE DEF F
  <2>5. A \in SUBSET Vocab /\ A \subseteq F
    BY <2>4
  <2> HIDE DEF A
  <2>6. Cardinality(A) <= k - 1 /\ Cardinality(A) \in Nat
    BY <2>3, <2>5, FS_Subset, FS_CardinalityType
  <2>7. ~Exceeds(A)
    BY <1>11, <2>3, <2>5
  <2>8. Cardinality(A) < k0
    BY <1>1, <1>3, <2>1, <2>6
  <2>9. NearTop(t)
    BY <1>9, <1>12, <1>15
  <2> QED BY <2>7, <2>8, <2>9 DEF A
<1>18. ASSUME NEW t \in Vocab \ kept
       PROVE  Cardinality(Level(t)) >= k0 \/ Nears(Level(t)) \/ ~NearTop(t)
  <2> SUFFICES ASSUME NearTop(t) PROVE Cardinality(Level(t)) >= k0 \/ Nears(Level(t))
    OBVIOUS
  <2>1. t \notin cut
    BY <1>9, <1>12
  <2>2. PICK k \in Vocab : order[k] = t
    BY <1>2
  <2>3. k > k0 \/ Nears(Firsts(order, k - 1))
    <3>1. ~(k <= k0) \/ k \in drop
      BY <1>9, <2>1, <2>2
    <3> QED BY <1>1, <1>3, <1>7, <3>1
  <2>4. k - 1 \in 0 .. VocabSize
    BY <1>1
  <2> DEFINE F == Firsts(order, k - 1)
             L == Level(t)
  <2>5. F \in SUBSET Vocab /\ IsFiniteSet(F) /\ Cardinality(F) = k - 1
    BY <1>2, <2>4
  <2>6. F \subseteq L
    BY <1>14, <2>2
  <2>7. L \in SUBSET Vocab
    OBVIOUS
  <2>8. k > k0 \/ Nears(F)
    BY <2>3
  <2> HIDE DEF F, L
  <2>9. IsFiniteSet(L)
    BY <1>10, <2>7, FS_Subset
  <2>10. Cardinality(L) >= k - 1 /\ Cardinality(L) \in Nat
    BY <2>5, <2>6, <2>9, FS_Subset, FS_CardinalityType
  <2>11. Nears(F) => Nears(L)
    BY <1>11, <2>5, <2>6, <2>7
  <2>12. k > k0 => Cardinality(L) >= k0
    BY <1>1, <1>3, <2>10
  <2> QED BY <2>8, <2>11, <2>12 DEF L
<1>19. NucleusOf(row, kept)
  BY <1>16, <1>17, <1>18 DEF NucleusOf, l, k0, high, low
<1> QED BY <1>15, <1>19 DEF kept

-----------------------------------------------------------------------------
(* What a row may get. *)

LEMMA GreedyOwn ==
  ASSUME NEW row, RowOK(row), NEW order \in Orders, Descends(Scaled(row), order),
         NEW drop, 1 \notin drop
  PROVE  /\ order[1] \in Maximal(Scaled(row), Own(row, order, drop))
         /\ Own(row, order, drop) \subseteq Vocab
         /\ Maximal(Scaled(row), Own(row, order, drop)) \subseteq Maximal(Scaled(row), Vocab)
         /\ Maximal(Scaled(row), Vocab) # {}
<1> DEFINE l == Scaled(row)
           top == order[1]
           own == Own(row, order, drop)
<1>1. top \in own /\ top \in Vocab /\ \A u \in Vocab : l[u] <= l[top]
  BY TopIsKept
<1>2. own \subseteq Vocab
  BY TopIsKept DEF Own
<1>3. \A t \in Vocab : l[t] \in Int
  BY RowFacts
<1> HIDE DEF l, top, own
<1>4. top \in Maximal(l, own) /\ top \in Maximal(l, Vocab)
  BY <1>1, <1>2 DEF Maximal
<1>5. Maximal(l, own) \subseteq Maximal(l, Vocab)
  <2> SUFFICES ASSUME NEW t \in own, \A u \in own : l[u] <= l[t], NEW u \in Vocab PROVE l[u] <= l[t]
    BY <1>2 DEF Maximal
  <2> QED BY <1>1, <1>2, <1>3
<1> QED BY <1>2, <1>4, <1>5 DEF l, own, top

\* The fast path takes the logits as they come, which for its rows are the scaled ones.
LEMMA FastLogits ==
  ASSUME NEW row, RowOK(row), Greedy(row), ~NeedsPenalties(row)
  PROVE  Maximal(row.logits, Vocab) = Maximal(Scaled(row), Vocab)
<1>1. \A t \in Vocab : row.logits[t] \in Int
  BY DEF RowOK, SamplerRow
<1>2. Penalized(row) = row.logits
  BY DEF Penalized
<1> DEFINE l == row.logits
           temp == IF Greedy(row) THEN 1 ELSE row.temp
<1>3. \A t \in Vocab : Scaled(row)[t] = l[t] * temp
  BY <1>2 DEF Scaled
<1>4. temp = 1
  OBVIOUS
<1> HIDE DEF l, temp
<1>5. \A t \in Vocab : Scaled(row)[t] = l[t]
  <2> SUFFICES ASSUME NEW t \in Vocab PROVE Scaled(row)[t] = l[t]
    OBVIOUS
  <2> DEFINE x == l[t]
  <2>1. x \in Int
    BY <1>1 DEF l
  <2> HIDE DEF x
  <2>2. x * 1 = x
    BY <2>1
  <2> QED BY <1>3, <1>4, <2>2 DEF x
<1> QED BY <1>5 DEF Maximal, l

\* A row's outcome by its own parameters, on either path.
LEMMA SampledTokens ==
  ASSUME NEW b, NEW i \in DOMAIN b, RowOK(b[i]), NEW sort, sort.scaled \in Orders
  PROVE  LET row == b[i]
             own == Own(row, sort.scaled, Dropped(b, row, sort))
             got == SampleRow(b, row, sort)
         IN  /\ ~Greedy(row) => got.tokens = own
             /\ Greedy(row) => got.tokens = IF FastPath(b) THEN Maximal(Scaled(row), Vocab)
                                            ELSE Maximal(Scaled(row), own)
             /\ got.noise = IF Greedy(row) THEN "none" ELSE IF row.seeded THEN "own" ELSE "engine"
             /\ got.top = TopLogprobs(b, row, sort.raw)
<1> DEFINE row == b[i]
           own == Own(row, sort.scaled, Dropped(b, row, sort))
           got == SampleRow(b, row, sort)
<1>1. Kept(b, row, sort) = own
  BY KeptIsOwn
<1>2. FastPath(b) => Greedy(row) /\ row.logprobs = NoLogprobs /\ ~NeedsPenalties(row)
  BY DEF FastPath
<1>3. CASE FastPath(b)
  <2>1. got = [tokens |-> Maximal(row.logits, Vocab), noise |-> "none", top |-> NoTop]
    BY <1>3 DEF SampleRow
  <2>2. Maximal(row.logits, Vocab) = Maximal(Scaled(row), Vocab)
    BY <1>2, <1>3, FastLogits
  <2>3. TopLogprobs(b, row, sort.raw) = NoTop
    BY <1>2, <1>3 DEF TopLogprobs
  <2> HIDE DEF got
  <2>4. got.tokens = Maximal(Scaled(row), Vocab) /\ got.noise = "none" /\ got.top = NoTop
    BY <2>1, <2>2
  <2> QED BY <1>2, <1>3, <2>3, <2>4 DEF got
<1>4. CASE ~FastPath(b)
  <2> DEFINE picked == Pick(row, own)
  <2>1. got = [tokens |-> picked.tokens, noise |-> picked.noise, top |-> TopLogprobs(b, row, sort.raw)]
    BY <1>1, <1>4 DEF SampleRow
  <2>2. Greedy(row) => picked.tokens = Maximal(Scaled(row), own) /\ picked.noise = "none"
    BY DEF Pick
  <2>3. ~Greedy(row) => picked.tokens = own /\ picked.noise = IF row.seeded THEN "own" ELSE "engine"
    BY DEF Pick
  <2> HIDE DEF got, picked
  <2>4. got.tokens = picked.tokens /\ got.noise = picked.noise /\ got.top = TopLogprobs(b, row, sort.raw)
    BY <2>1
  <2> QED BY <1>4, <2>2, <2>3, <2>4 DEF got
<1> QED BY <1>3, <1>4

\* The inductive invariant: the rows are in range, the sorts sort, the results
\* are what the rows and the sorts give.
SamplerInv ==
    /\ DOMAIN result = DOMAIN rows
    /\ \A i \in DOMAIN rows :
          /\ RowOK(rows[i])
          /\ SortOK(rows[i], sorts[i])
          /\ result[i] = SampleRow(rows, rows[i], sorts[i])

LEMMA SampledRowsOK ==
  ASSUME NEW b \in SampledRows, NEW i \in DOMAIN b
  PROVE  RowOK(b[i])
<1>1. b \in Seq(SamplerRow)
  BY SamplerAssumption
<1>2. b[i] \in SamplerRow
  BY <1>1
<1>3. \A t \in Vocab : b[i].logits[t] \in Logits /\ Scaled(b[i])[t] \in Logits
  BY LogitsAssumption
<1>4. b[i].logits \in [Vocab -> Logits]
  BY <1>2, <1>3 DEF SamplerRow
<1>5. Scaled(b[i]) \in [Vocab -> Logits]
  BY <1>3 DEF Scaled
<1> QED BY <1>2, <1>4, <1>5 DEF RowOK

LEMMA SamplerIsInductive == SamplerSpec => []SamplerInv
<1>1. SamplerInit => SamplerInv
  BY DEF SamplerInit, SamplerInv
<1>2. SamplerInv /\ [Sample]_samplerVars => SamplerInv'
  <2> SUFFICES ASSUME SamplerInv, [Sample]_samplerVars PROVE SamplerInv'
    OBVIOUS
  <2>1. CASE UNCHANGED samplerVars
    BY <2>1 DEF samplerVars, SamplerInv
  <2>2. CASE Sample
    <3>1. rows' \in SampledRows
      BY <2>2 DEF Sample
    <3> DEFINE OrderBy(t) == [i \in DOMAIN rows' |-> Sorted(Scaled(rows'[i]), t)]
               Near(t) == UNION {{i} \X Undecided(rows'[i], OrderBy(t)[i]) : i \in DOMAIN rows'}
    <3>2. PICK tie \in Orders : \E reached \in SUBSET Near(tie) :
             sorts' = [i \in DOMAIN rows' |->
                         [raw |-> Sorted(rows'[i].logits, tie), scaled |-> OrderBy(tie)[i],
                          rounded |-> {k \in Vocab : <<i, k>> \in reached}]]
      BY <2>2 DEF Sample
    <3>3. result' = [i \in DOMAIN rows' |-> SampleRow(rows', rows'[i], sorts'[i])]
      BY <2>2 DEF Sample
    <3>4. DOMAIN result' = DOMAIN rows'
      BY <3>3
    <3>5. ASSUME NEW i \in DOMAIN rows'
          PROVE  /\ RowOK(rows'[i])
                 /\ SortOK(rows'[i], sorts'[i])
                 /\ result'[i] = SampleRow(rows', rows'[i], sorts'[i])
      <4> DEFINE row == rows'[i]
                 l == Scaled(row)
      <4>1. RowOK(row)
        BY <3>1, SampledRowsOK
      <4>2. l \in [Vocab -> Int]
        <5>1. l \in [Vocab -> Logits] /\ Logits \subseteq Int
          BY <4>1, SamplerAssumption DEF RowOK
        <5> HIDE DEF l
        <5> QED BY <5>1
      <4>3. /\ sorts'[i].scaled = Sorted(l, tie)
            /\ sorts'[i].rounded \subseteq Undecided(row, Sorted(l, tie))
        <5> DEFINE order == OrderBy(tie)
                   near == UNION {{j} \X Undecided(rows'[j], order[j]) : j \in DOMAIN rows'}
        <5>1. PICK reached \in SUBSET near :
                 sorts' = [j \in DOMAIN rows' |->
                             [raw |-> Sorted(rows'[j].logits, tie), scaled |-> order[j],
                              rounded |-> {k \in Vocab : <<j, k>> \in reached}]]
          BY <3>2
        <5>2. order[i] = Sorted(l, tie)
          OBVIOUS
        <5> HIDE DEF order
        <5>3. ASSUME NEW k, <<i, k>> \in near PROVE k \in Undecided(row, order[i])
          <6>1. PICK j \in DOMAIN rows' : <<i, k>> \in {j} \X Undecided(rows'[j], order[j])
            BY <5>3
          <6> QED BY <6>1
        <5> HIDE DEF near
        <5>4. sorts'[i].scaled = order[i] /\ sorts'[i].rounded = {k \in Vocab : <<i, k>> \in reached}
          BY <5>1
        <5>5. sorts'[i].rounded \subseteq Undecided(row, order[i])
          BY <5>1, <5>3, <5>4
        <5> QED BY <5>2, <5>4, <5>5
      <4> HIDE DEF l
      <4>4. Sorted(l, tie) \in Orders /\ Descends(l, Sorted(l, tie))
        BY <4>2, SortedLemma DEF Descends
      <4>5. result'[i] = SampleRow(rows', rows'[i], sorts'[i])
        BY <3>3
      <4>6. SortOK(row, sorts'[i])
        BY <4>3, <4>4 DEF SortOK, l
      <4> QED BY <4>1, <4>5, <4>6
    <3> QED BY <3>4, <3>5 DEF SamplerInv
  <2> QED BY <2>1, <2>2
<1> QED BY <1>1, <1>2, PTL DEF SamplerSpec

\* What the filters of _filter leave is the nucleus of top-k, top-p and min-p, up to
\* one part of rounding in the sum that top-p is compared with, for every vocabulary, every batch of rows, every monotone exponential and every
\* way the sorts break ties (sampler.py:133, "keeps at least the top token").
THEOREM FilterKeepsNucleus == SamplerSpec => []FilterIsNucleus
<1>1. SamplerInv => FilterIsNucleus
  <2> SUFFICES ASSUME SamplerInv, NEW i \in DOMAIN result
               PROVE  LET row == rows[i]
                          kept == result[i].tokens
                      IN  /\ kept # {}
                          /\ Greedy(row) => kept \subseteq Maximal(Scaled(row), Vocab)
                          /\ ~Greedy(row) => NucleusOf(row, kept)
    BY DEF FilterIsNucleus, NucleusOf
  <2> DEFINE row == rows[i]
             order == sorts[i].scaled
             drop == Dropped(rows, row, sorts[i])
             kept == result[i].tokens
  <2>1. /\ i \in DOMAIN rows /\ RowOK(row) /\ SortOK(row, sorts[i])
        /\ order \in Orders /\ Descends(Scaled(row), order)
        /\ result[i] = SampleRow(rows, row, sorts[i])
    BY DEF SamplerInv, SortOK
  <2>2. /\ ~Greedy(row) => kept = Own(row, order, drop)
        /\ Greedy(row) => kept = IF FastPath(rows) THEN Maximal(Scaled(row), Vocab)
                                 ELSE Maximal(Scaled(row), Own(row, order, drop))
    BY <2>1, SampledTokens
  <2>6. DropOK(row, order, drop) /\ 1 \notin drop
    BY <2>1, DroppedLemma DEF DropOK
  <2> HIDE DEF row, order, kept, drop
  <2>3. /\ Maximal(Scaled(row), Own(row, order, drop)) # {}
        /\ Maximal(Scaled(row), Own(row, order, drop)) \subseteq Maximal(Scaled(row), Vocab)
        /\ Maximal(Scaled(row), Vocab) # {}
    BY <2>1, <2>6, GreedyOwn
  <2>4. Own(row, order, drop) # {} /\ NucleusOf(row, Own(row, order, drop))
    BY <2>1, <2>6, NucleusLemma
  <2>5. /\ kept # {}
        /\ Greedy(row) => kept \subseteq Maximal(Scaled(row), Vocab)
        /\ ~Greedy(row) => NucleusOf(row, kept)
    BY <2>2, <2>3, <2>4
  <2> QED BY <2>5 DEF row, kept
<1> QED BY <1>1, SamplerIsInductive, PTL

\* What a row without a top_p of its own loses to a neighbour's is lighter than the
\* rounding.
LEMMA LostLemma ==
  ASSUME NEW row, RowOK(row), row.topP = Whole, NEW order \in Orders, Descends(Scaled(row), order),
         NEW drop, DropOK(row, order, drop)
  PROVE  LET lost == Own(row, order, {}) \ Own(row, order, drop)
         IN  /\ Own(row, order, drop) \subseteq Own(row, order, {})
             /\ Mass(Scaled(row), lost) * Whole < Mass(Scaled(row), Vocab)
<1> DEFINE l == Scaled(row)
           top == order[1]
           cut == OwnCut(row, order, drop)
           all == OwnCut(row, order, {})
           lost == Own(row, order, {}) \ Own(row, order, drop)
<1>1. VocabSize \in Nat /\ Vocab = 1 .. VocabSize /\ 1 \in Vocab
  BY SamplerAssumption DEF Vocab
<1>2. /\ order \in [Vocab -> Vocab] /\ \A i, j \in Vocab : order[i] = order[j] => i = j
      /\ \A m \in 0 .. VocabSize : Firsts(order, m) \in SUBSET Vocab
  BY OrderLemma
<1>3. /\ row.minP \in 0 .. Whole /\ Whole \in Nat \ {0}
      /\ \A t \in Vocab : Weight(l, t) \in Nat
      /\ \A S \in SUBSET Vocab : Mass(l, S) \in Nat
      /\ Mass(l, {}) = 0 /\ 0 < Mass(l, Vocab)
  BY RowFacts
<1>4. /\ top \in cut /\ top \in Vocab /\ cut \subseteq Vocab
      /\ \A u \in Vocab : Weight(l, u) <= Weight(l, top)
  BY TopIsKept DEF DropOK
<1>5. all \subseteq Vocab
  BY <1>2 DEF OwnCut
<1>6. cut \subseteq all
  BY DEF OwnCut
<1>7. Own(row, order, drop) \subseteq Own(row, order, {})
  <2> SUFFICES ASSUME NEW t \in cut, \A u \in cut : Weight(l, t) * Whole >= row.minP * Weight(l, u),
                      NEW u \in all
               PROVE  Weight(l, t) * Whole >= row.minP * Weight(l, u)
    BY <1>6 DEF Own
  <2> DEFINE wt == Weight(l, t)
             wu == Weight(l, u)
             w == Weight(l, top)
             p == row.minP
  <2>1. wt \in Nat /\ wu \in Nat /\ w \in Nat /\ wu <= w /\ p \in Nat /\ Whole \in Nat
    BY <1>3, <1>4, <1>5
  <2>2. wt * Whole >= p * w
    BY <1>4
  <2> HIDE DEF wt, wu, w, p
  <2>3. p * wu <= p * w
    BY <2>1, Times
  <2>4. wt * Whole \in Int /\ p * wu \in Int /\ p * w \in Int
    BY <2>1
  <2>5. wt * Whole >= p * wu
    BY <2>2, <2>3, <2>4
  <2> QED BY <2>5 DEF wt, wu, p
<1>8. ASSUME NEW t \in lost PROVE \E k \in drop : k \in Vocab /\ order[k] = t
  <2>1. t \in all /\ t \notin cut
    BY <1>6 DEF Own
  <2>2. PICK k \in Vocab : k <= TopK(row) /\ order[k] = t
    BY <2>1 DEF OwnCut
  <2> QED BY <2>1, <2>2 DEF OwnCut
<1>9. lost \in SUBSET Vocab
  BY <1>5 DEF Own
<1>10. drop \subseteq Vocab /\ \A k \in drop :
          Mass(l, Firsts(order, k - 1)) * Whole > (row.topP - 1) * Mass(l, Vocab)
  BY DEF DropOK
<1>11. \A S, T \in SUBSET Vocab : S \cap T = {} => Mass(l, S) + Mass(l, T) <= Mass(l, Vocab)
  <2>1. l \in [Vocab -> Logits]
    BY DEF RowOK
  <2> HIDE DEF l
  <2> QED BY <2>1, MassLemma
<1> HIDE DEF l, top, cut, all, lost
<1>12. CASE lost = {}
  <2>1. Mass(l, lost) = 0
    BY <1>3, <1>12
  <2>2. Mass(l, lost) * Whole = 0
    BY <1>3, <2>1
  <2> QED BY <1>3, <1>7, <2>2 DEF l, lost
<1>13. CASE lost # {}
  <2>1. drop # {} /\ drop \in SUBSET Nat
    BY <1>1, <1>8, <1>10, <1>13
  <2>2. PICK k \in drop : \A j \in drop : k <= j
    BY <2>1, LeastNatural
  <2> DEFINE first == Firsts(order, k - 1)
             a == Mass(l, first)
             x == Mass(l, lost)
             whole == Mass(l, Vocab)
             w == Whole
  <2>3. k \in Vocab /\ k - 1 \in 0 .. VocabSize
    BY <1>1, <1>10, <2>2
  <2>4. first \in SUBSET Vocab
    BY <1>2, <2>3
  <2>5. first \cap lost = {}
    <3> SUFFICES ASSUME NEW t \in first, t \in lost PROVE FALSE
      OBVIOUS
    <3>1. PICK j \in 1 .. k - 1 : order[j] = t
      BY DEF Firsts
    <3>2. PICK i \in drop : i \in Vocab /\ order[i] = t
      BY <1>8
    <3>3. j \in Vocab
      BY <1>1, <2>3
    <3>4. i = j
      BY <1>2, <3>1, <3>2, <3>3
    <3> QED BY <1>1, <2>2, <2>3, <3>1, <3>2, <3>4
  <2>6. a + x <= whole
    BY <1>9, <1>11, <2>4, <2>5
  <2>7. a * w > (w - 1) * whole
    BY <1>10, <2>2
  <2>8. a \in Nat /\ x \in Nat /\ whole \in Nat /\ w \in Nat \ {0}
    BY <1>3, <1>9, <2>4
  <2> HIDE DEF first, a, x, whole, w
  <2>9. w * (a + x) <= w * whole
    <3>1. a + x \in Nat
      BY <2>8
    <3> QED BY <2>6, <2>8, <3>1, Times
  <2>10. /\ w * (a + x) = a * w + x * w
         /\ (w - 1) * whole = w * whole - whole
    BY <2>8
  <2>11. a * w \in Int /\ x * w \in Int /\ w * whole \in Int
    BY <2>8
  <2>12. x * w < whole
    BY <2>7, <2>8, <2>9, <2>10, <2>11
  <2> QED BY <1>7, <2>12 DEF x, w, whole, l, lost
<1> QED BY <1>12, <1>13

\* What the other rows of a batch ask for costs a row nothing but the rounding: its
\* noise and the tokens its logprobs name are its own, and so are its tokens,
\* but for a tail lighter than the rounding when it has no top_p of its own
\* (sampler.py:8-10, 126-135).
THEOREM NeighboursCostOnlyRounding == SamplerSpec => []NeighboursTakeOnlyRounding
<1>1. SamplerInv => NeighboursTakeOnlyRounding
  <2> SUFFICES ASSUME SamplerInv, NEW i \in DOMAIN result
               PROVE  LET alone == SampleRow(<<rows[i]>>, rows[i], sorts[i])
                          lost == alone.tokens \ result[i].tokens
                      IN  /\ result[i].noise = alone.noise
                          /\ result[i].top = alone.top
                          /\ result[i].tokens \subseteq alone.tokens
                          /\ ~Greedy(rows[i]) =>
                             /\ rows[i].topP < Whole => lost = {}
                             /\ Mass(Scaled(rows[i]), lost) * Whole < Mass(Scaled(rows[i]), Vocab)
    BY DEF NeighboursTakeOnlyRounding
  <2> DEFINE row == rows[i]
             sort == sorts[i]
             order == sort.scaled
             one == <<row>>
             alone == SampleRow(one, row, sort)
             got == result[i]
             drop == Dropped(rows, row, sort)
             drop1 == Dropped(one, row, sort)
             own == Own(row, order, drop)
             own1 == Own(row, order, drop1)
  <2>1. /\ i \in DOMAIN rows /\ RowOK(row) /\ SortOK(row, sort)
        /\ order \in Orders /\ Descends(Scaled(row), order)
        /\ got = SampleRow(rows, row, sort)
    BY DEF SamplerInv, SortOK
  <2>2. /\ ~Greedy(row) => got.tokens = own
        /\ Greedy(row) => got.tokens = IF FastPath(rows) THEN Maximal(Scaled(row), Vocab)
                                       ELSE Maximal(Scaled(row), own)
        /\ got.noise = IF Greedy(row) THEN "none" ELSE IF row.seeded THEN "own" ELSE "engine"
        /\ got.top = TopLogprobs(rows, row, sort.raw)
    BY <2>1, SampledTokens
  <2>3. DOMAIN one = {1} /\ one[1] = row
    OBVIOUS
  <2> HIDE DEF one
  <2>4. 1 \in DOMAIN one /\ RowOK(one[1]) /\ SortOK(one[1], sort)
    BY <2>1, <2>3
  <2>5. SampleRow(one, one[1], sort) = alone /\ Dropped(one, one[1], sort) = drop1
    BY <2>3
  <2> HIDE DEF alone, drop, drop1
  <2>6. /\ ~Greedy(row) => alone.tokens = own1
        /\ Greedy(row) => alone.tokens = IF FastPath(one) THEN Maximal(Scaled(row), Vocab)
                                         ELSE Maximal(Scaled(row), own1)
        /\ alone.noise = IF Greedy(row) THEN "none" ELSE IF row.seeded THEN "own" ELSE "engine"
        /\ alone.top = TopLogprobs(one, row, sort.raw)
    BY <2>1, <2>3, <2>4, <2>5, SampledTokens
  <2>7. FastPath(rows) => FastPath(one)
    BY <2>1, <2>3 DEF FastPath
  <2>8. TopLogprobs(one, row, sort.raw) = TopLogprobs(rows, row, sort.raw)
    BY DEF TopLogprobs
  <2>9. DropOK(row, order, drop) /\ DropOK(row, order, drop1)
    <3>1. DropOK(row, order, drop)
      BY <2>1, DroppedLemma DEF drop
    <3>2. DropOK(one[1], sort.scaled, Dropped(one, one[1], sort))
      BY <2>4, DroppedLemma
    <3> QED BY <2>3, <2>5, <3>1, <3>2
  <2>10. row.topP \in 1 .. Whole /\ Whole \in Nat
    BY <2>1, RowFacts
  <2>11. row.topP < Whole => drop = drop1
    BY <2>1, <2>3 DEF Dropped, AnyTopP, drop, drop1
  <2>12. row.topP = Whole => drop1 = {}
    BY <2>3, <2>10 DEF Dropped, AnyTopP, drop1
  <2>13. 0 * Whole < Mass(Scaled(row), Vocab) /\ Mass(Scaled(row), {}) = 0
    BY <2>1, <2>10, RowFacts
  <2> HIDE DEF row, sort, order, got
  <2>14. /\ own \subseteq own1
         /\ row.topP < Whole => own1 \ own = {}
         /\ Mass(Scaled(row), own1 \ own) * Whole < Mass(Scaled(row), Vocab)
    <3>1. CASE row.topP < Whole
      <4>1. own = own1 /\ own1 \ own = {}
        BY <2>11, <3>1
      <4> QED BY <2>13, <4>1
    <3>2. CASE row.topP = Whole
      <4>1. /\ own \subseteq Own(row, order, {})
            /\ Mass(Scaled(row), Own(row, order, {}) \ own) * Whole < Mass(Scaled(row), Vocab)
        BY <2>1, <2>9, <3>2, LostLemma
      <4> QED BY <2>10, <2>12, <3>2, <4>1
    <3> QED BY <2>10, <3>1, <3>2
  <2>15. /\ order[1] \in Maximal(Scaled(row), own) /\ order[1] \in own1
         /\ own \subseteq Vocab /\ own1 \subseteq Vocab
         /\ Maximal(Scaled(row), own) \subseteq Maximal(Scaled(row), Vocab)
    <3>1. 1 \notin drop /\ 1 \notin drop1
      BY <2>9 DEF DropOK
    <3>2. order[1] \in Maximal(Scaled(row), own1)
      BY <2>1, <3>1, GreedyOwn
    <3> QED BY <2>1, <3>1, <3>2, GreedyOwn DEF Maximal
  <2> HIDE DEF own, own1
  <2>16. Maximal(Scaled(row), own) \subseteq Maximal(Scaled(row), own1)
    <3>1. Maximal(Scaled(row), own) \subseteq own1
      BY <2>14 DEF Maximal
    <3> QED BY <2>15, <3>1 DEF Maximal
  <2>17. got.noise = alone.noise /\ got.top = alone.top
    BY <2>2, <2>6, <2>8
  <2>18. Greedy(row) => got.tokens \subseteq alone.tokens
    BY <2>2, <2>6, <2>7, <2>15, <2>16
  <2>19. ~Greedy(row) => got.tokens = own /\ alone.tokens = own1
    BY <2>2, <2>6
  <2> QED BY <2>14, <2>17, <2>18, <2>19 DEF row, sort, alone, got, one
<1> QED BY <1>1, SamplerIsInductive, PTL
=============================================================================
