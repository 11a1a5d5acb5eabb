--------------------------- MODULE SequenceLemmas ----------------------------
(***************************************************************************)
(* Facts about the sequences of the models (the free queue, block tables,  *)
(* the running list, the outputs of a batch): which elements they hold,    *)
(* and that an operation keeps them free of repetitions.  Before them,     *)
(* induction and recursion over the natural numbers, stated for sets and   *)
(* functions instead of operators, so that the provers can use them, and   *)
(* the running totals of PartialSums.                                      *)
(***************************************************************************)
EXTENDS Integers, Sequences, SequencesExt, PartialSums, FiniteSetTheorems, WellFoundedInduction, TLAPS

-----------------------------------------------------------------------------
(* Induction. *)

\* A set of natural numbers has a least one.
LEMMA LeastNatural ==
  ASSUME NEW T \in SUBSET Nat, T # {}
  PROVE  \E m \in T : \A k \in T : m <= k
<1> DEFINE F == {0 .. n : n \in T}
<1>1. F \subseteq FiniteSubsetsOf(Nat) /\ F # {}
  <2>1. \A n \in T : 0 .. n \in SUBSET Nat /\ IsFiniteSet(0 .. n)
    BY FS_Interval
  <2> QED BY <2>1 DEF FiniteSubsetsOf
<1>2. IsWellFoundedOn(StrictSubsetOrdering(Nat), FiniteSubsetsOf(Nat))
  BY FS_StrictSubsetOrderingWellFounded
<1> HIDE DEF F
<1>3. PICK x \in F : \A y \in F : ~(<<y, x>> \in StrictSubsetOrdering(Nat))
  BY <1>1, <1>2, WFMin
<1> USE DEF F
<1>4. PICK m \in T : x = 0 .. m
  OBVIOUS
<1>5. \A k \in T : m <= k
  <2> SUFFICES ASSUME NEW k \in T, ~(m <= k) PROVE FALSE
    OBVIOUS
  <2>1. 0 .. k \in F /\ 0 .. k \in SUBSET Nat /\ 0 .. m \in SUBSET Nat
    OBVIOUS
  <2>2. m \in Nat /\ k \in Nat /\ k < m
    OBVIOUS
  <2>3. (0 .. k) \subseteq 0 .. m /\ 0 .. k # 0 .. m
    <3>1. m \in 0 .. m /\ m \notin 0 .. k
      BY <2>2
    <3> QED BY <2>2, <3>1
  <2>4. <<0 .. k, 0 .. m>> \in StrictSubsetOrdering(Nat)
    BY <2>1, <2>3 DEF StrictSubsetOrdering
  <2> QED BY <1>3, <1>4, <2>1, <2>4
<1> QED BY <1>5

\* Induction over the natural numbers, for a property given as a set.
LEMMA SetInduction ==
  ASSUME NEW A, 0 \in A, \A n \in Nat : n \in A => n + 1 \in A
  PROVE  \A n \in Nat : n \in A
<1> SUFFICES ASSUME Nat \ A # {} PROVE FALSE
  OBVIOUS
<1>1. PICK m \in Nat \ A : \A k \in Nat \ A : m <= k
  BY LeastNatural
<1>2. m - 1 \in Nat /\ m - 1 \in A
  BY <1>1
<1> QED BY <1>2

\* A function over an interval can be defined by recursion.
LEMMA Recursion ==
  ASSUME NEW S, NEW c \in S, NEW n \in Nat, NEW step \in [1 .. n -> [S -> S]]
  PROVE  \E f \in [0 .. n -> S] : f[0] = c /\ \A i \in 1 .. n : f[i] = step[i][f[i - 1]]
<1> DEFINE Upto(k) == \E f \in [0 .. k -> S] : f[0] = c /\ \A i \in 1 .. k : f[i] = step[i][f[i - 1]]
           A == {k \in Nat : k <= n => Upto(k)}
<1>1. 0 \in A
  <2> DEFINE f == [i \in 0 .. 0 |-> c]
  <2>1. f \in [0 .. 0 -> S] /\ f[0] = c /\ \A i \in 1 .. 0 : f[i] = step[i][f[i - 1]]
    OBVIOUS
  <2> QED BY <2>1
<1>2. ASSUME NEW k \in Nat, k \in A PROVE k + 1 \in A
  <2> SUFFICES ASSUME k + 1 <= n PROVE Upto(k + 1)
    OBVIOUS
  <2>1. PICK f \in [0 .. k -> S] : f[0] = c /\ \A i \in 1 .. k : f[i] = step[i][f[i - 1]]
    BY <1>2
  <2> DEFINE g == [i \in 0 .. k + 1 |-> IF i = k + 1 THEN step[k + 1][f[k]] ELSE f[i]]
  <2>2. step[k + 1][f[k]] \in S
    <3>1. k + 1 \in 1 .. n /\ k \in 0 .. k
      OBVIOUS
    <3> QED BY <3>1
  <2>3. g \in [0 .. k + 1 -> S]
    <3>1. \A i \in 0 .. k + 1 : i # k + 1 => i \in 0 .. k
      OBVIOUS
    <3> QED BY <2>2, <3>1
  <2>4. \A i \in 0 .. k : g[i] = f[i]
    OBVIOUS
  <2>5. g[0] = c
    BY <2>1
  <2>6. \A i \in 1 .. k + 1 : g[i] = step[i][g[i - 1]]
    <3> SUFFICES ASSUME NEW i \in 1 .. k + 1 PROVE g[i] = step[i][g[i - 1]]
      OBVIOUS
    <3>1. i - 1 \in 0 .. k /\ g[i - 1] = f[i - 1]
      BY <2>4
    <3>2. CASE i = k + 1
      BY <3>1, <3>2
    <3>3. CASE i # k + 1
      <4>1. i \in 1 .. k /\ i \in 0 .. k
        BY <3>3
      <4> QED BY <2>1, <2>4, <3>1, <4>1
    <3> QED BY <3>2, <3>3
  <2> HIDE DEF g
  <2> QED BY <2>3, <2>5, <2>6
<1> HIDE DEF A
<1>3. \A k \in Nat : k \in A
  BY <1>1, <1>2, SetInduction
<1> USE DEF A
<1> QED BY <1>3

\* The numbers up to n in strictly increasing order are themselves.
LEMMA StrictlyIncreasing ==
  ASSUME NEW n \in Nat, NEW g \in [1 .. n -> 1 .. n], \A i, j \in 1 .. n : i < j => g[i] < g[j]
  PROVE  \A i \in 1 .. n : g[i] = i
<1> DEFINE A == {k \in Nat : k + 1 <= n => g[k + 1] >= k + 1}
           B == {k \in Nat : k < n => g[n - k] <= n - k}
<1>1. \A k \in Nat : k \in A
  <2>1. 0 \in A
    OBVIOUS
  <2>2. ASSUME NEW k \in Nat, k \in A PROVE k + 1 \in A
    <3> SUFFICES ASSUME k + 2 <= n PROVE g[k + 2] >= k + 2
      OBVIOUS
    <3>1. k + 1 \in 1 .. n /\ k + 2 \in 1 .. n /\ g[k + 1] >= k + 1
      BY <2>2
    <3>2. g[k + 1] < g[k + 2] /\ g[k + 1] \in Int /\ g[k + 2] \in Int
      BY <3>1
    <3> QED BY <3>1, <3>2
  <2> HIDE DEF A
  <2> QED BY <2>1, <2>2, SetInduction
<1>2. \A k \in Nat : k \in B
  <2>1. 0 \in B
    OBVIOUS
  <2>2. ASSUME NEW k \in Nat, k \in B PROVE k + 1 \in B
    <3> SUFFICES ASSUME k + 1 < n PROVE g[n - (k + 1)] <= n - (k + 1)
      OBVIOUS
    <3>1. n - k \in 1 .. n /\ n - (k + 1) \in 1 .. n /\ g[n - k] <= n - k
      BY <2>2
    <3>2. g[n - (k + 1)] < g[n - k] /\ g[n - (k + 1)] \in Int /\ g[n - k] \in Int
      BY <3>1
    <3> QED BY <3>1, <3>2
  <2> HIDE DEF B
  <2> QED BY <2>1, <2>2, SetInduction
<1> QED
  <2> SUFFICES ASSUME NEW i \in 1 .. n PROVE g[i] = i
    OBVIOUS
  <2>1. i - 1 \in A /\ n - i \in B
    <3>1. i - 1 \in Nat /\ n - i \in Nat
      OBVIOUS
    <3> HIDE DEF A, B
    <3> QED BY <1>1, <1>2, <3>1
  <2>2. g[i] >= i
    BY <2>1
  <2>3. g[i] <= i
    <3>1. n - (n - i) = i
      OBVIOUS
    <3> QED BY <2>1, <3>1
  <2> QED BY <2>2, <2>3

-----------------------------------------------------------------------------
(* Sequences. *)

\* The elements of a sequence, by position.
LEMMA RangeOfSequence ==
  ASSUME NEW S, NEW s \in Seq(S), NEW x
  PROVE  x \in Range(s) <=> \E i \in 1 .. Len(s) : s[i] = x
BY DEF Range

\* A sequence is injective when it has no repetition.
LEMMA InjectiveSequence ==
  ASSUME NEW S, NEW s \in Seq(S)
  PROVE  IsInjective(s) <=> \A i, j \in 1 .. Len(s) : s[i] = s[j] => i = j
BY DEF IsInjective

\* Appending adds one element, and a new element keeps the sequence injective.
LEMMA AppendLemma ==
  ASSUME NEW S, NEW s \in Seq(S), NEW x \in S
  PROVE  /\ Append(s, x) \in Seq(S)
         /\ Len(Append(s, x)) = Len(s) + 1
         /\ Range(Append(s, x)) = Range(s) \cup {x}
         /\ IsInjective(s) /\ x \notin Range(s) => IsInjective(Append(s, x))
<1> DEFINE t == Append(s, x)
<1>1. /\ t \in Seq(S) /\ Len(t) = Len(s) + 1 /\ Len(s) \in Nat
      /\ t[Len(s) + 1] = x
      /\ \A i \in 1 .. Len(s) : t[i] = s[i]
  OBVIOUS
<1> HIDE DEF t
<1>2. ASSUME NEW y PROVE y \in Range(t) <=> y \in Range(s) \cup {x}
  BY <1>1, RangeOfSequence
<1>3. ASSUME IsInjective(s), x \notin Range(s) PROVE IsInjective(t)
  BY <1>1, <1>3, RangeOfSequence, InjectiveSequence
<1> QED BY <1>1, <1>2, <1>3 DEF t

\* The tail from position n + 1 on holds exactly the elements that are not
\* among the first n, when the sequence has no repetition.
LEMMA DropLemma ==
  ASSUME NEW S, NEW s \in Seq(S), NEW n \in 0 .. Len(s)
  PROVE  LET t == SubSeq(s, n + 1, Len(s))
         IN  /\ t \in Seq(S)
             /\ Len(t) = Len(s) - n
             /\ Range(t) \subseteq Range(s)
             /\ IsInjective(s) =>
                  /\ IsInjective(t)
                  /\ Range(t) = Range(s) \ {s[i] : i \in 1 .. n}
<1> DEFINE t == SubSeq(s, n + 1, Len(s))
<1>1. /\ t \in Seq(S) /\ Len(t) = Len(s) - n /\ Len(s) \in Nat
      /\ \A i \in 1 .. Len(t) : t[i] = s[i + n] /\ i + n \in 1 .. Len(s)
  OBVIOUS
<1> HIDE DEF t
<1>2. Range(t) \subseteq Range(s)
  BY <1>1, RangeOfSequence
<1>3. ASSUME IsInjective(s) PROVE IsInjective(t)
  <2>1. \A i, j \in 1 .. Len(s) : s[i] = s[j] => i = j
    BY <1>3, InjectiveSequence
  <2>2. ASSUME NEW i \in 1 .. Len(t), NEW j \in 1 .. Len(t), t[i] = t[j] PROVE i = j
    <3>1. s[i + n] = s[j + n] /\ i + n \in 1 .. Len(s) /\ j + n \in 1 .. Len(s)
      BY <1>1, <2>2
    <3>2. i + n = j + n
      BY <2>1, <3>1
    <3> QED BY <1>1, <3>2
  <2> QED BY <1>1, <2>2, InjectiveSequence
<1>4. ASSUME IsInjective(s), NEW y
      PROVE  y \in Range(t) <=> y \in Range(s) \ {s[i] : i \in 1 .. n}
  <2>1. ASSUME y \in Range(t) PROVE y \notin {s[i] : i \in 1 .. n}
    <3>1. PICK j \in 1 .. Len(t) : t[j] = y
      BY <1>1, <2>1, RangeOfSequence
    <3>2. ASSUME NEW i \in 1 .. n, s[i] = y PROVE FALSE
      <4>1. s[j + n] = s[i] /\ j + n \in 1 .. Len(s) /\ i \in 1 .. Len(s)
        BY <1>1, <3>1, <3>2
      <4> QED BY <1>1, <1>4, <4>1, InjectiveSequence
    <3> QED BY <3>2
  <2>2. ASSUME y \in Range(s), y \notin {s[i] : i \in 1 .. n} PROVE y \in Range(t)
    <3>1. PICK k \in 1 .. Len(s) : s[k] = y
      BY <2>2, RangeOfSequence
    <3>2. k > n
      BY <1>1, <2>2, <3>1
    <3>3. k - n \in 1 .. Len(t) /\ t[k - n] = y
      BY <1>1, <3>1, <3>2
    <3> QED BY <1>1, <3>3, RangeOfSequence
  <2> QED BY <1>2, <2>1, <2>2
<1> QED BY <1>1, <1>2, <1>3, <1>4 DEF t

\* The front of a sequence keeps the positions of its elements.
LEMMA TakeLemma ==
  ASSUME NEW S, NEW s \in Seq(S), NEW n \in 0 .. Len(s)
  PROVE  LET t == SubSeq(s, 1, n)
         IN  /\ t \in Seq(S)
             /\ Len(t) = n
             /\ \A i \in 1 .. n : t[i] = s[i]
             /\ Range(t) = {s[i] : i \in 1 .. n}
             /\ IsInjective(s) => IsInjective(t)
<1> DEFINE t == SubSeq(s, 1, n)
<1>1. /\ t \in Seq(S) /\ Len(t) = n /\ Len(s) \in Nat
      /\ \A i \in 1 .. n : t[i] = s[i] /\ i \in 1 .. Len(s)
  OBVIOUS
<1> HIDE DEF t
<1>2. Range(t) = {s[i] : i \in 1 .. n}
  BY <1>1, RangeOfSequence
<1>3. ASSUME IsInjective(s) PROVE IsInjective(t)
  <2>1. \A i, j \in 1 .. Len(s) : s[i] = s[j] => i = j
    BY <1>3, InjectiveSequence
  <2>2. \A i, j \in 1 .. Len(t) : t[i] = t[j] => i = j
    BY <1>1, <2>1
  <2> QED BY <1>1, <2>2, InjectiveSequence
<1> QED BY <1>1, <1>2, <1>3 DEF t

\* Without its last element, a sequence without repetition lacks just that.
LEMMA FrontLemma ==
  ASSUME NEW S, NEW s \in Seq(S), s # << >>
  PROVE  /\ Last(s) \in S
         /\ Front(s) \in Seq(S)
         /\ Len(Front(s)) = Len(s) - 1
         /\ \A i \in 1 .. Len(s) - 1 : Front(s)[i] = s[i]
         /\ Range(s) = Range(Front(s)) \cup {Last(s)}
         /\ IsInjective(s) => IsInjective(Front(s)) /\ Last(s) \notin Range(Front(s))
<1> DEFINE m == Len(s) - 1
<1>1. m \in 0 .. Len(s) /\ Len(s) \in Nat /\ m + 1 \in 1 .. Len(s) /\ m + 1 = Len(s)
  OBVIOUS
<1>2. Front(s) = SubSeq(s, 1, m) /\ Last(s) = s[m + 1]
  BY <1>1 DEF Front, Last
<1> HIDE DEF m
<1>3. /\ Front(s) \in Seq(S) /\ Len(Front(s)) = m
      /\ \A i \in 1 .. m : Front(s)[i] = s[i]
      /\ Range(Front(s)) = {s[i] : i \in 1 .. m}
      /\ IsInjective(s) => IsInjective(Front(s))
  BY <1>1, <1>2, TakeLemma
<1>4. Range(s) = Range(Front(s)) \cup {Last(s)}
  <2>1. ASSUME NEW y PROVE y \in Range(s) <=> y \in {s[i] : i \in 1 .. m} \/ y = s[m + 1]
    <3>1. \A i : i \in 1 .. Len(s) <=> i \in 1 .. m \/ i = m + 1
      BY <1>1
    <3> QED BY <3>1, RangeOfSequence
  <2> QED BY <1>2, <1>3, <2>1
<1>5. ASSUME IsInjective(s) PROVE Last(s) \notin Range(Front(s))
  <2>1. \A i \in 1 .. m : i \in 1 .. Len(s) /\ i # m + 1
    BY <1>1
  <2> QED BY <1>1, <1>2, <1>3, <1>5, <2>1, InjectiveSequence
<1> QED BY <1>1, <1>2, <1>3, <1>4, <1>5 DEF m

\* Without its first element, a sequence without repetition lacks just that.
LEMMA TailLemma ==
  ASSUME NEW S, NEW s \in Seq(S), s # << >>
  PROVE  /\ Head(s) \in S
         /\ Tail(s) \in Seq(S)
         /\ Range(s) = Range(Tail(s)) \cup {Head(s)}
         /\ IsInjective(s) => IsInjective(Tail(s)) /\ Head(s) \notin Range(Tail(s))
<1> DEFINE t == Tail(s)
<1>1. /\ 1 \in 1 .. Len(s) /\ Len(s) \in Nat /\ Head(s) = s[1]
      /\ t \in Seq(S) /\ Len(t) = Len(s) - 1
      /\ \A i \in 1 .. Len(t) : t[i] = s[i + 1] /\ i + 1 \in 1 .. Len(s)
  OBVIOUS
<1> HIDE DEF t
<1>2. ASSUME NEW y PROVE y \in Range(s) <=> y \in Range(t) \/ y = s[1]
  <2>1. ASSUME y \in Range(s), y # s[1] PROVE y \in Range(t)
    <3>1. PICK i \in 1 .. Len(s) : s[i] = y
      BY <2>1, RangeOfSequence
    <3>2. i - 1 \in 1 .. Len(t) /\ t[i - 1] = y
      BY <1>1, <2>1, <3>1
    <3> QED BY <1>1, <3>2, RangeOfSequence
  <2>2. ASSUME y \in Range(t) PROVE y \in Range(s)
    <3>1. PICK i \in 1 .. Len(t) : t[i] = y
      BY <1>1, <2>2, RangeOfSequence
    <3> QED BY <1>1, <3>1, RangeOfSequence
  <2>3. s[1] \in Range(s)
    BY <1>1, RangeOfSequence
  <2> QED BY <2>1, <2>2, <2>3
<1>3. ASSUME IsInjective(s) PROVE IsInjective(t) /\ s[1] \notin Range(t)
  <2>1. \A i, j \in 1 .. Len(s) : s[i] = s[j] => i = j
    BY <1>3, InjectiveSequence
  <2>2. ASSUME NEW i \in 1 .. Len(t), NEW j \in 1 .. Len(t), t[i] = t[j] PROVE i = j
    <3>1. s[i + 1] = s[j + 1] /\ i + 1 \in 1 .. Len(s) /\ j + 1 \in 1 .. Len(s)
      BY <1>1, <2>2
    <3>2. i + 1 = j + 1
      BY <2>1, <3>1
    <3> QED BY <1>1, <3>2
  <2>3. ASSUME NEW i \in 1 .. Len(t), t[i] = s[1] PROVE FALSE
    <3>1. i + 1 = 1
      BY <1>1, <2>1, <2>3
    <3> QED BY <1>1, <3>1
  <2> QED BY <1>1, <2>2, <2>3, InjectiveSequence, RangeOfSequence
<1> QED BY <1>1, <1>2, <1>3 DEF t

\* A concatenation holds the elements of both parts; disjoint parts without
\* repetition make a whole without repetition.
LEMMA ConcatLemma ==
  ASSUME NEW S, NEW s \in Seq(S), NEW t \in Seq(S)
  PROVE  /\ s \o t \in Seq(S)
         /\ Len(s \o t) = Len(s) + Len(t)
         /\ \A i \in 1 .. Len(s) : (s \o t)[i] = s[i]
         /\ \A i \in 1 .. Len(t) : (s \o t)[Len(s) + i] = t[i]
         /\ Range(s \o t) = Range(s) \cup Range(t)
         /\ IsInjective(s) /\ IsInjective(t) /\ Range(s) \cap Range(t) = {}
               => IsInjective(s \o t)
<1> DEFINE u == s \o t
<1>1. /\ u \in Seq(S) /\ Len(u) = Len(s) + Len(t) /\ Len(s) \in Nat /\ Len(t) \in Nat
      /\ \A i \in 1 .. Len(s) : u[i] = s[i]
      /\ \A i \in 1 .. Len(t) : u[Len(s) + i] = t[i]
  OBVIOUS
<1> HIDE DEF u
<1>2. ASSUME NEW i \in 1 .. Len(u)
      PROVE  \/ i \in 1 .. Len(s) /\ u[i] = s[i]
             \/ i - Len(s) \in 1 .. Len(t) /\ u[i] = t[i - Len(s)]
  <2>1. CASE i <= Len(s)
    BY <1>1, <2>1
  <2>2. CASE i > Len(s)
    <3>1. i - Len(s) \in 1 .. Len(t)
      BY <1>1, <2>2
    <3>2. u[Len(s) + (i - Len(s))] = t[i - Len(s)]
      BY <1>1, <3>1
    <3>3. Len(s) + (i - Len(s)) = i
      BY <1>1
    <3> QED BY <3>1, <3>2, <3>3
  <2> QED BY <1>1, <2>1, <2>2
<1>3. ASSUME NEW y \in Range(u) PROVE y \in Range(s) \cup Range(t)
  BY <1>1, <1>2, RangeOfSequence
<1>4. ASSUME NEW y \in Range(s) PROVE y \in Range(u)
  BY <1>1, RangeOfSequence
<1>5. ASSUME NEW y \in Range(t) PROVE y \in Range(u)
  <2>1. PICK k \in 1 .. Len(t) : t[k] = y
    BY RangeOfSequence
  <2>2. Len(s) + k \in 1 .. Len(u) /\ u[Len(s) + k] = y
    BY <1>1, <2>1
  <2> QED BY <1>1, <2>2, RangeOfSequence
<1>6. ASSUME IsInjective(s), IsInjective(t), Range(s) \cap Range(t) = {}
      PROVE  IsInjective(u)
  <2>1. /\ \A i, j \in 1 .. Len(s) : s[i] = s[j] => i = j
        /\ \A i, j \in 1 .. Len(t) : t[i] = t[j] => i = j
        /\ \A i \in 1 .. Len(s), j \in 1 .. Len(t) : s[i] # t[j]
    BY <1>6, InjectiveSequence, RangeOfSequence
  <2>2. ASSUME NEW i \in 1 .. Len(u), NEW j \in 1 .. Len(u), u[i] = u[j] PROVE i = j
    <3>1. CASE i \in 1 .. Len(s) /\ u[i] = s[i]
      <4>1. CASE j \in 1 .. Len(s) /\ u[j] = s[j]
        BY <2>1, <2>2, <3>1, <4>1
      <4>2. CASE j - Len(s) \in 1 .. Len(t) /\ u[j] = t[j - Len(s)]
        BY <2>1, <2>2, <3>1, <4>2
      <4> QED BY <1>2, <4>1, <4>2
    <3>2. CASE i - Len(s) \in 1 .. Len(t) /\ u[i] = t[i - Len(s)]
      <4>1. CASE j \in 1 .. Len(s) /\ u[j] = s[j]
        BY <2>1, <2>2, <3>2, <4>1
      <4>2. CASE j - Len(s) \in 1 .. Len(t) /\ u[j] = t[j - Len(s)]
        <5>1. i - Len(s) = j - Len(s)
          BY <2>1, <2>2, <3>2, <4>2
        <5> QED BY <1>1, <5>1
      <4> QED BY <1>2, <4>1, <4>2
    <3> QED BY <1>2, <3>1, <3>2
  <2> QED BY <1>1, <2>2, InjectiveSequence
<1> QED BY <1>1, <1>3, <1>4, <1>5, <1>6 DEF u

\* Removing the i-th element of a sequence shifts the later ones down by one.
LEMMA RemoveAtPositions ==
  ASSUME NEW S, NEW s \in Seq(S), NEW i \in 1 .. Len(s)
  PROVE  /\ RemoveAt(s, i) \in Seq(S)
         /\ Len(RemoveAt(s, i)) = Len(s) - 1
         /\ \A j \in 1 .. Len(s) - 1 :
               /\ j < i => RemoveAt(s, i)[j] = s[j]
               /\ j >= i => RemoveAt(s, i)[j] = s[j + 1]
<1> DEFINE a == SubSeq(s, 1, i - 1)
           z == SubSeq(s, i + 1, Len(s))
<1>1. a \in Seq(S) /\ Len(a) = i - 1 /\ \A j \in 1 .. i - 1 : a[j] = s[j]
  OBVIOUS
<1>2. z \in Seq(S) /\ Len(z) = Len(s) - i /\ \A j \in 1 .. Len(s) - i : z[j] = s[j + i]
  OBVIOUS
<1>3. RemoveAt(s, i) = a \o z
  BY DEF RemoveAt
<1> HIDE DEF a, z
<1>4. a \o z \in Seq(S) /\ Len(a \o z) = Len(s) - 1
  <2>1. a \o z \in Seq(S) /\ Len(a \o z) = Len(a) + Len(z)
    BY <1>1, <1>2, ConcatLemma
  <2> QED BY <1>1, <1>2, <2>1
<1>5. ASSUME NEW j \in 1 .. Len(s) - 1
      PROVE  /\ j < i => (a \o z)[j] = s[j]
             /\ j >= i => (a \o z)[j] = s[j + 1]
  <2>1. (a \o z)[j] = IF j <= Len(a) THEN a[j] ELSE z[j - Len(a)]
    BY <1>1, <1>2
  <2>2. CASE j < i
    BY <1>1, <2>1, <2>2
  <2>3. CASE j >= i
    <3>1. j - (i - 1) \in 1 .. Len(s) - i
      BY <2>3
    <3>2. z[j - (i - 1)] = s[j - (i - 1) + i]
      BY <1>2, <3>1
    <3> QED BY <1>1, <2>1, <2>3, <3>2
  <2> QED BY <2>2, <2>3
<1> QED BY <1>3, <1>4, <1>5

\* Removing the i-th element of a sequence without repetition removes exactly
\* that element.
LEMMA RemoveAtLemma ==
  ASSUME NEW S, NEW s \in Seq(S), NEW i \in 1 .. Len(s), IsInjective(s)
  PROVE  /\ RemoveAt(s, i) \in Seq(S)
         /\ Len(RemoveAt(s, i)) = Len(s) - 1
         /\ Range(RemoveAt(s, i)) = Range(s) \ {s[i]}
         /\ IsInjective(RemoveAt(s, i))
<1> DEFINE t == RemoveAt(s, i)
<1>1. /\ t \in Seq(S) /\ Len(t) = Len(s) - 1 /\ Len(s) \in Nat
      /\ \A j \in 1 .. Len(t) : j < i => t[j] = s[j] /\ j \in 1 .. Len(s)
      /\ \A j \in 1 .. Len(t) : j >= i => t[j] = s[j + 1] /\ j + 1 \in 1 .. Len(s)
  <2>1. Len(s) \in Nat /\ i \in 1 .. Len(s)
    OBVIOUS
  <2>2. /\ t \in Seq(S) /\ Len(t) = Len(s) - 1
        /\ \A j \in 1 .. Len(s) - 1 : (j < i => t[j] = s[j]) /\ (j >= i => t[j] = s[j + 1])
    BY RemoveAtPositions
  <2> HIDE DEF t
  <2> QED BY <2>1, <2>2
<1> HIDE DEF t
<1>2. \A j, k \in 1 .. Len(s) : s[j] = s[k] => j = k
  BY InjectiveSequence
<1>3. IsInjective(t)
  <2> SUFFICES ASSUME NEW j \in 1 .. Len(t), NEW k \in 1 .. Len(t), t[j] = t[k]
               PROVE  j = k
    BY <1>1, InjectiveSequence
  <2>1. CASE j < i /\ k < i
    BY <1>1, <1>2, <2>1
  <2>2. CASE j < i /\ k >= i
    BY <1>1, <1>2, <2>2
  <2>3. CASE j >= i /\ k < i
    BY <1>1, <1>2, <2>3
  <2>4. CASE j >= i /\ k >= i
    BY <1>1, <1>2, <2>4
  <2> QED BY <2>1, <2>2, <2>3, <2>4
<1>4. ASSUME NEW y \in Range(t) PROVE y \in Range(s) \ {s[i]}
  <2>1. PICK j \in 1 .. Len(t) : t[j] = y
    BY <1>1, RangeOfSequence
  <2>2. CASE j < i
    BY <1>1, <1>2, <2>1, <2>2, RangeOfSequence
  <2>3. CASE j >= i
    BY <1>1, <1>2, <2>1, <2>3, RangeOfSequence
  <2> QED BY <2>2, <2>3
<1>5. ASSUME NEW y \in Range(s) \ {s[i]} PROVE y \in Range(t)
  <2>1. PICK k \in 1 .. Len(s) : s[k] = y /\ k # i
    BY RangeOfSequence
  <2>2. CASE k < i
    <3>1. k \in 1 .. Len(t) /\ t[k] = y
      BY <1>1, <2>1, <2>2
    <3> QED BY <1>1, <3>1, RangeOfSequence
  <2>3. CASE k > i
    <3>1. k - 1 \in 1 .. Len(t) /\ t[k - 1] = y
      BY <1>1, <2>1, <2>3
    <3> QED BY <1>1, <3>1, RangeOfSequence
  <2> QED BY <2>1, <2>2, <2>3
<1> QED BY <1>1, <1>3, <1>4, <1>5 DEF t

\* Reversing keeps the elements, and keeps a sequence injective.
LEMMA ReverseLemma ==
  ASSUME NEW S, NEW s \in Seq(S)
  PROVE  /\ Reverse(s) \in Seq(S)
         /\ Len(Reverse(s)) = Len(s)
         /\ Range(Reverse(s)) = Range(s)
         /\ IsInjective(s) => IsInjective(Reverse(s))
<1> DEFINE t == Reverse(s)
<1>1. /\ t \in Seq(S) /\ Len(t) = Len(s) /\ Len(s) \in Nat
      /\ \A i \in 1 .. Len(s) : t[i] = s[Len(s) - i + 1] /\ Len(s) - i + 1 \in 1 .. Len(s)
  BY DEF Reverse
<1> HIDE DEF t
<1>2. ASSUME NEW y \in Range(t) PROVE y \in Range(s)
  BY <1>1, RangeOfSequence
<1>3. ASSUME NEW y \in Range(s) PROVE y \in Range(t)
  <2>1. PICK k \in 1 .. Len(s) : s[k] = y
    BY RangeOfSequence
  <2>2. Len(s) - k + 1 \in 1 .. Len(t) /\ t[Len(s) - k + 1] = y
    BY <1>1, <2>1
  <2> QED BY <1>1, <2>2, RangeOfSequence
<1>4. ASSUME IsInjective(s) PROVE IsInjective(t)
  <2>1. \A i, j \in 1 .. Len(s) : s[i] = s[j] => i = j
    BY <1>4, InjectiveSequence
  <2>2. ASSUME NEW i \in 1 .. Len(t), NEW j \in 1 .. Len(t), t[i] = t[j] PROVE i = j
    <3>1. Len(s) - i + 1 = Len(s) - j + 1
      BY <1>1, <2>1, <2>2
    <3> QED BY <1>1, <3>1
  <2> QED BY <1>1, <2>2, InjectiveSequence
<1> QED BY <1>1, <1>2, <1>3, <1>4 DEF t

\* What is appended to a sequence is appended to what follows its first part.
LEMMA SubSeqOfAppend ==
  ASSUME NEW S, NEW s \in Seq(S), NEW x \in S, NEW n \in 0 .. Len(s)
  PROVE  SubSeq(Append(s, x), n + 1, Len(Append(s, x))) = Append(SubSeq(s, n + 1, Len(s)), x)
<1> DEFINE t == Append(s, x)
           a == SubSeq(t, n + 1, Len(t))
           b == SubSeq(s, n + 1, Len(s))
           c == Append(b, x)
<1>1. /\ t \in Seq(S) /\ Len(t) = Len(s) + 1 /\ t[Len(s) + 1] = x /\ Len(s) \in Nat
      /\ \A i \in 1 .. Len(s) : t[i] = s[i]
  OBVIOUS
<1>2. /\ b \in Seq(S) /\ Len(b) = Len(s) - n
      /\ \A i \in 1 .. Len(s) - n : b[i] = s[i + n]
  BY <1>1
<1>3. /\ c \in Seq(S) /\ Len(c) = Len(s) - n + 1 /\ c[Len(s) - n + 1] = x
      /\ \A i \in 1 .. Len(s) - n : c[i] = s[i + n]
  BY <1>2
<1> HIDE DEF t
<1>4. /\ a \in Seq(S) /\ Len(a) = Len(s) - n + 1
      /\ \A i \in 1 .. Len(s) - n + 1 : a[i] = t[i + n]
  BY <1>1
<1> HIDE DEF a, b, c
<1>5. ASSUME NEW i \in 1 .. Len(s) - n + 1 PROVE a[i] = c[i]
  <2>1. CASE i = Len(s) - n + 1
    <3>1. i + n = Len(s) + 1
      BY <1>1, <2>1
    <3> QED BY <1>1, <1>3, <1>4, <2>1, <3>1
  <2>2. CASE i # Len(s) - n + 1
    <3>1. i \in 1 .. Len(s) - n /\ i + n \in 1 .. Len(s)
      BY <1>1, <2>2
    <3> QED BY <1>1, <1>3, <1>4, <3>1
  <2> QED BY <2>1, <2>2
<1>6. a = c
  <2> DEFINE m == Len(s) - n + 1
  <2>1. a \in [1 .. m -> S] /\ c \in [1 .. m -> S]
    BY <1>3, <1>4
  <2>2. \A i \in 1 .. m : a[i] = c[i]
    BY <1>5
  <2> HIDE DEF m
  <2>3. a = [i \in 1 .. m |-> a[i]] /\ c = [i \in 1 .. m |-> c[i]]
    BY <2>1
  <2>4. [i \in 1 .. m |-> a[i]] = [i \in 1 .. m |-> c[i]]
    BY <2>2
  <2> QED BY <2>3, <2>4, Zenon
<1> QED BY <1>6 DEF a, b, c, t
\* A sequence without repetition is as long as its set of elements is large.
LEMMA InjectiveLength ==
  ASSUME NEW S, NEW s \in Seq(S), IsInjective(s)
  PROVE  /\ IsFiniteSet(Range(s)) /\ Cardinality(Range(s)) = Len(s)
<1> DEFINE D == 1 .. Len(s)
<1>1. s \in [D -> Range(s)] /\ Len(s) \in Nat
  BY RangeOfSequence
<1>2. \A i, j \in D : s[i] = s[j] => i = j
  BY InjectiveSequence
<1>3. \A x \in Range(s) : \E i \in D : s[i] = x
  BY RangeOfSequence
<1>4. IsFiniteSet(D) /\ Cardinality(D) = Len(s)
  <2>1. 1 \in Int /\ Len(s) \in Int
    BY <1>1
  <2>2. IsFiniteSet(D) /\ Cardinality(D) = IF 1 > Len(s) THEN 0 ELSE Len(s) - 1 + 1
    BY <2>1, FS_Interval
  <2> QED BY <1>1, <2>2
<1>5. s \in Bijection(D, Range(s))
  BY <1>1, <1>2, <1>3 DEF Bijection, Injection, Surjection
<1>6. ExistsBijection(D, Range(s))
  BY <1>5 DEF ExistsBijection
<1> QED BY <1>4, <1>6, FS_Bijection

\* Two sequences without repetitions and with the same elements are equally long.
LEMMA SameElements ==
  ASSUME NEW S, NEW s \in Seq(S), NEW t \in Seq(S), IsInjective(s), IsInjective(t),
         Range(s) = Range(t)
  PROVE  Len(s) = Len(t)
BY InjectiveLength

\* A sequence whose elements are brought into the order they have in another
\* one, of the same elements, becomes that other one.
LEMMA SortByPlace ==
  ASSUME NEW S, NEW s \in Seq(S), NEW t \in Seq(S), IsInjective(s), IsInjective(t),
         Range(s) = Range(t),
         NEW p \in Bijection(1 .. Len(s), 1 .. Len(s)),
         \A i, j \in 1 .. Len(s) : i < j =>
            \A k, l \in 1 .. Len(t) : t[k] = s[p[i]] /\ t[l] = s[p[j]] => k < l
  PROVE  /\ Len(s) = Len(t)
         /\ \A i \in 1 .. Len(s) : s[p[i]] = t[i]
<1> DEFINE n == Len(t)
           D == 1 .. n
<1>1. n \in Nat /\ Len(s) = n
  BY SameElements
<1>2. \A i, j \in D : /\ s[i] = s[j] => i = j
                      /\ t[i] = t[j] => i = j
  BY <1>1, InjectiveSequence
<1>3. \A i \in D : s[i] \in Range(t)
  BY <1>1, RangeOfSequence
<1>4. \A x \in Range(t) : \E i \in D : t[i] = x
  BY RangeOfSequence
<1>5. p \in [D -> D]
  BY <1>1 DEF Bijection, Injection, Surjection
<1> DEFINE g == [i \in D |-> CHOOSE k \in D : t[k] = s[p[i]]]
<1>6. \A i \in D : g[i] \in D /\ t[g[i]] = s[p[i]]
  <2> SUFFICES ASSUME NEW i \in D PROVE g[i] \in D /\ t[g[i]] = s[p[i]]
    OBVIOUS
  <2>1. \E k \in D : t[k] = s[p[i]]
    BY <1>3, <1>4, <1>5
  <2> QED BY <2>1
<1>7. g \in [D -> D]
  BY <1>6
<1> HIDE DEF g
<1>8. \A i, j \in D : i < j => g[i] < g[j]
  BY <1>1, <1>6
<1>9. \A i \in D : g[i] = i
  BY <1>1, <1>7, <1>8, StrictlyIncreasing
<1>10. \A i \in D : s[p[i]] = t[i]
  BY <1>6, <1>9
<1> QED BY <1>1, <1>10

\* And such an order exists.
LEMMA SortExists ==
  ASSUME NEW S, NEW s \in Seq(S), NEW t \in Seq(S), IsInjective(s), IsInjective(t),
         Range(s) = Range(t)
  PROVE  \E p \in Bijection(1 .. Len(s), 1 .. Len(s)) : \A i \in 1 .. Len(s) : s[p[i]] = t[i]
<1> DEFINE D == 1 .. Len(s)
<1>1. Len(s) \in Nat /\ Len(t) = Len(s)
  BY SameElements
<1>2. \A i, j \in D : /\ s[i] = s[j] => i = j
                      /\ t[i] = t[j] => i = j
  BY <1>1, InjectiveSequence
<1>3. \A i \in D : s[i] \in Range(t) /\ t[i] \in Range(s)
  BY <1>1, RangeOfSequence
<1>4. /\ \A x \in Range(s) : \E i \in D : s[i] = x
      /\ \A x \in Range(t) : \E i \in D : t[i] = x
  BY <1>1, RangeOfSequence
<1> DEFINE p == [i \in D |-> CHOOSE j \in D : s[j] = t[i]]
<1>5. \A i \in D : p[i] \in D /\ s[p[i]] = t[i]
  <2> SUFFICES ASSUME NEW i \in D PROVE p[i] \in D /\ s[p[i]] = t[i]
    OBVIOUS
  <2>1. \E j \in D : s[j] = t[i]
    BY <1>3, <1>4
  <2> QED BY <2>1
<1>6. p \in [D -> D]
  BY <1>5
<1>7. \A j \in D : \E i \in D : p[i] = j
  <2> SUFFICES ASSUME NEW j \in D PROVE \E i \in D : p[i] = j
    OBVIOUS
  <2>1. PICK i \in D : t[i] = s[j]
    BY <1>3, <1>4
  <2>2. p[i] = j
    BY <1>2, <1>5, <2>1
  <2> QED BY <2>2
<1>8. \A i, j \in D : p[i] = p[j] => i = j
  BY <1>2, <1>5
<1> HIDE DEF p
<1>9. p \in Bijection(D, D)
  BY <1>6, <1>7, <1>8 DEF Bijection, Injection, Surjection, IsInjective
<1> QED BY <1>5, <1>9

-----------------------------------------------------------------------------
(* Sequences of sequences. *)

\* Two sequences are equal when they agree at every position.
LEMMA SameSequence ==
  ASSUME NEW S, NEW s \in Seq(S), NEW T, NEW t \in Seq(T), Len(s) = Len(t),
         \A i \in 1 .. Len(s) : s[i] = t[i]
  PROVE  s = t
<1> DEFINE n == Len(s)
<1>1. s = [i \in 1 .. n |-> s[i]] /\ t = [i \in 1 .. n |-> t[i]]
  OBVIOUS
<1>2. [i \in 1 .. n |-> s[i]] = [i \in 1 .. n |-> t[i]]
  OBVIOUS
<1> HIDE DEF n
<1> QED BY <1>1, <1>2, Zenon

LEMMA ConcatEmpty ==
  ASSUME NEW S, NEW s \in Seq(S)
  PROVE  << >> \o s = s /\ s \o << >> = s
<1>1. << >> \o s \in Seq(S) /\ s \o << >> \in Seq(S) /\ Len(<< >> \o s) = Len(s) /\ Len(s \o << >>) = Len(s)
  OBVIOUS
<1>2. \A i \in 1 .. Len(s) : (<< >> \o s)[i] = s[i] /\ (s \o << >>)[i] = s[i]
  OBVIOUS
<1> QED BY <1>1, <1>2, SameSequence

LEMMA ConcatAssociates ==
  ASSUME NEW S, NEW r \in Seq(S), NEW s \in Seq(S), NEW t \in Seq(S)
  PROVE  (r \o s) \o t = r \o (s \o t)
<1>1. /\ (r \o s) \o t \in Seq(S) /\ r \o (s \o t) \in Seq(S)
      /\ Len((r \o s) \o t) = Len(r) + Len(s) + Len(t) /\ Len(r \o (s \o t)) = Len(r) + Len(s) + Len(t)
      /\ Len(r) \in Nat /\ Len(s) \in Nat /\ Len(t) \in Nat
  OBVIOUS
<1>2. ASSUME NEW i \in 1 .. Len(r) + Len(s) + Len(t) PROVE ((r \o s) \o t)[i] = (r \o (s \o t))[i]
  <2>1. r \o s \in Seq(S) /\ s \o t \in Seq(S) /\ Len(r \o s) = Len(r) + Len(s) /\ Len(s \o t) = Len(s) + Len(t)
    OBVIOUS
  <2>2. CASE i <= Len(r)
    <3>1. (r \o (s \o t))[i] = r[i]
      BY <1>1, <2>1, <2>2
    <3>2. ((r \o s) \o t)[i] = (r \o s)[i] /\ (r \o s)[i] = r[i]
      BY <1>1, <2>1, <2>2
    <3> QED BY <3>1, <3>2
  <2>3. CASE Len(r) < i /\ i <= Len(r) + Len(s)
    <3>1. (r \o (s \o t))[i] = (s \o t)[i - Len(r)] /\ (s \o t)[i - Len(r)] = s[i - Len(r)]
      BY <1>1, <2>1, <2>3
    <3>2. ((r \o s) \o t)[i] = (r \o s)[i] /\ (r \o s)[i] = s[i - Len(r)]
      BY <1>1, <2>1, <2>3
    <3> QED BY <3>1, <3>2
  <2>4. CASE Len(r) + Len(s) < i
    <3>1. (r \o (s \o t))[i] = (s \o t)[i - Len(r)] /\ (s \o t)[i - Len(r)] = t[i - Len(r) - Len(s)]
      BY <1>1, <2>1, <2>4
    <3>2. ((r \o s) \o t)[i] = t[i - (Len(r) + Len(s))]
      BY <1>1, <2>1, <2>4
    <3>3. i - (Len(r) + Len(s)) = i - Len(r) - Len(s)
      BY <1>1
    <3> QED BY <3>1, <3>2, <3>3
  <2> QED BY <1>1, <2>2, <2>3, <2>4
<1> QED BY <1>1, <1>2, SameSequence

\* FlattenSeq is the last of the concatenations up to each element.
LEMMA Flattening ==
  ASSUME NEW S, NEW s \in Seq(Seq(S)), NEW f \in [0 .. Len(s) -> Seq(S)], f[0] = << >>,
         \A i \in 1 .. Len(s) : f[i] = f[i - 1] \o s[i]
  PROVE  FlattenSeq(s) = f[Len(s)]
<1> DEFINE n == Len(s)
           IsFlatten(h) == h = [i \in 1 .. n |-> IF i = 1 THEN s[i] ELSE h[i - 1] \o s[i]]
           flatten == CHOOSE h : IsFlatten(h)
<1>1. n \in Nat
  OBVIOUS
<1>2. CASE n = 0
  BY <1>2 DEF FlattenSeq
<1>3. CASE n # 0
  <2>1. FlattenSeq(s) = flatten[n]
    BY <1>3 DEF FlattenSeq
  <2>2. f[1] = s[1]
    <3>1. 1 \in 1 .. n /\ s[1] \in Seq(S)
      BY <1>1, <1>3
    <3>2. \A i \in 1 .. n : i - 1 = 0 => f[i] = f[0] \o s[i]
      OBVIOUS
    <3>3. f[1] = << >> \o s[1]
      BY <3>1, <3>2
    <3> QED BY <3>1, <3>3, ConcatEmpty
  <2>3. \E h : IsFlatten(h)
    <3> DEFINE g == [i \in 1 .. n |-> f[i]]
    <3>1. \A i \in 1 .. n : g[i] = IF i = 1 THEN s[i] ELSE g[i - 1] \o s[i]
      <4> SUFFICES ASSUME NEW i \in 1 .. n PROVE g[i] = IF i = 1 THEN s[i] ELSE g[i - 1] \o s[i]
        OBVIOUS
      <4>1. CASE i = 1
        BY <2>2, <4>1
      <4>2. CASE i # 1
        <5>1. i - 1 \in 1 .. n
          BY <1>1, <4>2
        <5> QED BY <4>2, <5>1
      <4> QED BY <4>1, <4>2
    <3>2. g = [i \in 1 .. n |-> IF i = 1 THEN s[i] ELSE g[i - 1] \o s[i]]
      <4> DEFINE v == [i \in 1 .. n |-> IF i = 1 THEN s[i] ELSE g[i - 1] \o s[i]]
      <4>1. g = [i \in 1 .. n |-> g[i]]
        OBVIOUS
      <4> HIDE DEF g, n
      <4>2. \A i \in 1 .. n : v[i] = g[i]
        BY <3>1
      <4>3. v = [i \in 1 .. n |-> v[i]]
        OBVIOUS
      <4> HIDE DEF v
      <4>4. [i \in 1 .. n |-> v[i]] = [i \in 1 .. n |-> g[i]]
        BY <4>2
      <4>5. v = g
        BY <4>1, <4>3, <4>4, Zenon
      <4> QED BY <4>5 DEF v
    <3> HIDE DEF g, n
    <3> QED BY <3>2
  <2>4. IsFlatten(flatten)
    <3> HIDE DEF IsFlatten
    <3> QED BY <2>3
  <2> HIDE DEF flatten
  <2>5. \A i \in 1 .. n : flatten[i] = IF i = 1 THEN s[i] ELSE flatten[i - 1] \o s[i]
    <3> HIDE DEF n
    <3> QED BY <2>4
  <2> DEFINE A == {k \in Nat : k + 1 <= n => flatten[k + 1] = f[k + 1]}
  <2>6. 0 \in A
    BY <1>1, <2>2, <2>5
  <2>7. ASSUME NEW k \in Nat, k \in A PROVE k + 1 \in A
    <3> SUFFICES ASSUME k + 2 <= n PROVE flatten[k + 2] = f[k + 2]
      OBVIOUS
    <3>1. k + 2 \in 1 .. n /\ k + 1 <= n /\ k + 2 # 1 /\ k + 2 - 1 = k + 1
      BY <1>1
    <3>2. flatten[k + 1] = f[k + 1]
      BY <2>7, <3>1
    <3> DEFINE i == k + 2
    <3>3. i \in 1 .. n /\ i # 1 /\ i - 1 = k + 1
      BY <3>1
    <3> HIDE DEF i, flatten, n
    <3>4. flatten[i] = flatten[i - 1] \o s[i]
      BY <2>5, <3>3
    <3>5. f[i] = f[i - 1] \o s[i]
      BY <3>3 DEF n
    <3>6. flatten[i] = f[i]
      BY <3>2, <3>3, <3>4, <3>5
    <3> QED BY <3>6 DEF i
  <2> HIDE DEF A
  <2>8. n - 1 \in A
    <3>1. n - 1 \in Nat
      BY <1>1, <1>3
    <3> QED BY <2>6, <2>7, <3>1, SetInduction
  <2>9. flatten[n] = f[n]
    BY <1>1, <1>3, <2>8 DEF A
  <2> QED BY <2>1, <2>9
<1> QED BY <1>2, <1>3

\* The concatenations up to each element exist.
LEMMA Concatenations ==
  ASSUME NEW S, NEW t \in Seq(Seq(S))
  PROVE  \E f \in [0 .. Len(t) -> Seq(S)] : /\ f[0] = << >>
                                            /\ \A i \in 1 .. Len(t) : f[i] = f[i - 1] \o t[i]
<1> DEFINE step == [i \in 1 .. Len(t) |-> [z \in Seq(S) |-> z \o t[i]]]
<1>1. \A i \in 1 .. Len(t) : \A z \in Seq(S) : z \o t[i] \in Seq(S)
  OBVIOUS
<1>2. step \in [1 .. Len(t) -> [Seq(S) -> Seq(S)]]
  BY <1>1
<1>3. \A i \in 1 .. Len(t) : \A z \in Seq(S) : step[i][z] = z \o t[i]
  OBVIOUS
<1>4. << >> \in Seq(S) /\ Len(t) \in Nat
  OBVIOUS
<1> DEFINE T == Seq(S)
           m == Len(t)
           e == << >>
<1>5. e \in T /\ m \in Nat /\ step \in [1 .. m -> [T -> T]]
  BY <1>2, <1>4
<1> HIDE DEF step, T, m, e
<1>0. \E f \in [0 .. m -> T] : f[0] = e /\ \A i \in 1 .. m : f[i] = step[i][f[i - 1]]
  BY <1>5, Recursion, SMTT(60)
<1> USE DEF T, m, e
<1>6. PICK f \in [0 .. Len(t) -> Seq(S)] : /\ f[0] = << >>
                                           /\ \A i \in 1 .. Len(t) : f[i] = step[i][f[i - 1]]
  BY <1>0
<1>7. ASSUME NEW i \in 1 .. Len(t) PROVE f[i] = f[i - 1] \o t[i]
  <2>1. i - 1 \in 0 .. Len(t)
    BY <1>4
  <2>2. f[i - 1] \in Seq(S)
    BY <2>1
  <2> QED BY <1>3, <1>6, <2>2
<1> QED BY <1>6, <1>7

\* One element more.
LEMMA FlattenAppend ==
  ASSUME NEW S, NEW s \in Seq(Seq(S)), NEW x \in Seq(S)
  PROVE  /\ FlattenSeq(s) \in Seq(S)
         /\ FlattenSeq(Append(s, x)) = FlattenSeq(s) \o x
<1> DEFINE t == Append(s, x)
           n == Len(s)
<1>1. /\ n \in Nat /\ t \in Seq(Seq(S)) /\ Len(t) = n + 1 /\ t[n + 1] = x
      /\ \A i \in 1 .. n : t[i] = s[i]
  OBVIOUS
<1> HIDE DEF t
<1>5. PICK f \in [0 .. n + 1 -> Seq(S)] : /\ f[0] = << >>
                                          /\ \A i \in 1 .. n + 1 : f[i] = f[i - 1] \o t[i]
  <2>1. \E f \in [0 .. Len(t) -> Seq(S)] : /\ f[0] = << >>
                                            /\ \A i \in 1 .. Len(t) : f[i] = f[i - 1] \o t[i]
    <3> HIDE DEF n
    <3> QED BY <1>1, Concatenations
  <2> QED BY <1>1, <2>1
<1>7. FlattenSeq(t) = f[n + 1]
  <2>1. /\ t \in Seq(Seq(S)) /\ f \in [0 .. Len(t) -> Seq(S)] /\ f[0] = << >>
        /\ \A i \in 1 .. Len(t) : f[i] = f[i - 1] \o t[i]
    BY <1>1, <1>5
  <2>2. FlattenSeq(t) = f[Len(t)]
    BY <2>1, Flattening
  <2> QED BY <1>1, <2>2
<1>8. FlattenSeq(s) = f[n]
  <2> DEFINE g == [i \in 0 .. n |-> f[i]]
  <2>1. /\ g \in [0 .. n -> Seq(S)] /\ g[0] = << >> /\ g[n] = f[n]
        /\ \A i \in 1 .. n : g[i] = g[i - 1] \o s[i]
    <3>0. 0 \in 0 .. n /\ n \in 0 .. n
      BY <1>1
    <3>1. \A i \in 0 .. n : i \in 0 .. n + 1 /\ g[i] = f[i]
      BY <1>1
    <3>2. ASSUME NEW i \in 1 .. n PROVE g[i] = g[i - 1] \o s[i]
      <4>1. i \in 1 .. n + 1 /\ i \in 0 .. n /\ i - 1 \in 0 .. n
        BY <1>1
      <4>2. f[i] = f[i - 1] \o t[i] /\ t[i] = s[i]
        BY <1>1, <1>5, <4>1
      <4>3. g[i] = f[i] /\ g[i - 1] = f[i - 1]
        BY <4>1
      <4> QED BY <4>2, <4>3
    <3>3. g \in [0 .. n -> Seq(S)] /\ g[0] = f[0] /\ g[n] = f[n]
      BY <1>5, <3>0, <3>1
    <3> QED BY <1>5, <3>2, <3>3
  <2> HIDE DEF g
  <2> QED BY <2>1, Flattening
<1>9. f[n] \in Seq(S) /\ f[n + 1] = f[n] \o x
  <2> DEFINE m == n + 1
  <2>1. m \in 1 .. m /\ n \in 0 .. m /\ m - 1 = n
    BY <1>1
  <2> HIDE DEF m
  <2>2. f[m] = f[m - 1] \o t[m] /\ f \in [0 .. m -> Seq(S)] /\ t[m] = x
    BY <1>1, <1>5, <2>1 DEF m
  <2>3. f[m] = f[n] \o x /\ f[n] \in Seq(S)
    BY <2>1, <2>2
  <2> QED BY <2>3 DEF m
<1> QED BY <1>7, <1>8, <1>9 DEF t

LEMMA ConcatAppend ==
  ASSUME NEW S, NEW s \in Seq(S), NEW t \in Seq(S), NEW x \in S
  PROVE  s \o Append(t, x) = Append(s \o t, x)
<1> DEFINE a == Append(t, x)
           c == s \o t
<1>1. /\ a \in Seq(S) /\ Len(a) = Len(t) + 1 /\ a[Len(t) + 1] = x /\ \A i \in 1 .. Len(t) : a[i] = t[i]
      /\ Len(t) \in Nat /\ Len(s) \in Nat
  OBVIOUS
<1>2. /\ c \in Seq(S) /\ Len(c) = Len(s) + Len(t)
      /\ \A i \in 1 .. Len(s) : c[i] = s[i]
      /\ \A i \in 1 .. Len(t) : c[Len(s) + i] = t[i]
  BY ConcatLemma
<1> HIDE DEF a, c
<1>3. /\ s \o a \in Seq(S) /\ Len(s \o a) = Len(s) + Len(t) + 1
      /\ \A i \in 1 .. Len(s) : (s \o a)[i] = s[i]
      /\ \A i \in 1 .. Len(t) + 1 : (s \o a)[Len(s) + i] = a[i]
  <2>1. /\ s \o a \in Seq(S) /\ Len(s \o a) = Len(s) + Len(a)
        /\ \A i \in 1 .. Len(s) : (s \o a)[i] = s[i]
        /\ \A i \in 1 .. Len(a) : (s \o a)[Len(s) + i] = a[i]
    BY <1>1
  <2>2. Len(s) + Len(a) = Len(s) + Len(t) + 1 /\ 1 .. Len(a) = 1 .. Len(t) + 1
    BY <1>1
  <2> QED BY <2>1, <2>2, Zenon
<1>4. /\ Append(c, x) \in Seq(S) /\ Len(Append(c, x)) = Len(s) + Len(t) + 1
      /\ Append(c, x)[Len(s) + Len(t) + 1] = x
      /\ \A i \in 1 .. Len(s) + Len(t) : Append(c, x)[i] = c[i]
  <2>1. /\ Append(c, x) \in Seq(S) /\ Len(Append(c, x)) = Len(c) + 1
        /\ Append(c, x)[Len(c) + 1] = x
        /\ \A i \in 1 .. Len(c) : Append(c, x)[i] = c[i]
    BY <1>2
  <2> QED BY <1>2, <2>1
<1>5. ASSUME NEW i \in 1 .. Len(s) + Len(t) + 1 PROVE (s \o a)[i] = Append(c, x)[i]
  <2>1. CASE i <= Len(s)
    BY <1>1, <1>2, <1>3, <1>4, <2>1
  <2>2. CASE i > Len(s)
    <3>1. PICK j \in 1 .. Len(t) + 1 : i = Len(s) + j
      <4>1. i - Len(s) \in 1 .. Len(t) + 1 /\ i = Len(s) + (i - Len(s))
        BY <1>1, <2>2
      <4> QED BY <4>1
    <3>2. (s \o a)[i] = a[j]
      BY <1>3, <3>1
    <3>3. CASE j = Len(t) + 1
      BY <1>1, <1>4, <3>1, <3>2, <3>3
    <3>4. CASE j # Len(t) + 1
      <4>1. j \in 1 .. Len(t) /\ i \in 1 .. Len(s) + Len(t)
        BY <1>1, <3>1, <3>4
      <4> QED BY <1>1, <1>2, <1>4, <3>1, <3>2, <4>1
    <3> QED BY <3>3, <3>4
  <2>3. i <= Len(s) \/ i > Len(s)
    BY <1>1
  <2> QED BY <2>1, <2>2, <2>3
<1>6. s \o a = Append(c, x)
  BY <1>1, <1>3, <1>4, <1>5, SameSequence
<1> QED BY <1>6 DEF a, c

\* The first n + 1 elements are the first n and one more.
LEMMA TakeOneMore ==
  ASSUME NEW S, NEW s \in Seq(S)
  PROVE  /\ SubSeq(s, 1, 0) = << >>
         /\ SubSeq(s, 1, Len(s)) = s
         /\ \A n \in Nat : n < Len(s) =>
               /\ SubSeq(s, 1, n) \in Seq(S)
               /\ SubSeq(s, 1, n + 1) = Append(SubSeq(s, 1, n), s[n + 1])
<1>1. SubSeq(s, 1, 0) = << >>
  OBVIOUS
<1>2. SubSeq(s, 1, Len(s)) = s
  <2>1. SubSeq(s, 1, Len(s)) \in Seq(S) /\ Len(SubSeq(s, 1, Len(s))) = Len(s)
    OBVIOUS
  <2>2. \A i \in 1 .. Len(s) : SubSeq(s, 1, Len(s))[i] = s[i]
    OBVIOUS
  <2> QED BY <2>1, <2>2, SameSequence
<1>3. ASSUME NEW n \in Nat, n < Len(s)
      PROVE  /\ SubSeq(s, 1, n) \in Seq(S)
             /\ SubSeq(s, 1, n + 1) = Append(SubSeq(s, 1, n), s[n + 1])
  <2> DEFINE a == SubSeq(s, 1, n)
             b == SubSeq(s, 1, n + 1)
  <2>1. /\ a \in Seq(S) /\ Len(a) = n /\ \A i \in 1 .. n : a[i] = s[i]
        /\ b \in Seq(S) /\ Len(b) = n + 1 /\ \A i \in 1 .. n + 1 : b[i] = s[i]
    BY <1>3
  <2>2. s[n + 1] \in S
    BY <1>3
  <2> HIDE DEF a, b
  <2>3. /\ Append(a, s[n + 1]) \in Seq(S) /\ Len(Append(a, s[n + 1])) = n + 1
        /\ Append(a, s[n + 1])[n + 1] = s[n + 1] /\ \A i \in 1 .. n : Append(a, s[n + 1])[i] = s[i]
    BY <2>1, <2>2
  <2>4. \A i \in 1 .. n + 1 : b[i] = Append(a, s[n + 1])[i]
    <3> SUFFICES ASSUME NEW i \in 1 .. n + 1 PROVE b[i] = Append(a, s[n + 1])[i]
      OBVIOUS
    <3>1. i = n + 1 \/ i \in 1 .. n
      OBVIOUS
    <3> QED BY <2>1, <2>3, <3>1
  <2>5. b = Append(a, s[n + 1])
    BY <2>1, <2>3, <2>4, SameSequence
  <2> QED BY <2>1, <2>5 DEF a, b
<1> QED BY <1>1, <1>2, <1>3

\* Flattening a concatenation.
LEMMA FlattenConcat ==
  ASSUME NEW S, NEW s \in Seq(Seq(S)), NEW t \in Seq(Seq(S))
  PROVE  FlattenSeq(s \o t) = FlattenSeq(s) \o FlattenSeq(t)
<1> DEFINE Part(k) == SubSeq(t, 1, k)
           A == {k \in Nat : k <= Len(t) => FlattenSeq(s \o Part(k)) = FlattenSeq(s) \o FlattenSeq(Part(k))}
<1>1. \A u \in Seq(Seq(S)) : FlattenSeq(u) \in Seq(S)
  <2>1. << >> \in Seq(S)
    OBVIOUS
  <2> QED BY <2>1, FlattenAppend
<1>8. \A a, b, c \in Seq(S) : (a \o b) \o c = a \o (b \o c)
  <2> SUFFICES ASSUME NEW a \in Seq(S), NEW b \in Seq(S), NEW c \in Seq(S)
               PROVE  (a \o b) \o c = a \o (b \o c)
    OBVIOUS
  <2> QED BY ConcatAssociates, SMTT(90)
<1>2. 0 \in A
  <2>1. Part(0) = << >> /\ s \o Part(0) = s
    BY ConcatEmpty, TakeOneMore
  <2>2. FlattenSeq(<< >>) = << >>
    BY DEF FlattenSeq
  <2>3. FlattenSeq(s) \o << >> = FlattenSeq(s)
    BY <1>1, ConcatEmpty
  <2> QED BY <2>1, <2>2, <2>3
<1>3. ASSUME NEW k \in Nat, k \in A PROVE k + 1 \in A
  <2> SUFFICES ASSUME k + 1 <= Len(t)
               PROVE  FlattenSeq(s \o Part(k + 1)) = FlattenSeq(s) \o FlattenSeq(Part(k + 1))
    OBVIOUS
  <2> DEFINE u == Part(k)
             x == t[k + 1]
  <2>1. u \in Seq(Seq(S)) /\ Part(k + 1) = Append(u, x) /\ x \in Seq(S)
    <3>1. k < Len(t) /\ k + 1 \in 1 .. Len(t)
      OBVIOUS
    <3> QED BY <3>1, TakeOneMore
  <2>2. FlattenSeq(s \o u) = FlattenSeq(s) \o FlattenSeq(u)
    BY <1>3
  <2> HIDE DEF u, x, Part
  <2>3. s \o Append(u, x) = Append(s \o u, x) /\ s \o u \in Seq(Seq(S))
    <3> DEFINE T == Seq(S)
    <3>1. s \in Seq(T) /\ u \in Seq(T) /\ x \in T
      BY <2>1
    <3> HIDE DEF T
    <3>2. s \o Append(u, x) = Append(s \o u, x) /\ s \o u \in Seq(T)
      BY <3>1, ConcatAppend
    <3> QED BY <3>2 DEF T
  <2>4. FlattenSeq(Append(s \o u, x)) = FlattenSeq(s \o u) \o x /\ FlattenSeq(Append(u, x)) = FlattenSeq(u) \o x
    BY <2>1, <2>3, FlattenAppend
  <2>5. (FlattenSeq(s) \o FlattenSeq(u)) \o x = FlattenSeq(s) \o (FlattenSeq(u) \o x)
    <3>1. FlattenSeq(s) \in Seq(S) /\ FlattenSeq(u) \in Seq(S) /\ x \in Seq(S)
      BY <1>1, <2>1
    <3> DEFINE v == FlattenSeq(s)
               w == FlattenSeq(u)
    <3>2. v \in Seq(S) /\ w \in Seq(S) /\ x \in Seq(S)
      BY <3>1
    <3> HIDE DEF v, w
    <3>3. (v \o w) \o x = v \o (w \o x)
      BY <1>8, <3>2
    <3> QED BY <3>3 DEF v, w
  <2>6. FlattenSeq(s \o Append(u, x)) = FlattenSeq(s) \o FlattenSeq(Append(u, x))
    BY <2>2, <2>3, <2>4, <2>5, Zenon
  <2> QED BY <2>1, <2>6, Zenon
<1>4. Len(t) \in A
  <2> HIDE DEF A
  <2>1. \A k \in Nat : k \in A
    BY <1>2, <1>3, SetInduction
  <2>2. Len(t) \in Nat
    OBVIOUS
  <2> QED BY <2>1, <2>2
<1>5. SubSeq(t, 1, Len(t)) = t
  <2> DEFINE T == Seq(S)
  <2>1. t \in Seq(T)
    OBVIOUS
  <2> HIDE DEF T
  <2> QED BY <2>1, TakeOneMore
<1>6. Len(t) \in Nat
  OBVIOUS
<1>7. FlattenSeq(s \o Part(Len(t))) = FlattenSeq(s) \o FlattenSeq(Part(Len(t)))
  <2> HIDE DEF Part
  <2>1. Len(t) <= Len(t)
    BY <1>6
  <2> QED BY <1>4, <2>1
<1> QED BY <1>5, <1>7

-----------------------------------------------------------------------------
(* Functions defined by recursion on an interval, and running totals. *)

LEMMA SameValues ==
  ASSUME NEW n \in Nat, NEW S, NEW f \in [0 .. n -> S], NEW left,
         left[0] = f[0], \A i \in 1 .. n : left[i - 1] = f[i - 1] => left[i] = f[i]
  PROVE  \A i \in 0 .. n : left[i] = f[i]
<1> DEFINE A == {k \in Nat : k <= n => left[k] = f[k]}
<1>1. 0 \in A
  OBVIOUS
<1>2. ASSUME NEW k \in Nat, k \in A PROVE k + 1 \in A
  <2> SUFFICES ASSUME k + 1 <= n PROVE left[k + 1] = f[k + 1]
    OBVIOUS
  <2> DEFINE i == k + 1
  <2>1. i \in 1 .. n /\ i - 1 = k /\ k <= n
    OBVIOUS
  <2> HIDE DEF i
  <2>2. left[i] = f[i]
    BY <1>2, <2>1
  <2> QED BY <2>2 DEF i
<1>3. \A k \in Nat : k \in A
  <2> HIDE DEF A
  <2> QED BY <1>1, <1>2, SetInduction
<1> QED BY <1>3

LEMMA SumsLemma ==
  ASSUME NEW s \in Seq(Nat)
  PROVE  /\ Sums(s) \in [0 .. Len(s) -> Nat]
         /\ Sums(s)[0] = 0
         /\ \A i \in 1 .. Len(s) : Sums(s)[i] = Sums(s)[i - 1] + s[i]
<1> DEFINE n == Len(s)
           step == [i \in 1 .. n |-> [y \in Nat |-> y + s[i]]]
           IsSums(h) == h = [i \in 0 .. n |-> IF i = 0 THEN 0 ELSE h[i - 1] + s[i]]
           left == CHOOSE h : IsSums(h)
<1>1. n \in Nat /\ \A i \in 1 .. n : s[i] \in Nat
  OBVIOUS
<1>2. step \in [1 .. n -> [Nat -> Nat]] /\ \A i \in 1 .. n : \A y \in Nat : step[i][y] = y + s[i]
  BY <1>1
<1> HIDE DEF step
<1>3. PICK f \in [0 .. n -> Nat] : f[0] = 0 /\ \A i \in 1 .. n : f[i] = step[i][f[i - 1]]
  <2> DEFINE S == Nat
             c == 0
  <2>1. c \in S /\ n \in Nat /\ step \in [1 .. n -> [S -> S]]
    BY <1>1, <1>2
  <2> HIDE DEF n, S, c
  <2>2. \E f \in [0 .. n -> S] : f[0] = c /\ \A i \in 1 .. n : f[i] = step[i][f[i - 1]]
    BY <2>1, Recursion, SMTT(60)
  <2> QED BY <2>2 DEF S, c
<1>4. \A i \in 1 .. n : f[i] = f[i - 1] + s[i]
  <2> SUFFICES ASSUME NEW i \in 1 .. n PROVE f[i] = f[i - 1] + s[i]
    OBVIOUS
  <2>1. i - 1 \in 0 .. n
    BY <1>1
  <2>2. f[i - 1] \in Nat
    BY <2>1
  <2> QED BY <1>2, <1>3, <2>2
<1>5. IsSums(left)
  <2> DEFINE g == [i \in 0 .. n |-> IF i = 0 THEN 0 ELSE f[i - 1] + s[i]]
  <2>1. \A i \in 0 .. n : f[i] = g[i]
    BY <1>1, <1>3, <1>4
  <2>2. f = [i \in 0 .. n |-> f[i]] /\ g = [i \in 0 .. n |-> g[i]]
    OBVIOUS
  <2>3. f = g
    <3> HIDE DEF g, n
    <3>1. [i \in 0 .. n |-> f[i]] = [i \in 0 .. n |-> g[i]]
      BY <2>1
    <3> QED BY <2>2, <3>1, Zenon
  <2>4. \E h : IsSums(h)
    BY <2>3
  <2> HIDE DEF IsSums
  <2> QED BY <2>4
<1>6. Sums(s) = left
  BY DEF Sums
<1> HIDE DEF left
<1>7. \A i \in 0 .. n : left[i] = IF i = 0 THEN 0 ELSE left[i - 1] + s[i]
  <2> HIDE DEF n
  <2> QED BY <1>5
<1>8. left = [i \in 0 .. n |-> left[i]]
  <2> DEFINE v == [i \in 0 .. n |-> IF i = 0 THEN 0 ELSE left[i - 1] + s[i]]
  <2>1. v = [i \in 0 .. n |-> v[i]]
    OBVIOUS
  <2>2. left = v
    BY <1>5
  <2> HIDE DEF v
  <2> QED BY <2>1, <2>2
<1>9. left[0] = f[0] /\ \A i \in 1 .. n : left[i - 1] = f[i - 1] => left[i] = f[i]
  BY <1>1, <1>3, <1>4, <1>7
<1>10. \A i \in 0 .. n : left[i] = f[i]
  <2> DEFINE S == Nat
  <2>1. f \in [0 .. n -> S]
    OBVIOUS
  <2> HIDE DEF n, S
  <2> QED BY <1>1, <1>9, <2>1, SameValues
<1>11. left \in [0 .. n -> Nat]
  <2> HIDE DEF n
  <2>1. \A i \in 0 .. n : left[i] \in Nat
    BY <1>10
  <2> QED BY <1>8, <2>1
<1>12. \A i \in 1 .. n : i - 1 \in 0 .. n /\ i \in 0 .. n
  BY <1>1
<1>13. left[0] = 0 /\ \A i \in 1 .. n : left[i] = left[i - 1] + s[i]
  <2>1. 0 \in 0 .. n
    BY <1>1
  <2> HIDE DEF n
  <2> QED BY <1>3, <1>4, <1>10, <1>12, <2>1
<1> QED BY <1>6, <1>11, <1>13

\* Larger terms have larger totals.
LEMMA CompareSums ==
  ASSUME NEW s \in Seq(Nat), NEW t \in Seq(Nat), Len(s) = Len(t),
         \A i \in 1 .. Len(s) : s[i] <= t[i]
  PROVE  /\ SumOf(s) \in Nat /\ SumOf(t) \in Nat /\ SumOf(s) <= SumOf(t)
         /\ \A k \in 1 .. Len(s) : s[k] < t[k] => SumOf(s) < SumOf(t)
<1> DEFINE n == Len(s)
           f == Sums(s)
           g == Sums(t)
           A == {m \in Nat : m <= n => /\ f[m] <= g[m]
                                       /\ \A k \in 1 .. m : s[k] < t[k] => f[m] < g[m]}
<1>1. /\ n \in Nat /\ Len(t) = n /\ f \in [0 .. n -> Nat] /\ g \in [0 .. n -> Nat] /\ f[0] = 0 /\ g[0] = 0
      /\ \A i \in 1 .. n : f[i] = f[i - 1] + s[i] /\ g[i] = g[i - 1] + t[i]
      /\ \A i \in 1 .. n : s[i] \in Nat /\ t[i] \in Nat /\ s[i] <= t[i]
  <2>1. /\ n \in Nat /\ f \in [0 .. n -> Nat] /\ f[0] = 0
        /\ \A i \in 1 .. n : f[i] = f[i - 1] + s[i]
    BY SumsLemma
  <2>2. /\ g \in [0 .. Len(t) -> Nat] /\ g[0] = 0
        /\ \A i \in 1 .. Len(t) : g[i] = g[i - 1] + t[i]
    BY SumsLemma
  <2>3. \A i \in 1 .. n : s[i] \in Nat /\ t[i] \in Nat
    OBVIOUS
  <2> HIDE DEF f, g
  <2> QED BY <2>1, <2>2, <2>3
<1> HIDE DEF n, f, g
<1>2. 0 \in A
  BY <1>1
<1>3. ASSUME NEW m \in Nat, m \in A PROVE m + 1 \in A
  <2> SUFFICES ASSUME m + 1 <= n
               PROVE  /\ f[m + 1] <= g[m + 1]
                      /\ \A k \in 1 .. m + 1 : s[k] < t[k] => f[m + 1] < g[m + 1]
    OBVIOUS
  <2> DEFINE i == m + 1
  <2>1. i \in 1 .. n /\ i - 1 = m /\ m <= n /\ m \in 0 .. n /\ \A k \in 1 .. i : k \in 1 .. m \/ k = i
    BY <1>1
  <2>2. f[m] <= g[m] /\ \A k \in 1 .. m : s[k] < t[k] => f[m] < g[m]
    BY <1>3, <2>1
  <2> HIDE DEF i
  <2>3. f[i] = f[m] + s[i] /\ g[i] = g[m] + t[i] /\ f[m] \in Nat /\ g[m] \in Nat /\ s[i] \in Nat /\ t[i] \in Nat
    BY <1>1, <2>1
  <2>4. s[i] <= t[i]
    BY <1>1, <2>1
  <2>5. f[i] <= g[i] /\ (f[m] < g[m] => f[i] < g[i]) /\ (s[i] < t[i] => f[i] < g[i])
    BY <2>2, <2>3, <2>4
  <2>6. \A k \in 1 .. i : s[k] < t[k] => f[i] < g[i]
    BY <2>1, <2>2, <2>5
  <2> QED BY <2>5, <2>6 DEF i
<1>4. \A m \in Nat : m \in A
  <2> HIDE DEF A
  <2> QED BY <1>2, <1>3, SetInduction
<1>5. f[n] <= g[n] /\ \A k \in 1 .. n : s[k] < t[k] => f[n] < g[n]
  BY <1>1, <1>4
<1>6. SumOf(s) = f[n] /\ SumOf(t) = g[n]
  BY <1>1 DEF SumOf, n, f, g
<1>7. f[n] \in Nat /\ g[n] \in Nat
  BY <1>1
<1> QED BY <1>5, <1>6, <1>7 DEF n

\* Two sequences whose terms together fit into a third's.
LEMMA AddSums ==
  ASSUME NEW r \in Seq(Nat), NEW s \in Seq(Nat), NEW t \in Seq(Nat), Len(r) = Len(t), Len(s) = Len(t),
         \A i \in 1 .. Len(t) : r[i] + s[i] <= t[i]
  PROVE  SumOf(r) + SumOf(s) <= SumOf(t)
<1> DEFINE n == Len(t)
           e == Sums(r)
           f == Sums(s)
           g == Sums(t)
           A == {m \in Nat : m <= n => e[m] + f[m] <= g[m]}
<1>1. /\ n \in Nat /\ e \in [0 .. n -> Nat] /\ f \in [0 .. n -> Nat] /\ g \in [0 .. n -> Nat]
      /\ e[0] = 0 /\ f[0] = 0 /\ g[0] = 0
      /\ \A i \in 1 .. n : e[i] = e[i - 1] + r[i] /\ f[i] = f[i - 1] + s[i] /\ g[i] = g[i - 1] + t[i]
      /\ \A i \in 1 .. n : r[i] \in Nat /\ s[i] \in Nat /\ t[i] \in Nat /\ r[i] + s[i] <= t[i]
  <2>1. /\ e \in [0 .. Len(r) -> Nat] /\ e[0] = 0
        /\ \A i \in 1 .. Len(r) : e[i] = e[i - 1] + r[i]
    BY SumsLemma
  <2>2. /\ f \in [0 .. Len(s) -> Nat] /\ f[0] = 0
        /\ \A i \in 1 .. Len(s) : f[i] = f[i - 1] + s[i]
    BY SumsLemma
  <2>3. /\ g \in [0 .. Len(t) -> Nat] /\ g[0] = 0
        /\ \A i \in 1 .. Len(t) : g[i] = g[i - 1] + t[i]
    BY SumsLemma
  <2>4. n \in Nat /\ \A i \in 1 .. n : r[i] \in Nat /\ s[i] \in Nat /\ t[i] \in Nat
    OBVIOUS
  <2> HIDE DEF e, f, g
  <2> QED BY <2>1, <2>2, <2>3, <2>4
<1> HIDE DEF n, e, f, g
<1>2. 0 \in A
  BY <1>1
<1>3. ASSUME NEW m \in Nat, m \in A PROVE m + 1 \in A
  <2> SUFFICES ASSUME m + 1 <= n PROVE e[m + 1] + f[m + 1] <= g[m + 1]
    OBVIOUS
  <2> DEFINE i == m + 1
  <2>1. i \in 1 .. n /\ i - 1 = m /\ m <= n /\ m \in 0 .. n
    BY <1>1
  <2>2. e[m] + f[m] <= g[m]
    BY <1>3, <2>1
  <2> HIDE DEF i
  <2>3. /\ e[i] = e[m] + r[i] /\ f[i] = f[m] + s[i] /\ g[i] = g[m] + t[i]
        /\ e[m] \in Nat /\ f[m] \in Nat /\ g[m] \in Nat
        /\ r[i] \in Nat /\ s[i] \in Nat /\ t[i] \in Nat /\ r[i] + s[i] <= t[i]
    BY <1>1, <2>1
  <2> DEFINE u == e[m]
             v == f[m]
             w == g[m]
             x == r[i]
             y == s[i]
             z == t[i]
  <2>4. u + v <= w /\ x + y <= z /\ u \in Nat /\ v \in Nat /\ w \in Nat /\ x \in Nat /\ y \in Nat /\ z \in Nat
    BY <2>2, <2>3
  <2>5. e[i] = u + x /\ f[i] = v + y /\ g[i] = w + z
    BY <2>3
  <2> HIDE DEF u, v, w, x, y, z
  <2>6. (u + x) + (v + y) <= w + z
    BY <2>4
  <2> QED BY <2>5, <2>6 DEF i
<1>4. \A m \in Nat : m \in A
  <2> HIDE DEF A
  <2> QED BY <1>2, <1>3, SetInduction
<1>5. e[n] + f[n] <= g[n]
  BY <1>1, <1>4
<1> QED BY <1>5 DEF SumOf, n, e, f, g

\* Terms of at most c.
LEMMA BoundSums ==
  ASSUME NEW s \in Seq(Nat), NEW c \in Nat, \A i \in 1 .. Len(s) : s[i] <= c
  PROVE  /\ \A i \in 0 .. Len(s) : Sums(s)[i] \in Nat /\ Sums(s)[i] <= Sums(s)[Len(s)]
         /\ Sums(s)[Len(s)] <= Len(s) * c
<1> DEFINE n == Len(s)
           f == Sums(s)
<1>1. /\ n \in Nat /\ f \in [0 .. n -> Nat] /\ f[0] = 0
      /\ \A i \in 1 .. n : f[i] = f[i - 1] + s[i]
      /\ \A i \in 1 .. n : s[i] \in Nat /\ s[i] <= c
  BY SumsLemma
<1> HIDE DEF n, f
<1> DEFINE A == {m \in Nat : m <= n => f[m] <= m * c /\ \A k \in 0 .. m : f[k] <= f[m]}
<1>2. 0 \in A
  BY <1>1
<1>3. ASSUME NEW m \in Nat, m \in A PROVE m + 1 \in A
  <2> SUFFICES ASSUME m + 1 <= n
               PROVE  f[m + 1] <= (m + 1) * c /\ \A k \in 0 .. m + 1 : f[k] <= f[m + 1]
    OBVIOUS
  <2> DEFINE i == m + 1
  <2>1. i \in 1 .. n /\ i - 1 = m /\ m <= n /\ m \in 0 .. n /\ \A k \in 0 .. i : k \in 0 .. m \/ k = i
    BY <1>1
  <2>2. f[m] <= m * c /\ \A k \in 0 .. m : f[k] <= f[m]
    BY <1>3, <2>1
  <2>3. i * c = m * c + c /\ m * c \in Nat
    OBVIOUS
  <2> HIDE DEF i
  <2>4. f[i] = f[m] + s[i] /\ f[m] \in Nat /\ s[i] \in Nat /\ s[i] <= c
    BY <1>1, <2>1
  <2>5. f[i] <= i * c
    <3> DEFINE a == m * c
               b == i * c
    <3>1. b = a + c /\ a \in Nat /\ f[m] <= a
      BY <2>2, <2>3
    <3> HIDE DEF a, b
    <3> QED BY <2>4, <3>1 DEF b
  <2>6. \A k \in 0 .. i : f[k] <= f[i]
    <3> SUFFICES ASSUME NEW k \in 0 .. i PROVE f[k] <= f[i]
      OBVIOUS
    <3>1. k \in 0 .. m => k \in 0 .. n
      BY <1>1, <2>1
    <3>2. k \in 0 .. m => f[k] \in Nat /\ f[k] <= f[m]
      BY <1>1, <2>2, <3>1
    <3>3. f[i] \in Nat
      BY <2>4
    <3> QED BY <2>1, <2>4, <3>2, <3>3
  <2> QED BY <2>5, <2>6 DEF i
<1>4. \A m \in Nat : m \in A
  <2> HIDE DEF A
  <2> QED BY <1>2, <1>3, SetInduction
<1>5. f[n] <= n * c /\ \A k \in 0 .. n : f[k] <= f[n]
  BY <1>1, <1>4
<1>6. \A k \in 0 .. n : f[k] \in Nat
  BY <1>1
<1> QED BY <1>5, <1>6 DEF n, f

\* One more term.
LEMMA SumOfAppend ==
  ASSUME NEW s \in Seq(Nat), NEW t \in Seq(Nat), Len(t) = Len(s) + 1,
         \A i \in 1 .. Len(s) : t[i] = s[i]
  PROVE  SumOf(t) = SumOf(s) + t[Len(t)] /\ SumOf(s) \in Nat
<1> DEFINE n == Len(s)
           f == Sums(s)
           h == Sums(t)
           A == {m \in Nat : m <= n => h[m] = f[m]}
<1>1. /\ n \in Nat /\ Len(t) = n + 1
      /\ f \in [0 .. n -> Nat] /\ f[0] = 0
      /\ \A i \in 1 .. n : f[i] = f[i - 1] + s[i]
      /\ \A i \in 1 .. n : t[i] = s[i]
  BY SumsLemma
<1>2. h[0] = 0 /\ \A i \in 1 .. n + 1 : h[i] = h[i - 1] + t[i]
  BY <1>1, SumsLemma
<1> HIDE DEF n, f, h
<1>3. \A m \in Nat : m \in A
  <2>1. 0 \in A
    BY <1>1, <1>2
  <2>2. ASSUME NEW m \in Nat, m \in A PROVE m + 1 \in A
    <3> SUFFICES ASSUME m + 1 <= n PROVE h[m + 1] = f[m + 1]
      OBVIOUS
    <3> DEFINE i == m + 1
    <3>1. i \in 1 .. n /\ i - 1 = m /\ i \in 1 .. n + 1 /\ m <= n
      BY <1>1
    <3> HIDE DEF i
    <3>2. h[i] = h[m] + t[i] /\ f[i] = f[m] + s[i] /\ h[m] = f[m] /\ t[i] = s[i]
      BY <1>1, <1>2, <2>2, <3>1
    <3>3. h[i] = f[i]
      BY <3>2
    <3> QED BY <3>3 DEF i
  <2> HIDE DEF A
  <2> QED BY <2>1, <2>2, SetInduction
<1>4. h[n] = f[n] /\ f[n] \in Nat
  BY <1>1, <1>3
<1> DEFINE last == Len(t)
<1>5. last \in 1 .. n + 1 /\ last - 1 = n
  BY <1>1
<1> HIDE DEF last
<1>6. h[last] = h[n] + t[last]
  BY <1>2, <1>5
<1>7. h[Len(t)] = f[n] + t[Len(t)]
  BY <1>4, <1>6 DEF last
<1> QED BY <1>4, <1>7 DEF SumOf, n, f, h
=============================================================================
