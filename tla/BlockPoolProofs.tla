--------------------------- MODULE BlockPoolProofs ---------------------------
(***************************************************************************)
(* Theorems about BlockPool for every number of blocks and every set of    *)
(* hashes.  The invariant is the conjunction of the three the runs check;  *)
(* it is inductive as it stands, but only as a whole: Allocate preserves   *)
(* IndexMatchesLabels because FreeIffUnreferenced keeps the queue free of  *)
(* repetitions, and reviving a parked block finds it in the queue.         *)
(***************************************************************************)
EXTENDS BlockPool, SequenceLemmas

PoolInv == PoolTypeOK /\ FreeIffUnreferenced /\ IndexMatchesLabels

\* The empty pool satisfies the invariant.
LEMMA PoolInitInv == PoolInit => PoolInv
<1> SUFFICES ASSUME PoolInit PROVE PoolInv
  OBVIOUS
<1>1. PoolTypeOK
  BY NumBlocksAssumption DEF PoolInit, PoolTypeOK, Block
<1>2. FreeIffUnreferenced
  <2>1. IsInjective(free)
    BY NumBlocksAssumption DEF PoolInit, IsInjective
  <2>2. ASSUME NEW b \in Block PROVE b \in Range(free)
    <3>1. b + 1 \in DOMAIN free /\ free[b + 1] = b
      BY NumBlocksAssumption DEF PoolInit, Block
    <3> QED BY <3>1 DEF Range
  <2> QED BY <2>1, <2>2 DEF FreeIffUnreferenced, PoolInit
<1>3. IndexMatchesLabels
  BY NoHashAssumption DEF PoolInit, IndexMatchesLabels, Block, NoBlock
<1> QED BY <1>1, <1>2, <1>3 DEF PoolInv

\* Handing out the LRU end of the queue keeps the invariant.
LEMMA AllocateInv ==
  ASSUME PoolInv, NEW n \in Nat, Allocate(n)
  PROVE  PoolInv'
<1> DEFINE taken == {free[i] : i \in 1 .. n}
<1>1. /\ free \in Seq(Block) /\ n \in 0 .. Len(free)
      /\ IsInjective(free)
      /\ \A b \in Block : refCount[b] = 0 <=> b \in Range(free)
  BY DEF Allocate, PoolInv, PoolTypeOK, FreeIffUnreferenced
<1>2. /\ free' \in Seq(Block)
      /\ IsInjective(free')
      /\ Range(free') = Range(free) \ taken
  BY <1>1, DropLemma DEF Allocate
<1>3. taken \subseteq Block
  BY <1>1
<1>4. /\ refCount' = [b \in Block |-> IF b \in taken THEN 1 ELSE refCount[b]]
      /\ blockHash' = [b \in Block |-> IF b \in taken THEN NoHash ELSE blockHash[b]]
      /\ cached' = [h \in Hash |->
                     IF \E b \in taken : blockHash[b] = h THEN NoBlock ELSE cached[h]]
  BY DEF Allocate
<1> HIDE DEF taken
<1>5. PoolTypeOK'
  BY <1>2, <1>4 DEF PoolTypeOK, PoolInv
<1>6. FreeIffUnreferenced'
  BY <1>1, <1>2, <1>4 DEF FreeIffUnreferenced
<1>7. IndexMatchesLabels'
  <2> SUFFICES ASSUME NEW h \in Hash, NEW b \in Block
               PROVE  cached'[h] = b <=> blockHash'[b] = h
    BY DEF IndexMatchesLabels
  <2>1. cached[h] = b <=> blockHash[b] = h
    BY DEF PoolInv, IndexMatchesLabels
  <2>2. \A c \in taken : blockHash[c] = h => cached[h] = c
    BY <1>3 DEF PoolInv, IndexMatchesLabels
  <2> QED
    BY <1>4, <2>1, <2>2, NoHashAssumption DEF NoBlock, Block
<1> QED BY <1>5, <1>6, <1>7 DEF PoolInv

\* Dropping a reference keeps the invariant.
LEMMA FreeInv ==
  ASSUME PoolInv, NEW b \in Block, Free(b)
  PROVE  PoolInv'
<1>1. /\ free \in Seq(Block) /\ IsInjective(free)
      /\ refCount \in [Block -> Nat] /\ refCount[b] > 0
      /\ \A c \in Block : refCount[c] = 0 <=> c \in Range(free)
      /\ refCount' = [refCount EXCEPT ![b] = @ - 1]
      /\ free' = IF refCount[b] = 1 THEN Append(free, b) ELSE free
      /\ UNCHANGED <<blockHash, cached>>
  BY DEF Free, PoolInv, PoolTypeOK, FreeIffUnreferenced
<1>2. PoolTypeOK'
  BY <1>1 DEF PoolTypeOK, PoolInv
<1>3. FreeIffUnreferenced'
  <2>1. CASE refCount[b] = 1
    <3>1. IsInjective(free') /\ Range(free') = Range(free) \cup {b}
      BY <1>1, <2>1, AppendLemma
    <3> QED BY <1>1, <2>1, <3>1 DEF FreeIffUnreferenced
  <2>2. CASE refCount[b] # 1
    BY <1>1, <2>2 DEF FreeIffUnreferenced
  <2> QED BY <2>1, <2>2
<1>4. IndexMatchesLabels'
  BY <1>1 DEF PoolInv, IndexMatchesLabels
<1> QED BY <1>2, <1>3, <1>4 DEF PoolInv

\* Taking a reference to a cached block keeps the invariant.
LEMMA GetCachedBlockInv ==
  ASSUME PoolInv, NEW h \in Hash, GetCachedBlock(h)
  PROVE  PoolInv'
<1> DEFINE b == cached[h]
<1>1. /\ b \in Block /\ free \in Seq(Block) /\ IsInjective(free)
      /\ refCount \in [Block -> Nat]
      /\ \A c \in Block : refCount[c] = 0 <=> c \in Range(free)
      /\ refCount' = [refCount EXCEPT ![b] = @ + 1]
      /\ UNCHANGED <<blockHash, cached>>
  BY DEF GetCachedBlock, PoolInv, PoolTypeOK, FreeIffUnreferenced
<1>2. /\ free' \in Seq(Block) /\ IsInjective(free')
      /\ Range(free') = Range(free) \ {b}
  <2>1. CASE refCount[b] = 0
    <3>1. PICK i \in 1 .. Len(free) : free[i] = b /\ free' = RemoveAt(free, i)
      BY <2>1 DEF GetCachedBlock
    <3>2. /\ RemoveAt(free, i) \in Seq(Block) /\ IsInjective(RemoveAt(free, i))
          /\ Range(RemoveAt(free, i)) = Range(free) \ {free[i]}
      BY <1>1, RemoveAtLemma
    <3> QED BY <3>1, <3>2
  <2>2. CASE refCount[b] # 0
    BY <1>1, <2>2 DEF GetCachedBlock
  <2> QED BY <2>1, <2>2
<1> HIDE DEF b
<1>3. PoolTypeOK'
  BY <1>1, <1>2 DEF PoolInv, PoolTypeOK
<1>4. FreeIffUnreferenced'
  BY <1>1, <1>2 DEF FreeIffUnreferenced
<1>5. IndexMatchesLabels'
  BY <1>1 DEF PoolInv, IndexMatchesLabels
<1> QED BY <1>3, <1>4, <1>5 DEF PoolInv

\* Labelling a block keeps the invariant.
LEMMA CacheBlockInv ==
  ASSUME PoolInv, NEW b \in Block, NEW h \in Hash, CacheBlock(b, h)
  PROVE  PoolInv'
<1>1. CASE EnableCaching /\ blockHash[b] = NoHash /\ cached[h] = NoBlock
  <2>1. /\ blockHash' = [blockHash EXCEPT ![b] = h]
        /\ cached' = [cached EXCEPT ![h] = b]
        /\ UNCHANGED <<free, refCount>>
    BY <1>1 DEF CacheBlock
  <2>2. PoolTypeOK'
    BY <2>1 DEF PoolInv, PoolTypeOK
  <2>3. FreeIffUnreferenced'
    BY <2>1 DEF PoolInv, FreeIffUnreferenced
  <2>4. IndexMatchesLabels'
    BY <1>1, <2>1, NoHashAssumption
    DEF PoolInv, PoolTypeOK, IndexMatchesLabels, NoBlock, Block
  <2> QED BY <2>2, <2>3, <2>4 DEF PoolInv
<1>2. CASE ~(EnableCaching /\ blockHash[b] = NoHash /\ cached[h] = NoBlock)
  BY <1>2 DEF CacheBlock, PoolInv, PoolTypeOK, FreeIffUnreferenced, IndexMatchesLabels
<1> QED BY <1>1, <1>2

\* Every step of the pool keeps the invariant.
LEMMA PoolNextInv == PoolInv /\ [PoolNext]_poolVars => PoolInv'
<1> SUFFICES ASSUME PoolInv, [PoolNext]_poolVars PROVE PoolInv'
  OBVIOUS
<1>1. ASSUME NEW n \in 1 .. Len(free), Allocate(n) PROVE PoolInv'
  BY <1>1, AllocateInv, NumBlocksAssumption
<1>2. ASSUME NEW b \in Block, Free(b) PROVE PoolInv'
  BY <1>2, FreeInv
<1>3. ASSUME NEW h \in Hash, GetCachedBlock(h) PROVE PoolInv'
  BY <1>3, GetCachedBlockInv
<1>4. ASSUME NEW b \in Block, NEW h \in Hash, CacheBlock(b, h) PROVE PoolInv'
  BY <1>4, CacheBlockInv
<1>5. CASE UNCHANGED poolVars
  BY <1>5 DEF poolVars, PoolInv, PoolTypeOK, FreeIffUnreferenced, IndexMatchesLabels
<1> QED BY <1>1, <1>2, <1>3, <1>4, <1>5 DEF PoolNext

\* Under every sequence of calls the pool's variables keep their types.
THEOREM PoolTypeCorrect == PoolSpec => []PoolTypeOK
<1>1. PoolInv => PoolTypeOK
  BY DEF PoolInv
<1> QED BY PoolInitInv, PoolNextInv, <1>1, PTL DEF PoolSpec

\* Under every sequence of calls a block is in the free queue, once, exactly
\* when it is unreferenced: no leak, no block with two owners.
THEOREM FreeQueueCorrect == PoolSpec => []FreeIffUnreferenced
<1>1. PoolInv => FreeIffUnreferenced
  BY DEF PoolInv
<1> QED BY PoolInitInv, PoolNextInv, <1>1, PTL DEF PoolSpec

\* Under every sequence of calls index and labels are inverse to each other.
THEOREM IndexCorrect == PoolSpec => []IndexMatchesLabels
<1>1. PoolInv => IndexMatchesLabels
  BY DEF PoolInv
<1> QED BY PoolInitInv, PoolNextInv, <1>1, PTL DEF PoolSpec

\* Under every sequence of calls eviction is lazy: content leaves the index only
\* when its unreferenced block is handed out again.
THEOREM EvictionLazy == PoolSpec => EvictionIsLazy
<1> DEFINE Lazy ==
      \A h \in Hash :
         cached[h] \in Block /\ cached'[h] # cached[h]
            => /\ cached'[h] = NoBlock
               /\ refCount[cached[h]] = 0
               /\ refCount'[cached[h]] = 1
<1>1. ASSUME PoolInv, [PoolNext]_poolVars PROVE [Lazy]_poolVars
  <2> SUFFICES ASSUME NEW h \in Hash, cached[h] \in Block, cached'[h] # cached[h]
               PROVE  /\ cached'[h] = NoBlock
                      /\ refCount[cached[h]] = 0
                      /\ refCount'[cached[h]] = 1
    OBVIOUS
  <2>1. ASSUME NEW n \in 1 .. Len(free), Allocate(n)
        PROVE  /\ cached'[h] = NoBlock
               /\ refCount[cached[h]] = 0
               /\ refCount'[cached[h]] = 1
    <3>1. PICK i \in 1 .. n : blockHash[free[i]] = h /\ cached'[h] = NoBlock
      BY <2>1 DEF Allocate
    <3>2. i \in 1 .. Len(free) /\ free[i] \in Block /\ free[i] \in Range(free)
      BY <1>1, <2>1, <3>1, NumBlocksAssumption DEF Allocate, PoolInv, PoolTypeOK, Range
    <3>3. cached[h] = free[i] /\ refCount[free[i]] = 0
      BY <1>1, <3>1, <3>2 DEF PoolInv, IndexMatchesLabels, FreeIffUnreferenced
    <3> QED BY <2>1, <3>1, <3>2, <3>3 DEF Allocate
  <2>2. ASSUME NEW b \in Block, Free(b) PROVE FALSE
    BY <2>2 DEF Free
  <2>3. ASSUME NEW g \in Hash, GetCachedBlock(g) PROVE FALSE
    BY <2>3 DEF GetCachedBlock
  <2>4. ASSUME NEW b \in Block, NEW g \in Hash, CacheBlock(b, g) PROVE FALSE
    BY <1>1, <2>4 DEF CacheBlock, PoolInv, PoolTypeOK, NoBlock, Block
  <2>5. ~ UNCHANGED poolVars
    BY DEF poolVars
  <2> QED BY <1>1, <2>1, <2>2, <2>3, <2>4, <2>5 DEF PoolNext
<1> QED BY PoolInitInv, PoolNextInv, <1>1, PTL DEF PoolSpec, EvictionIsLazy

-----------------------------------------------------------------------------
(* The order of eviction. *)

\* i and j are places in the queue: j goes only if i goes too, and if both stay
\* they stay in this order, within the length the queue had.
GoesFirst(i, j) ==
    refCount'[free[j]] > 0 /\ blockHash'[free[j]] = NoHash => refCount'[free[i]] > 0
StayInOrder(i, j) ==
    refCount'[free[i]] = 0 /\ refCount'[free[j]] = 0
       => \E k, l \in 1 .. Len(free') :
             k < l /\ l <= Len(free) /\ free'[k] = free[i] /\ free'[l] = free[j]

LEMMA ParkedBlocks ==
  ASSUME PoolInv
  PROVE  /\ free \in Seq(Block) /\ Len(free) \in Nat
         /\ \A i \in 1 .. Len(free) : free[i] \in Block /\ refCount[free[i]] = 0
         /\ \A i, j \in 1 .. Len(free) : free[i] = free[j] => i = j
         /\ refCount \in [Block -> Nat]
<1>1. free \in Seq(Block) /\ IsInjective(free) /\ refCount \in [Block -> Nat]
  BY DEF PoolInv, PoolTypeOK, FreeIffUnreferenced
<1>2. \A i, j \in 1 .. Len(free) : free[i] = free[j] => i = j
  BY <1>1, InjectiveSequence
<1>3. \A i \in 1 .. Len(free) : free[i] \in Block /\ free[i] \in Range(free)
  BY <1>1 DEF Range
<1> QED BY <1>1, <1>2, <1>3 DEF PoolInv, FreeIffUnreferenced

LEMMA AllocateIsLru ==
  ASSUME PoolInv, NEW n \in 1 .. Len(free), Allocate(n),
         NEW i \in 1 .. Len(free), NEW j \in 1 .. Len(free), i < j
  PROVE  GoesFirst(i, j) /\ StayInOrder(i, j)
<1> DEFINE taken == {free[m] : m \in 1 .. n}
<1>1. /\ free \in Seq(Block) /\ Len(free) \in Nat
      /\ \A m \in 1 .. Len(free) : free[m] \in Block /\ refCount[free[m]] = 0
      /\ \A m, p \in 1 .. Len(free) : free[m] = free[p] => m = p
  BY ParkedBlocks
<1>2. /\ refCount' = [b \in Block |-> IF b \in taken THEN 1 ELSE refCount[b]]
      /\ free' = SubSeq(free, n + 1, Len(free))
  BY DEF Allocate
<1>3. \A m \in 1 .. Len(free) : free[m] \in taken <=> m <= n
  <2> SUFFICES ASSUME NEW m \in 1 .. Len(free) PROVE free[m] \in taken <=> m <= n
    OBVIOUS
  <2>1. m <= n => m \in 1 .. n
    BY <1>1
  <2>2. \A p \in 1 .. n : p \in 1 .. Len(free) /\ p <= n
    BY <1>1
  <2> QED BY <1>1, <2>1, <2>2
<1> HIDE DEF taken
<1>4. \A m \in 1 .. Len(free) : refCount'[free[m]] = IF m <= n THEN 1 ELSE 0
  BY <1>1, <1>2, <1>3
<1>5. GoesFirst(i, j)
  <2>1. ~(j <= n) => refCount'[free[j]] = 0
    BY <1>4
  <2>2. j <= n => i <= n
    BY <1>1
  <2>3. i <= n => refCount'[free[i]] = 1
    BY <1>4
  <2> QED BY <2>1, <2>2, <2>3 DEF GoesFirst
<1>6. StayInOrder(i, j)
  <2> SUFFICES ASSUME refCount'[free[i]] = 0, refCount'[free[j]] = 0
               PROVE  \E k, l \in 1 .. Len(free') :
                         k < l /\ l <= Len(free) /\ free'[k] = free[i] /\ free'[l] = free[j]
    BY DEF StayInOrder
  <2>1. i > n /\ j > n
    BY <1>1, <1>4
  <2>2. Len(free') = Len(free) - n /\ \A m \in 1 .. Len(free) - n : free'[m] = free[m + n]
    BY <1>1, <1>2
  <2> DEFINE k == i - n
             l == j - n
  <2>3. /\ k \in 1 .. Len(free) - n /\ l \in 1 .. Len(free) - n /\ k < l /\ l <= Len(free)
        /\ k + n = i /\ l + n = j
    BY <1>1, <2>1
  <2> HIDE DEF k, l
  <2>4. free'[k] = free[i] /\ free'[l] = free[j]
    BY <2>2, <2>3
  <2>5. k \in 1 .. Len(free') /\ l \in 1 .. Len(free')
    BY <2>2, <2>3
  <2> QED BY <2>3, <2>4, <2>5
<1> QED BY <1>5, <1>6

LEMMA FreeIsLru ==
  ASSUME PoolInv, NEW b \in Block, Free(b),
         NEW i \in 1 .. Len(free), NEW j \in 1 .. Len(free), i < j
  PROVE  GoesFirst(i, j) /\ StayInOrder(i, j)
<1>1. /\ free \in Seq(Block) /\ Len(free) \in Nat /\ refCount \in [Block -> Nat]
      /\ \A m \in 1 .. Len(free) : free[m] \in Block /\ refCount[free[m]] = 0
  BY ParkedBlocks
<1>2. /\ refCount[b] > 0 /\ refCount' = [refCount EXCEPT ![b] = @ - 1]
      /\ free' = IF refCount[b] = 1 THEN Append(free, b) ELSE free
  BY DEF Free
<1>3. \A m \in 1 .. Len(free) : refCount'[free[m]] = 0
  BY <1>1, <1>2
<1>4. Len(free') >= Len(free) /\ Len(free') \in Nat /\ \A m \in 1 .. Len(free) : free'[m] = free[m]
  BY <1>1, <1>2
<1>5. i \in 1 .. Len(free') /\ j \in 1 .. Len(free') /\ j <= Len(free)
  BY <1>1, <1>4
<1> QED BY <1>3, <1>4, <1>5 DEF GoesFirst, StayInOrder

LEMMA GetCachedBlockIsLru ==
  ASSUME PoolInv, NEW h \in Hash, GetCachedBlock(h),
         NEW i \in 1 .. Len(free), NEW j \in 1 .. Len(free), i < j
  PROVE  GoesFirst(i, j) /\ StayInOrder(i, j)
<1> DEFINE b == cached[h]
<1>1. /\ free \in Seq(Block) /\ Len(free) \in Nat /\ refCount \in [Block -> Nat]
      /\ \A m \in 1 .. Len(free) : free[m] \in Block /\ refCount[free[m]] = 0
      /\ \A m, p \in 1 .. Len(free) : free[m] = free[p] => m = p
  BY ParkedBlocks
<1>2. /\ b \in Block /\ refCount' = [refCount EXCEPT ![b] = @ + 1] /\ blockHash' = blockHash
      /\ b # NoBlock
  BY DEF GetCachedBlock, PoolInv, PoolTypeOK
<1>3. blockHash[b] = h /\ h # NoHash
  BY <1>2, NoHashAssumption DEF PoolInv, IndexMatchesLabels
<1>4. refCount[b] # 0 => free' = free
  BY DEF GetCachedBlock
<1>5. refCount[b] = 0 => \E p \in 1 .. Len(free) : free[p] = b /\ free' = RemoveAt(free, p)
  BY DEF GetCachedBlock
<1> HIDE DEF b
<1>6. \A m \in 1 .. Len(free) : free[m] # b => refCount'[free[m]] = 0
  BY <1>1, <1>2
<1>7. refCount'[b] = refCount[b] + 1 /\ refCount[b] \in Nat
  BY <1>1, <1>2
<1>8. GoesFirst(i, j)
  <2>1. free[j] # b => refCount'[free[j]] = 0
    BY <1>6
  <2>2. free[j] = b => blockHash'[free[j]] # NoHash
    BY <1>2, <1>3
  <2> QED BY <2>1, <2>2 DEF GoesFirst
<1>9. StayInOrder(i, j)
  <2> SUFFICES ASSUME refCount'[free[i]] = 0, refCount'[free[j]] = 0
               PROVE  \E k, l \in 1 .. Len(free') :
                         k < l /\ l <= Len(free) /\ free'[k] = free[i] /\ free'[l] = free[j]
    BY DEF StayInOrder
  <2>1. free[i] # b /\ free[j] # b
    BY <1>7
  <2>2. CASE refCount[b] # 0
    <3>1. free' = free /\ j <= Len(free)
      BY <1>4, <2>2
    <3> QED BY <3>1
  <2>3. CASE refCount[b] = 0
    <3>1. PICK p \in 1 .. Len(free) : free[p] = b /\ free' = RemoveAt(free, p)
      BY <1>5, <2>3
    <3>2. /\ Len(free') = Len(free) - 1
          /\ \A m \in 1 .. Len(free) - 1 : (m < p => free'[m] = free[m]) /\ (m >= p => free'[m] = free[m + 1])
      BY <1>1, <3>1, RemoveAtPositions
    <3>3. i # p /\ j # p
      BY <2>1, <3>1
    <3> DEFINE k == IF i < p THEN i ELSE i - 1
               l == IF j < p THEN j ELSE j - 1
    <3>4. k \in 1 .. Len(free) - 1 /\ l \in 1 .. Len(free) - 1 /\ k < l /\ l <= Len(free)
      BY <1>1, <3>3
    <3>5. (k < p /\ k = i) \/ (k >= p /\ k + 1 = i)
      BY <1>1, <3>3
    <3>6. (l < p /\ l = j) \/ (l >= p /\ l + 1 = j)
      BY <1>1, <3>3
    <3> HIDE DEF k, l
    <3>7. free'[k] = free[i] /\ free'[l] = free[j]
      BY <3>2, <3>4, <3>5, <3>6
    <3>8. k \in 1 .. Len(free') /\ l \in 1 .. Len(free')
      BY <3>2, <3>4
    <3> QED BY <3>4, <3>7, <3>8
  <2> QED BY <2>2, <2>3
<1> QED BY <1>8, <1>9

LEMMA CacheBlockIsLru ==
  ASSUME PoolInv, NEW b \in Block, NEW h \in Hash, CacheBlock(b, h),
         NEW i \in 1 .. Len(free), NEW j \in 1 .. Len(free), i < j
  PROVE  GoesFirst(i, j) /\ StayInOrder(i, j)
<1>1. Len(free) \in Nat /\ \A m \in 1 .. Len(free) : refCount[free[m]] = 0
  BY ParkedBlocks
<1>2. free' = free /\ refCount' = refCount
  BY DEF CacheBlock
<1>3. j <= Len(free)
  BY <1>1
<1> QED BY <1>1, <1>2, <1>3 DEF GoesFirst, StayInOrder

\* Under every sequence of calls the least recently freed block is evicted first,
\* and the blocks that stay parked keep their order, ahead of any newly freed one.
THEOREM EvictionLru == PoolSpec => EvictionIsLru
<1> DEFINE Lru ==
      \A i, j \in 1 .. Len(free) : i < j =>
          /\ free[j] \in Block /\ refCount'[free[j]] > 0 /\ blockHash'[free[j]] = NoHash
               => refCount'[free[i]] > 0
          /\ refCount'[free[i]] = 0 /\ refCount'[free[j]] = 0
               => \E k, l \in 1 .. Len(free') :
                     k < l /\ l <= Len(free) /\ free'[k] = free[i] /\ free'[l] = free[j]
<1>1. ASSUME PoolInv, [PoolNext]_poolVars PROVE [Lru]_poolVars
  <2> SUFFICES ASSUME PoolNext, NEW i \in 1 .. Len(free), NEW j \in 1 .. Len(free), i < j
               PROVE  GoesFirst(i, j) /\ StayInOrder(i, j)
    BY <1>1 DEF GoesFirst, StayInOrder
  <2>1. ASSUME NEW n \in 1 .. Len(free), Allocate(n) PROVE GoesFirst(i, j) /\ StayInOrder(i, j)
    BY <1>1, <2>1, AllocateIsLru
  <2>2. ASSUME NEW b \in Block, Free(b) PROVE GoesFirst(i, j) /\ StayInOrder(i, j)
    BY <1>1, <2>2, FreeIsLru
  <2>3. ASSUME NEW h \in Hash, GetCachedBlock(h) PROVE GoesFirst(i, j) /\ StayInOrder(i, j)
    BY <1>1, <2>3, GetCachedBlockIsLru
  <2>4. ASSUME NEW b \in Block, NEW h \in Hash, CacheBlock(b, h) PROVE GoesFirst(i, j) /\ StayInOrder(i, j)
    BY <1>1, <2>4, CacheBlockIsLru
  <2> QED BY <2>1, <2>2, <2>3, <2>4 DEF PoolNext
<1> QED BY PoolInitInv, PoolNextInv, <1>1, PTL DEF PoolSpec, EvictionIsLru
=============================================================================
