------------------------------ MODULE BlockPool ------------------------------
(***************************************************************************)
(* The pool of physical KV blocks (inferneo/kv/block_pool.py).             *)
(*                                                                         *)
(* A block is either referenced (refCount > 0) or parked in the LRU free   *)
(* queue.  With prefix caching a parked block keeps the hash of the full   *)
(* content it holds and can be revived by that hash until the block is     *)
(* handed out again: eviction is lazy.                                     *)
(*                                                                         *)
(* The module is the component by itself; KVCacheManager.tla extends it    *)
(* and drives the same actions.                                            *)
(***************************************************************************)
EXTENDS Integers, Sequences, SequencesExt

CONSTANTS
    NumBlocks,      \* BlockPool.num_blocks
    Hash,           \* the content hashes of full blocks
    NoHash,         \* KVBlock.block_hash is None
    EnableCaching   \* BlockPool.enable_caching

\* "num_blocks must be positive" is a ValueError of the constructor.
ASSUME NumBlocksAssumption == NumBlocks \in Nat \ {0}
ASSUME NoHashAssumption == NoHash \notin Hash
ASSUME CachingAssumption == EnableCaching \in BOOLEAN

Block == 0 .. NumBlocks - 1
NoBlock == -1       \* BlockPool._cached.get(h) is None

VARIABLES
    free,           \* _free: ids in eviction order, least recently used first
    refCount,       \* KVBlock.ref_count
    blockHash,      \* KVBlock.block_hash
    cached          \* _cached: hash -> block, or NoBlock

poolVars == <<free, refCount, blockHash, cached>>

PoolTypeOK ==
    /\ free \in Seq(Block)
    /\ refCount \in [Block -> Nat]
    /\ blockHash \in [Block -> Hash \cup {NoHash}]
    /\ cached \in [Hash -> Block \cup {NoBlock}]

PoolInit ==
    /\ free = [i \in 1 .. NumBlocks |-> i - 1]
    /\ refCount = [b \in Block |-> 0]
    /\ blockHash = [b \in Block |-> NoHash]
    /\ cached = [h \in Hash |-> NoBlock]

-----------------------------------------------------------------------------
(* The operations. *)

\* The n blocks that allocate(n) hands out: the LRU end of the free queue.
LruBlocks(n) == SubSeq(free, 1, n)

\* Mutant: the index entry of an evicted block is kept.
AllocateKeepsIndex(n) ==
    /\ n <= Len(free)
    /\ free' = SubSeq(free, n + 1, Len(free))
    /\ LET taken == Range(LruBlocks(n))
       IN  /\ refCount' = [b \in Block |-> IF b \in taken THEN 1 ELSE refCount[b]]
           /\ blockHash' = [b \in Block |-> IF b \in taken THEN NoHash ELSE blockHash[b]]
    /\ UNCHANGED cached

\* Mutant: the last block handed out stays in the queue.
AllocateLeavesLast(n) ==
    /\ n <= Len(free)
    /\ free' = SubSeq(free, n, Len(free))
    /\ LET taken == Range(LruBlocks(n))
       IN  /\ refCount' = [b \in Block |-> IF b \in taken THEN 1 ELSE refCount[b]]
           /\ blockHash' = [b \in Block |-> IF b \in taken THEN NoHash ELSE blockHash[b]]
           /\ cached' = [h \in Hash |->
                           IF \E b \in taken : blockHash[b] = h THEN NoBlock ELSE cached[h]]

\* Mutant: a block handed out keeps the label of its old content.
AllocateKeepsLabels(n) ==
    /\ n <= Len(free)
    /\ free' = SubSeq(free, n + 1, Len(free))
    /\ refCount' = [b \in Block |-> IF b \in Range(LruBlocks(n)) THEN 1 ELSE refCount[b]]
    /\ UNCHANGED <<blockHash, cached>>

\* allocate(n) when n blocks are free.  It returns LruBlocks(n); a hash those
\* blocks still carried is dropped from them and from the index.
Allocate(n) ==
    /\ n <= Len(free)
    /\ LET taken == {free[i] : i \in 1 .. n}
       IN  /\ free' = SubSeq(free, n + 1, Len(free))
           /\ refCount' = [b \in Block |-> IF b \in taken THEN 1 ELSE refCount[b]]
           /\ blockHash' = [b \in Block |-> IF b \in taken THEN NoHash ELSE blockHash[b]]
           /\ cached' = [h \in Hash |->
                           IF \E b \in taken : blockHash[b] = h THEN NoBlock ELSE cached[h]]

\* Mutant: a freed block goes to the end that is evicted first.
FreeAtLruEnd(b) ==
    /\ refCount[b] > 0
    /\ refCount' = [refCount EXCEPT ![b] = @ - 1]
    /\ free' = IF refCount[b] = 1 THEN <<b>> \o free ELSE free
    /\ UNCHANGED <<blockHash, cached>>

\* free(b).  With no reference left the code raises "double free" instead.
Free(b) ==
    /\ refCount[b] > 0
    /\ refCount' = [refCount EXCEPT ![b] = @ - 1]
    /\ free' = IF refCount[b] = 1 THEN Append(free, b) ELSE free
    /\ UNCHANGED <<blockHash, cached>>

\* Mutant: a revived block stays in the free queue.
GetCachedBlockStaysFree(h) ==
    /\ EnableCaching
    /\ cached[h] # NoBlock
    /\ refCount' = [refCount EXCEPT ![cached[h]] = @ + 1]
    /\ UNCHANGED <<free, blockHash, cached>>

\* get_cached_block(h) on a hit: a reference to the block, taken out of the
\* free queue if it was parked there.  A miss changes nothing.
GetCachedBlock(h) ==
    /\ EnableCaching
    /\ cached[h] # NoBlock
    /\ refCount' = [refCount EXCEPT ![cached[h]] = @ + 1]
    /\ IF refCount[cached[h]] = 0
       THEN \E i \in 1 .. Len(free) : free[i] = cached[h] /\ free' = RemoveAt(free, i)
       ELSE free' = free
    /\ UNCHANGED <<blockHash, cached>>

\* cache_block(b, h): the first writer of a hash wins, and a block is labelled
\* at most once.
CacheBlock(b, h) ==
    /\ IF EnableCaching /\ blockHash[b] = NoHash /\ cached[h] = NoBlock
       THEN /\ blockHash' = [blockHash EXCEPT ![b] = h]
            /\ cached' = [cached EXCEPT ![h] = b]
       ELSE UNCHANGED <<blockHash, cached>>
    /\ UNCHANGED <<free, refCount>>

\* The pool under any sequence of calls.  Callers label only blocks they hold.
PoolNext ==
    \/ \E n \in 1 .. Len(free) : Allocate(n)
    \/ \E b \in Block : Free(b)
    \/ \E h \in Hash : GetCachedBlock(h)
    \/ \E b \in Block, h \in Hash : refCount[b] > 0 /\ CacheBlock(b, h)

PoolSpec == PoolInit /\ [][PoolNext]_poolVars

-----------------------------------------------------------------------------
(* What the pool promises. *)

\* A block is in the free queue exactly when nobody references it, and it is
\* there once: no block is lost (leaked) and none is handed to two owners.
FreeIffUnreferenced ==
    /\ IsInjective(free)
    /\ \A b \in Block : refCount[b] = 0 <=> b \in Range(free)

\* The index and the labels on the blocks are inverse to each other: a lookup
\* never returns a block that was handed out for other content, and no label
\* outlives its index entry (block_pool.py:55-58, 87-90).
IndexMatchesLabels ==
    \A h \in Hash, b \in Block : cached[h] = b <=> blockHash[b] = h

\* Eviction is lazy (module docstring of block_pool.py): content leaves the
\* index only when its block, unreferenced until then, is handed out for new
\* content; a referenced block keeps its label and stays findable.
EvictionIsLazy ==
    [][\A h \in Hash :
          cached[h] \in Block /\ cached'[h] # cached[h]
             => /\ cached'[h] = NoBlock
                /\ refCount[cached[h]] = 0
                /\ refCount'[cached[h]] = 1]_poolVars

\* Eviction takes the least recently freed block: when a parked block is handed
\* out for new content, every block parked before it is handed out too; and the
\* blocks that stay parked keep their order, ahead of any newly freed one.
EvictionIsLru ==
    [][\A i, j \in 1 .. Len(free) : i < j =>
          /\ free[j] \in Block /\ refCount'[free[j]] > 0 /\ blockHash'[free[j]] = NoHash
               => refCount'[free[i]] > 0
          /\ refCount'[free[i]] = 0 /\ refCount'[free[j]] = 0
               => \E k, l \in 1 .. Len(free') :
                     k < l /\ l <= Len(free) /\ free'[k] = free[i] /\ free'[l] = free[j]
      ]_poolVars
=============================================================================
