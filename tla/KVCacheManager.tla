--------------------------- MODULE KVCacheManager ----------------------------
(***************************************************************************)
(* Per-request block tables over the shared pool                           *)
(* (inferneo/kv/block_manager.py, inferneo/kv/hashing.py).                 *)
(*                                                                         *)
(* A call of the manager is a short run of pool operations; each is one    *)
(* step here, because every one can change what the next one finds.  The   *)
(* intermediate results of a call are variables: `hits` collects the       *)
(* references get_computed_blocks takes, `toFree` is what a release loop   *)
(* still has to hand back.  Scheduler.tla drives these same actions in the *)
(* order scheduler.py makes the calls; here they occur in any order a      *)
(* caller could make them in.                                              *)
(*                                                                         *)
(* hash_block chains parents, so a hash commits to the whole token prefix  *)
(* that ends with the block.  It is modelled as that prefix: Python's      *)
(* 64-bit hash() is taken to be injective on the prefixes in use.          *)
(***************************************************************************)
EXTENDS BlockPool, FiniteSets

CONSTANTS
    Request,        \* request ids
    Token,          \* token ids
    BlockSize,      \* KVCacheManager.block_size
    MaxModelLen,    \* bound on the tokens of a request (max_model_len)
    Prompts         \* the prompts that requests come with

ASSUME RequestAssumption == IsFiniteSet(Request)
ASSUME BlockSizeAssumption == BlockSize \in Nat \ {0}
ASSUME MaxModelLenAssumption == MaxModelLen \in Nat \ {0}
\* InferneoEngine.add_request refuses empty prompts and those of max_model_len.
ASSUME PromptsAssumption == Prompts \subseteq UNION {[1 .. n -> Token] : n \in 1 .. MaxModelLen - 1}
ASSUME HashAssumption ==
    Hash = UNION {[1 .. i * BlockSize -> Token] : i \in 1 .. MaxModelLen \div BlockSize}

VARIABLES
    tokens,         \* EngineRequest.all_token_ids
    table,          \* _req_blocks: the request's blocks, << >> when it has none
    hashed,         \* Len(_req_hashes[r]): leading blocks already hashed
    unhashed,       \* full blocks that the current allocate_slots has yet to register
    hits,           \* references taken by get_computed_blocks, not yet attached
    toFree          \* references a release loop has still to drop, in order

kvVars == <<tokens, table, hashed, unhashed, hits, toFree>>

\* Mutant: a block is hashed without its parent.
UnchainedHash(r, i) == SubSeq(tokens[r], (i - 1) * BlockSize + 1, i * BlockSize)

\* hash_block over the first i blocks of the request.
PrefixHash(r, i) == SubSeq(tokens[r], 1, i * BlockSize)

\* Mutant: rounds down.
FloorDiv(n) == n \div BlockSize

CeilDiv(n) == (n + BlockSize - 1) \div BlockSize

KVTypeOK ==
    /\ PoolTypeOK
    /\ tokens \in [Request -> Seq(Token)]
    /\ \A r \in Request : Len(tokens[r]) <= MaxModelLen
    /\ table \in [Request -> Seq(Block)]
    /\ hashed \in [Request -> Nat]
    /\ unhashed \in [Request -> Nat]
    /\ hits \in [Request -> Seq(Block)]
    /\ toFree \in Seq(Block)

\* No call is half done: nothing left to release, every full block registered.
Settled == toFree = << >> /\ \A r \in Request : unhashed[r] = 0

KVInit ==
    /\ PoolInit
    /\ tokens = [r \in Request |-> << >>]
    /\ table = [r \in Request |-> << >>]
    /\ hashed = [r \in Request |-> 0]
    /\ unhashed = [r \in Request |-> 0]
    /\ hits = [r \in Request |-> << >>]
    /\ toFree = << >>

-----------------------------------------------------------------------------
(* get_computed_blocks *)

\* The next full block of the request exists and is cached.
HitAvailable(r) ==
    LET i == Len(hits[r]) + 1
    IN  EnableCaching /\ i * BlockSize <= Len(tokens[r]) /\ cached[PrefixHash(r, i)] # NoBlock

\* One turn of the lookup loop; without HitAvailable the loop ends.
LookupHit(r) ==
    LET h == PrefixHash(r, Len(hits[r]) + 1)
    IN  /\ Settled
        /\ table[r] = << >>
        /\ HitAvailable(r)
        /\ GetCachedBlock(h)
        /\ hits' = [hits EXCEPT ![r] = Append(@, cached[h])]
        /\ UNCHANGED <<tokens, table, hashed, unhashed, toFree>>

\* Every token is covered by hits: give the last block back, so that one
\* position is left to compute.
CoversAllTokens(r) == hits[r] # << >> /\ Len(hits[r]) * BlockSize = Len(tokens[r])

\* Mutant: the reference is dropped, the block is not returned to the pool.
DropLastHitLeaks(r) ==
    /\ Settled
    /\ CoversAllTokens(r)
    /\ refCount' = [refCount EXCEPT ![Last(hits[r])] = @ - 1]
    /\ hits' = [hits EXCEPT ![r] = Front(@)]
    /\ UNCHANGED <<free, blockHash, cached, tokens, table, hashed, unhashed, toFree>>

DropLastHit(r) ==
    /\ Settled
    /\ CoversAllTokens(r)
    /\ Free(Last(hits[r]))
    /\ hits' = [hits EXCEPT ![r] = Front(@)]
    /\ UNCHANGED <<tokens, table, hashed, unhashed, toFree>>

-----------------------------------------------------------------------------
(* allocate_slots: total is the number of tokens the table must cover. *)

NumFresh(r, total) == CeilDiv(total) - Len(table[r]) - Len(hits[r])

\* Mutant: the hits are hashed again as if they were new.
HashedIgnoringHits(r) == hashed[r]

\* _req_hashes is seeded with the hits, and what is full beyond it is hashed now.
HashedAfter(r) == IF hits[r] = << >> THEN hashed[r] ELSE Len(hits[r])

\* Mutant: the count may go below zero.
NewlyFullUnclamped(known, total) == IF EnableCaching THEN total \div BlockSize - known ELSE 0

NewlyFull(known, total) ==
    IF EnableCaching /\ total \div BlockSize > known THEN total \div BlockSize - known ELSE 0

AllocateSlots(r, total) ==
    /\ Settled
    /\ IF NumFresh(r, total) > 0
       THEN /\ Allocate(NumFresh(r, total))
            /\ table' = [table EXCEPT ![r] = (@ \o hits[r]) \o LruBlocks(NumFresh(r, total))]
       ELSE /\ UNCHANGED poolVars
            /\ table' = [table EXCEPT ![r] = @ \o hits[r]]
    /\ hashed' = [hashed EXCEPT ![r] = HashedAfter(r)]
    /\ unhashed' = [unhashed EXCEPT ![r] = NewlyFull(HashedAfter(r), total)]
    /\ hits' = [hits EXCEPT ![r] = << >>]
    /\ UNCHANGED <<tokens, toFree>>

\* Mutant: the references taken by the lookup are forgotten.
SlotsExhaustedLeaksHits(r, total) ==
    /\ Settled
    /\ NumFresh(r, total) > Len(free)
    /\ hits' = [hits EXCEPT ![r] = << >>]
    /\ UNCHANGED <<poolVars, tokens, table, hashed, unhashed, toFree>>

\* Not enough free blocks: nothing is allocated and the hits are released, in
\* the order they were taken.
SlotsExhausted(r, total) ==
    /\ Settled
    /\ NumFresh(r, total) > Len(free)
    /\ toFree' = hits[r]
    /\ hits' = [hits EXCEPT ![r] = << >>]
    /\ UNCHANGED <<poolVars, tokens, table, hashed, unhashed>>

\* One turn of _cache_full_blocks.
RegisterBlock(r) ==
    /\ unhashed[r] > 0
    /\ CacheBlock(table[r][hashed[r] + 1], PrefixHash(r, hashed[r] + 1))
    /\ hashed' = [hashed EXCEPT ![r] = @ + 1]
    /\ unhashed' = [unhashed EXCEPT ![r] = @ - 1]
    /\ UNCHANGED <<tokens, table, hits, toFree>>

-----------------------------------------------------------------------------
(* free *)

\* Mutant: only the hashed blocks are released.
FreeRequestLeaksPartial(r) ==
    /\ Settled
    /\ hits[r] = << >>
    /\ toFree' = Reverse(SubSeq(table[r], 1, hashed[r]))
    /\ table' = [table EXCEPT ![r] = << >>]
    /\ hashed' = [hashed EXCEPT ![r] = 0]
    /\ UNCHANGED <<poolVars, tokens, unhashed, hits>>

\* The table is popped; its blocks are then released last block first.
FreeRequest(r) ==
    /\ Settled
    /\ hits[r] = << >>
    /\ toFree' = Reverse(table[r])
    /\ table' = [table EXCEPT ![r] = << >>]
    /\ hashed' = [hashed EXCEPT ![r] = 0]
    /\ UNCHANGED <<poolVars, tokens, unhashed, hits>>

\* One turn of a release loop.
ReleaseBlock ==
    /\ toFree # << >>
    /\ Free(Head(toFree))
    /\ toFree' = Tail(toFree)
    /\ UNCHANGED <<tokens, table, hashed, unhashed, hits>>

-----------------------------------------------------------------------------
(* What the callers do to the tokens of a request. *)

\* A new request under an id that holds nothing.
SetPrompt(r, prompt) ==
    /\ Settled
    /\ table[r] = << >> /\ hits[r] = << >>
    /\ tokens' = [tokens EXCEPT ![r] = prompt]
    /\ UNCHANGED <<poolVars, table, hashed, unhashed, hits, toFree>>

\* EngineRequest.append_output_token
AppendToken(r, t) ==
    /\ Settled
    /\ hits[r] = << >>
    /\ tokens' = [tokens EXCEPT ![r] = Append(@, t)]
    /\ UNCHANGED <<poolVars, table, hashed, unhashed, hits, toFree>>

KVNext ==
    \/ \E r \in Request :
          \/ LookupHit(r)
          \/ DropLastHit(r)
          \/ \E total \in 1 .. Len(tokens[r]) : AllocateSlots(r, total) \/ SlotsExhausted(r, total)
          \/ RegisterBlock(r)
          \/ FreeRequest(r)
          \/ Len(tokens[r]) < MaxModelLen /\ \E t \in Token : AppendToken(r, t)
          \/ \E prompt \in Prompts : SetPrompt(r, prompt)
    \/ ReleaseBlock

KVSpec == KVInit /\ [][KVNext]_<<poolVars, kvVars>>

-----------------------------------------------------------------------------
(* What the manager promises. *)

Holders(b) == {r \in Request : b \in Range(table[r]) \cup Range(hits[r])}

\* Reference counting is exact: a block's count is the number of requests whose
\* table (or pending lookup) holds it, plus the reference a release loop is
\* about to drop.  So nothing leaks, and no release can hit the "double free"
\* error of block_pool.py:64.
RefCountsMatchHolders ==
    \A b \in Block :
       refCount[b] = Cardinality(Holders(b)) + (IF b \in Range(toFree) THEN 1 ELSE 0)

\* A table never holds a block twice, and a block on its way out is named once.
NoRepeatedBlock ==
    /\ \A r \in Request : IsInjective(table[r]) /\ IsInjective(hits[r])
    /\ \A r \in Request : table[r] = << >> \/ hits[r] = << >>
    /\ IsInjective(toFree)

\* The tokens that the first i blocks of a request stand for.
BlockPrefix(r, i) == SubSeq(tokens[r], 1, i * BlockSize)

\* Prefix sharing is sound: two requests hold one physical block only at the
\* same position of their tables and only when everything up to and including
\* that block is the same tokens (hashing.py: "equal hashes mean equal full
\* prefixes").
SharingMeansSamePrefix ==
    \A r, s \in Request :
       \A i \in 1 .. Len(table[r]), j \in 1 .. Len(table[s]) :
          r # s /\ table[r][i] = table[s][j]
             => /\ i = j
                /\ i * BlockSize <= Len(tokens[r])
                /\ i * BlockSize <= Len(tokens[s])
                /\ BlockPrefix(r, i) = BlockPrefix(s, i)

\* "Partial blocks are private to their request" (hashing.py:4-5): a block that
\* its request has not hashed yet, a half-full one between calls or a full one in
\* mid-allocation, is in no other table and behind no label.
UnhashedBlocksArePrivate ==
    \A r \in Request : \A i \in hashed[r] + 1 .. Len(table[r]) :
       /\ blockHash[table[r][i]] = NoHash
       /\ Holders(table[r][i]) = {r}

\* A label on a held block is the hash of its holder's own prefix at that
\* position: what a later lookup finds there is what it asked for.
LabelIsOwnPrefix ==
    \A r \in Request :
       /\ \A i \in 1 .. Len(table[r]) :
             blockHash[table[r][i]] # NoHash
                => /\ i * BlockSize <= Len(tokens[r])
                   /\ blockHash[table[r][i]] = BlockPrefix(r, i)
       /\ \A i \in 1 .. Len(hits[r]) :
             /\ i * BlockSize <= Len(tokens[r])
             /\ blockHash[hits[r][i]] = BlockPrefix(r, i)
=============================================================================
