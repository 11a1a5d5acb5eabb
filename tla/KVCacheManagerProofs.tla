------------------------- MODULE KVCacheManagerProofs -------------------------
(***************************************************************************)
(* Theorems about KVCacheManager for every pool, block size, set of        *)
(* requests and set of prompts.                                            *)
(*                                                                         *)
(* The invariant adds to what the runs check three facts that make it      *)
(* inductive: what is hashed or about to be is covered by tokens and by    *)
(* the table, a block beyond the hashed ones carries no label, and a block *)
(* with two holders carries one.  The last is why a private block can be   *)
(* labelled later: whoever shares a block found it by its label.           *)
(***************************************************************************)
EXTENDS KVCacheManager, BlockPoolProofs, FiniteSetTheorems

Held(r) == Range(table[r]) \cup Range(hits[r])

\* The blocks already hashed and those about to be lie within the table and
\* stand for tokens that exist.
ChainWithinTable ==
    \A r \in Request :
       /\ hashed[r] + unhashed[r] <= Len(table[r])
       /\ (hashed[r] + unhashed[r]) * BlockSize <= Len(tokens[r])

TailUnlabelled ==
    \A r \in Request : \A i \in hashed[r] + 1 .. Len(table[r]) : blockHash[table[r][i]] = NoHash

SharedIsLabelled ==
    \A r \in Request : \A b \in Held(r) :
       b \in Range(toFree) \/ (\E s \in Request \ {r} : b \in Held(s)) => blockHash[b] # NoHash

KVInv ==
    /\ PoolInv
    /\ KVTypeOK
    /\ RefCountsMatchHolders
    /\ NoRepeatedBlock
    /\ LabelIsOwnPrefix
    /\ ChainWithinTable
    /\ TailUnlabelled
    /\ SharedIsLabelled

-----------------------------------------------------------------------------
(* Arithmetic of blocks. *)

\* More blocks cover more tokens.
LEMMA BlocksMonotone ==
  ASSUME NEW i \in Nat, NEW j \in Nat, NEW d \in Nat \ {0}
  PROVE  /\ i * d \in Nat
         /\ i <= j => i * d <= j * d
         /\ i < j => i * d < j * d
<1>1. ASSUME i < j PROVE i * d < j * d
  <2>1. PICK k \in Nat \ {0} : j = i + k
    <3>1. j - i \in Nat \ {0} /\ j = i + (j - i)
      BY <1>1
    <3> QED BY <3>1
  <2>2. j * d = i * d + k * d
    BY <2>1
  <2>3. k * d > 0
    BY <2>1
  <2> QED BY <2>2, <2>3
<1> QED BY <1>1

\* Rounding down gives the blocks that are full, rounding up the blocks needed.
LEMMA BlockCounts ==
  ASSUME NEW n \in Nat, NEW d \in Nat \ {0}
  PROVE  /\ n \div d \in Nat
         /\ (n \div d) * d <= n
         /\ n < (n \div d) * d + d
         /\ (n + d - 1) \div d \in Nat
         /\ n \div d <= (n + d - 1) \div d
OBVIOUS

\* Full blocks within n tokens are at most n \div d.
LEMMA FullBlocksBound ==
  ASSUME NEW n \in Nat, NEW d \in Nat \ {0}, NEW i \in Nat, i * d <= n
  PROVE  i <= n \div d
<1>1. n \div d \in Nat /\ n < (n \div d) * d + d
  BY BlockCounts
<1>2. n < ((n \div d) + 1) * d
  BY <1>1
<1>3. ASSUME i > n \div d PROVE FALSE
  <2>1. (n \div d) + 1 <= i /\ (n \div d) + 1 \in Nat
    BY <1>1, <1>3
  <2>2. ((n \div d) + 1) * d <= i * d
    BY <2>1, BlocksMonotone
  <2> QED BY <1>1, <1>2, <2>2, BlocksMonotone
<1> QED BY <1>1, <1>3

-----------------------------------------------------------------------------
(* Prefixes and holders. *)

\* The prefix of i full blocks is a hash, and it is that prefix.
LEMMA PrefixHashLemma ==
  ASSUME KVTypeOK, NEW r \in Request, NEW i \in Nat \ {0}, i * BlockSize <= Len(tokens[r])
  PROVE  /\ PrefixHash(r, i) \in Hash
         /\ Len(PrefixHash(r, i)) = i * BlockSize
         /\ PrefixHash(r, i) = BlockPrefix(r, i)
<1> DEFINE m == i * BlockSize
<1>1. /\ tokens[r] \in Seq(Token) /\ Len(tokens[r]) <= MaxModelLen
      /\ m \in 0 .. Len(tokens[r]) /\ MaxModelLen \in Nat
  BY BlockSizeAssumption, MaxModelLenAssumption, BlocksMonotone DEF KVTypeOK
<1>2. i <= MaxModelLen \div BlockSize
  <2>1. i * BlockSize <= MaxModelLen
    BY <1>1
  <2> QED BY <1>1, <2>1, BlockSizeAssumption, FullBlocksBound
<1>3. i \in 1 .. MaxModelLen \div BlockSize
  BY <1>1, <1>2, BlockSizeAssumption, BlockCounts
<1> HIDE DEF m
<1>4. SubSeq(tokens[r], 1, m) \in Seq(Token) /\ Len(SubSeq(tokens[r], 1, m)) = m
  BY <1>1, TakeLemma
<1>5. SubSeq(tokens[r], 1, m) \in [1 .. m -> Token]
  <2>1. \A t \in Seq(Token) : t \in [1 .. Len(t) -> Token]
    OBVIOUS
  <2> QED BY <1>4, <2>1, Zenon
<1>6. [1 .. m -> Token] \in {[1 .. j * BlockSize -> Token] : j \in 1 .. MaxModelLen \div BlockSize}
  BY <1>3 DEF m
<1>7. SubSeq(tokens[r], 1, m) \in Hash
  BY <1>5, <1>6, HashAssumption
<1> QED BY <1>4, <1>7 DEF PrefixHash, BlockPrefix, m

\* Who holds a block, as a finite set.
LEMMA HoldersLemma ==
  ASSUME NEW b
  PROVE  /\ Holders(b) = {r \in Request : b \in Held(r)}
         /\ IsFiniteSet(Holders(b))
         /\ Cardinality(Holders(b)) \in Nat
<1>1. Holders(b) = {r \in Request : b \in Held(r)}
  BY DEF Holders, Held
<1>2. Holders(b) \in SUBSET Request
  BY <1>1
<1> QED BY <1>1, <1>2, RequestAssumption, FS_Subset, FS_CardinalityType

\* A held block has a reference and is not in the free queue.
LEMMA HeldIsReferenced ==
  ASSUME KVInv, NEW r \in Request, NEW b \in Held(r)
  PROVE  b \in Block /\ refCount[b] > 0
<1>1. b \in Block
  <2>1. table[r] \in Seq(Block) /\ hits[r] \in Seq(Block)
    BY DEF KVInv, KVTypeOK
  <2> QED BY <2>1, RangeOfSequence DEF Held
<1>2. Holders(b) # {} /\ IsFiniteSet(Holders(b)) /\ Cardinality(Holders(b)) \in Nat
  BY HoldersLemma
<1>3. Cardinality(Holders(b)) > 0
  BY <1>2, FS_EmptySet
<1> QED BY <1>1, <1>2, <1>3 DEF KVInv, RefCountsMatchHolders

\* The elements of the sequences of the state are blocks.
LEMMA KVTypes ==
  ASSUME KVInv, NEW r \in Request
  PROVE  /\ table[r] \in Seq(Block) /\ hits[r] \in Seq(Block) /\ toFree \in Seq(Block)
         /\ tokens[r] \in Seq(Token) /\ Len(tokens[r]) <= MaxModelLen
         /\ hashed[r] \in Nat /\ unhashed[r] \in Nat
         /\ IsInjective(table[r]) /\ IsInjective(hits[r]) /\ IsInjective(toFree)
         /\ table[r] = << >> \/ hits[r] = << >>
         /\ Held(r) \subseteq Block
BY HeldIsReferenced DEF KVInv, KVTypeOK, NoRepeatedBlock

\* The empty sequence holds nothing.
LEMMA EmptyRange == Range(<< >>) = {}
BY DEF Range

\* The next state's holders, and its counts from this state's.
LEMMA HoldersNext ==
  ASSUME NEW b
  PROVE  /\ Holders(b)' = {s \in Request : b \in Held(s)'}
         /\ \A r \in Request :
               /\ Holders(b)' = Holders(b) \ {r} /\ r \in Holders(b)
                     => Cardinality(Holders(b)') = Cardinality(Holders(b)) - 1
               /\ Holders(b)' = Holders(b) \cup {r} /\ r \notin Holders(b)
                     => Cardinality(Holders(b)') = Cardinality(Holders(b)) + 1
<1>1. Holders(b)' = {s \in Request : b \in Held(s)'}
  BY DEF Holders, Held
<1>2. IsFiniteSet(Holders(b))
  BY HoldersLemma
<1>3. \A r : r \in Holders(b) => Cardinality(Holders(b) \ {r}) = Cardinality(Holders(b)) - 1
  BY <1>2, FS_RemoveElement
<1>4. \A r : r \notin Holders(b) => Cardinality(Holders(b) \cup {r}) = Cardinality(Holders(b)) + 1
  BY <1>2, FS_AddElement
<1> QED BY <1>1, <1>3, <1>4, Zenon

\* A block that nobody takes or drops keeps its holders.
LEMMA HoldersSame ==
  ASSUME NEW b, \A s \in Request : b \in Held(s)' <=> b \in Held(s)
  PROVE  Holders(b)' = Holders(b)
<1>1. Holders(b)' = {s \in Request : b \in Held(s)'}
  BY HoldersNext
<1>2. Holders(b) = {s \in Request : b \in Held(s)}
  BY HoldersLemma
<1> QED BY <1>1, <1>2, Zenon

-----------------------------------------------------------------------------
(* Every step of the manager is a step of the pool. *)

\* The prefix looked for is a hash with an index entry.
LEMMA LookupHash ==
  ASSUME KVInv, NEW r \in Request, HitAvailable(r)
  PROVE  LET i == Len(hits[r]) + 1
         IN  /\ i \in Nat \ {0}
             /\ i * BlockSize <= Len(tokens[r])
             /\ PrefixHash(r, i) \in Hash
             /\ cached[PrefixHash(r, i)] # NoBlock
<1> DEFINE i == Len(hits[r]) + 1
<1>1. i \in Nat \ {0} /\ KVTypeOK
  BY KVTypes DEF KVInv
<1>2. i * BlockSize <= Len(tokens[r]) /\ cached[PrefixHash(r, i)] # NoBlock
  BY DEF HitAvailable
<1> HIDE DEF i
<1>3. PrefixHash(r, i) \in Hash
  BY <1>1, <1>2, PrefixHashLemma
<1> QED BY <1>1, <1>2, <1>3 DEF i

\* The block that is registered next is held, unlabelled and full.
LEMMA NextToRegister ==
  ASSUME KVInv, NEW r \in Request, unhashed[r] > 0
  PROVE  LET i == hashed[r] + 1
         IN  /\ i \in 1 .. Len(table[r])
             /\ i * BlockSize <= Len(tokens[r])
             /\ PrefixHash(r, i) \in Hash
             /\ PrefixHash(r, i) = BlockPrefix(r, i)
             /\ table[r][i] \in Held(r)
             /\ blockHash[table[r][i]] = NoHash
<1> DEFINE i == hashed[r] + 1
<1>1. /\ hashed[r] \in Nat /\ unhashed[r] \in Nat
      /\ i <= hashed[r] + unhashed[r]
      /\ hashed[r] + unhashed[r] <= Len(table[r])
      /\ (hashed[r] + unhashed[r]) * BlockSize <= Len(tokens[r])
      /\ table[r] \in Seq(Block) /\ tokens[r] \in Seq(Token) /\ KVTypeOK
  BY KVTypes DEF KVInv, ChainWithinTable
<1>2. i \in 1 .. Len(table[r]) /\ i \in hashed[r] + 1 .. Len(table[r]) /\ i \in Nat \ {0}
  BY <1>1
<1>3. i * BlockSize <= Len(tokens[r])
  <2> DEFINE n == hashed[r] + unhashed[r]
  <2>1. n \in Nat /\ i \in Nat /\ i <= n /\ n * BlockSize <= Len(tokens[r]) /\ Len(tokens[r]) \in Nat
    BY <1>1, <1>2
  <2> HIDE DEF i, n
  <2>2. i * BlockSize <= n * BlockSize /\ i * BlockSize \in Nat /\ n * BlockSize \in Nat
    BY <2>1, BlocksMonotone, BlockSizeAssumption
  <2> QED BY <2>1, <2>2
<1> HIDE DEF i
<1>4. PrefixHash(r, i) \in Hash /\ PrefixHash(r, i) = BlockPrefix(r, i)
  BY <1>1, <1>2, <1>3, PrefixHashLemma
<1>5. table[r][i] \in Held(r)
  BY <1>1, <1>2, RangeOfSequence DEF Held
<1>6. blockHash[table[r][i]] = NoHash
  BY <1>2 DEF KVInv, TailUnlabelled, i
<1> QED BY <1>2, <1>3, <1>4, <1>5, <1>6 DEF i

\* Each call frees what is referenced, labels what is held, takes what is free.
LEMMA PoolStep ==
  ASSUME KVInv, [KVNext]_<<poolVars, kvVars>>
  PROVE  [PoolNext]_poolVars
<1>1. ASSUME NEW r \in Request, LookupHit(r) PROVE PoolNext
  BY <1>1, LookupHash DEF LookupHit, PoolNext
<1>2. ASSUME NEW r \in Request, DropLastHit(r) PROVE PoolNext
  <2>1. Last(hits[r]) \in Block
    BY <1>2, KVTypes, FrontLemma DEF DropLastHit, CoversAllTokens
  <2> QED BY <1>2, <2>1 DEF DropLastHit, PoolNext
<1>3. ASSUME NEW r \in Request, NEW total \in 1 .. Len(tokens[r]), AllocateSlots(r, total)
      PROVE  PoolNext \/ UNCHANGED poolVars
  <2>1. CASE NumFresh(r, total) > 0
    <3> DEFINE n == NumFresh(r, total)
    <3>1. Allocate(n)
      BY <1>3, <2>1 DEF AllocateSlots
    <3>2. n \in Int
      BY KVTypes, BlockSizeAssumption DEF NumFresh, CeilDiv
    <3> HIDE DEF n
    <3>3. n \in 1 .. Len(free)
      BY <2>1, <3>1, <3>2 DEF Allocate, KVInv, PoolInv, PoolTypeOK, n
    <3> QED BY <3>1, <3>3 DEF PoolNext
  <2>2. CASE ~(NumFresh(r, total) > 0)
    BY <1>3, <2>2 DEF AllocateSlots
  <2> QED BY <2>1, <2>2
<1>4. ASSUME NEW r \in Request, RegisterBlock(r) PROVE PoolNext
  <2> DEFINE i == hashed[r] + 1
  <2>1. CacheBlock(table[r][i], PrefixHash(r, i)) /\ unhashed[r] > 0
    BY <1>4 DEF RegisterBlock
  <2>2. table[r][i] \in Held(r) /\ PrefixHash(r, i) \in Hash
    BY <2>1, NextToRegister
  <2> HIDE DEF i
  <2>3. table[r][i] \in Block /\ refCount[table[r][i]] > 0
    BY <2>2, HeldIsReferenced
  <2> QED BY <2>1, <2>2, <2>3 DEF PoolNext
<1>5. ASSUME ReleaseBlock PROVE PoolNext
  <2>1. Head(toFree) \in Block
    BY <1>5, TailLemma DEF ReleaseBlock, KVInv, KVTypeOK
  <2> QED BY <1>5, <2>1 DEF ReleaseBlock, PoolNext
<1>6. ASSUME NEW r \in Request,
             \/ \E total \in 1 .. Len(tokens[r]) : SlotsExhausted(r, total)
             \/ FreeRequest(r)
             \/ \E t \in Token : AppendToken(r, t)
             \/ \E prompt \in Prompts : SetPrompt(r, prompt)
      PROVE  UNCHANGED poolVars
  BY <1>6 DEF SlotsExhausted, FreeRequest, AppendToken, SetPrompt
<1>7. ASSUME UNCHANGED <<poolVars, kvVars>> PROVE UNCHANGED poolVars
  BY <1>7
<1> QED BY <1>1, <1>2, <1>3, <1>4, <1>5, <1>6, <1>7 DEF KVNext

-----------------------------------------------------------------------------
(* Every operation keeps the invariant: giving blocks back. *)

\* The reference handed back by a release loop.
LEMMA ReleaseBlockInv ==
  ASSUME KVInv, PoolInv', ReleaseBlock
  PROVE  KVInv'
<1> DEFINE b == Head(toFree)
<1>1. /\ toFree # << >> /\ Free(b) /\ toFree' = Tail(toFree)
      /\ UNCHANGED <<tokens, table, hashed, unhashed, hits>>
  BY DEF ReleaseBlock
<1>2. /\ b \in Block /\ toFree' \in Seq(Block) /\ IsInjective(toFree')
      /\ Range(toFree) = Range(toFree') \cup {b} /\ b \notin Range(toFree')
  BY <1>1, TailLemma DEF KVInv, KVTypeOK, NoRepeatedBlock
<1> HIDE DEF b
<1>3. /\ refCount' = [refCount EXCEPT ![b] = @ - 1] /\ blockHash' = blockHash
      /\ refCount \in [Block -> Nat]
  BY <1>1 DEF Free, KVInv, PoolInv, PoolTypeOK
<1>4. KVTypeOK'
  BY <1>1, <1>2 DEF KVInv, KVTypeOK, PoolInv
<1>5. RefCountsMatchHolders'
  <2> SUFFICES ASSUME NEW c \in Block
               PROVE  refCount'[c] = Cardinality(Holders(c)') + (IF c \in Range(toFree') THEN 1 ELSE 0)
    BY DEF RefCountsMatchHolders
  <2>1. Holders(c)' = Holders(c)
    BY <1>1 DEF Holders
  <2>2. refCount[c] = Cardinality(Holders(c)) + (IF c \in Range(toFree) THEN 1 ELSE 0)
    BY DEF KVInv, RefCountsMatchHolders
  <2>3. Cardinality(Holders(c)) \in Nat
    BY HoldersLemma
  <2> QED BY <1>2, <1>3, <2>1, <2>2, <2>3
<1>6. NoRepeatedBlock'
  BY <1>1, <1>2 DEF KVInv, NoRepeatedBlock
<1>7. LabelIsOwnPrefix' /\ ChainWithinTable' /\ TailUnlabelled'
  BY <1>1, <1>3 DEF KVInv, LabelIsOwnPrefix, BlockPrefix, ChainWithinTable, TailUnlabelled
<1>8. SharedIsLabelled'
  BY <1>1, <1>2, <1>3 DEF KVInv, SharedIsLabelled, Held
<1> QED BY <1>4, <1>5, <1>6, <1>7, <1>8 DEF KVInv

\* Blocks that pass from a request to a release loop: what the two ways to do
\* that have in common.
LEMMA HandedBack ==
  ASSUME KVInv, PoolInv', KVTypeOK', NEW r \in Request,
         UNCHANGED <<free, refCount, blockHash, cached, tokens, unhashed>>,
         toFree = << >>, IsInjective(toFree'),
         Range(toFree') \subseteq Held(r),
         Held(r)' = Held(r) \ Range(toFree'),
         \A s \in Request \ {r} : Held(s)' = Held(s),
         NoRepeatedBlock', LabelIsOwnPrefix', ChainWithinTable', TailUnlabelled'
  PROVE  KVInv'
<1>1. RefCountsMatchHolders'
  <2> SUFFICES ASSUME NEW c \in Block
               PROVE  refCount'[c] = Cardinality(Holders(c)') + (IF c \in Range(toFree') THEN 1 ELSE 0)
    BY DEF RefCountsMatchHolders
  <2>1. refCount'[c] = Cardinality(Holders(c))
    BY HoldersLemma, EmptyRange DEF KVInv, RefCountsMatchHolders
  <2>2. Cardinality(Holders(c)) \in Nat
    BY HoldersLemma
  <2>3. CASE c \in Range(toFree')
    <3>1. Holders(c)' = Holders(c) \ {r} /\ r \in Holders(c)
      BY <2>3, HoldersLemma, HoldersNext
    <3>2. Cardinality(Holders(c)') = Cardinality(Holders(c)) - 1
      BY <3>1, HoldersNext
    <3> QED BY <2>1, <2>2, <2>3, <3>2
  <2>4. CASE c \notin Range(toFree')
    <3>1. ASSUME NEW s \in Request PROVE c \in Held(s)' <=> c \in Held(s)
      <4>1. CASE s = r
        BY <2>4, <4>1, Zenon
      <4>2. CASE s # r
        BY <4>2, Zenon
      <4> QED BY <4>1, <4>2
    <3>2. Holders(c)' = Holders(c)
      BY <3>1, HoldersSame
    <3> QED BY <2>1, <2>2, <2>4, <3>2
  <2> QED BY <2>3, <2>4
<1>2. SharedIsLabelled'
  <2> SUFFICES ASSUME NEW s \in Request, NEW b \in Held(s)',
                      b \in Range(toFree') \/ \E q \in Request \ {s} : b \in Held(q)'
               PROVE  blockHash[b] # NoHash
    BY DEF SharedIsLabelled
  <2>1. b \in Held(s)
    BY Zenon
  <2>2. CASE b \in Range(toFree')
    <3>1. s # r /\ b \in Held(r)
      BY <2>2
    <3> QED BY <2>1, <3>1 DEF KVInv, SharedIsLabelled
  <2>3. CASE \E q \in Request \ {s} : b \in Held(q)'
    <3>1. \E q \in Request \ {s} : b \in Held(q)
      BY <2>3
    <3> QED BY <2>1, <3>1 DEF KVInv, SharedIsLabelled
  <2> QED BY <2>2, <2>3
<1> QED BY <1>1, <1>2 DEF KVInv

\* The table of a request is popped.
LEMMA FreeRequestInv ==
  ASSUME KVInv, PoolInv', NEW r \in Request, FreeRequest(r)
  PROVE  KVInv'
<1>1. /\ toFree = << >> /\ unhashed[r] = 0 /\ hits[r] = << >>
      /\ toFree' = Reverse(table[r])
      /\ table' = [table EXCEPT ![r] = << >>]
      /\ hashed' = [hashed EXCEPT ![r] = 0]
      /\ UNCHANGED <<free, refCount, blockHash, cached, tokens, unhashed, hits>>
  BY DEF FreeRequest, Settled, poolVars
<1>2. /\ toFree' \in Seq(Block) /\ IsInjective(toFree')
      /\ Range(toFree') = Range(table[r])
  BY <1>1, KVTypes, ReverseLemma
<1>3. /\ table \in [Request -> Seq(Block)] /\ hashed \in [Request -> Nat]
      /\ hits \in [Request -> Seq(Block)]
  BY DEF KVInv, KVTypeOK
<1>4. /\ table'[r] = << >> /\ hashed'[r] = 0
      /\ \A s \in Request \ {r} : table'[s] = table[s] /\ hashed'[s] = hashed[s]
      /\ table' \in [Request -> Seq(Block)] /\ hashed' \in [Request -> Nat]
  BY <1>1, <1>3
<1>5. KVTypeOK'
  BY <1>1, <1>2, <1>4 DEF KVInv, KVTypeOK, PoolInv
<1>6. /\ Range(toFree') = Held(r) /\ Held(r)' = {}
      /\ \A s \in Request \ {r} : Held(s)' = Held(s)
  BY <1>1, <1>2, <1>4, EmptyRange DEF Held
<1>7. IsInjective(<< >>)
  BY DEF IsInjective
<1>8. NoRepeatedBlock'
  BY <1>1, <1>2, <1>4, <1>7 DEF KVInv, NoRepeatedBlock
<1>9. LabelIsOwnPrefix'
  BY <1>1, <1>4 DEF KVInv, LabelIsOwnPrefix, BlockPrefix
<1>10. ChainWithinTable'
  BY <1>1, <1>4, KVTypes, BlockSizeAssumption DEF KVInv, ChainWithinTable
<1>11. TailUnlabelled'
  BY <1>1, <1>4 DEF KVInv, TailUnlabelled
<1> QED BY <1>1, <1>2, <1>5, <1>6, <1>8, <1>9, <1>10, <1>11, HandedBack

\* An allocation that fails gives back what the lookup had taken.
LEMMA SlotsExhaustedInv ==
  ASSUME KVInv, PoolInv', NEW r \in Request, NEW total, SlotsExhausted(r, total)
  PROVE  KVInv'
<1>1. /\ toFree = << >> /\ toFree' = hits[r]
      /\ hits' = [hits EXCEPT ![r] = << >>]
      /\ UNCHANGED <<free, refCount, blockHash, cached, tokens, table, hashed, unhashed>>
  BY DEF SlotsExhausted, Settled, poolVars
<1>2. hits \in [Request -> Seq(Block)]
  BY DEF KVInv, KVTypeOK
<1>3. /\ hits'[r] = << >> /\ hits' \in [Request -> Seq(Block)]
      /\ \A s \in Request \ {r} : hits'[s] = hits[s]
  BY <1>1, <1>2
<1>4. /\ toFree' \in Seq(Block) /\ IsInjective(toFree')
      /\ table[r] = << >> \/ toFree' = << >>
  BY <1>1, KVTypes
<1>5. KVTypeOK'
  BY <1>1, <1>3, <1>4 DEF KVInv, KVTypeOK, PoolInv
<1>6. /\ Range(toFree') \subseteq Held(r) /\ Held(r)' = Held(r) \ Range(toFree')
      /\ \A s \in Request \ {r} : Held(s)' = Held(s)
  BY <1>1, <1>3, <1>4, EmptyRange DEF Held
<1>7. IsInjective(<< >>)
  BY DEF IsInjective
<1>8. NoRepeatedBlock'
  BY <1>1, <1>3, <1>4, <1>7 DEF KVInv, NoRepeatedBlock
<1>9. LabelIsOwnPrefix'
  BY <1>1, <1>3 DEF KVInv, LabelIsOwnPrefix, BlockPrefix
<1>10. ChainWithinTable' /\ TailUnlabelled'
  BY <1>1 DEF KVInv, ChainWithinTable, TailUnlabelled
<1> QED BY <1>1, <1>4, <1>5, <1>6, <1>8, <1>9, <1>10, HandedBack

\* The last hit is given back when the lookup covers every token.
LEMMA DropLastHitInv ==
  ASSUME KVInv, PoolInv', NEW r \in Request, DropLastHit(r)
  PROVE  KVInv'
<1> DEFINE b == Last(hits[r])
<1>1. /\ toFree = << >> /\ hits[r] # << >> /\ Free(b)
      /\ hits' = [hits EXCEPT ![r] = Front(@)]
      /\ UNCHANGED <<tokens, table, hashed, unhashed, toFree>>
  BY DEF DropLastHit, Settled, CoversAllTokens
<1>2. /\ hits[r] \in Seq(Block) /\ IsInjective(hits[r]) /\ table[r] = << >>
      /\ hits \in [Request -> Seq(Block)]
  BY <1>1, KVTypes DEF KVInv, KVTypeOK
<1>3. /\ b \in Block /\ Front(hits[r]) \in Seq(Block)
      /\ Len(Front(hits[r])) = Len(hits[r]) - 1 /\ Len(hits[r]) \in Nat
      /\ \A i \in 1 .. Len(hits[r]) - 1 : Front(hits[r])[i] = hits[r][i]
      /\ Range(hits[r]) = Range(Front(hits[r])) \cup {b}
      /\ IsInjective(Front(hits[r])) /\ b \notin Range(Front(hits[r]))
  <2> DEFINE h == hits[r]
  <2>1. h \in Seq(Block) /\ IsInjective(h) /\ h # << >> /\ Len(h) \in Nat
    BY <1>1, <1>2
  <2> HIDE DEF h
  <2>2. /\ Last(h) \in Block /\ Front(h) \in Seq(Block) /\ Len(Front(h)) = Len(h) - 1
        /\ \A i \in 1 .. Len(h) - 1 : Front(h)[i] = h[i]
        /\ Range(h) = Range(Front(h)) \cup {Last(h)}
        /\ IsInjective(Front(h)) /\ Last(h) \notin Range(Front(h))
    BY <2>1, FrontLemma
  <2> QED BY <2>1, <2>2 DEF h
<1>4. /\ hits'[r] = Front(hits[r]) /\ hits' \in [Request -> Seq(Block)]
      /\ \A s \in Request \ {r} : hits'[s] = hits[s]
  BY <1>1, <1>2, <1>3
<1> HIDE DEF b
<1>5. /\ refCount' = [refCount EXCEPT ![b] = @ - 1] /\ blockHash' = blockHash
      /\ refCount \in [Block -> Nat]
  BY <1>1 DEF Free, KVInv, PoolInv, PoolTypeOK
<1>6. KVTypeOK'
  BY <1>1, <1>4 DEF KVInv, KVTypeOK, PoolInv
<1>7. /\ b \in Held(r) /\ Held(r)' = Held(r) \ {b}
      /\ \A s \in Request \ {r} : Held(s)' = Held(s)
  BY <1>1, <1>2, <1>3, <1>4, EmptyRange DEF Held
<1>8. RefCountsMatchHolders'
  <2> SUFFICES ASSUME NEW c \in Block
               PROVE  refCount'[c] = Cardinality(Holders(c)') + (IF c \in Range(toFree') THEN 1 ELSE 0)
    BY DEF RefCountsMatchHolders
  <2>1. /\ refCount[c] = Cardinality(Holders(c)) + 0 /\ Cardinality(Holders(c)) \in Nat
        /\ c \notin Range(toFree')
    BY <1>1, HoldersLemma, EmptyRange DEF KVInv, RefCountsMatchHolders
  <2>2. CASE c = b
    <3>1. Holders(c)' = Holders(c) \ {r} /\ r \in Holders(c)
      BY <1>7, <2>2, HoldersLemma, HoldersNext
    <3>2. Cardinality(Holders(c)') = Cardinality(Holders(c)) - 1
      BY <3>1, HoldersNext
    <3> QED BY <1>3, <1>5, <2>1, <2>2, <3>2
  <2>3. CASE c # b
    <3>1. ASSUME NEW s \in Request PROVE c \in Held(s)' <=> c \in Held(s)
      <4>1. CASE s = r
        BY <1>7, <2>3, <4>1, Zenon
      <4>2. CASE s # r
        BY <1>7, <4>2, Zenon
      <4> QED BY <4>1, <4>2
    <3>2. Holders(c)' = Holders(c)
      BY <3>1, HoldersSame
    <3> QED BY <1>5, <2>1, <2>3, <3>2
  <2> QED BY <2>2, <2>3
<1>9. NoRepeatedBlock'
  BY <1>1, <1>2, <1>3, <1>4 DEF KVInv, NoRepeatedBlock
<1>10. LabelIsOwnPrefix'
  <2> SUFFICES ASSUME NEW i \in 1 .. Len(Front(hits[r]))
               PROVE  /\ i * BlockSize <= Len(tokens[r])
                      /\ blockHash[Front(hits[r])[i]] = BlockPrefix(r, i)
    BY <1>1, <1>4, <1>5 DEF KVInv, LabelIsOwnPrefix, BlockPrefix
  <2>1. i \in 1 .. Len(hits[r]) /\ Front(hits[r])[i] = hits[r][i]
    BY <1>3
  <2> QED BY <2>1 DEF KVInv, LabelIsOwnPrefix
<1>11. ChainWithinTable' /\ TailUnlabelled'
  BY <1>1, <1>5 DEF KVInv, ChainWithinTable, TailUnlabelled
<1>12. SharedIsLabelled'
  <2> SUFFICES ASSUME NEW s \in Request, NEW c \in Held(s)',
                      c \in Range(toFree') \/ \E q \in Request \ {s} : c \in Held(q)'
               PROVE  blockHash[c] # NoHash
    BY <1>5 DEF SharedIsLabelled
  <2>1. \A q \in Request : c \in Held(q)' => c \in Held(q)
    BY <1>7, Zenon
  <2> QED BY <1>1, <2>1 DEF KVInv, SharedIsLabelled
<1> QED BY <1>6, <1>8, <1>9, <1>10, <1>11, <1>12 DEF KVInv

-----------------------------------------------------------------------------
(* Taking blocks. *)

\* What a lookup finds is labelled with the prefix looked for, and the request
\* does not hold it yet: what it holds stands for shorter prefixes.
LEMMA HitIsNew ==
  ASSUME KVInv, NEW r \in Request, table[r] = << >>, HitAvailable(r)
  PROVE  LET i == Len(hits[r]) + 1
             b == cached[PrefixHash(r, i)]
         IN  /\ i * BlockSize <= Len(tokens[r])
             /\ b \in Block /\ b \notin Held(r)
             /\ blockHash[b] = BlockPrefix(r, i) /\ blockHash[b] # NoHash
<1> DEFINE i == Len(hits[r]) + 1
           h == PrefixHash(r, i)
           b == cached[h]
<1>1. /\ i \in Nat \ {0} /\ i * BlockSize <= Len(tokens[r]) /\ h \in Hash /\ b # NoBlock
      /\ KVTypeOK
  BY LookupHash DEF KVInv
<1>2. i = Len(hits[r]) + 1
  OBVIOUS
<1> HIDE DEF i
<1>3. h = BlockPrefix(r, i) /\ Len(h) = i * BlockSize
  BY <1>1, PrefixHashLemma
<1> HIDE DEF h
<1>4. b \in Block
  BY <1>1 DEF KVInv, PoolInv, PoolTypeOK
<1>5. blockHash[b] = h
  BY <1>1, <1>4 DEF KVInv, PoolInv, IndexMatchesLabels
<1> HIDE DEF b
<1>6. ASSUME NEW j \in 1 .. Len(hits[r]) PROVE hits[r][j] # b
  <2>1. j \in Nat \ {0} /\ j < i /\ i \in Nat
    BY <1>1, <1>2, KVTypes
  <2>2. j * BlockSize <= Len(tokens[r]) /\ blockHash[hits[r][j]] = BlockPrefix(r, j)
    BY DEF KVInv, LabelIsOwnPrefix
  <2>3. Len(blockHash[hits[r][j]]) = j * BlockSize
    BY <1>1, <2>1, <2>2, PrefixHashLemma
  <2>4. j * BlockSize < i * BlockSize /\ j * BlockSize \in Nat /\ i * BlockSize \in Nat
    BY <2>1, BlocksMonotone, BlockSizeAssumption
  <2> QED BY <1>3, <1>5, <2>3, <2>4
<1>7. b \notin Held(r)
  BY <1>6, KVTypes, RangeOfSequence, EmptyRange DEF Held
<1> QED BY <1>1, <1>3, <1>4, <1>5, <1>7, NoHashAssumption DEF i, h, b

\* One more hit of the lookup.
LEMMA LookupHitInv ==
  ASSUME KVInv, PoolInv', NEW r \in Request, LookupHit(r)
  PROVE  KVInv'
<1> DEFINE n == Len(hits[r]) + 1
           b == cached[PrefixHash(r, n)]
<1>1. /\ toFree = << >> /\ table[r] = << >> /\ HitAvailable(r)
      /\ GetCachedBlock(PrefixHash(r, n))
      /\ hits' = [hits EXCEPT ![r] = Append(@, b)]
      /\ UNCHANGED <<tokens, table, hashed, unhashed, toFree>>
  BY DEF LookupHit, Settled
<1>2. /\ n * BlockSize <= Len(tokens[r])
      /\ b \in Block /\ b \notin Held(r)
      /\ blockHash[b] = BlockPrefix(r, n) /\ blockHash[b] # NoHash
  BY <1>1, HitIsNew
<1>3. /\ refCount' = [refCount EXCEPT ![b] = @ + 1] /\ blockHash' = blockHash
      /\ refCount \in [Block -> Nat]
  BY <1>1 DEF GetCachedBlock, KVInv, PoolInv, PoolTypeOK
<1>4. n = Len(hits[r]) + 1
  OBVIOUS
<1> HIDE DEF n, b
<1>5. /\ hits[r] \in Seq(Block) /\ IsInjective(hits[r]) /\ Len(hits[r]) \in Nat
      /\ hits \in [Request -> Seq(Block)] /\ b \notin Range(hits[r])
  BY <1>2, KVTypes DEF KVInv, KVTypeOK, Held
<1>6. /\ Append(hits[r], b) \in Seq(Block) /\ Len(Append(hits[r], b)) = n
      /\ Range(Append(hits[r], b)) = Range(hits[r]) \cup {b}
      /\ IsInjective(Append(hits[r], b))
  BY <1>2, <1>4, <1>5, AppendLemma
<1>7. /\ hits'[r] = Append(hits[r], b) /\ hits' \in [Request -> Seq(Block)]
      /\ \A s \in Request \ {r} : hits'[s] = hits[s]
  BY <1>1, <1>5, <1>6
<1>8. KVTypeOK'
  BY <1>1, <1>7 DEF KVInv, KVTypeOK, PoolInv
<1>9. /\ Held(r)' = Held(r) \cup {b}
      /\ \A s \in Request \ {r} : Held(s)' = Held(s)
  BY <1>1, <1>6, <1>7 DEF Held
<1>10. RefCountsMatchHolders'
  <2> SUFFICES ASSUME NEW c \in Block
               PROVE  refCount'[c] = Cardinality(Holders(c)') + (IF c \in Range(toFree') THEN 1 ELSE 0)
    BY DEF RefCountsMatchHolders
  <2>1. /\ refCount[c] = Cardinality(Holders(c)) + 0 /\ Cardinality(Holders(c)) \in Nat
        /\ c \notin Range(toFree')
    BY <1>1, HoldersLemma, EmptyRange DEF KVInv, RefCountsMatchHolders
  <2>2. CASE c = b
    <3>1. Holders(c)' = Holders(c) \cup {r} /\ r \notin Holders(c)
      BY <1>2, <1>9, <2>2, HoldersLemma, HoldersNext
    <3>2. Cardinality(Holders(c)') = Cardinality(Holders(c)) + 1
      BY <3>1, HoldersNext
    <3> QED BY <1>2, <1>3, <2>1, <2>2, <3>2
  <2>3. CASE c # b
    <3>1. ASSUME NEW s \in Request PROVE c \in Held(s)' <=> c \in Held(s)
      <4>1. CASE s = r
        BY <1>9, <2>3, <4>1, Zenon
      <4>2. CASE s # r
        BY <1>9, <4>2, Zenon
      <4> QED BY <4>1, <4>2
    <3>2. Holders(c)' = Holders(c)
      BY <3>1, HoldersSame
    <3> QED BY <1>3, <2>1, <2>3, <3>2
  <2> QED BY <2>2, <2>3
<1>11. NoRepeatedBlock'
  BY <1>1, <1>6, <1>7 DEF KVInv, NoRepeatedBlock
<1>12. LabelIsOwnPrefix'
  <2> SUFFICES ASSUME NEW i \in 1 .. n
               PROVE  /\ i * BlockSize <= Len(tokens[r])
                      /\ blockHash[Append(hits[r], b)[i]] = BlockPrefix(r, i)
    BY <1>1, <1>3, <1>6, <1>7 DEF KVInv, LabelIsOwnPrefix, BlockPrefix
  <2>1. CASE i = n
    BY <1>2, <1>4, <1>5, <2>1
  <2>2. CASE i # n
    <3>1. i \in 1 .. Len(hits[r]) /\ Append(hits[r], b)[i] = hits[r][i]
      BY <1>4, <1>5, <2>2
    <3> QED BY <3>1 DEF KVInv, LabelIsOwnPrefix
  <2> QED BY <2>1, <2>2
<1>13. ChainWithinTable' /\ TailUnlabelled'
  BY <1>1, <1>3 DEF KVInv, ChainWithinTable, TailUnlabelled
<1>14. SharedIsLabelled'
  <2> SUFFICES ASSUME NEW s \in Request, NEW c \in Held(s)',
                      c \in Range(toFree') \/ \E q \in Request \ {s} : c \in Held(q)',
                      c # b
               PROVE  blockHash[c] # NoHash
    BY <1>2, <1>3 DEF SharedIsLabelled
  <2>1. \A q \in Request : c \in Held(q)' => c \in Held(q)
    BY <1>9, Zenon
  <2> QED BY <1>1, <2>1 DEF KVInv, SharedIsLabelled
<1> QED BY <1>8, <1>10, <1>11, <1>12, <1>13, <1>14 DEF KVInv

\* The table after an allocation: what the request held, then blocks that
\* nobody held; it covers the tokens asked for.
LEMMA SlotsLemma ==
  ASSUME KVInv, NEW r \in Request, NEW total \in 1 .. Len(tokens[r]), AllocateSlots(r, total)
  PROVE  LET base == IF hits[r] = << >> THEN table[r] ELSE hits[r]
             taken == Range(table'[r]) \ Held(r)
         IN  /\ table'[r] \in Seq(Block) /\ IsInjective(table'[r])
             /\ Held(r) \subseteq Range(table'[r])
             /\ Len(base) <= Len(table'[r]) /\ CeilDiv(total) <= Len(table'[r])
             /\ \A i \in 1 .. Len(base) : table'[r][i] = base[i] /\ base[i] \in Held(r)
             /\ \A i \in Len(base) + 1 .. Len(table'[r]) : table'[r][i] \in taken
             /\ \A b \in taken : refCount[b] = 0 /\ refCount'[b] = 1 /\ blockHash'[b] = NoHash
             /\ \A b \in Block \ taken :
                   refCount'[b] = refCount[b] /\ blockHash'[b] = blockHash[b]
             /\ \A s \in Request : taken \cap Held(s) = {}
<1> DEFINE base == IF hits[r] = << >> THEN table[r] ELSE hits[r]
           n == NumFresh(r, total)
           lru == {free[i] : i \in 1 .. n}
           m == Len(base)
           c == CeilDiv(total)
<1>1. /\ table[r] \in Seq(Block) /\ hits[r] \in Seq(Block)
      /\ table[r] = << >> \/ hits[r] = << >>
      /\ IsInjective(table[r]) /\ IsInjective(hits[r])
      /\ table \in [Request -> Seq(Block)]
  BY KVTypes DEF KVInv, KVTypeOK
<1>2. /\ base \in Seq(Block) /\ IsInjective(base) /\ Range(base) = Held(r)
      /\ table[r] \o hits[r] = base /\ m = Len(table[r]) + Len(hits[r])
  <2>1. CASE hits[r] = << >>
    <3>1. base = table[r] /\ table[r] \o << >> = table[r] /\ Len(hits[r]) = 0
      BY <1>1, <2>1
    <3> QED BY <1>1, <2>1, <3>1, EmptyRange DEF Held
  <2>2. CASE hits[r] # << >>
    <3>1. base = hits[r] /\ table[r] = << >> /\ << >> \o hits[r] = hits[r] /\ Len(table[r]) = 0
      BY <1>1, <2>2
    <3> QED BY <1>1, <3>1, EmptyRange DEF Held
  <2> QED BY <2>1, <2>2
<1>3. n = c - m /\ n \in Int /\ c \in Nat /\ m \in Nat
  <2>1. total \in Nat /\ Len(table[r]) \in Nat /\ Len(hits[r]) \in Nat /\ m \in Nat
    BY <1>1, <1>2
  <2>2. c \in Nat
    BY <2>1, BlockCounts, BlockSizeAssumption DEF CeilDiv
  <2>3. m = Len(table[r]) + Len(hits[r])
    BY <1>2
  <2>4. n = c - Len(table[r]) - Len(hits[r])
    BY DEF NumFresh
  <2> DEFINE x == Len(table[r])
             y == Len(hits[r])
  <2>5. x \in Nat /\ y \in Nat /\ m = x + y /\ n = c - x - y
    BY <2>1, <2>3, <2>4
  <2> HIDE DEF m, c, n, x, y
  <2> QED BY <2>1, <2>2, <2>5
<1>4. \A i \in 1 .. m : base[i] \in Held(r)
  BY <1>2, RangeOfSequence DEF m
<1>5. /\ free \in Seq(Block) /\ IsInjective(free) /\ Len(free) \in Nat
      /\ \A b \in Block : refCount[b] = 0 <=> b \in Range(free)
      /\ refCount \in [Block -> Nat] /\ blockHash \in [Block -> Hash \cup {NoHash}]
  BY DEF KVInv, PoolInv, PoolTypeOK, FreeIffUnreferenced
<1>6. /\ IF n > 0
         THEN Allocate(n) /\ table' = [table EXCEPT ![r] = (@ \o hits[r]) \o LruBlocks(n)]
         ELSE UNCHANGED poolVars /\ table' = [table EXCEPT ![r] = @ \o hits[r]]
  BY DEF AllocateSlots
<1> HIDE DEF base, n, m, c
<1>7. CASE n > 0
  <2>1. /\ n \in 0 .. Len(free)
        /\ refCount' = [b \in Block |-> IF b \in lru THEN 1 ELSE refCount[b]]
        /\ blockHash' = [b \in Block |-> IF b \in lru THEN NoHash ELSE blockHash[b]]
    <3>1. Allocate(n)
      BY <1>6, <1>7
    <3>2. n <= Len(free) /\ n \in Int /\ n > 0 /\ Len(free) \in Nat
      BY <1>3, <1>5, <1>7, <3>1 DEF Allocate
    <3>3. n \in 0 .. Len(free)
      BY <3>2
    <3> QED BY <3>1, <3>3 DEF Allocate
  <2>2. /\ LruBlocks(n) \in Seq(Block) /\ Len(LruBlocks(n)) = n
        /\ IsInjective(LruBlocks(n)) /\ Range(LruBlocks(n)) = lru
        /\ \A i \in 1 .. n : LruBlocks(n)[i] = free[i]
    BY <1>5, <2>1, TakeLemma DEF LruBlocks
  <2>3. \A b \in lru : b \in Block /\ refCount[b] = 0
    BY <1>5, <2>1, RangeOfSequence
  <2>4. \A s \in Request : lru \cap Held(s) = {}
    BY <2>3, HeldIsReferenced
  <2>5. table'[r] = base \o LruBlocks(n)
    BY <1>1, <1>2, <1>6, <1>7
  <2> DEFINE t == table'[r]
  <2>6. /\ t \in Seq(Block) /\ Len(t) = m + n
        /\ \A i \in 1 .. m : t[i] = base[i]
        /\ \A i \in 1 .. n : t[m + i] = free[i]
        /\ Range(t) = Held(r) \cup lru /\ IsInjective(t)
    <3>1. Range(base) \cap Range(LruBlocks(n)) = {}
      BY <1>2, <2>2, <2>4
    <3> DEFINE u == LruBlocks(n)
    <3>2. /\ base \in Seq(Block) /\ IsInjective(base) /\ m = Len(base)
          /\ u \in Seq(Block) /\ Len(u) = n /\ IsInjective(u) /\ Range(base) \cap Range(u) = {}
      BY <1>2, <2>2, <3>1 DEF m
    <3> HIDE DEF t, u
    <3>3. /\ base \o u \in Seq(Block) /\ Len(base \o u) = m + Len(u)
          /\ \A i \in 1 .. m : (base \o u)[i] = base[i]
          /\ \A i \in 1 .. Len(u) : (base \o u)[m + i] = u[i]
          /\ Range(base \o u) = Range(base) \cup Range(u)
          /\ IsInjective(base \o u)
      <4>1. /\ base \o u \in Seq(Block) /\ Len(base \o u) = Len(base) + Len(u)
            /\ \A i \in 1 .. Len(base) : (base \o u)[i] = base[i]
            /\ \A i \in 1 .. Len(u) : (base \o u)[Len(base) + i] = u[i]
        <5>1. base \in Seq(Block) /\ u \in Seq(Block)
          BY <3>2
        <5> QED BY <5>1
      <4>2. Range(base \o u) = Range(base) \cup Range(u)
        BY <3>2, ConcatLemma
      <4>3. IsInjective(base \o u)
        BY <3>2, ConcatLemma, Zenon
      <4> QED BY <3>2, <4>1, <4>2, <4>3
    <3> QED BY <1>2, <2>2, <2>5, <3>2, <3>3 DEF t, u
  <2> HIDE DEF t
  <2>7. Range(t) \ Held(r) = lru
    BY <2>4, <2>6
  <2>8. ASSUME NEW i \in m + 1 .. Len(t) PROVE t[i] \in lru
    <3>1. i - m \in 1 .. n /\ m + (i - m) = i
      BY <1>3, <2>6
    <3>2. t[m + (i - m)] = free[i - m]
      BY <2>6, <3>1
    <3> QED BY <3>1, <3>2
  <2> HIDE DEF lru
  <2>9. /\ m <= Len(t) /\ c <= Len(t)
    BY <1>3, <1>7, <2>6
  <2>10. /\ \A b \in lru : refCount[b] = 0 /\ refCount'[b] = 1 /\ blockHash'[b] = NoHash
         /\ \A b \in Block \ lru : refCount'[b] = refCount[b] /\ blockHash'[b] = blockHash[b]
    BY <2>1, <2>3
  <2> QED BY <1>4, <2>4, <2>6, <2>7, <2>8, <2>9, <2>10 DEF t, base, m, c
<1>8. CASE ~(n > 0)
  <2>1. table'[r] = base /\ refCount' = refCount /\ blockHash' = blockHash
    BY <1>1, <1>2, <1>6, <1>8 DEF poolVars
  <2>2. Range(table'[r]) \ Held(r) = {}
    BY <1>2, <2>1
  <2>3. c <= m /\ m <= m /\ m + 1 .. m = {}
    BY <1>3, <1>8
  <2> QED BY <1>2, <1>4, <2>1, <2>2, <2>3 DEF base, m, c
<1> QED BY <1>7, <1>8

\* What is hashed, and what will be, after an allocation.
LEMMA ChainLemma ==
  ASSUME KVInv, NEW r \in Request, NEW total \in 1 .. Len(tokens[r])
  PROVE  LET k == HashedAfter(r)
             u == NewlyFull(k, total)
             base == IF hits[r] = << >> THEN table[r] ELSE hits[r]
         IN  /\ k \in Nat /\ u \in Nat
             /\ k <= Len(base)
             /\ k + u <= Len(base) \/ k + u <= CeilDiv(total)
             /\ (k + u) * BlockSize <= Len(tokens[r])
<1> DEFINE k == HashedAfter(r)
           u == NewlyFull(k, total)
           base == IF hits[r] = << >> THEN table[r] ELSE hits[r]
           len == Len(tokens[r])
           m == Len(base)
           q == total \div BlockSize
           w == unhashed[r]
<1>1. /\ table[r] \in Seq(Block) /\ hits[r] \in Seq(Block) /\ tokens[r] \in Seq(Token)
      /\ hashed[r] \in Nat /\ w \in Nat /\ len \in Nat /\ total \in Nat /\ total <= len
      /\ m \in Nat
  BY KVTypes
<1>2. k \in Nat /\ k <= m /\ k * BlockSize <= len
  <2>1. CASE hits[r] = << >>
    <3>1. k = hashed[r] /\ base = table[r]
      BY <2>1 DEF HashedAfter
    <3>2. k + w <= m /\ (k + w) * BlockSize <= len
      BY <3>1 DEF KVInv, ChainWithinTable
    <3> HIDE DEF k, m, len, w
    <3>3. k \in Nat /\ k + w \in Nat /\ k <= k + w
      BY <1>1, <3>1
    <3>4. k * BlockSize <= (k + w) * BlockSize /\ k * BlockSize \in Nat /\ (k + w) * BlockSize \in Nat
      BY <3>3, BlocksMonotone, BlockSizeAssumption
    <3> QED BY <1>1, <3>2, <3>3, <3>4
  <2>2. CASE hits[r] # << >>
    <3>1. k = Len(hits[r]) /\ m = k /\ k \in 1 .. Len(hits[r])
      BY <1>1, <2>2 DEF HashedAfter
    <3>2. k * BlockSize <= len
      BY <3>1 DEF KVInv, LabelIsOwnPrefix
    <3> QED BY <1>1, <3>1, <3>2
  <2> QED BY <2>1, <2>2
<1>3. q \in Nat /\ q <= CeilDiv(total) /\ q * BlockSize <= total /\ CeilDiv(total) \in Nat
  BY <1>1, BlockCounts, BlockSizeAssumption DEF CeilDiv
<1>4. u = IF EnableCaching /\ q > k THEN q - k ELSE 0
  BY DEF NewlyFull
<1> HIDE DEF k, u, base, len, m, q
<1>5. CASE EnableCaching /\ q > k
  <2>1. k + u = q /\ u \in Nat
    BY <1>2, <1>3, <1>4, <1>5
  <2>2. q * BlockSize <= len
    <3>1. q * BlockSize \in Nat
      BY <1>3, BlocksMonotone, BlockSizeAssumption
    <3> QED BY <1>1, <1>3, <3>1
  <2> QED BY <1>2, <1>3, <2>1, <2>2 DEF m, len, k, u, base
<1>6. CASE ~(EnableCaching /\ q > k)
  <2>1. u = 0 /\ k + u = k
    BY <1>2, <1>4, <1>6
  <2> QED BY <1>2, <2>1 DEF m, len, k, u, base
<1> QED BY <1>5, <1>6

\* An allocation that succeeds.
LEMMA AllocateSlotsInv ==
  ASSUME KVInv, PoolInv', NEW r \in Request, NEW total \in 1 .. Len(tokens[r]),
         AllocateSlots(r, total)
  PROVE  KVInv'
<1> DEFINE base == IF hits[r] = << >> THEN table[r] ELSE hits[r]
           t == table'[r]
           taken == Range(t) \ Held(r)
           k == HashedAfter(r)
           u == NewlyFull(k, total)
<1>1. /\ toFree = << >> /\ toFree' = << >>
      /\ hashed' = [hashed EXCEPT ![r] = k]
      /\ unhashed' = [unhashed EXCEPT ![r] = u]
      /\ hits' = [hits EXCEPT ![r] = << >>]
      /\ tokens' = tokens
  BY DEF AllocateSlots, Settled
<1>2. \E x : table' = [table EXCEPT ![r] = x]
  BY DEF AllocateSlots
<1>3. /\ table \in [Request -> Seq(Block)] /\ hits \in [Request -> Seq(Block)]
      /\ hashed \in [Request -> Nat] /\ unhashed \in [Request -> Nat]
  BY DEF KVInv, KVTypeOK
<1>4. /\ t \in Seq(Block) /\ IsInjective(t) /\ Held(r) \subseteq Range(t)
      /\ Len(base) <= Len(t) /\ CeilDiv(total) <= Len(t)
      /\ \A i \in 1 .. Len(base) : t[i] = base[i] /\ base[i] \in Held(r)
      /\ \A i \in Len(base) + 1 .. Len(t) : t[i] \in taken
      /\ \A b \in taken : refCount[b] = 0 /\ refCount'[b] = 1 /\ blockHash'[b] = NoHash
      /\ \A b \in Block \ taken : refCount'[b] = refCount[b] /\ blockHash'[b] = blockHash[b]
      /\ \A s \in Request : taken \cap Held(s) = {}
  BY SlotsLemma
<1>5. /\ k \in Nat /\ u \in Nat /\ k <= Len(base)
      /\ k + u <= Len(base) \/ k + u <= CeilDiv(total)
      /\ (k + u) * BlockSize <= Len(tokens[r])
  BY ChainLemma
<1>6. /\ Len(base) \in Nat /\ CeilDiv(total) \in Nat
      /\ table[r] = << >> \/ hits[r] = << >>
  <2>1. table[r] \in Seq(Block) /\ hits[r] \in Seq(Block) /\ tokens[r] \in Seq(Token)
    BY KVTypes
  <2>2. total \in Nat
    BY <2>1
  <2>3. CeilDiv(total) \in Nat
    BY <2>2, BlockCounts, BlockSizeAssumption DEF CeilDiv
  <2> QED BY <2>1, <2>3, KVTypes
<1>7. k = IF hits[r] = << >> THEN hashed[r] ELSE Len(base)
  BY DEF HashedAfter
<1> HIDE DEF t, k, u
<1>8. /\ table' \in [Request -> Seq(Block)] /\ table'[r] = t
      /\ hits' \in [Request -> Seq(Block)] /\ hits'[r] = << >>
      /\ hashed' \in [Request -> Nat] /\ hashed'[r] = k
      /\ unhashed' \in [Request -> Nat] /\ unhashed'[r] = u
  BY <1>1, <1>2, <1>3, <1>4, <1>5 DEF t
<1>9. \A s \in Request \ {r} :
         /\ table'[s] = table[s] /\ hits'[s] = hits[s]
         /\ hashed'[s] = hashed[s] /\ unhashed'[s] = unhashed[s]
  BY <1>1, <1>2, <1>3
<1>10. /\ Held(r)' = Held(r) \cup taken
       /\ \A s \in Request \ {r} : Held(s)' = Held(s)
  BY <1>4, <1>8, <1>9, EmptyRange DEF Held
<1>11. \A s \in Request : \A b \in Held(s) :
          b \in Block /\ b \notin taken /\ blockHash'[b] = blockHash[b]
  BY <1>4, HeldIsReferenced
<1>12. KVTypeOK'
  BY <1>1, <1>8 DEF KVInv, KVTypeOK, PoolInv
<1>13. RefCountsMatchHolders'
  <2> SUFFICES ASSUME NEW c \in Block
               PROVE  refCount'[c] = Cardinality(Holders(c)') + (IF c \in Range(toFree') THEN 1 ELSE 0)
    BY DEF RefCountsMatchHolders
  <2>1. /\ refCount[c] = Cardinality(Holders(c)) + 0 /\ Cardinality(Holders(c)) \in Nat
        /\ c \notin Range(toFree')
    BY <1>1, HoldersLemma, EmptyRange DEF KVInv, RefCountsMatchHolders
  <2>2. CASE c \in taken
    <3>1. Holders(c)' = Holders(c) \cup {r} /\ r \notin Holders(c)
      BY <1>10, <1>11, <2>2, HoldersLemma, HoldersNext
    <3>2. Cardinality(Holders(c)') = Cardinality(Holders(c)) + 1
      BY <3>1, HoldersNext
    <3> QED BY <1>4, <2>1, <2>2, <3>2
  <2>3. CASE c \notin taken
    <3>1. ASSUME NEW s \in Request PROVE c \in Held(s)' <=> c \in Held(s)
      <4>1. CASE s = r
        BY <1>10, <2>3, <4>1, Zenon
      <4>2. CASE s # r
        BY <1>10, <4>2, Zenon
      <4> QED BY <4>1, <4>2
    <3>2. Holders(c)' = Holders(c)
      BY <3>1, HoldersSame
    <3> QED BY <1>4, <2>1, <2>3, <3>2
  <2> QED BY <2>2, <2>3
<1>14. NoRepeatedBlock'
  <2>1. IsInjective(<< >>)
    BY DEF IsInjective
  <2> QED BY <1>1, <1>4, <1>8, <1>9, <2>1 DEF KVInv, NoRepeatedBlock
<1>15. LabelIsOwnPrefix'
  <2> SUFFICES ASSUME NEW s \in Request
               PROVE  /\ \A i \in 1 .. Len(table'[s]) :
                            blockHash'[table'[s][i]] # NoHash
                               => /\ i * BlockSize <= Len(tokens[s])
                                  /\ blockHash'[table'[s][i]] = BlockPrefix(s, i)
                      /\ \A i \in 1 .. Len(hits'[s]) :
                            /\ i * BlockSize <= Len(tokens[s])
                            /\ blockHash'[hits'[s][i]] = BlockPrefix(s, i)
    BY <1>1 DEF LabelIsOwnPrefix, BlockPrefix
  <2>1. CASE s = r
    <3>1. Len(hits'[s]) = 0
      BY <1>8, <2>1
    <3> SUFFICES ASSUME NEW i \in 1 .. Len(t), blockHash'[t[i]] # NoHash
                 PROVE  i * BlockSize <= Len(tokens[r]) /\ blockHash'[t[i]] = BlockPrefix(r, i)
      BY <1>8, <2>1, <3>1
    <3>2. i \in 1 .. Len(base)
      BY <1>4, <1>6
    <3>3. t[i] = base[i] /\ blockHash'[t[i]] = blockHash[base[i]]
      BY <1>4, <1>11, <3>2
    <3>4. CASE hits[r] = << >>
      BY <3>2, <3>3, <3>4 DEF KVInv, LabelIsOwnPrefix
    <3>5. CASE hits[r] # << >>
      BY <3>2, <3>3, <3>5 DEF KVInv, LabelIsOwnPrefix
    <3> QED BY <3>4, <3>5
  <2>2. CASE s # r
    <3>1. /\ \A i \in 1 .. Len(table[s]) : table[s][i] \in Held(s)
          /\ \A i \in 1 .. Len(hits[s]) : hits[s][i] \in Held(s)
      BY KVTypes, RangeOfSequence DEF Held
    <3> QED BY <1>9, <1>11, <2>2, <3>1 DEF KVInv, LabelIsOwnPrefix
  <2> QED BY <2>1, <2>2
<1>16. ChainWithinTable'
  <2>1. k + u <= Len(t)
    <3> DEFINE m == Len(base)
               l == Len(t)
               c == CeilDiv(total)
    <3>1. /\ k \in Nat /\ u \in Nat /\ m \in Nat /\ l \in Nat /\ c \in Nat
          /\ m <= l /\ c <= l /\ (k + u <= m \/ k + u <= c)
      BY <1>4, <1>5, <1>6
    <3> HIDE DEF m, l, c
    <3>2. k + u <= l
      BY <3>1
    <3> QED BY <3>2 DEF l
  <2> QED BY <1>1, <1>5, <1>8, <1>9, <2>1 DEF KVInv, ChainWithinTable
<1>17. TailUnlabelled'
  <2> SUFFICES ASSUME NEW s \in Request, NEW i \in hashed'[s] + 1 .. Len(table'[s])
               PROVE  blockHash'[table'[s][i]] = NoHash
    BY DEF TailUnlabelled
  <2>1. CASE s = r
    <3>1. i \in k + 1 .. Len(t) /\ k \in Nat /\ Len(base) \in Nat /\ Len(t) \in Nat
      BY <1>4, <1>5, <1>6, <1>8, <2>1
    <3>2. CASE i > Len(base)
      <4>1. i \in Len(base) + 1 .. Len(t)
        BY <3>1, <3>2
      <4> QED BY <1>4, <1>8, <2>1, <4>1
    <3>3. CASE i <= Len(base)
      <4>1. i \in 1 .. Len(base) /\ i > k
        BY <3>1, <3>3
      <4>2. hits[r] = << >> /\ k = hashed[r] /\ base = table[r]
        BY <1>7, <3>1, <4>1
      <4>3. blockHash[base[i]] = NoHash
        BY <3>1, <4>1, <4>2 DEF KVInv, TailUnlabelled
      <4> QED BY <1>4, <1>8, <1>11, <2>1, <4>1, <4>3
    <3> QED BY <3>1, <3>2, <3>3
  <2>2. CASE s # r
    <3>1. i \in hashed[s] + 1 .. Len(table[s]) /\ table'[s] = table[s]
      BY <1>9, <2>2
    <3>2. i \in 1 .. Len(table[s]) /\ table[s] \in Seq(Block)
      BY <3>1, KVTypes
    <3>3. table[s][i] \in Held(s)
      BY <3>2, RangeOfSequence DEF Held
    <3> QED BY <1>11, <3>1, <3>3 DEF KVInv, TailUnlabelled
  <2> QED BY <2>1, <2>2
<1>18. SharedIsLabelled'
  <2> SUFFICES ASSUME NEW s \in Request, NEW c \in Held(s)',
                      NEW q \in Request \ {s}, c \in Held(q)'
               PROVE  blockHash'[c] # NoHash
    BY <1>1, EmptyRange DEF SharedIsLabelled
  <2>1. c \notin taken
    <3>1. CASE s # r
      BY <1>10, <1>11, <3>1
    <3>2. CASE q # r
      BY <1>10, <1>11, <3>2
    <3> QED BY <3>1, <3>2
  <2>2. c \in Held(s) /\ c \in Held(q)
    BY <1>10, <2>1, Zenon
  <2>3. blockHash[c] # NoHash
    BY <2>2 DEF KVInv, SharedIsLabelled
  <2> QED BY <1>11, <2>2, <2>3
<1> QED BY <1>12, <1>13, <1>14, <1>15, <1>16, <1>17, <1>18 DEF KVInv

-----------------------------------------------------------------------------
(* Labels and tokens. *)

\* A full block gets its label: nobody but its request holds it, so no other
\* table is affected.
LEMMA RegisterBlockInv ==
  ASSUME KVInv, PoolInv', NEW r \in Request, RegisterBlock(r)
  PROVE  KVInv'
<1> DEFINE k == hashed[r] + 1
           b == table[r][k]
           h == PrefixHash(r, k)
<1>1. /\ unhashed[r] > 0 /\ CacheBlock(b, h)
      /\ hashed' = [hashed EXCEPT ![r] = @ + 1]
      /\ unhashed' = [unhashed EXCEPT ![r] = @ - 1]
      /\ UNCHANGED <<tokens, table, hits, toFree>>
  BY DEF RegisterBlock
<1>2. /\ k \in 1 .. Len(table[r]) /\ k * BlockSize <= Len(tokens[r])
      /\ h \in Hash /\ h = BlockPrefix(r, k)
      /\ b \in Held(r) /\ blockHash[b] = NoHash
  BY <1>1, NextToRegister
<1>3. /\ blockHash \in [Block -> Hash \cup {NoHash}] /\ refCount' = refCount
      /\ blockHash' = [blockHash EXCEPT ![b] = h] \/ blockHash' = blockHash
  BY <1>1 DEF CacheBlock, KVInv, PoolInv, PoolTypeOK
<1>4. /\ hashed \in [Request -> Nat] /\ unhashed \in [Request -> Nat]
  BY DEF KVInv, KVTypeOK
<1>5. /\ hashed'[r] = k /\ unhashed'[r] = unhashed[r] - 1
      /\ hashed' \in [Request -> Nat] /\ unhashed' \in [Request -> Nat]
      /\ hashed'[r] + unhashed'[r] = hashed[r] + unhashed[r]
      /\ \A s \in Request \ {r} : hashed'[s] = hashed[s] /\ unhashed'[s] = unhashed[s]
  BY <1>1, <1>4
<1>6. k = hashed[r] + 1
  OBVIOUS
<1> HIDE DEF k, h
<1>7. /\ b \in Block /\ b \notin Range(toFree)
      /\ \A s \in Request \ {r} : b \notin Held(s)
  BY <1>2, HeldIsReferenced DEF KVInv, SharedIsLabelled
<1>8. hits[r] = << >>
  <2>1. table[r] # << >>
    BY <1>2
  <2> QED BY <2>1, KVTypes
<1>9. \A j \in 1 .. Len(table[r]) : table[r][j] = b => j = k
  BY <1>2, KVTypes, InjectiveSequence
<1> HIDE DEF b
<1>10. \A c \in Block : blockHash'[c] = blockHash[c] \/ (c = b /\ blockHash'[c] = h)
  BY <1>3
<1>11. KVTypeOK' /\ RefCountsMatchHolders' /\ NoRepeatedBlock'
  BY <1>1, <1>3, <1>5
     DEF KVInv, KVTypeOK, PoolInv, RefCountsMatchHolders, Holders, NoRepeatedBlock
<1>12. ASSUME NEW s \in Request, NEW j \in 1 .. Len(table[s])
       PROVE  /\ table[s][j] \in Block /\ table[s][j] \in Held(s)
              /\ table[s][j] = b => s = r /\ j = k
  <2>1. table[s][j] \in Held(s) /\ Held(s) \subseteq Block
    BY KVTypes, RangeOfSequence DEF Held
  <2> QED BY <1>7, <1>9, <2>1
<1>13. ASSUME NEW s \in Request, NEW j \in 1 .. Len(hits[s])
       PROVE  hits[s][j] \in Block /\ hits[s][j] # b
  <2>1. hits[s][j] \in Held(s) /\ Held(s) \subseteq Block
    BY KVTypes, RangeOfSequence DEF Held
  <2>2. s # r
    BY <1>8
  <2> QED BY <1>7, <2>1, <2>2
<1>14. LabelIsOwnPrefix'
  <2>1. ASSUME NEW s \in Request, NEW j \in 1 .. Len(table[s]), blockHash'[table[s][j]] # NoHash
        PROVE  j * BlockSize <= Len(tokens[s]) /\ blockHash'[table[s][j]] = BlockPrefix(s, j)
    <3>1. CASE blockHash'[table[s][j]] = blockHash[table[s][j]]
      BY <2>1, <3>1 DEF KVInv, LabelIsOwnPrefix
    <3>2. CASE table[s][j] = b /\ blockHash'[table[s][j]] = h
      <4>1. s = r /\ j = k
        BY <1>12, <3>2
      <4> QED BY <1>2, <3>2, <4>1
    <3> QED BY <1>10, <1>12, <3>1, <3>2
  <2>2. ASSUME NEW s \in Request, NEW j \in 1 .. Len(hits[s])
        PROVE  j * BlockSize <= Len(tokens[s]) /\ blockHash'[hits[s][j]] = BlockPrefix(s, j)
    <3>1. blockHash'[hits[s][j]] = blockHash[hits[s][j]]
      BY <1>10, <1>13
    <3> QED BY <3>1 DEF KVInv, LabelIsOwnPrefix
  <2> QED BY <1>1, <2>1, <2>2 DEF LabelIsOwnPrefix, BlockPrefix
<1>15. ChainWithinTable'
  BY <1>1, <1>5 DEF KVInv, ChainWithinTable
<1>16. TailUnlabelled'
  <2> SUFFICES ASSUME NEW s \in Request, NEW j \in hashed'[s] + 1 .. Len(table[s])
               PROVE  blockHash'[table[s][j]] = NoHash
    BY <1>1 DEF TailUnlabelled
  <2>1. /\ j \in 1 .. Len(table[s]) /\ j \in hashed[s] + 1 .. Len(table[s])
        /\ s = r => j # k
    <3>1. /\ hashed[s] \in Nat /\ hashed'[s] \in Nat /\ Len(table[s]) \in Nat
          /\ hashed'[s] = hashed[s] \/ hashed'[s] = hashed[s] + 1
          /\ s = r => hashed'[s] = k
      <4>1. Len(table[s]) \in Nat
        BY KVTypes
      <4>2. CASE s = r
        BY <1>4, <1>5, <1>6, <4>1, <4>2
      <4>3. CASE s # r
        BY <1>4, <1>5, <4>1, <4>3
      <4> QED BY <4>2, <4>3
    <3> QED BY <3>1
  <2>2. table[s][j] # b /\ table[s][j] \in Block
    BY <1>12, <2>1
  <2>3. blockHash'[table[s][j]] = blockHash[table[s][j]]
    BY <1>10, <2>2
  <2> QED BY <2>1, <2>3 DEF KVInv, TailUnlabelled
<1>17. SharedIsLabelled'
  <2> SUFFICES ASSUME NEW s \in Request, NEW c \in Held(s),
                      c \in Range(toFree) \/ \E q \in Request \ {s} : c \in Held(q)
               PROVE  blockHash'[c] # NoHash
    BY <1>1 DEF SharedIsLabelled, Held
  <2>1. blockHash[c] # NoHash /\ c \in Block
    BY KVTypes DEF KVInv, SharedIsLabelled
  <2> QED BY <1>2, <1>10, <2>1, NoHashAssumption
<1> QED BY <1>11, <1>14, <1>15, <1>16, <1>17 DEF KVInv

\* A request that holds nothing gets its tokens.
LEMMA SetPromptInv ==
  ASSUME KVInv, PoolInv', NEW r \in Request, NEW prompt \in Prompts, SetPrompt(r, prompt)
  PROVE  KVInv'
<1>1. /\ table[r] = << >> /\ hits[r] = << >>
      /\ tokens' = [tokens EXCEPT ![r] = prompt]
      /\ UNCHANGED <<free, refCount, blockHash, cached, table, hashed, unhashed, hits, toFree>>
  BY DEF SetPrompt, poolVars
<1>2. prompt \in Seq(Token) /\ Len(prompt) \in Nat /\ Len(prompt) <= MaxModelLen
  <2>1. PICK n \in 1 .. MaxModelLen - 1 : prompt \in [1 .. n -> Token]
    BY PromptsAssumption
  <2>2. prompt \in Seq(Token) /\ Len(prompt) = n
    BY <2>1
  <2> QED BY <2>1, <2>2, MaxModelLenAssumption
<1>3. /\ tokens \in [Request -> Seq(Token)]
      /\ hashed[r] \in Nat /\ unhashed[r] \in Nat /\ Len(table[r]) = 0
  BY <1>1 DEF KVInv, KVTypeOK
<1>4. /\ tokens' \in [Request -> Seq(Token)] /\ tokens'[r] = prompt
      /\ \A s \in Request \ {r} : tokens'[s] = tokens[s]
  BY <1>1, <1>2, <1>3
<1>5. KVTypeOK'
  BY <1>1, <1>2, <1>4 DEF KVInv, KVTypeOK, PoolInv
<1>6. RefCountsMatchHolders' /\ NoRepeatedBlock' /\ TailUnlabelled' /\ SharedIsLabelled'
  BY <1>1 DEF KVInv, RefCountsMatchHolders, Holders, NoRepeatedBlock, TailUnlabelled,
              SharedIsLabelled, Held
<1>7. LabelIsOwnPrefix'
  <2> SUFFICES ASSUME NEW s \in Request, s # r
               PROVE  /\ \A i \in 1 .. Len(table[s]) :
                            blockHash[table[s][i]] # NoHash
                               => /\ i * BlockSize <= Len(tokens[s])
                                  /\ blockHash[table[s][i]] = BlockPrefix(s, i)
                      /\ \A i \in 1 .. Len(hits[s]) :
                            /\ i * BlockSize <= Len(tokens[s])
                            /\ blockHash[hits[s][i]] = BlockPrefix(s, i)
    BY <1>1, <1>4 DEF LabelIsOwnPrefix, BlockPrefix
  <2> QED BY DEF KVInv, LabelIsOwnPrefix
<1>8. ChainWithinTable'
  <2>1. hashed[r] + unhashed[r] = 0
    <3>1. hashed[r] + unhashed[r] <= 0
      BY <1>3 DEF KVInv, ChainWithinTable
    <3> QED BY <1>3, <3>1
  <2>2. 0 * BlockSize = 0
    BY BlockSizeAssumption
  <2> QED BY <1>1, <1>2, <1>3, <1>4, <2>1, <2>2 DEF KVInv, ChainWithinTable
<1> QED BY <1>5, <1>6, <1>7, <1>8 DEF KVInv

\* A token more leaves the prefixes of full blocks as they were.
LEMMA PrefixOfAppend ==
  ASSUME NEW S, NEW s \in Seq(S), NEW x \in S, NEW m \in 0 .. Len(s)
  PROVE  SubSeq(Append(s, x), 1, m) = SubSeq(s, 1, m)
<1>1. /\ SubSeq(Append(s, x), 1, m) \in Seq(S) /\ SubSeq(s, 1, m) \in Seq(S)
      /\ Len(SubSeq(Append(s, x), 1, m)) = m /\ Len(SubSeq(s, 1, m)) = m
  OBVIOUS
<1>2. \A i \in 1 .. m : SubSeq(Append(s, x), 1, m)[i] = SubSeq(s, 1, m)[i]
  OBVIOUS
<1> QED BY <1>1, <1>2

\* One output token.
LEMMA AppendTokenInv ==
  ASSUME KVInv, PoolInv', NEW r \in Request, NEW t \in Token,
         Len(tokens[r]) < MaxModelLen, AppendToken(r, t)
  PROVE  KVInv'
<1>1. /\ tokens' = [tokens EXCEPT ![r] = Append(@, t)]
      /\ UNCHANGED <<free, refCount, blockHash, cached, table, hashed, unhashed, hits, toFree>>
  BY DEF AppendToken, poolVars
<1>2. /\ tokens \in [Request -> Seq(Token)] /\ Len(tokens[r]) \in Nat
      /\ \A s \in Request : Len(tokens[s]) <= MaxModelLen
  BY DEF KVInv, KVTypeOK
<1>3. /\ tokens' \in [Request -> Seq(Token)] /\ tokens'[r] = Append(tokens[r], t)
      /\ Len(tokens'[r]) = Len(tokens[r]) + 1
      /\ \A s \in Request \ {r} : tokens'[s] = tokens[s]
  BY <1>1, <1>2
<1>4. \A s \in Request : Len(tokens'[s]) <= MaxModelLen
  <2>1. Len(tokens'[r]) <= MaxModelLen
    BY <1>2, <1>3, MaxModelLenAssumption
  <2> QED BY <1>2, <1>3, <2>1
<1>5. KVTypeOK'
  BY <1>1, <1>3, <1>4 DEF KVInv, KVTypeOK, PoolInv
<1>6. RefCountsMatchHolders' /\ NoRepeatedBlock' /\ TailUnlabelled' /\ SharedIsLabelled'
  BY <1>1 DEF KVInv, RefCountsMatchHolders, Holders, NoRepeatedBlock, TailUnlabelled,
              SharedIsLabelled, Held
<1>7. ASSUME NEW s \in Request, NEW i \in Nat, i * BlockSize <= Len(tokens[s])
      PROVE  i * BlockSize <= Len(tokens'[s]) /\ BlockPrefix(s, i)' = BlockPrefix(s, i)
  <2> DEFINE m == i * BlockSize
  <2>1. m \in Nat /\ Len(tokens[s]) \in Nat /\ m <= Len(tokens[s])
    BY <1>2, <1>7, BlocksMonotone, BlockSizeAssumption
  <2> HIDE DEF m
  <2>2. CASE s = r
    <3>1. m <= Len(tokens[r]) + 1 /\ m \in 0 .. Len(tokens[r]) /\ tokens[r] \in Seq(Token)
      BY <1>2, <2>1, <2>2
    <3>2. SubSeq(Append(tokens[r], t), 1, m) = SubSeq(tokens[r], 1, m)
      BY <3>1, PrefixOfAppend
    <3> QED BY <1>3, <2>2, <3>1, <3>2 DEF BlockPrefix, m
  <2>3. CASE s # r
    BY <1>3, <1>7, <2>3 DEF BlockPrefix
  <2> QED BY <2>2, <2>3
<1>8. LabelIsOwnPrefix'
  <2>1. ASSUME NEW s \in Request, NEW i \in 1 .. Len(table[s]), blockHash[table[s][i]] # NoHash
        PROVE  i * BlockSize <= Len(tokens'[s]) /\ blockHash[table[s][i]] = BlockPrefix(s, i)'
    BY <1>7, <2>1 DEF KVInv, LabelIsOwnPrefix
  <2>2. ASSUME NEW s \in Request, NEW i \in 1 .. Len(hits[s])
        PROVE  i * BlockSize <= Len(tokens'[s]) /\ blockHash[hits[s][i]] = BlockPrefix(s, i)'
    BY <1>7 DEF KVInv, LabelIsOwnPrefix
  <2> QED BY <1>1, <2>1, <2>2 DEF LabelIsOwnPrefix
<1>9. ChainWithinTable'
  <2> SUFFICES ASSUME NEW s \in Request
               PROVE  (hashed[s] + unhashed[s]) * BlockSize <= Len(tokens'[s])
    BY <1>1 DEF KVInv, ChainWithinTable
  <2>1. hashed[s] + unhashed[s] \in Nat
    BY KVTypes
  <2> QED BY <1>7, <2>1 DEF KVInv, ChainWithinTable
<1> QED BY <1>5, <1>6, <1>8, <1>9 DEF KVInv

-----------------------------------------------------------------------------
(* The invariant and what follows from it. *)

\* Nothing allocated, nothing held.
LEMMA KVInitInv == KVInit => KVInv
<1> SUFFICES ASSUME KVInit PROVE KVInv
  OBVIOUS
<1>1. PoolInv /\ PoolTypeOK
  BY PoolInitInv DEF KVInit, PoolInv
<1>2. \A r \in Request : /\ tokens[r] = << >> /\ table[r] = << >> /\ hits[r] = << >>
                         /\ hashed[r] = 0 /\ unhashed[r] = 0
  BY DEF KVInit
<1>3. toFree = << >> /\ \A r \in Request : Held(r) = {}
  BY <1>2, EmptyRange DEF KVInit, Held
<1>4. KVTypeOK
  BY <1>1, MaxModelLenAssumption DEF KVInit, KVTypeOK
<1>5. RefCountsMatchHolders
  <2> SUFFICES ASSUME NEW b \in Block
               PROVE  refCount[b] = Cardinality(Holders(b)) + (IF b \in Range(toFree) THEN 1 ELSE 0)
    BY DEF RefCountsMatchHolders
  <2>1. Holders(b) = {}
    BY <1>3, HoldersLemma
  <2>2. Cardinality(Holders(b)) = 0
    BY <2>1, FS_EmptySet
  <2> QED BY <1>3, <2>2, EmptyRange DEF KVInit, PoolInit
<1>6. NoRepeatedBlock
  <2>1. IsInjective(<< >>)
    BY DEF IsInjective
  <2> QED BY <1>2, <1>3, <2>1 DEF NoRepeatedBlock
<1>7. LabelIsOwnPrefix /\ TailUnlabelled /\ SharedIsLabelled
  BY <1>2, <1>3 DEF LabelIsOwnPrefix, TailUnlabelled, SharedIsLabelled
<1>8. ChainWithinTable
  <2>1. 0 * BlockSize = 0
    BY BlockSizeAssumption
  <2> QED BY <1>2, <2>1 DEF ChainWithinTable
<1> QED BY <1>1, <1>4, <1>5, <1>6, <1>7, <1>8 DEF KVInv

\* Every operation, and a stuttering step, keeps the invariant.
LEMMA KVNextInv == KVInv /\ [KVNext]_<<poolVars, kvVars>> => KVInv'
<1> SUFFICES ASSUME KVInv, [KVNext]_<<poolVars, kvVars>> PROVE KVInv'
  OBVIOUS
<1>1. PoolInv'
  BY PoolStep, PoolNextInv DEF KVInv
<1>2. ASSUME NEW r \in Request, LookupHit(r) PROVE KVInv'
  BY <1>1, <1>2, LookupHitInv
<1>3. ASSUME NEW r \in Request, DropLastHit(r) PROVE KVInv'
  BY <1>1, <1>3, DropLastHitInv
<1>4. ASSUME NEW r \in Request, NEW total \in 1 .. Len(tokens[r]), AllocateSlots(r, total)
      PROVE  KVInv'
  BY <1>1, <1>4, AllocateSlotsInv
<1>5. ASSUME NEW r \in Request, NEW total, SlotsExhausted(r, total) PROVE KVInv'
  BY <1>1, <1>5, SlotsExhaustedInv
<1>6. ASSUME NEW r \in Request, RegisterBlock(r) PROVE KVInv'
  BY <1>1, <1>6, RegisterBlockInv
<1>7. ASSUME NEW r \in Request, FreeRequest(r) PROVE KVInv'
  BY <1>1, <1>7, FreeRequestInv
<1>8. ASSUME NEW r \in Request, NEW t \in Token, Len(tokens[r]) < MaxModelLen, AppendToken(r, t)
      PROVE  KVInv'
  BY <1>1, <1>8, AppendTokenInv
<1>9. ASSUME NEW r \in Request, NEW prompt \in Prompts, SetPrompt(r, prompt) PROVE KVInv'
  BY <1>1, <1>9, SetPromptInv
<1>10. ASSUME ReleaseBlock PROVE KVInv'
  BY <1>1, <1>10, ReleaseBlockInv
<1>11. ASSUME UNCHANGED <<poolVars, kvVars>> PROVE KVInv'
  BY <1>1, <1>11
     DEF poolVars, kvVars, KVInv, PoolInv, KVTypeOK, PoolTypeOK, RefCountsMatchHolders, Holders,
         NoRepeatedBlock, LabelIsOwnPrefix, BlockPrefix, ChainWithinTable, TailUnlabelled,
         SharedIsLabelled, Held
<1> QED
  BY <1>2, <1>3, <1>4, <1>5, <1>6, <1>7, <1>8, <1>9, <1>10, <1>11 DEF KVNext

\* The invariant holds in every reachable state.
LEMMA SpecInv == KVSpec => []KVInv
BY KVInitInv, KVNextInv, PTL DEF KVSpec

\* Two holders of a block found it by one label, which is the prefix of both;
\* prefixes of different positions differ in length.
LEMMA InvSharing == KVInv => SharingMeansSamePrefix
<1> SUFFICES ASSUME KVInv,
                    NEW r \in Request, NEW s \in Request \ {r},
                    NEW i \in 1 .. Len(table[r]), NEW j \in 1 .. Len(table[s]),
                    table[r][i] = table[s][j]
             PROVE  /\ i = j
                    /\ i * BlockSize <= Len(tokens[r])
                    /\ i * BlockSize <= Len(tokens[s])
                    /\ BlockPrefix(r, i) = BlockPrefix(s, i)
  BY DEF SharingMeansSamePrefix
<1> DEFINE b == table[r][i]
<1>1. /\ table[r] \in Seq(Block) /\ table[s] \in Seq(Block) /\ KVTypeOK
      /\ i \in Nat \ {0} /\ j \in Nat \ {0}
  BY KVTypes DEF KVInv
<1>2. b \in Held(r) /\ b \in Held(s)
  BY <1>1, RangeOfSequence DEF Held
<1>3. blockHash[b] # NoHash
  BY <1>2 DEF KVInv, SharedIsLabelled
<1>4. /\ i * BlockSize <= Len(tokens[r]) /\ blockHash[b] = BlockPrefix(r, i)
      /\ j * BlockSize <= Len(tokens[s]) /\ blockHash[b] = BlockPrefix(s, j)
  BY <1>3 DEF KVInv, LabelIsOwnPrefix
<1>5. Len(BlockPrefix(r, i)) = i * BlockSize /\ Len(BlockPrefix(s, j)) = j * BlockSize
  BY <1>1, <1>4, PrefixHashLemma
<1>6. i * BlockSize = j * BlockSize
  BY <1>4, <1>5
<1>7. i = j
  <2>1. i < j => i * BlockSize < j * BlockSize
    BY <1>1, BlocksMonotone, BlockSizeAssumption
  <2>2. j < i => j * BlockSize < i * BlockSize
    BY <1>1, BlocksMonotone, BlockSizeAssumption
  <2>3. i * BlockSize \in Nat
    BY <1>1, BlocksMonotone, BlockSizeAssumption
  <2> QED BY <1>1, <1>6, <2>1, <2>2, <2>3
<1> QED BY <1>4, <1>7

\* A block beyond the hashed ones carries no label, so nobody shares it.
LEMMA InvPrivate == KVInv => UnhashedBlocksArePrivate
<1> SUFFICES ASSUME KVInv, NEW r \in Request, NEW i \in hashed[r] + 1 .. Len(table[r])
             PROVE  blockHash[table[r][i]] = NoHash /\ Holders(table[r][i]) = {r}
  BY DEF UnhashedBlocksArePrivate
<1> DEFINE b == table[r][i]
<1>1. blockHash[b] = NoHash
  BY DEF KVInv, TailUnlabelled
<1>2. b \in Held(r)
  <2>1. i \in 1 .. Len(table[r]) /\ table[r] \in Seq(Block)
    BY KVTypes
  <2> QED BY <2>1, RangeOfSequence DEF Held
<1>3. \A s \in Request \ {r} : b \notin Held(s)
  BY <1>1, <1>2 DEF KVInv, SharedIsLabelled
<1> HIDE DEF b
<1>4. Holders(b) = {r}
  BY <1>2, <1>3, HoldersLemma
<1> QED BY <1>1, <1>4 DEF b

\* Every variable keeps its type.
THEOREM KVTypeCorrect == KVSpec => []KVTypeOK
<1>1. KVInv => KVTypeOK
  BY DEF KVInv
<1> QED BY <1>1, SpecInv, PTL

\* KVCacheManager.free and the releases of allocate_slots never leak a block
\* and never raise "double free": a count is the number of its holders.
THEOREM RefCountsCorrect == KVSpec => []RefCountsMatchHolders
<1>1. KVInv => RefCountsMatchHolders
  BY DEF KVInv
<1> QED BY <1>1, SpecInv, PTL

\* No table, lookup or release loop names a block twice.
THEOREM TablesCorrect == KVSpec => []NoRepeatedBlock
<1>1. KVInv => NoRepeatedBlock
  BY DEF KVInv
<1> QED BY <1>1, SpecInv, PTL

\* A labelled block of a request is labelled with the request's own prefix.
THEOREM LabelsCorrect == KVSpec => []LabelIsOwnPrefix
<1>1. KVInv => LabelIsOwnPrefix
  BY DEF KVInv
<1> QED BY <1>1, SpecInv, PTL

\* Prefix sharing is sound: one physical block in two tables is the same
\* position of the same prefix.
THEOREM SharingCorrect == KVSpec => []SharingMeansSamePrefix
BY SpecInv, InvSharing, PTL

\* A block that its request may still write is in no other table.
THEOREM PartialBlocksPrivate == KVSpec => []UnhashedBlocksArePrivate
BY SpecInv, InvPrivate, PTL

\* Every call of the manager uses the pool as the pool's own specification
\* allows: it frees only what is referenced and labels only what it holds.
THEOREM ManagerImplementsPool == KVSpec => PoolSpec
<1>1. KVInit => PoolInit
  BY DEF KVInit
<1>2. KVInv /\ [KVNext]_<<poolVars, kvVars>> => [PoolNext]_poolVars
  BY PoolStep
<1> QED BY <1>1, <1>2, SpecInv, PTL DEF KVSpec, PoolSpec
=============================================================================
