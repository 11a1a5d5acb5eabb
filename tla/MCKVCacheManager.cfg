\* Two requests over two tokens, one-token blocks, up to three tokens each and
\* three blocks: shared prefixes, divergence after one, lookups that cover all
\* tokens, allocation failure with hits pending, eviction of labelled blocks.
CONSTANTS
    NumBlocks = 3
    Hash <- MCHash
    NoHash = NoHash
    EnableCaching = TRUE
    Request = {r1, r2}
    Token = {a, b}
    BlockSize = 1
    MaxModelLen = 3
    Prompts <- MCPrompts
    a = a
    b = b
SYMMETRY Symmetry
SPECIFICATION MCSpec
INVARIANTS
    KVTypeOK
    FreeIffUnreferenced
    IndexMatchesLabels
    RefCountsMatchHolders
    LabelIsOwnPrefix
    SharingMeansSamePrefix
PROPERTIES
    PoolSpec
    EvictionIsLru
