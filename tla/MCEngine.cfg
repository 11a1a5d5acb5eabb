\* Three submissions under two ids on three blocks, text and image prompts: the engine
\* with its memory.
CONSTANTS
    NumBlocks = 3
    Hash <- MCHash
    NoHash = NoHash
    EnableCaching = TRUE
    Request = {r1, r2}
    a = a
    b = b
    img = img
    Token = {b, img}
    ImageToken = img
    Image = {cat}
    NoImage = NoImage
    BlockSize = 2
    MaxModelLen = 6
    Prompts <- PromptsMixed
    MaxNumBatchedTokens = 4
    MaxNumSeqs = 2
    LongPrefillThreshold = 0
    Priorities = {0}
    Params <- ParamsStop
    MaxSubmissions = 3
SPECIFICATION MCSpec
INVARIANTS
    EngineTypeOK
    RunnerInSync
    ReadsOwnPrefix
    CachedContentIsValid
    WritesAreDisjoint
    NoResidentLeak
