\* A seeded request that is preempted and resumed.
CONSTANTS
    NumBlocks = 3
    Hash <- MCHash
    NoHash = NoHash
    EnableCaching = TRUE
    Request = {r1, r2}
    a = a
    b = b
    img = img
    Token = {a, b}
    ImageToken = img
    Image = {}
    NoImage = NoImage
    BlockSize = 2
    MaxModelLen = 6
    Prompts <- PromptsShared
    MaxNumBatchedTokens = 4
    MaxNumSeqs = 2
    LongPrefillThreshold = 0
    Priorities = {0}
    Params <- ParamsStop
    MaxSubmissions = 3
SPECIFICATION MCSpec
INVARIANTS
    SeededDrawIsReproducible
