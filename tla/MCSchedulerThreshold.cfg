\* A budget of four tokens and a threshold of one: a prompt of five tokens is
\* admitted with one token and then takes the whole budget.
CONSTANTS
    NumBlocks = 3
    Hash <- MCHash
    NoHash = NoHash
    EnableCaching = TRUE
    Request = {r1}
    a = a
    b = b
    Token = {a, b}
    BlockSize = 2
    MaxModelLen = 6
    Prompts <- PromptsLong
    MaxNumBatchedTokens = 4
    MaxNumSeqs = 2
    LongPrefillThreshold = 1
    Priorities = {0}
    Params <- ParamsStop
    MaxSubmissions = 1
SPECIFICATION MCSpec
INVARIANTS
    PrefillChunkCapped
