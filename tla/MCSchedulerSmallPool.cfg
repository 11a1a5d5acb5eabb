\* A pool of four one-token blocks, a prompt of five tokens and a budget of two:
\* the remedy the RuntimeError names, with caching off.
CONSTANTS
    NumBlocks = 4
    Hash <- MCHash
    NoHash = NoHash
    EnableCaching = FALSE
    Request = {r1}
    a = a
    b = b
    Token = {a, b}
    BlockSize = 1
    MaxModelLen = 7
    Prompts <- PromptsLong
    MaxNumBatchedTokens = 2
    MaxNumSeqs = 2
    LongPrefillThreshold = 0
    Priorities = {0}
    Params <- ParamsStop
    MaxSubmissions = 1
SPECIFICATION MCFairSpec
PROPERTIES
    RequestsFinish
