\* Two requests with the same words and different images.
CONSTANTS
    NumBlocks = 3
    Hash <- MCHash
    NoHash = NoHash
    EnableCaching = TRUE
    Request = {r1, r2}
    a = a
    b = b
    img = img
    Token = {b, img}
    ImageToken = img
    Image = {cat, dog}
    NoImage = NoImage
    BlockSize = 2
    MaxModelLen = 6
    Prompts <- PromptsImage
    MaxNumBatchedTokens = 4
    MaxNumSeqs = 2
    LongPrefillThreshold = 0
    Priorities = {0}
    Params <- ParamsStop
    MaxSubmissions = 2
SPECIFICATION MCSpec
INVARIANTS
    ReadsOwnPrefix
