\* Three requests of two priorities in a pool for one of full length, two slots:
\* preemption for blocks and for priority; every request that was accepted ends.
\* The budget has room for three, so only the slots keep the third one out.
CONSTANTS
    NumBlocks = 3
    Hash <- MCHash
    NoHash = NoHash
    EnableCaching = TRUE
    Request = {r1, r2, r3}
    a = a
    b = b
    Token = {a, b}
    BlockSize = 1
    MaxModelLen = 3
    Prompts <- PromptsShort
    MaxNumBatchedTokens = 3
    MaxNumSeqs = 2
    LongPrefillThreshold = 0
    Priorities = {0, 1}
    Params <- ParamsMin
    MaxSubmissions = 3
SPECIFICATION MCOrderedSpec
INVARIANTS
    PriorityEvictionPaysOff
    StepWithinLimits
PROPERTIES
    RequestsFinish
