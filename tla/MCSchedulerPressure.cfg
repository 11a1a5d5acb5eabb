\* Three requests on three blocks, which hold one request of full length (six tokens) and
\* not two: preemption for blocks, recomputation from the cache, refused
\* admissions, aborts at every point, reuse of an id, a budget that cuts a
\* recomputed prompt in two, blocks that stay half full between calls.
CONSTANTS
    NumBlocks = 3
    Hash <- MCHash
    NoHash = NoHash
    EnableCaching = TRUE
    Request = {r1, r2, r3}
    a = a
    b = b
    Token = {a, b}
    BlockSize = 2
    MaxModelLen = 6
    Prompts <- PromptsShared
    MaxNumBatchedTokens = 4
    MaxNumSeqs = 3
    LongPrefillThreshold = 2
    Priorities = {0}
    Params <- ParamsStop
    MaxSubmissions = 3
SYMMETRY Symmetry
SPECIFICATION MCSpec
INVARIANTS
    QueuesMatchStatus
    OnlyRunningHoldBlocks
    ScheduledIsExecutable
    StepWithinLimits
    RunningServedFirst
    UnhashedBlocksArePrivate
    NeverCrashes
PROPERTIES
    KVSpec
    ImplementsService
