\* Two decode steps over the static buffers of three buckets; every pair of a row
\* and a neighbour through the sampler; outputs of up to five tokens of every
\* kind; three batches of up to two prompts; three steps against a window of one
\* tick.
CONSTANTS
    BlockSize = 2
    NumBlocks = 5
    MaxNumSeqs = 4
    MaxBlocksPerSeq = 2
    Batches <- MCBatches
    MaxSteps = 2
    VocabSize = 3
    Whole = 100
    SampledRows <- MCRows
    Logits <- MCLogitRange
    Exp <- MCExp
    Char = {"space", "c", "lead", "cont", "joined", "?"}
    Piece <- MCPiece
    StripsLeading = TRUE
    MaxTokens = 5
    DisconnectEvery = 2
    Fields <- MCFields
    PromptLens = {1, 8}
    MaxModelLen = 8
    StopLists <- MCStopLists
    MaxPrompts = 2
    MaxCalls = 3
    Window = 1
    StepSamples <- MCStepSamples
    MaxClock = 3
    MaxRecords = 3
\* Calls are answered, inputs used up, the bounds reached.
CHECK_DEADLOCK FALSE
SPECIFICATION MCSpec
INVARIANTS
    PathsAgree
    GraphsFit
    FilterIsNucleus
    NeighboursTakeOnlyRounding
    AnswerIsExact
    DropIsNoticed
    NoServerError
    BatchReturnsItsResults
PROPERTIES
    SnapshotIsExact
