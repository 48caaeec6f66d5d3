SPECIFICATION Spec
CONSTANTS
    Layers = 2
    Heads = 2
    KvHeads = 1
    RotaryDims = {0, 2}
    MaxSeqLen = 3
    AttentionSinks = 4
    PrefillBatchSize = 2
    Prompts = {1, 3}
    TokenLimit = 3
    MaxCalls = 1
INVARIANTS HostReadsLastForward OwnBuffers BlocksApart
PROPERTIES CallReturns
\* The bounded callers stop calling.
CHECK_DEADLOCK FALSE
