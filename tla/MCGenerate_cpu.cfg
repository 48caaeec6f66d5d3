SPECIFICATION Spec
CONSTANTS
    Device = "cpu"
    Layers = 2
    MaxSeqLen = 6
    AttentionSinks = 4
    PrefillBatchSize = 4
    Vocabulary = {a, eos}
    Eos = eos
    PromptLengths <- Prompts
    TokenLimits <- Limits
    MaxCalls = 2
INVARIANTS
    TypeOK AttendsWindow SamplesLastPosition ForwardsAllButLast StreamIsAnswer
    PrefillNeverRefused
PROPERTIES EvictsOldest StreamsAttention EveryCallEnds
CHECK_DEADLOCK FALSE
