SPECIFICATION Spec
CONSTANTS
    Device = "gpu"
    Layers = 1
    MaxSeqLen = 3
    AttentionSinks = 4
    PrefillBatchSize = 2
    Vocabulary = {a, eos}
    Eos = eos
    PromptLengths <- Prompts
    TokenLimits <- Limits
    MaxCalls = 2
INVARIANTS AttendsWindow SamplesLastPosition PrefillNeverRefused
PROPERTIES StreamsAttention EveryCallEnds
CHECK_DEADLOCK FALSE
