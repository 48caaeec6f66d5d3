SPECIFICATION Spec
CONSTANTS
    Workers = {w1, w2}
    NumTokens = 2
    Start = 1
    Heads = 4
    KvHeads = 2
    MaxSeqLen = 3
    BatchCapacity = 2
INVARIANTS RaceFree InBounds ChunkAtOnce
