SPECIFICATION SoftmaxSpec
CONSTANTS
    BlockDim = 4
    KvLen = 5
INVARIANT RowMaximum
