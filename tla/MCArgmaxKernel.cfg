SPECIFICATION ArgmaxSpec
CONSTANTS
    BlockDim = 4
    MaxCount = 5
    MaxLogit = 2
INVARIANT MatchesGreedy
PROPERTY Answers
