SPECIFICATION Spec
CONSTANTS
    Layers = 2
    LayerWeights <- Weights
INVARIANT SkippedPayloadsExist
\* convert.py and qwen3 end
CHECK_DEADLOCK FALSE
