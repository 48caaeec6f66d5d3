SPECIFICATION Spec
CONSTANTS
    Layers = 2
    LayerWeights <- Weights
INVARIANTS LoadsWhatWasConverted ServesOnlyComplete
PROPERTY RefusesOnlyPartial
\* convert.py and qwen3 end
CHECK_DEADLOCK FALSE
