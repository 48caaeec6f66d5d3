SPECIFICATION Spec
CONSTANTS
    Layers = 3
    Weights <- BlockWeights
    Buffers <- StateBuffers
    MaxCalls = 3
INVARIANTS OneOwner LosesOnlyUnfinished DestructorReleasesAll
\* the program ends
CHECK_DEADLOCK FALSE
