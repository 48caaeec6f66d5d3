SPECIFICATION KernelSpec
CONSTANTS
    Tile = 2
    BlockDim = 4
    Launches <- MCLaunches
INVARIANTS ProductsMatchCpu HeadsMatchCpu TurnsSplitHalves
