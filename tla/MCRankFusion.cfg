SPECIFICATION FusionSpec
CONSTANTS
    ChunkIds = {1, 2, 3, 4}
    DocOf <- MCDocOf
    Pools = {1, 3}
    RRFK = 60
    Caps = {0, 1}
    TopKs = {0, 2}
    Similarities <- MCSimilarities
    Weights = {1, 2}
    RerankScores = {1, 2}
    Unit = 6
INVARIANT FusionRespectsBothSides
INVARIANT PoolKeepsALeader
INVARIANT LeftOutForAReason
CHECK_DEADLOCK FALSE
