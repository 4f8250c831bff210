SPECIFICATION Spec
CONSTANTS
    r1 = r1
    r2 = r2
    Slots <- Pair
    Asks <- AllAsks
    MaxId = 4
    DefaultLimit = 2
    MaxLimit = 3
    IntMax = 7
INVARIANTS TypeOK AnsweredOnce OneTrace SameStatusAcrossHop CauseHidden PageFitsTotal PagesPartition
CHECK_DEADLOCK FALSE
