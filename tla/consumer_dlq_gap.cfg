SPECIFICATION Spec
CONSTANTS
    plain = plain
    twin = twin
    poison = poison
    garbage = garbage
    w1 = w1
    w2 = w2
    Events <- One
    Malformed <- None
    Poison <- None
    Workers <- Lone
    MaxRetries = 1
    Prefetch = 2
    FaultKinds <- CrashOnly
    MaxFaults = 1
INVARIANTS ExhaustedVisibleInDLQ
CHECK_DEADLOCK FALSE
