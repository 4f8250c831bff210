SPECIFICATION Spec
CONSTANTS
    plain = plain
    twin = twin
    poison = poison
    garbage = garbage
    w1 = w1
    w2 = w2
    Events <- One
    Malformed <- None
    Poison <- None
    Workers <- Lone
    MaxRetries = 1
    Prefetch = 2
    FaultKinds <- AllFaults
    MaxFaults = 1
INVARIANTS FailedMeansNoMail
CHECK_DEADLOCK FALSE
