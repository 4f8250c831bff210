SPECIFICATION FairSpec
CONSTANTS
    plain = plain
    twin = twin
    poison = poison
    garbage = garbage
    w1 = w1
    w2 = w2
    Events <- Mixed
    Malformed <- Garbage
    Poison <- PoisonOne
    Workers <- Lone
    MaxRetries = 1
    Prefetch = 2
    FaultKinds <- Durable
    MaxFaults = 2
PROPERTIES DeliversPromise
CHECK_DEADLOCK FALSE
