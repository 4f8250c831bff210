SPECIFICATION Spec
CONSTANTS
    plain = plain
    twin = twin
    poison = poison
    garbage = garbage
    w1 = w1
    w2 = w2
    Events <- Pair
    Malformed <- None
    Poison <- None
    Workers <- Fleet
    MaxRetries = 1
    Prefetch = 2
    FaultKinds <- AllFaults
    MaxFaults = 1
INVARIANTS TypeOK Custody NoSilentLoss ExhaustedOnlyAfterRetries SentMeansMailed MailBudget DLQBudget
PROPERTIES NoMailAfterRow KeepsPromise RowIsFinal
SYMMETRY Symmetry
CHECK_DEADLOCK FALSE
