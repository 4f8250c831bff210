SPECIFICATION FairSpec
CONSTANTS
    r1 = r1
    r2 = r2
    Events <- Two
    Consumers <- Notification
    MaxRetries = 1
    Setups <- Systems
    Tuned <- TTLVar
INVARIANTS TypeOK OneQueuedCopy RunsAsConfigured OutMeansConsuming LinkOutlivesHandlers
PROPERTIES NoneMissedOnceBound CleanExit SignalStops ComesUp
CHECK_DEADLOCK FALSE
