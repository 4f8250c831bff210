SPECIFICATION TopologySpec
CONSTANTS
    r1 = r1
    Events <- One
    Consumers <- TwoQueues
    MaxRetries = 1
INVARIANT OwnRetriesOnly
CHECK_DEADLOCK FALSE
