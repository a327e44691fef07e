CONSTANTS
    k1 = k1
    s1 = s1
    s2 = s2
    NoKey = NoKey
    NoOne = NoOne
    Keys = {k1}
    Senders = {s1, s2}
    MaxAttempts = 2
    Batch = 2
    MaxAlerts = 2
    MaxFaults = 3
SPECIFICATION OutboxFairSpec
INVARIANTS DeliveredIsReal SuppressedIsCovered
PROPERTIES OutboxFinal AlertIsResolved
CHECK_DEADLOCK FALSE
