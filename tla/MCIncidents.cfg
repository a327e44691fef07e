CONSTANTS
    s1 = s1
    m1 = m1
    NoKey = NoKey
    NoOne = NoOne
    Keys = {}
    Senders = {s1}
    Monitors = {m1}
    MaxAttempts = 1
    Batch = 2
    MaxAlerts = 6
    MaxFaults = 1
    MaxChanges = 4
SPECIFICATION FairSpec
INVARIANTS NoAlertSpam
PROPERTIES IncidentIsHeard
CHECK_DEADLOCK FALSE
