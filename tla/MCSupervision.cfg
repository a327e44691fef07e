CONSTANTS
    p1 = p1
    p2 = p2
    Polled = {p1, p2}
    NoPayment = NoPayment
    BatchSize = 3
    ReservedSlots = 1
    MaxCrashes = 1
    FailureThreshold = 2
    RecoveryThreshold = 2
    MaxMishaps = 1
SPECIFICATION SupervisionSpec
INVARIANTS SupervisionTypeOK AlertedIsTold
PROPERTIES BothTiersServed DueIsClaimed SilenceIsTold RecoveryIsTold
