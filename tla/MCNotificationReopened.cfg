CONSTANTS
    p1 = p1
    p2 = p2
    w1 = w1
    w2 = w2
    NoOne = NoOne
    Payments = {p1}
    Workers = {w1, w2}
    RetryMode = "idempotent"
    MaxAttempts = 2
    MaxResends = 1
SPECIFICATION FairSpec
PROPERTIES NewReviewIsOpen
CHECK_DEADLOCK FALSE
