CONSTANTS
    o1 = o1
    h1 = h1
    r1 = r1
    f1 = f1
    w1 = w1
    w2 = w2
    NoOne = NoOne
    NoRef = NoRef
    Orders = {o1}
    Users = {}
    Amounts = {1000}
    Rates = {0}
    MaxPayable = 1000
    OldPayers <- NoOldPayers
    Handlers = {h1}
    Reconcilers = {r1}
    RateLimitEnabled = FALSE
    DiagnosticEnabled = FALSE
    MaxReconcile = 1
    Refs = {f1}
    MaxIds = 1
    MaxTokens = 2
    Workers = {w1}
    RetryMode = "safe"
    MaxAttempts = 2
    MaxResends = 0
    Faults = {"amount", "payer", "reference"}
SPECIFICATION FairBridgeSpec
INVARIANTS WorklistComplete ClosedCanStillSettle
PROPERTIES ImplementsLifecycle ImplementsNotification PaidIsAnswered
CHECK_DEADLOCK FALSE
