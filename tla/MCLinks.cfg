CONSTANTS
    o1 = o1
    o2 = o2
    u1 = u1
    u2 = u2
    h1 = h1
    h2 = h2
    r1 = r1
    r2 = r2
    f1 = f1
    f2 = f2
    NoOne = NoOne
    NoRef = NoRef
    Orders = {o1}
    Users = {u1, u2}
    Amounts = {1000, 2000}
    Rates = {0, 250}
    MaxPayable = 2040
    OldPayers <- MCOldPayers
    Handlers = {h1, h2}
    Reconcilers = {}
    RateLimitEnabled = TRUE
    DiagnosticEnabled = FALSE
    MaxReconcile = 1
    Refs = {f1}
    MaxIds = 2
    MaxTokens = 2
    Faults = {"amount"}
SPECIFICATION Spec
SYMMETRY HandlerSymmetry
INVARIANTS OneLiveLink NoCrossUserLink OnePricePerOrder
PROPERTIES ExemptReplayIsFree
CHECK_DEADLOCK FALSE
