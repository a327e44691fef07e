CONSTANTS
    o1 = o1
    o2 = o2
    u1 = u1
    u2 = u2
    h1 = h1
    h2 = h2
    r1 = r1
    r2 = r2
    f1 = f1
    f2 = f2
    NoOne = NoOne
    NoRef = NoRef
    Orders = {o1, o2}
    Users = {}
    Amounts = {1000}
    Rates = {0}
    MaxPayable = 1000
    OldPayers <- NoOldPayers
    Handlers = {h1}
    Reconcilers = {r1}
    RateLimitEnabled = FALSE
    DiagnosticEnabled = FALSE
    MaxReconcile = 1
    Refs = {f1}
    MaxIds = 2
    MaxTokens = 2
    Faults = {"amount", "payer", "reference"}
SPECIFICATION Spec
SYMMETRY OrderSymmetry
INVARIANTS VerifiedIsPaid DbCheckClean
PROPERTIES SettledIsFrozen SettlementAsPredicted
CHECK_DEADLOCK FALSE
