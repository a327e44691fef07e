CONSTANTS
    t1 = t1
    t2 = t2
    s1 = s1
    s2 = s2
    u1 = u1
    k1 = k1
    k2 = k2
    old = old
    Threads = {t1, t2}
    Requests = {t1, t2}
    Sources = {s1, s2}
    NoSource = NoSource
    Limit = 2
    SourceLimit = 1
    Capacity = 1
    Window = 1
    MaxDelay = 1
    TelegramUsers = {u1}
    OrderKeys = {k1, k2}
    TelegramId <- MCTelegramId
    Derive <- MCDerive
    MaxDerivations = 2
    Reserved = 11
    Historical <- MCHistorical
    NoKey = NoKey
SPECIFICATION AdmissionSpec
INVARIANTS SharedBudget BudgetLostToCrowdOnly PayersIsolated
SYMMETRY Symmetry
