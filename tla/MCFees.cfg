CONSTANTS
    c1 = c1
    c2 = c2
    o1 = o1
    Clerks = {c1, c2}
    NoClerk = NoClerk
    Orders = {o1}
    FeeRates = {100}
    MaxTime = 2
    MaxPolicies = 3
SPECIFICATION FeesSpec
SYMMETRY Symmetry
INVARIANTS OneInitialPolicy SnapshotIsDeclared
PROPERTIES HistoryStands FallbackIsARace
