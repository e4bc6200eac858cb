\* Two payments, killed process or lost answer once: every safety property.
CONSTANTS
    Payment = {p1, p2}
    Watched = {}
    Amounts = {2, 6}
    Dues = {3}
    Wants <- All
    Fee = 1
    Retries = 1
    MaxTx = 2
    MaxFaults = 1
    Stuck = {}
    None = None
SPECIFICATION Spec
INVARIANTS TypeOK DuplicatesNeedFaults SettledIsPaid RightReason OneFulfils NoProfit
PROPERTY KeepsPromise
SYMMETRY Interchangeable
