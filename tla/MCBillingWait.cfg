\* A deadline that passes while the job reads the ledger.
CONSTANTS
    Payment = {p1}
    Watched = {p1}
    Amounts = {3}
    Dues = {3}
    Wants = {}
    Fee = 1
    Retries = 1
    MaxTx = 1
    MaxFaults = 0
    Stuck = {}
    None = None
SPECIFICATION Spec
INVARIANT WaitTellsTruth
