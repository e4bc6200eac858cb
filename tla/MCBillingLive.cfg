\* One payment and two transactions under the job's fairness: what is owed is
\* given back in the end.
CONSTANTS
    Payment = {p1}
    Watched = {p1}
    Amounts = {2, 4}
    Dues = {0, 3}
    Wants = {2}
    Fee = 1
    Retries = 2
    MaxTx = 2
    MaxFaults = 1
    Stuck = {}
    None = None
SPECIFICATION FairSpec
PROPERTIES RejectedComesBack  RequestIsGranted
