\* The payer of the first transaction can no longer receive: is the second
\* transaction still refunded?
CONSTANTS
    Payment = {p1}
    Watched = {}
    Amounts = {2}
    Dues = {3}
    Wants = {}
    Fee = 1
    Retries = 2
    MaxTx = 2
    MaxFaults = 0
    Stuck = {1}
    None = None
SPECIFICATION FairSpec
PROPERTY RejectedComesBack
