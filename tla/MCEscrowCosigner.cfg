CONSTANTS
  c1 = c1
  c2 = c2
  Claimers <- MCClaimers
  Cosigned <- MCCosignedFirst
  Highs <- MCHighs
  Retries = 1
  Funds = 2
  UnlockTime = 2
  MaxTime = 3
  MaxFaults = 2
SPECIFICATION LiveSpec
PROPERTIES
  UnlockedIsClaimed
