CONSTANTS
  c1 = c1
  c2 = c2
  Claimers <- MCClaimers
  Cosigned <- MCCosigned
  Highs <- MCHighs
  Retries = 2
  Funds = 2
  UnlockTime = 2
  MaxTime = 3
  MaxFaults = 2
SPECIFICATION LiveSpec
INVARIANTS
  TypeOK
  TokensClaimable
PROPERTIES
  KeepsPromise
  UnlockedIsClaimed
