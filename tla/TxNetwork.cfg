SPECIFICATION Spec
CONSTANTS
  a1 = a1
  a2 = a2
  e1 = e1
  e2 = e2
  t1 = t1
  t2 = t2
  c1 = c1
  c2 = c2
  Accounts = {a1}
  NoAccount = NoAccount
  Effects <- TwoEffects
  NoEffect = NoEffect
  Sends <- TwoEffects
  TestnetOnly <- Governance
  Requests <- NoRequests
  NoRequest = NoRequest
  Callers = {c1}
  Networks <- BothNetworks
  ChainIDs <- BothNetworks
  OptIns <- OnOrOff
  OneAtATime = TRUE
  MaxRecords = 1
  MaxGen = 1
  MaxConn = 2
  MaxHolds = 2
  MaxBlocks = 2
  MaxRestarts = 0
INVARIANTS OwnNetwork MainnetConsent
