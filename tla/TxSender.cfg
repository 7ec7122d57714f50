SPECIFICATION Spec
CONSTANTS
  a1 = a1
  a2 = a2
  e1 = e1
  e2 = e2
  t1 = t1
  t2 = t2
  c1 = c1
  c2 = c2
  Accounts = {a1, a2}
  NoAccount = NoAccount
  Effects <- TwoEffects
  NoEffect = NoEffect
  Sends <- NoEffects
  TestnetOnly <- NoEffects
  Requests <- OneRequest
  NoRequest = NoRequest
  Callers = {c1}
  Networks <- OnlyMainnet
  ChainIDs <- OnlyMainnet
  OptIns <- AlwaysOn
  OneAtATime = TRUE
  MaxRecords = 1
  MaxGen = 2
  MaxConn = 0
  MaxHolds = 1
  MaxBlocks = 1
  MaxRestarts = 0
INVARIANTS WalletConnectSender
