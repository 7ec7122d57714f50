SPECIFICATION Spec
CONSTANTS
  a1 = a1
  a2 = a2
  e1 = e1
  e2 = e2
  t1 = t1
  t2 = t2
  c1 = c1
  c2 = c2
  Accounts = {a1}
  NoAccount = NoAccount
  Effects <- TwoEffects
  NoEffect = NoEffect
  Sends <- NoEffects
  TestnetOnly <- NoEffects
  Requests <- Reissues
  NoRequest = NoRequest
  Callers = {c1}
  Networks <- OnlyMainnet
  ChainIDs <- OnlyMainnet
  OptIns <- AlwaysOn
  OneAtATime = TRUE
  MaxRecords = 2
  MaxGen = 1
  MaxConn = 0
  MaxHolds = 2
  MaxBlocks = 3
  MaxRestarts = 1
INVARIANTS SentIsJournaled ExactlyOnce NoSiblings
PROPERTIES ImplementsPublishOnce
