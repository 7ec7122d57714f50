SPECIFICATION Spec
CONSTANTS
  Nobody = Nobody
  LookupsFail = FALSE
  MaxChecks = 1
  MaxRestarts = 0
  Requests <- Reissuing
  Earlier <- OnlyFirst
INVARIANTS NeverHeldAgain
CHECK_DEADLOCK FALSE
