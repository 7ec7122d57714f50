SPECIFICATION Spec
CONSTANTS
  Nobody = Nobody
  Callers = {"c1", "c2"}
  Flows = {"send"}
  MaxHolds = 3
  MaxSessions = 0
  LeavesPublishing = TRUE
  PressesAgain = FALSE
  AnswersLost = FALSE
  AnswersOvertake = FALSE
INVARIANT NoStrandedHold
CHECK_DEADLOCK FALSE
