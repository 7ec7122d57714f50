SPECIFICATION LiveSpec
CONSTANTS
  None = None
  NoAccount = NoAccount
  NoEffect = NoEffect
  NoRequest = NoRequest
  Callers = {"c1", "c2"}
  Updates = {"u1", "u2"}
  Free = Free
  Damage = Damage
  PowerMayFail = TRUE
INVARIANT Readable
PROPERTIES OutcomesResolve NodeSettles LocksWhenIdle QueueDrains CallsEnd
CHECK_DEADLOCK FALSE
