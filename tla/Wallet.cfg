SPECIFICATION SideSpec
CONSTANTS
  None = None
  Partial = Partial
  Corrupt = Corrupt
  unset = unset
  Nothing = Nothing
  Callers = {"c1", "c2"}
  Updates = {"u1", "u2", "u3"}
  Free = Free
  Damage = Damage
  PowerMayFail = FALSE
INVARIANTS TypesOK NoLostUpdate WalletsKept ShowsTheSigner
PROPERTIES ImplementsRegister SessionKept SettingsKept DataIsOwn
CHECK_DEADLOCK FALSE
