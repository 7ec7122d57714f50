SPECIFICATION Spec
CONSTANTS
  None = None
  Partial = Partial
  Corrupt = Corrupt
  Stem = Stem
  FirstPassword = "p1"
  Callers = {"c1", "c2"}
  Ids = {"i1", "i2"}
  Legacy = {"i1"}
  Names = {"n1", "n2"}
  Passwords = {"p1", "p2"}
  Mishaps = {"write"}
  MaxCalls = 2
  MaxMishaps = 1
INVARIANT KeystoreIntact
CHECK_DEADLOCK FALSE
