SPECIFICATION Spec
CONSTANTS
  Nobody = Nobody
  NoAccount = NoAccount
  Nothing = Nothing
PROPERTIES DialogsEnd DataLands AllReceived
CHECK_DEADLOCK FALSE
