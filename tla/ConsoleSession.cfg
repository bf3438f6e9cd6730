CONSTANTS
  Tabs = {t1, t2}
  Calls = {c1, c2}
  MaxLogins = 1
  None = None
SPECIFICATION SessSpec
INVARIANTS
  SessTypeOK
  StoredTokenIsExchangeable
  ExecutedAtMostOnce
PROPERTIES
  OneExchangePerToken
  CallsSettle
CHECK_DEADLOCK FALSE
