CONSTANTS
  Tabs = {t1}
  Calls = {c1, c2}
  MaxLogins = 2
  None = None
SPECIFICATION SessSpec
PROPERTIES
  RefusedCallsRefresh
CHECK_DEADLOCK FALSE
