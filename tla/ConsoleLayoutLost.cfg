SPECIFICATION PartsSpec
CONSTANTS
  Ids = {a, b}
  Self = a
  Nil = Nil
  FirstPages <- EveryPage
  NextPages <- Elsewhere
  MaxSends <- SomeSends
  MaxChanges = 1
  Tabs <- SomeTabs
  NoTarget = NoTarget
  Keywords <- SomeKeywords
  MaxClosing = 2
  Touched <- SomeSettings
  MaxEdits = 3
  NoBackup = NoBackup
  Attempts = {a1, a2, a3}
  MaxTimers = 2
  Nobody = Nobody
INVARIANT LayoutRecovered
CHECK_DEADLOCK FALSE
