SPECIFICATION PartsSpec
CONSTANTS
  Ids = {a, b}
  Self = a
  Nil = Nil
  FirstPages <- EveryPage
  NextPages <- Elsewhere
  MaxSends <- SomeSends
  MaxChanges = 1
  Tabs <- SomeTabs
  NoTarget = NoTarget
  Keywords <- SomeKeywords
  MaxClosing = 2
  Touched <- SomeSettings
  MaxEdits = 3
  NoBackup = NoBackup
  Attempts = {a1, a2, a3}
  MaxTimers = 2
  Nobody = Nobody
INVARIANTS
  PagesTypeOK
  AnswersStayOnTheirPage
  FlaggedSendOnce
  ShowsOwnChange
  FlagsClear
  MenusTypeOK
  HighlightFollowsPage
  PageHasItsMenu
  SearchTypeOK
  EnterOnlyInSearch
  LookTypeOK
  LayoutComesBack
  MenusInReach
  LoginIsWhole
  ErrorsAreSeen
CHECK_DEADLOCK FALSE
