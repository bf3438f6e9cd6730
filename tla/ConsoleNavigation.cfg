CONSTANTS
  Users = {root, clerk}
  Supers = {root}
  Pages = {payments, channel}
  Restricted = {channel}
  Listed = {payments}
  Home = home
  None = None
  MaxEvents = 7
SPECIFICATION NavSpec
INVARIANTS
  NavTypeOK
  MenusMatchUser
  ActiveTabIsPage
  ShownInStoredOrder
  OnlyPinsCrossUsers
PROPERTIES
  NavigationSettles
  PageAllowsUser
CHECK_DEADLOCK FALSE
