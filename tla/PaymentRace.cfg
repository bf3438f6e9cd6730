\* Three threads race for two intents: every initial status and payload.
CONSTANTS
  Intents = {i1, i2}
  Events = {e1, e2}
  Workers = {w1, w2, w3}
  None = None
SPECIFICATION Spec
SYMMETRY Symmetry
INVARIANTS
  TypeOK
  EventsSettleAtomically
  StatusIsLastSettled
  VersionCountsChanges
  PaymentInv
CHECK_DEADLOCK TRUE
