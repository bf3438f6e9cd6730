\* The statement-level model against PaymentLedger; liveness too, so no symmetry.
CONSTANTS
  Intents = {i1}
  Events = {e1, e2}
  Workers = {w1, w2}
  None = None
SPECIFICATION FairSpec
PROPERTIES
  TerminalStaysTerminal
  ImplementsLedger
  RequestsFinish
CHECK_DEADLOCK TRUE
