\* The rejection the contract test expects in the audit trail.
CONSTANTS
  Intents = {i1}
  Events = {e1}
  Workers = {w1, w2}
  None = None
SPECIFICATION Spec
PROPERTIES
  RefusedCallbackIsAudited
