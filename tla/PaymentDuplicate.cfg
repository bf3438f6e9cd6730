\* A redelivered event.
CONSTANTS
  Intents = {i1}
  Events = {e1}
  Workers = {w1, w2}
  None = None
SPECIFICATION Spec
INVARIANTS
  DuplicateIsDetected
