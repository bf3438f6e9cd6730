\* The repository against the domain record, from a created intent.
CONSTANTS
  Intents = {i1}
  Events = {e1, e2}
  Workers = {w1}
  None = None
SPECIFICATION FromCreated
PROPERTIES
  SucceedsOnlyFromSubmitted
