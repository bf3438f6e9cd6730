\* Three transactions, up to two rows each, a clock of nanoseconds, as the JVM of the image has.
CONSTANTS
  Writers = {w1, w2, w3}
  None = None
  Instants = {0, 1}
  MaxAppends = 2
  MaxId = 4
SPECIFICATION Spec
SYMMETRY Symmetry
INVARIANTS
  TrailVerifies
