\* Three transactions, up to two rows each, a clock of whole microseconds.
CONSTANTS
  Writers = {w1, w2, w3}
  None = None
  Instants = {0, 1000}
  MaxAppends = 2
  MaxId = 4
SPECIFICATION Spec
SYMMETRY Symmetry
INVARIANTS
  TypeOK
  ChainLinked
  ChainInv
  TrailVerifies
PROPERTIES
  AppendsInIdOrder
CHECK_DEADLOCK TRUE
