SPECIFICATION Spec
CONSTANTS
  Writers = {w1, w2, w3}
  Names = {n1, n2}
  Torn = Torn
  NoFile = NoFile
SYMMETRY Symmetry
INVARIANTS EditsValid EditsKept NoLitter
PROPERTIES ImplementsAtomicFile
CHECK_DEADLOCK FALSE
