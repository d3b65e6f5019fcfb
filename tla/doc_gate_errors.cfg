SPECIFICATION Spec
CONSTANTS
  RPCs = {r1}
  Devices = {d1, d2}
  Disabled = {d2}
  Stranger = Stranger
  Keys = {k1}
  NoKey = NoKey
  None = None
SYMMETRY Symmetry
INVARIANT OutagesCounted
CHECK_DEADLOCK FALSE
