SPECIFICATION Spec
CONSTANTS
  RPCs = {r1, r2}
  Devices = {d1, d2}
  Disabled = {d2}
  Stranger = Stranger
  Keys = {k1, k2}
  NoKey = NoKey
  None = None
SYMMETRY Symmetry
INVARIANTS PromptsJustified PlaintextToOwner ApprovalNeverWasted SecretsInUse
CHECK_DEADLOCK FALSE
