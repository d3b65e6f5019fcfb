SPECIFICATION Spec
CONSTANTS
  Devices = {d1, d2}
  Callers = {c1, c2}
  Requests = {r1, r2}
  None = None
  MaxPendingRequests = 1
  MaxWaitersPerDevice = 1
  MaxConcurrentSends = 1
  MaxTrackedDevices = 1
  ApprovalTTL = 1
  ApprovalCacheTTL = 1
  PromptInterval = 1
SYMMETRY Symmetry
INVARIANTS LimitsRespected
PROPERTIES AuthorizedByOperator
CHECK_DEADLOCK FALSE
