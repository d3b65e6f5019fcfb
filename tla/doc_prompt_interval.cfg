SPECIFICATION Spec
CONSTANTS
  Devices = {d1}
  Callers = {c1, c2}
  Requests = {r1, r2}
  None = None
  MaxPendingRequests = 1
  MaxWaitersPerDevice = 2
  MaxConcurrentSends = 1
  MaxTrackedDevices = 1
  ApprovalTTL = 1
  ApprovalCacheTTL = 1
  PromptInterval = 2
PROPERTIES PromptSpacing
CHECK_DEADLOCK FALSE
