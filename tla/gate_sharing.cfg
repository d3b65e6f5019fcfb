SPECIFICATION Spec
CONSTANTS
  Devices = {d1}
  Callers = {c1, c2}
  Requests = {r1, r2}
  None = None
  MaxPendingRequests = 2
  MaxWaitersPerDevice = 2
  MaxConcurrentSends = 2
  MaxTrackedDevices = 2
  ApprovalTTL = 1
  ApprovalCacheTTL = 1
  PromptInterval = 1
SYMMETRY Symmetry
INVARIANTS TypeOK WaitersCounted SendsCounted PendingSound ApprovedByOwnButton NoWaitBesideApproval SecretsOutliveUsers
PROPERTIES DecisionIsFinal IndependentCancellation PromptSpacingUnlessCancelled ImplementsGate
CHECK_DEADLOCK FALSE
