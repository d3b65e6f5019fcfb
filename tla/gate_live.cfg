SPECIFICATION FairSpec
CONSTANTS
  Devices = {d1}
  Callers = {c1, c2}
  Requests = {r1}
  None = None
  MaxPendingRequests = 1
  MaxWaitersPerDevice = 2
  MaxConcurrentSends = 1
  MaxTrackedDevices = 1
  ApprovalTTL = 1
  ApprovalCacheTTL = 1
  PromptInterval = 1
PROPERTIES AnswersEveryCheck CloseCompletes
CHECK_DEADLOCK FALSE
