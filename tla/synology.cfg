SPECIFICATION FairSpec
CONSTANTS
  NumShares = 2
  NumServers = 2
  MaybeEmpty = {2}
  None = None
  Random = Random
INVARIANTS ExitHonest SecretFromApproval FailoverInOrder
PROPERTIES CommandEnds
CHECK_DEADLOCK FALSE
