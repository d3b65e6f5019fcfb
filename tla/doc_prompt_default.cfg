SPECIFICATION ServeSpec
CONSTANTS
  RPCs = {r1}
  Devices = {d1}
  Disabled = {}
  Stranger = Stranger
  Keys = {k1}
  NoKey = NoKey
  None = None
  Unset = Unset
  Malformed = Malformed
  Configs <- SomeConfigs
INVARIANT PromptsLimited
CHECK_DEADLOCK FALSE
