SPECIFICATION FairServeSpec
CONSTANTS
  RPCs = {r1, r2}
  Devices = {d1}
  Disabled = {}
  Stranger = Stranger
  Keys = {k1}
  NoKey = NoKey
  None = None
  Unset = Unset
  Malformed = Malformed
  Configs <- SomeConfigs
INVARIANTS TeardownAfterDrain KeyAndGateThere NothingLeft
PROPERTIES ShutdownCompletes
CHECK_DEADLOCK FALSE
