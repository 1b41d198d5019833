SPECIFICATION Spec
CONSTANTS
  Requests = {q1, q2, q3}
  r1 = r1
  large = large
  small = small
  Runs = {r1}
  Models = {large, small}
  None = None
  Asks <- MCAsks
  Price <- MCPrice
  Cheaper <- MCCheaper
  Safer <- MCSafer
  Deployments <- MCDeployments
  Defaults <- MCDefaults
  TopPrice = 2
  MaxSteps = 1
  MaxCost = 1
  LoopThreshold = 2
  HardLimit = 1
  Pool = 2
  MaxEvents = 2
SYMMETRY Swaps
INVARIANTS TypeOK CapsHold KillStops LedgerAgrees CacheSound
CHECK_DEADLOCK FALSE
