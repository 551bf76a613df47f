SPECIFICATION Spec
CONSTANTS
  ReserveAssets <- MCReserveAssets
  Isolated = {"PRIME", "APYUSD"}
  Unborrowed = {}
  Incentivized = {"GDOT", "2-POOL-GDOT", "3-POOL", "2-POOL-HUSDC", "2-POOL-HUSDT", "2-POOL-HUSDS", "2-POOL-HUSDE", "2-POOL-HEURC"}
  MaxReferenda = 2
  Strict = {TRUE, FALSE}
INVARIANTS
  PredictionHolds
  SatelliteWired
  IncentivesReachReserve
  GigaAllOrNothing
  FreshNothingLost
  IsolatedHasCeiling
  ReviewedIsConfigured
CHECK_DEADLOCK FALSE
