SPECIFICATION Spec
CONSTANTS
  short = short
  long = long
  Pools <- MCPools
  poolTokenOf <- TwoTokens
  apyWadOf <- MCApy
  periodOf <- MCPeriod
  Amounts = {1}
  Denominator = 2
  SHIFT = 10
  MAX_MATURITY_SYNC = 1
  MAX_POSITION_HEAD_SWEEP = 1
  MaxPositions = 3
  MaxTime = 4
INVARIANTS
  HeapTracksUncapped
  AggregatesExact
  NoPhantomYield
  OpenPositionsReachable
PROPERTIES
  YieldNeverLost
  NoYieldJump
