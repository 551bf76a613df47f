SPECIFICATION VaultFairSpec
CONSTANTS
  Pools <- MCPools
  poolTokenOf <- MCToken
  apyWadOf <- MCApy
  periodOf <- MCPeriod
  short = short
  long = long
  Amounts = {1}
  Denominator = 5
  SHIFT = 10
  MAX_MATURITY_SYNC = 1
  MAX_POSITION_HEAD_SWEEP = 1
  MaxPositions = 3
  MaxTime = 4
  Controllers = {alice}
  NoUser = NoUser
  MaxRequests = 2
  WAD = 4
  MAX_QUEUE_ITERATIONS = 1
  MAX_QUEUE_SKIPS = 1
  DEAD_SHARES = 1
  minRedeemAmount = 1
  minReinvestAmount = 1
  tvlCap = 3
  BPS = 10000
  principalMismatchBpsThreshold = 0
  SyncDust = 1
  MaxAccrual = 1
  SyncCatchUp = 1
  MaxAssets = 7
  MaxShares = 6
PROPERTIES
  ImplementsLedger
  EveryRequestPaid
