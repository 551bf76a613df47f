SPECIFICATION Spec
CONSTANTS
  Controllers = {alice, bob}
  NoUser = NoUser
  MaxRequests = 2
  WAD = 4
  MAX_QUEUE_ITERATIONS = 2
  MAX_QUEUE_SKIPS = 2
  DEAD_SHARES = 1
  minRedeemAmount = 1
  minReinvestAmount = 2
  tvlCap = 4
  BPS = 10000
  principalMismatchBpsThreshold = 5000
  SyncDust = 0
  MaxAccrual = 1
  SyncCatchUp = 1
  MaxAssets = 5
  MaxShares = 6
  MaxDonation = 1
  GuardianActs = TRUE
INVARIANTS
  ReserveReachable
