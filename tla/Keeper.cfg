SPECIFICATION FairKeeper
CONSTANTS
  Controllers = {alice}
  NoUser = NoUser
  MaxRequests = 2
  WAD = 4
  MAX_QUEUE_ITERATIONS = 1
  MAX_QUEUE_SKIPS = 1
  DEAD_SHARES = 1
  minRedeemAmount = 1
  minReinvestAmount = 2
  tvlCap = 3
  BPS = 10000
  principalMismatchBpsThreshold = 100
  SyncDust = 0
  MaxAccrual = 1
  SyncCatchUp = 0
  MaxAssets = 3
  MaxShares = 4
  MaxDonation = 0
  GuardianActs = FALSE
  MIN_QUEUE_HOLLAR = 1
  MaxFaults = 1
PROPERTIES
  EveryRequestSettles
  AutoClaimsPaid
  IdleGoesToWork
