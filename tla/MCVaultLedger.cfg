SPECIFICATION Spec
CONSTANTS
  Controllers = {alice, bob}
  NoUser = NoUser
  MaxRequests = 3
  WAD = 4
  MAX_QUEUE_ITERATIONS = 2
  MAX_QUEUE_SKIPS = 2
  DEAD_SHARES = 1
  minRedeemAmount = 1
  minReinvestAmount = 2
  tvlCap = 5
  BPS = 10000
  principalMismatchBpsThreshold = 100
  SyncDust = 0
  MaxAccrual = 1
  SyncCatchUp = 1
  MaxAssets = 7
  MaxShares = 6
  MaxDonation = 0
  GuardianActs = FALSE
SYMMETRY Symmetry
INVARIANTS
  TypeOK
  CountersMatchEntries
  RequestsConsistent
  HeadPrefixDone
  IndexExact
  MaxClaimsHonoured
PROPERTIES
  SettlementIsFifo
  ClaimsPayOwnReserve
