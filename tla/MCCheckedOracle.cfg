SPECIFICATION Spec
CONSTANTS
  coarse = coarse
  fine = fine
  odd = odd
  NoFeed = NoFeed
  Reverting = Reverting
  Garbled = Garbled
  Feeds <- MCFeeds
  feedDecimals <- MCDecimals
  Prices <- MCPrices
  Answers = {0, 1, 2, 150}
  DECIMALS = 1
  MAX_FEED_DECIMALS = 2
  MAX_BPS = 10
  Bands = {0, 2}
  ONE = 10
  Coefficients = {9, 10}
  MaxUint = 1000
INVARIANTS
  GatedPriceNearFeed
  HonestPushAccepted
