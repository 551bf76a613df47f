SPECIFICATION Spec
CONSTANTS
  Requests = {1}
  Positions = {1}
  Maturity = 3
  PrincipalDelay = 1
  ClaimGrace = 2
  MaturedGrace = 1
  StuckThreshold = 3
  Realert = 2
  Digest = 2
  DigestMinWait = 1
  FailuresBeforeAlert = 2
  MaxTime = 6
  MaxFaults = 2
  MaxSwitches = 1
INVARIANTS  HeardOrRetried PartSettledRaised
CHECK_DEADLOCK FALSE
