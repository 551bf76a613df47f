SPECIFICATION FairSpec
CONSTANTS
  Deployer = Deployer
  Gov = Gov
  Emergency = Emergency
  Helper = Helper
  Guardian = Guardian
  Keeper = Keeper
  MaxFailures = 2
INVARIANTS MarketHasAdmin VaultHasAdmin HandedOver
PROPERTY RerunsGetThere
CHECK_DEADLOCK FALSE
