SPECIFICATION PrimarySpec
CONSTANTS
  CleanDays = 8
  CleanRecovery = 3
  CleanAssets = {btc, eth}
  CleanWindow = 1
  CleanHold = 3
INVARIANT CleanHoldLimit
CHECK_DEADLOCK FALSE
