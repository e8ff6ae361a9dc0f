SPECIFICATION PrimarySpec
CONSTANTS
  CleanDays = 8
  CleanRecovery = 3
  Assets = {btc, eth}
  Btc = btc
  Eth = eth
  Days = 7
  Recovery = 2
  ScoreWindow = 2
INVARIANT CleanDecidesFrozen
CHECK_DEADLOCK FALSE
