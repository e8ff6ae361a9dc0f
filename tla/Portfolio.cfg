SPECIFICATION Spec
CONSTANTS
  Assets = {btc, eth}
  Btc = btc
  Eth = eth
  Pair = {btc, eth}
  Lead = btc
  Days = 7
  Recovery = 2
  MaxHold = 2
  MaxGaps = 2
  MaxGone = 3
  PeriodDays = 8
  HoldIntervals = 3
  RunNeeded = 2
  ScoreWindow = 2
  CalendarDays = 7
  RunToRecover = 2
  Minutes = 3
  MarketDays = 7
  Week = 3
  Sunday = 1
  RunRequired = 2
  Lookback = 1
  HourMinutes = 3
  DayHours = 2
  WeekDays = 2
  PathDays = 3
  DelayMinutes = 1
  ValidMinutes = 2
  TargetSets = {{}, {btc, eth}}
  CleanDays = 7
  CleanRecovery = 3
  CleanAssets = {btc, eth}
  CleanWindow = 1
  CleanHold = 2
  SymbolCount = 2
  LastMonth = 2
  PoolSize = 2
  RootPage = 1
  MinimumSymbols = 1
  MaxPublished = 1
  OfferedContracts <- MCContracts
  LogicalRequests = {q1, q2}
  PlainRequest = q2
  OfferedAttempts <- MCAttempts
  OfferedTerminals <- MCTerminals
  Callers = {p, q}
INVARIANTS
  PathSound PeriodHoldsBounded
  RotationSound RotationBridgesNothing
  ParityObserved ManagedObserved TrendExposureObserved
  CalendarObserved CleanAgreesWithReference CleanRotationSound
  GoIsEarned LatchIrreversible ArchiveManifestSound LedgerTellsOutcome
CHECK_DEADLOCK FALSE
