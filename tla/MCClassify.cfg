SPECIFICATION FairSpec
CONSTANTS
  TIER_GATE <- Gates
  RecheckPeriod <- Periods
  HistoryBits = 3
  OverrunLimit = 2
  init_deficit = 16
  SeedTiers = {0, 1, 3}
  U16Max = 64
  U16Count = 4
  Bouts = {4, 16, 32}
  ZeroStamp = TRUE
  NoTier = NoTier
INVARIANTS TypeOK StableAgrees
PROPERTIES Settles HogsSink BonusEnds BonusCountsDown
