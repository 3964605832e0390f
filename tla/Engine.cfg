SPECIFICATION Spec
CONSTANTS
  W <- MCW
  T <- MCT
  BENCHMARK = "SPY"
  MIN_SCORECARD_SAMPLE = 2
  SYMBOLS <- MCSymbols
  LISTING <- MCListing
  HISTORY <- MCHistory
  REPORTS <- MCReports
  Moves <- MCMoves
  CONTEXT <- MCContext
  FirstDay = 13
  LastDay = 15
INVARIANTS
  PointInTime
  ReplayTellsTheSameStory
  ReplayScoresLikeTheDesk
  CrashIsNotATheme
  ContextReachesAsFar
  PairedByDate
  CorroborationNeverHurts
CHECK_DEADLOCK FALSE
