SPECIFICATION DeskSpec
CONSTANTS
  W <- MCW
  T <- MCT
  BENCHMARK = "SPY"
  MIN_SCORECARD_SAMPLE = 2
  SYMBOLS <- MCSymbols
  LISTING <- MCListing
  HISTORY <- MCHistory
  REPORTS <- MCDeskReports
  Moves <- MCMoves
  WATCHLISTS <- MCWatchlists
  CONTEXT <- MCContext
  NEWS <- MCNews
  EarlyCloses <- MCEarlyCloses
  FirstDay = 13
  LastDay = 14
INVARIANTS
  AcknowledgingAddsNothing
  QuietOnceAllSeen
CHECK_DEADLOCK FALSE
