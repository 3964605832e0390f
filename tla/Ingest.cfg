SPECIFICATION Spec
CONSTANTS
    Days <- MCDays
    Backfilled <- MCBackfilled
    WindowPad = 4
    TrueBar <- MCTrueBar
    BadBars <- MCBadBars
    MaxJobs = 2
    MaxCrashes = 1
INVARIANTS TypeOK DisputeIsNotSettled
PROPERTIES GlitchOnlyAcrossAGap OneBadRowCostsOneRow BarsAreOnlyAdded
CHECK_DEADLOCK FALSE
