SPECIFICATION Spec
CONSTANTS
    CALENDAR <- MCCalendar
    DAY = 12
    MARKET_OPEN = 1
    EARLY_CLOSE = 3
    REGULAR_CLOSE = 6
    SETTLE = 1
    EVERY <- MCEvery
    KINDS = {"bars", "intraday", "news"}
    SYMBOLS = {1, 2, 3}
    CAPACITY = 2
    WINDOW = 3
    ALLOW_BURST = FALSE
    ATTEMPTS = 3
    BACKOFF = 1
    LATE = 1
    MAX_FAULTS = 1
INVARIANT RollingWindow
CHECK_DEADLOCK FALSE
