SPECIFICATION FairSpec
CONSTANTS
    Symbols = {s1}
    LastSession = 4
    Pad = 1
    MaxRepair = 2
    HoleScan = 3
    Attempts = 2
    MaxOutages = 1
INVARIANTS TypeOK
PROPERTIES GapsHeal
CHECK_DEADLOCK FALSE
