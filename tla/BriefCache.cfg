SPECIFICATION Spec
CONSTANTS
    Readers = {r1, r2}
    Writers = {w1}
    MaxRuns = 1
    MaxChanges = 2
    MaxOutages = 1
    None = None
SYMMETRY CacheSymmetry
INVARIANTS TypeOK CurrentEntryIsCurrent StaleOnlyIfOverlapped
CHECK_DEADLOCK FALSE
