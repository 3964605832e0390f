SPECIFICATION Spec
CONSTANTS
    A = A
    B = B
    Instruments = {A, B}
    Days <- QuietB
    Devices = {d1, d2}
    SnoozeFor = 1
    MaxTime = 2
    MaxRuns = 2
    MaxAsked = 2
SYMMETRY DeviceSymmetry
INVARIANTS TypeOK OwnCursorSuffices EachNameCountedOnce
PROPERTIES AcksGoBackOnlyAcrossTheGap ReappearsOnlyForAReason
CHECK_DEADLOCK FALSE
