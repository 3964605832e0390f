SPECIFICATION HSpec
CONSTANTS
    A = A
    B = B
    Instruments = {A, B}
    Days <- QuietB
    Devices = {d1}
    SnoozeFor = 1
    MaxTime = 2
    MaxRuns = 2
    MaxAsked = 2
INVARIANT AcknowledgedStaysGone
CHECK_DEADLOCK FALSE
