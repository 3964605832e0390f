SPECIFICATION FairSpec
CONSTANTS
    Jobs = {j1, j2}
    ComputeIds = {k1, k2}
    Checks = {c1, c2}
    IngestAttempts = 2
    ComputeAttempts = 2
    MaxFaults = 1
INVARIANTS TypeOK NoForgottenBatch SettleMissesOnlyLateJobs OneRecomputePerBatch
PROPERTIES ImplementsPublication EveryBatchIsRecomputed
CHECK_DEADLOCK FALSE
