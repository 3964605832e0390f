SPECIFICATION FairSpec
CONSTANTS
    Workers = {w1, w2}
    Calls = {c1, c2, c3}
    Lease = 2
    Cadence = 3
    MaxFaults = 2
    Nobody = Nobody
INVARIANTS
    TypeOK
    OneHolderOfTheKey
PROPERTIES
    OnlyALoserRobs
    RefusedOnlyFromOutside
    CyclesGoOn
