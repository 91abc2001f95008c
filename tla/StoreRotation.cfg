SPECIFICATION FairSpec
CONSTANTS
    Missing = missing
    Blank = blank
    Garbage = garbage
    Requests = {r1, r2}
    Worker = worker
    None = none
    Settings <- MCSettings
    MaxRow = 2
    RotationBatch = 2
    AutoCheckpoint = 2
    MaxErrors = 1
INVARIANTS
    TypeOK
    StoreIsBounded
PROPERTIES
    PressureIsRelieved
