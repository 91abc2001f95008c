SPECIFICATION FairSpec
CONSTANTS
    Missing = missing
    Blank = blank
    Garbage = garbage
    Requests = {r1}
    Worker = worker
    None = none
    Settings <- MCDefaults
    MaxRow = 2
    RotationBatch = 2
    AutoCheckpoint = 2
    MaxErrors = 0
PROPERTIES
    RoomIsFound
