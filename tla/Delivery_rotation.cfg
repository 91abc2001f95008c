SPECIFICATION Spec
CONSTANTS
    a = a
    b = b
    k1 = k1
    k2 = k2
    r1 = r1
    r2 = r2
    Keys = {k1, k2}
    Alerts = {a, b}
    Renderings <- MCFixed
    Requests = {r1}
    Worker = worker
    NoKey = none
    Unrenderable = {k2}
    MaxDeliveryAttempts = 1
    WorkerBatchSize = 1
    StoreRotationEnabled = TRUE
    MaxRestarts = 0
    MaxDisconnects = 1
    MaxStoreErrors = 0
SYMMETRY Symmetry
PROPERTIES
    RetiresOnlyTerminal
