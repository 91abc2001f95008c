SPECIFICATION Spec
CONSTANTS
    a = a
    b = b
    k1 = k1
    k2 = k2
    r1 = r1
    r2 = r2
    Keys = {k1}
    Alerts = {a, b}
    Renderings <- MCFixed
    Requests = {r1, r2}
    Worker = worker
    NoKey = none
    Unrenderable = {}
    MaxDeliveryAttempts = 2
    WorkerBatchSize = 1
    StoreRotationEnabled = FALSE
    MaxRestarts = 0
    MaxDisconnects = 1
    MaxStoreErrors = 0
SYMMETRY Symmetry
INVARIANTS
    NothingStranded
