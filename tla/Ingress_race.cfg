SPECIFICATION IngressSpec
CONSTANTS
    a = a
    b = b
    k1 = k1
    k2 = k2
    r1 = r1
    r2 = r2
    Keys = {k1}
    Alerts = {a}
    Renderings <- MCOne
    Requests = {r1, r2}
    Worker = worker
    NoKey = none
    Unrenderable = {}
    MaxDeliveryAttempts = 2
    WorkerBatchSize = 1
    StoreRotationEnabled = FALSE
    MaxRestarts = 1
    MaxDisconnects = 1
    MaxStoreErrors = 0
    Offers <- MCOffers
    WebhookSecret = TRUE
    BasicAuth = TRUE
    MaxPanics = 1
    MaxPowerLosses = 0
    MaxFaults = 1
SYMMETRY Symmetry
INVARIANTS
    ClaimIsExclusive
    ClosedIsNotResent
    OneBadGateway
    ServerErrorHasCause
