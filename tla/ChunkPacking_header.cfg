SPECIFICATION Spec
CONSTANTS
    Limit = 12
    MaxAlerts = 3
    Frames <- MCOneFrame
    PartHeader = 3
    PartCountReserve = 2
    AlertSizes = {0, 1, 3, 6, 7}
INVARIANTS
    BudgetPreventsOverflow
