SPECIFICATION Spec
CONSTANTS
    Width = 6
    Second = 4
    RetryBaseDelay = 5
    RetryMaxDelay = 29
    MaxDeliveryAttempts = 5
    MaxClaims = 6
    HttpStatuses = {200, 302, 400, 429, 502}
    RetryAfters <- MCRetryAfters
    Dates = {1, 30}
CHECK_DEADLOCK FALSE
INVARIANTS
    VerdictIsSound
    ThrottleIsRespected
    BackoffIsExponential
