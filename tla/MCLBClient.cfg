SPECIFICATION LBSpec
CONSTANTS
    Calls = {k1, k2}
    Chans = {x1, x2}
    NClients = 2
    MaxPenalty = 1
    MaxAttempts = 2
    Requests <- KindsOfRequest
    HealthCheck = TRUE
    None = None
INVARIANT OwnAnswer
INVARIANT NoAccessAfterReturn
INVARIANT LoadCounted
PROPERTY PenaltiesExpire
