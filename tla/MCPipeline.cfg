SPECIFICATION Spec
CONSTANTS
    Calls = {k1, k2, k3}
    DeadlineCalls = {k3}
    MaxPendingRequests = 1
    MaxLoops = 1
    None = None
CHECK_DEADLOCK FALSE
INVARIANT OneAnswer
INVARIANT ResponseMatches
PROPERTY CallsReturn
