SPECIFICATION Spec
CONSTANTS
    Conns = {c1}
    Direct = {e1}
    Serves = {s1}
    Shutdowns = {d1}
    IPs = {i1}
    NoIP = NoIP
    Wraps = {w1, w2}
    MaxConnsPerIP = 1
    Concurrency = 1
    CloseOnShutdown = TRUE
    MaxRequests = 2
    None = None
INVARIANT IPLimitExact
INVARIANT OwnWrapper
INVARIANT ShutdownDrained
PROPERTY HookOrder
PROPERTY ShutdownReturns
