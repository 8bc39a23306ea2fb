SPECIFICATION Spec
CONSTANTS
    Conns = {c1, c2}
    Ctxs = {x1, x2, x3}
    MaxRequests = 2
    Concurrency = 2
    None = None
INVARIANT CtxNotShared
INVARIANT TimerIdle
PROPERTY EveryAnswered
