SPECIFICATION ListenerSpec
CONSTANTS
    p1 = p1
    p2 = p2
    Pipes <- TwoPipes
    Bufs = {1, 2, 3}
    Cap = 1
    WriteLens = {3}
    ReadLens = {2}
    MaxBytes <- ThreeWritesAndNone
    Acceptors = {a1}
    Closers = {x1}
    None = None
INVARIANT ReadFaithful
INVARIANT DialAccepted
PROPERTY ListenerReturns
CHECK_DEADLOCK FALSE
