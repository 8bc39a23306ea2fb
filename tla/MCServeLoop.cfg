SPECIFICATION Spec
CONSTANTS
    MaxRequests = 2
    Kinds <- SomeKinds
INVARIANT Framed
INVARIANT NothingLost
PROPERTY EveryAnswered
