SPECIFICATION FSSpec
CONSTANTS
    FSRequests = {r1, r2}
    MaxVersion = 2
    Configs <- AllConfigs
    Nil = Nil
INVARIANT ReleasedUnused
INVARIANT CompressedFinished
PROPERTY FilesReleased
CHECK_DEADLOCK FALSE
