SPECIFICATION DialSpec
CONSTANTS
    h1 = h1
    h2 = h2
    i1 = i1
    i2 = i2
    Dials = {c1, c2}
    Addrs <- TwoHosts
    IPs <- TwoIPs
    Concurrency = 1
    IdxMod = 4
    MaxEntries = 2
INVARIANT DialCleansUp
PROPERTY DialReturns
CHECK_DEADLOCK FALSE
