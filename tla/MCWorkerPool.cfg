SPECIFICATION Spec
CONSTANTS
    Workers = {w1, w2}
    Conns = {c1, c2, c3}
    MaxWorkersCount = 2
    workerChanCap = 0
    MaxIdleWorkerDuration = 0
    MaxTime = 1
    Nil = Nil
    Empty = Empty
INVARIANT WorkersCounted
INVARIANT OneSource
INVARIANT ConnInOnePlace
INVARIANT SearchFindsExpired
PROPERTY StopEndsAll
PROPERTY ImplementsService
