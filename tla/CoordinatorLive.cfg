SPECIFICATION FairSpec
CONSTANTS
    j1 = j1
    j2 = j2
    w1 = w1
    w2 = w2
    Jobs = {j1}
    Workers = {w1}
    Maintainer = maintainer
    NoJob = nojob
    NoBatch = nobatch
    BatchesPerEpoch = 2
    Lookahead = 2
    TargetDepth = 1
    ExtendedDepth = 2
    ReuseEnabled = TRUE
    Opportunistic = TRUE
    MaxEpoch = 2
    MaxTasks = 6
    FaultKinds = {"expiry"}
    MaxFaults = 1
    Closers = {}
INVARIANTS
    NoSpuriousDone
    IdleWorkerCounted
PROPERTIES
    InOrderDelivery
    EveryBatchServed
    NoRework
CHECK_DEADLOCK FALSE
