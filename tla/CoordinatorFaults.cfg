SPECIFICATION Spec
CONSTANTS
    j1 = j1
    j2 = j2
    w1 = w1
    w2 = w2
    Jobs = {j1}
    Workers = {w1, w2}
    Maintainer = maintainer
    NoJob = nojob
    NoBatch = nobatch
    BatchesPerEpoch = 2
    Lookahead = 2
    TargetDepth = 1
    ExtendedDepth = 2
    ReuseEnabled = TRUE
    Opportunistic = TRUE
    MaxEpoch = 1
    MaxTasks = 6
    FaultKinds = {"expiry", "poll", "materialize", "reply", "report", "crash"}
    MaxFaults = 1
    Closers = {}
SYMMETRY WorkerSymmetry
INVARIANTS
    TypeOK
    KnownPayload
    PinHasHolder
CHECK_DEADLOCK FALSE
