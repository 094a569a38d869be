SPECIFICATION Spec
CONSTANTS
    j1 = j1
    j2 = j2
    w1 = w1
    w2 = w2
    Jobs = {j1}
    Workers = {w1}
    Maintainer = maintainer
    NoJob = nojob
    NoBatch = nobatch
    BatchesPerEpoch = 1
    Lookahead = 1
    TargetDepth = 1
    ExtendedDepth = 1
    ReuseEnabled = TRUE
    Opportunistic = FALSE
    MaxEpoch = 1
    MaxTasks = 3
    FaultKinds = {}
    MaxFaults = 0
    Closers = {j1}
INVARIANTS
    ClosedJobHoldsNoPin
CHECK_DEADLOCK FALSE
