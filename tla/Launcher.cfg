SPECIFICATION FairSpec
CONSTANTS
    n0 = n0
    n1 = n1
    Nodes = {n0, n1}
    MaxWorkers = 2
    MaxPort = 2
    MaxSignals = 2
    Topologies <- SomeTopologies
INVARIANTS
    StopOrder
    ShutDownOnce
    NoEarlyWorker
PROPERTIES
    SignalEnds
CHECK_DEADLOCK FALSE
