SPECIFICATION FairSpec
CONSTANTS
    j1 = j1
    j2 = j2
    Jobs = {j1, j2}
    Need <- UnequalNeeds
    BufferSize = 2
    MaxLag = 3
    PipeSize = 5
    MaxFaults = 1
INVARIANTS
    InSequence
    Servable
    WindowHeld
    BufferBounded
    ServedBeforeClose
PROPERTIES
    NoBatchDropped
    RunEnds
