SPECIFICATION Spec
CONSTANTS
    b1 = b1
    b2 = b2
    w1 = w1
    w2 = w2
    Batches = {b1, b2}
    Workers = {w1, w2}
    None = none
    Size <- MixedSizes
    Capacity = 2
    Ttl = 1
    MaxTime = 1
SYMMETRY CacheSymmetry
INVARIANTS
    TransientFetchable
    CapacityHeld
PROPERTIES
    PinnedNotRemoved
