SPECIFICATION Spec
CONSTANTS
    b1 = b1
    b2 = b2
    w1 = w1
    w2 = w2
    Batches = {b1, b2}
    Workers = {w1, w2}
    None = none
    Size <- UnitSizes
    Capacity = 1
    Ttl = 1
    MaxTime = 0
INVARIANTS
    RejectedHasFallback
