SPECIFICATION FairSpec
CONSTANTS
    f1 = f1
    f2 = f2
    Fetchers = {f1, f2}
    Coord = coord
    Publisher = publisher
    QueueSize = 1
    MaxBatches = 2
    Poison = poison
    EndItem = end
    ErrorItem = error
INVARIANTS
    CompletedMeansAll
    CleanCloseEndsJob
PROPERTIES
    OrderedDelivery
    EverythingEnds
