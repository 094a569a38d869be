SPECIFICATION FairSpec
CONSTANTS
    NumJobs = 3
    NumSamples = 7
    BatchSize = 2
    DropLast = FALSE
    TotalBatches = 6
    Window = 1
    MaxFailures = 2
INVARIANTS
    KeptForEveryJob
    StagedBounded
    OnlyFailedStartLeaves
PROPERTIES
    RunCompletes
