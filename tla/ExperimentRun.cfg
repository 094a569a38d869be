SPECIFICATION CaseSpec
CONSTANTS
    Keys = {1, 2, 3, 4}
    Usable = {1, 3, 4}
    ClassOf <- TwoClasses
    Layouts <- SomeLayouts
    Coordinator = coordinator
    Driver = driver
    Builders = {1, 2, coordinator, driver}
    PageSize = 2
    NumClasses = 2
    FetchThreads = 1
    DecodeThreads = 2
    MaxAttempts = 2
    NumJobs = 2
    Plans <- SomePlans
    SafeName <- Names
    BatchSize = 2
    FlushEvery = 2
    MaxKills = 1
INVARIANTS
    IndexWellFormed
    BuildersAgree
    PayloadComplete
    SummaryExact
    RowsSurvive
    LabelsFit

    
CHECK_DEADLOCK FALSE
