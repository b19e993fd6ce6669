\* Evaluations of up to three rows, one or two in a program.
CONSTANTS
    main = main
    Clients = {main}
    Owner = main
    Mobile = Mobile
    Telecom = Telecom
    Carriers = {Mobile, Telecom}
    NoCarrier = NoCarrier
    MainLoop = MainLoop
    Free = Free
    MaxJobs = 12
    WaitBeforeDelete = FALSE
    TornRead = FALSE
    Programs <- MCPrograms
    Places <- MCPlaces
    MinSpeed = 220
    Window = 4
    NearTime = 3
    StartError = 6
    MaxError = 3
    MinCid <- MCMinCid
    Reach = 3
    MaxInt = 60
    Inf = Inf
    None = None
    NaN = NaN
    Failed = Failed
    Junk <- MCJunk
SPECIFICATION DSpec
INVARIANTS AnswersAreSequential WarningsAreFailures ErrorColumn OnlyBadInputStops
PROPERTY DriverFinishes
