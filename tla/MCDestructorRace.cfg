\* The evaluation of a trace without a row of high speed.
CONSTANTS
    main = main
    Clients = {main}
    Owner = main
    Mobile = Mobile
    Telecom = Telecom
    Carriers = {Mobile, Telecom}
    NoCarrier = NoCarrier
    MainLoop = MainLoop
    Free = Free
    MaxJobs = 12
    WaitBeforeDelete = FALSE
    TornRead = FALSE
    Programs <- SlowPrograms
    Places <- MCPlaces
    MinSpeed = 220
    Window = 4
    NearTime = 3
    StartError = 6
    MaxError = 3
    MinCid <- MCMinCid
    Reach = 3
    MaxInt = 60
    Inf = Inf
    None = None
    NaN = NaN
    Failed = Failed
    Junk <- MCJunk
SPECIFICATION DSpec
INVARIANT DestructorWaits
