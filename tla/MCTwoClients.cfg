\* Two clients race for job ids; two carriers; contexts follow one another.
CONSTANTS
    a = a
    b = b
    mobile = mobile
    unicom = unicom
    Clients = {a, b}
    Owner = a
    Carriers = {mobile, unicom}
    NoCarrier = NoCarrier
    MainLoop = MainLoop
    Free = Free
    MaxJobs = 3
    WaitBeforeDelete = TRUE
    TornRead = FALSE
SYMMETRY Symmetry
SPECIFICATION Spec
INVARIANTS
    TypeOK
    ExactlyOnce
    FinishedMeansApplied
    WaitMeansApplied
    NoLostNotify
    PredictionMatchesUploads
    DestructorWaits
PROPERTIES FinishedNeverGoesBack ServiceSpec
