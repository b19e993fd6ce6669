\* wait() returns between pop() and the store to finished_jobid.
CONSTANTS
    a = a
    mobile = mobile
    Clients = {a}
    Owner = a
    Carriers = {mobile}
    NoCarrier = NoCarrier
    MainLoop = MainLoop
    Free = Free
    MaxJobs = 2
    WaitBeforeDelete = TRUE
    TornRead = FALSE
SPECIFICATION Spec
INVARIANTS ReportedAfterWait
