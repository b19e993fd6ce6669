\* Two clients, fair scheduling, and a size() that overlaps a pop() may return
\* anything: what survives, and that uploads, wait() and the destructor complete.
CONSTANTS
    a = a
    b = b
    mobile = mobile
    Clients = {a, b}
    Owner = a
    Carriers = {mobile}
    NoCarrier = NoCarrier
    MainLoop = MainLoop
    Free = Free
    MaxJobs = 2
    WaitBeforeDelete = TRUE
    TornRead = TRUE
SPECIFICATION FairSpec
PROPERTIES EveryRequestApplied WaitReturns DeleteReturns
