\* All kinds of files and of ways, nobody reads.
CONSTANTS
    Readers = {}
    MainLoop = MainLoop
    Free = Free
    HoFiles <- MCHoFiles
    Cells = {1, 2, 100}
    Locations <- MCLocations
    Reach = 3
    MaxInt = 60
    Inf = Inf
    None = None
    NaN = NaN
    Failed = Failed
    Junk <- MCJunk
SPECIFICATION Spec
INVARIANTS TypeOK PredictsFromHistory FullLinesNeverTerminate TimesAreDistanceOverSpeed
CHECK_DEADLOCK FALSE
