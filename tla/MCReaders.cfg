\* Two clients read while predictions are stored; fair scheduling.
CONSTANTS
    r1 = r1
    r2 = r2
    Readers = {r1, r2}
    MainLoop = MainLoop
    Free = Free
    HoFiles <- OneFile
    Cells = {1}
    Locations <- FewLocations
    Reach = 3
    MaxInt = 60
    Inf = Inf
    None = None
    NaN = NaN
    Failed = Failed
    Junk <- MCJunk
SPECIFICATION FairSpec
PROPERTIES AtomicSpec ReadReturns
