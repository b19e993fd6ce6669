\* Two frames, used in every way and filtered, projected and joined into one
\* another.
CONSTANTS
    f = f
    g = g
    Objects = {f, g}
    NaN = NaN
    Failed = Failed
    Junk <- MCJunk
    Files <- MCFiles
    Names = {"index", "a"}
    Cells = {0, 1}
    MaxRows = 2
    MaxColumns = 3
    MaxCalls = 3
SYMMETRY Symmetry
SPECIFICATION Spec
INVARIANTS TypeOK TidyRowsFit WhereManyIsChain SelectThenWhere AverageInRange
CHECK_DEADLOCK FALSE
