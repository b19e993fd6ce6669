\* Two calls for up to two carriers.
CONSTANTS
    Carriers = {0, 1}
    FileNames = {"d", "h", "b", "gone"}
    Readable = {"d", "h", "b"}
    DirFiles <- MCDirFiles
    Missing = Missing
    MaxCalls = 2
SPECIFICATION Spec
INVARIANTS TypeOK CarrierHasItsFiles
CHECK_DEADLOCK FALSE
