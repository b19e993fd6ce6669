\* Two clients, three contexts one after another.
CONSTANTS
    Clients = {c1, c2}
    MaxContexts = 3
    MaxQueue = 2
SYMMETRY ClientSymmetry
SPECIFICATION Spec
INVARIANTS TypeOK OneContext NoUseAfterFree NoMapRace
CHECK_DEADLOCK FALSE
