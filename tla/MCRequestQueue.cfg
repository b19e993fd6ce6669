\* Two producers, two competing consumers, one of which may also clear.
CONSTANTS
    p1 = p1
    p2 = p2
    c1 = c1
    c2 = c2
    v1 = v1
    v2 = v2
    Producers = {p1, p2}
    Consumers = {c1, c2}
    Clearers = {p1}
    Values = {v1, v2}
    NoValue = NoValue
    Free = Free
    MaxLen = 2
SYMMETRY Symmetry
SPECIFICATION Spec
INVARIANTS TypeOK PredicateStillHolds NoLostWakeup
PROPERTIES FifoSpec
