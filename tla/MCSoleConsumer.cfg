\* The database's use of the queue: several uploading threads, one consumer,
\* nobody clears.
CONSTANTS
    p1 = p1
    p2 = p2
    c1 = c1
    v1 = v1
    v2 = v2
    Producers = {p1, p2}
    Consumers = {c1}
    Clearers = {}
    Values = {v1, v2}
    NoValue = NoValue
    Free = Free
    MaxLen = 3
SPECIFICATION FairSpec
INVARIANTS PeekedIsPopped
PROPERTIES WaitingConsumerServed
