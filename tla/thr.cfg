SPECIFICATION FairSpec
CONSTANTS
    a1 = a1
    a2 = a2
    Tasks = {a1, a2}
    Buckets = {1, 2}
    hash_long <- OneBucket
    Pseudo = {irq0}
    MaxGen = 2
    MaxDepth = 1
    MayFail = TRUE
INVARIANTS
    KnownWhileInside NoFreedBucket StoppedQuiet
PROPERTIES
    EndNoticed
