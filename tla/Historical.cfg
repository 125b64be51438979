SPECIFICATION Spec
CONSTANTS
    Job <- SomeJobs
    Handler = {h1, h2}
    Fingerprint = {1, 2}
    QUEUE_BYTE_UNIT = 4
    MaxQueuedBytes = 8
    MaxJobBytes = 8
    QueueCapacity = 2
    StateCapacity = 1
    StateTtl = 1
    MaxOffers = 3
    MaxTime = 1
SYMMETRY HandlersAlike
INVARIANTS
    NothingLost
    LifecyclesBalance
    LruMirrorsState
    FlushCoversAccepted
