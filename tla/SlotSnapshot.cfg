SPECIFICATION SnapshotSpec
CONSTANTS
    Provider = {a}
    Reference = ref
    TIP_ROUNDS = 1
    MaxRound = 1
    MaxLag = 1
INVARIANTS
    RingHoldsTheMax
    RoundBeforeSlot
    StampMatchesSample
    LikeWithLike
