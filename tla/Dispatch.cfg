SPECIFICATION Spec
CONSTANTS
    WindowSecs = 1
    CooldownSecs = 1
    OpenFailures = 1
    ErrNum = 1
    ErrDen = 2
    Order <- Fleet
    MaxRps <- FirstCapped
    Probed = {"b"}
    MaxRetries = 0
    Request = {"r1", "r2"}
    MaxWindow = 1
INVARIANTS
    CappedNeverStarves
    DegradedStillServes
