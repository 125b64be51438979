SPECIFICATION Spec
CONSTANTS
    WindowSecs = 1
    CooldownSecs = 1
    OpenFailures = 1
    ErrNum = 1
    ErrDen = 2
    Order <- Lone
    MaxRps <- FirstCapped
    Probed = {}
    MaxRetries = 1
    Request = {"r1", "r2"}
    MaxWindow = 2
INVARIANTS
    NoSelfInflicted502
