SPECIFICATION Spec
CONSTANTS
    WindowSecs = 2
    CooldownSecs = 2
    OpenFailures = 3
    ErrNum = 1
    ErrDen = 2
    MaxWindow = 5
    MaxStreak = 4
PROPERTIES
    ThrottleNeverOpens
