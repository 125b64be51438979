SPECIFICATION Spec
CONSTANTS
    WindowSecs = 1
    CooldownSecs = 1
    OpenFailures = 1
    ErrNum = 1
    ErrDen = 2
    Order <- Fleet
    MaxRps <- NoneCapped
    Probed = {"b"}
    MaxRetries = 1
    Request = {"r1"}
    MaxWindow = 1
PROPERTIES
    ResumesTraffic
