SPECIFICATION Spec
CONSTANTS
    Handlers = {h1, h2}
    Providers = {p}
    None = none
    DecodeErrors = {"unparsed"}
    Calls = {2}
    TX_DECODE_QUEUE_CAPACITY = 1
    buffer_size = 1
    batch_size = 2
    MaxRequests = 1
    MaxEmits = 1
    MaxHistorical = 1
INVARIANTS
    ReportedOnce
    WindowsAreWhole
    ShutdownReportsAll
PROPERTIES
    ShutdownCompletes
