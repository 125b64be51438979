SPECIFICATION Spec
CONSTANTS
    Unit = 2
    Rates = {1, 2}
    Request = {r1, r2}
    MaxInstalls = 2
    MaxTicks = 3
INVARIANTS
    TypeOK
    NoOverspend
PROPERTIES
    OnlyTimeRefills
    PeekIsFree
