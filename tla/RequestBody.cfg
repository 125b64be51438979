SPECIFICATION Spec
CONSTANTS
    Scores = {1, 2}
    NoMethod = "no method"
    MAX_BATCH_LABEL_METHODS = 2
    BITS = 4
    HALF = 1
    WORD = 1
    SIGNATURE = 8
    KEY = 1
    THIRD_MAX = 3
    MAX_LEGACY_LEN = 58
    MAX_V1_LEN = 60
    MAX_BASE58_LEN = 79
    MAX_BASE64_LEN = 80
    COMPUTE_BUDGET_ID <- BudgetId
    BUILTIN_PROGRAM_IDS <- BuiltinIds
    MAX_COMPUTE_UNITS = 10
    DEFAULT_INSTRUCTION_COMPUTE_UNITS = 6
    DEFAULT_BUILTIN_COMPUTE_UNITS = 1
    MICRO = 8
INVARIANTS
    RoutesWhoMayServe
    StrategyDecidesOrder
    DecodesWhatWasEncoded
    DamageIsNotMisread
CHECK_DEADLOCK FALSE
