SPECIFICATION TrafficSpec
CONSTANTS
    Provider = {"a", "b"}
    Configs <- SomeConfigs
INVARIANTS
    AgreeWhenIdle
    RefusedOnlyByReload
PROPERTIES
    UnchangedKeepHealth
    EditsTakeEffect
