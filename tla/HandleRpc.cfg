SPECIFICATION HandleSpec
CONSTANTS
    MaxProviders = 4
    MaxRetries = 2
    Answers <- AllAnswers
    MaxLegs = 3
    LegAnswers <- RankedAnswers
INVARIANTS
    ReportsWhatHappened
    LastResort
    SuccessWins
    BestErrorWins
    BookedOnce
PROPERTIES
    Settles
CHECK_DEADLOCK FALSE
