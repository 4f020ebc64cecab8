CONSTANTS
    r1 = r1  h1 = h1  h2 = h2  low = low  high = high
    Realms <- MCOneRealm
    Populations <- MCPopulations
    Handlers <- MCTwoHandlers
    UpdateInterval = 1
    StaleTimeout = 1
    DbFaults = TRUE
    MaxTime = 3
SPECIFICATION FairSpec
INVARIANTS
    TypeOK
    NoHoleInAnswers
    SilentStaysOffline
PROPERTIES
    AnswerIsFresh
    RequestIsAnswered
