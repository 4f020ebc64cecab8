CONSTANTS
    r1 = r1  h1 = h1  h2 = h2  low = low  high = high
    Realms <- MCOneRealm
    Populations <- MCPopulations
    Handlers <- MCOneHandler
    UpdateInterval = 1
    StaleTimeout = 1
    DbFaults = FALSE
    MaxTime = 4
SPECIFICATION Spec
PROPERTIES
    RecoveredIsOnline
