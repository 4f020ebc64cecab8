CONSTANTS
    ADT_CELLS_PER_GRID = 2
    ADT_CELL_SIZE = 4
    None = None
    Missing = Missing
    TileInputs <- mcTileInputs
    WmoInputs <- mcWmoInputs
    M2Inputs <- mcM2Inputs
    BoxInputs <- mcBoxInputs
SPECIFICATION Spec
CHECK_DEADLOCK FALSE
INVARIANTS
    OffsetsPointAtSections
    HeightsRoundTrip
    GroundIsTheClients
    LiquidIsTheClients
    FinishedMeshIsTerrainAndModel
    WmoSurvivesTheRawFile
    M2SurvivesTheRawFile
    TreeFindsEveryObject
