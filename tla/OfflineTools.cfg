SPECIFICATION Spec
CONSTANTS
    None = None
    Clients <- MCClients
    Threads = 2
    Wmo <- MCWmo
    Model <- MCModel
    FixedName <- MCFixedName
    SubTiles = 2
    SkippedMaps = {3}
    Plans <- MCPlans
    MaxFaults = 1
CHECK_DEADLOCK FALSE
INVARIANTS
    TypeOK
    ExtractedMapsAreWhole
    OneIdPerInstance
    ExtractedModelsAreRecorded
    IndexNamesTheSpawn
    AssembledAsRecorded
    PlacedModelsAreConverted
    WorkersReturnTheirMeshes
    TilesFitTheirMesh
    EveryTerrainTileIsTried
PROPERTIES
    ToolsFinish
