CONSTANTS
    c1 = c1  c2 = c2  c3 = c3  i1 = i1  ann = ann
    pName = pName  pOther = pOther
    Broken = Broken  NoRow = NoRow  NoIp = NoIp  FarIp = FarIp
    Conns <- MCTwoConns
    IPs <- MCOneIp
    Users <- MCOneUser
    Passwords <- MCPasswords
    Builds <- MCBuilds
    NamePassword <- pName
    LongNames <- MCNoNames
    Existing <- MCAllRows
    AutoCreate = TRUE
    StrictVersion = TRUE
    MaxWrong = 1
    BanTime = 600
    BanAccount = FALSE
    DbFaults = TRUE
    GmBans <- MCNoBans
    MaxKeys = 1
    FailedCap = 1
SPECIFICATION FairSpec
INVARIANTS
    TypeOK
    BannedStaysOut
PROPERTIES
    UnauthenticatedEnds
