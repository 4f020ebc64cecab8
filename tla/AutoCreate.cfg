CONSTANTS
    c1 = c1  c2 = c2  c3 = c3  i1 = i1  ann = ann
    pName = pName  pOther = pOther
    Broken = Broken  NoRow = NoRow  NoIp = NoIp  FarIp = FarIp
    Conns <- MCTwoConns
    IPs <- MCOneIp
    Users <- MCOneUser
    Passwords <- MCPasswords
    Builds <- MCTbcBuild
    NamePassword <- pName
    LongNames <- MCNoNames
    Existing <- MCNoRows
    AutoCreate = TRUE
    StrictVersion = FALSE
    MaxWrong = 2
    BanTime = 600
    BanAccount = TRUE
    DbFaults = FALSE
    GmBans <- MCNoBans
    MaxKeys = 1
    FailedCap = 2
SPECIFICATION Spec
INVARIANTS
    FirstPasswordIsTheAccounts
