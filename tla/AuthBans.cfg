CONSTANTS
    c1 = c1  c2 = c2  c3 = c3  i1 = i1  ann = ann
    pName = pName  pOther = pOther
    Broken = Broken  NoRow = NoRow  NoIp = NoIp  FarIp = FarIp
    Conns <- MCThreeConns
    IPs <- MCOneIp
    Users <- MCOneUser
    Passwords <- MCPasswords
    Builds <- MCTbcBuild
    NamePassword <- pName
    LongNames <- MCNoNames
    Existing <- MCPlainRows
    AutoCreate = FALSE
    StrictVersion = FALSE
    MaxWrong = 2
    BanTime = 0
    BanAccount = TRUE
    DbFaults = FALSE
    GmBans <- MCTemporary
    MaxKeys = 2
    FailedCap = 5
SPECIFICATION Spec
SYMMETRY MCSymmetry
INVARIANTS
    BannedStaysOut
    CounterLeadsToBan
    GuessesBounded
    ReconnectKeyIsCurrent
    SuccessIsOnRecord
