SPECIFICATION FairSpec
CONSTANTS
    c1 = c1  c2 = c2  c3 = c3  c4 = c4  ip1 = ip1  ip2 = ip2
    Conns <- MCConns
    IPs <- MCIPs
    MaxPerIp = 2
    MaxTotal = 3
    DescriptorLimits = {3, 4}
INVARIANTS TypeOK CountersMatchConnections LimitsRespected
PROPERTIES RefusedOnlyAtALimit ImplementsLimits QueuedIsAnswered
CHECK_DEADLOCK FALSE
