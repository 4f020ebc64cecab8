SPECIFICATION FairSpec
CONSTANTS
    c1 = c1  c2 = c2  c3 = c3  c4 = c4  ip1 = ip1  ip2 = ip2
    Conns <- MCThreeConns
    IPs <- MCIPs
    MaxPerIp = 1
    MaxTotal = 0
    DescriptorLimits = {3}
PROPERTIES CtrlCStops
CHECK_DEADLOCK FALSE
