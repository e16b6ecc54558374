CONSTANTS
    b1 = b1  b2 = b2
    ip1 = ip1  ip2 = ip2
    host1 = host1  host2 = host2
    Keys <- MCKeys
    Values <- MCValues
    NULL_VALUE = NULL_VALUE
    KeySize <- MCKeySize
    ValueSize <- MCValueSize
    Me = b1
    IpOf <- FixedIp
    Hostname <- MCHostname
    max_missed_heartbeats = 1
    MaxVersion = 2
    MaxFaults = 2
    MaxCalls = 2
SPECIFICATION Spec
INVARIANTS KnownUnlessOverlap 
PROPERTY Converges
