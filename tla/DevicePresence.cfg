SPECIFICATION FairSpec
CONSTANTS
    d1 = d1
    Device = {d1}
    deviceOf <- MCdeviceOf
    NoConn = NoConn
    Worker = {w1, w2}
    Conn = {c1, c2}
    Sweep = {s1, s2}
    MaxFaults = 1
INVARIANTS
    TypeOK
    RegisteredIsServed
    OnlineHasHandler
    DuplicateAlertsBounded
PROPERTIES
    GoneAgentsGoOffline
    LiveAgentsComeOnline
