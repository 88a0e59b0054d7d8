SPECIFICATION FairSpec
CONSTANTS
    d1 = d1
    Device = {d1}
    deviceOf <- MCdeviceOf
    deviceOfCmd <- MCdeviceOfCmd
    NoConn = NoConn
    Conn = {c1, c2}
    Worker = {w1, w2}
    Cmd = {m1}
    MaxFaults = 0
    MaxUplink = 1
PROPERTY
    PendingIsSent
