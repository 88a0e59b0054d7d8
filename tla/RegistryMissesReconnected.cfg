SPECIFICATION Spec
CONSTANTS
    d1 = d1
    Device = {d1}
    deviceOf <- MCdeviceOf
    NoConn = NoConn
    Worker = {w1}
    Conn = {c1, c2}
    Sweep = {s1}
    MaxFaults = 0
INVARIANT
    ConnectedIsRegistered
