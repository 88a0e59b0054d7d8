SPECIFICATION FairSpec
CONSTANTS
    a = a
    b = b
    r1 = r1
    r2 = r2
    r3 = r3
    Tab = {a, b}
    Request = {r1, r2, r3}
    tabOf <- MCtabOf
    Logout = {r1}
    Me = {r2, r3}
    Token = {k1, k2}
    NoToken = NoToken
    NoRequest = NoRequest
INVARIANTS
    TypeOK
    QueuedMeansRefreshing
    UsesBounded
PROPERTY EveryRequestEnds
