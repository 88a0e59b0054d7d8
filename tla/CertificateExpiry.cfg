SPECIFICATION ExpiryFairSpec
CONSTANTS
    Holder = {d1, d2}
    Check = {k1, k2}
INVARIANTS
    ExpiryTypeOK
    ExpiryAlertsBounded
PROPERTY
    ExpiryIsReported
