SPECIFICATION AccountsSpec
CONSTANTS
 e1 = e1
 e2 = e2
 Worker = {w1, w2}
 Id = {1, 2, 3, 4}
 Email = {e1, e2}
 InitialAdmin = e1
 Created <- MCCreated
 Change <- MCChange
 NoAccount = NoAccount
 MaxCrashes = 1
CHECK_DEADLOCK FALSE
INVARIANTS
 AccountsTypeOK
 LockOutHasCause
PROPERTY
 WorkersComeUp
