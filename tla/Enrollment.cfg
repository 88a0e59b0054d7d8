SPECIFICATION Spec
CONSTANTS
 m1 = m1
 m2 = m2
 s1 = s1
 Machine = {m1, m2}
 Attempt = {a1, a2}
 Serial = {s1}
 serialOf <- SameSerial
 NoSerial = NoSerial
 NoAttempt = NoAttempt
CHECK_DEADLOCK FALSE
INVARIANTS
 TypeOK
 EnrolledOnce
 ConfigMeansComplete
