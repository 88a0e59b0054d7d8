SPECIFICATION Spec
CONSTANTS
 d1 = d1
 x1 = x1
 Worker = {w1, w2}
 NoWorker = NoWorker
 Device = {d1}
 Unknown = {x1}
 Package = {p1}
 Update = {k1}
 Targets <- MCTargets
 Request = {r1, r2}
 NoPackage = NoPackage
 MaxRow = 2
 MaxTrigger = 1
SYMMETRY MCSymmetry
CHECK_DEADLOCK FALSE
INVARIANTS
 TypeOK
 RunsInOrder
