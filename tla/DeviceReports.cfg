SPECIFICATION FairSpec
CONSTANTS
 h1 = h1
 h2 = h2
 i1 = i1
 i2 = i2
 c1 = c1
 x1 = x1
 Handler = {h1, h2}
 Item = {i1, i2}
 Unversioned = {i2}
 Inventory <- MCInventory
 Checks <- MCChecks
 Rule = {c1}
 Foreign = {x1}
 NoReport = NoReport
 NoRule = NoRule
CHECK_DEADLOCK FALSE
INVARIANTS
 TypeOK
 SummaryMatchesRows
 OneGenerationPerHandler
 RefusedHasCause
PROPERTIES
 ReportsEnd
