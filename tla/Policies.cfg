SPECIFICATION Spec
CONSTANTS
 d1 = d1
 g1 = g1
 x1 = x1
 p1 = p1
 Device = {d1}
 Group = {g1}
 Unknown = {x1}
 Policy = {p1}
 policyType <- MCType
 Config <- MCConfig
 NoConfig = NoConfig
 Body <- MCBody
 Members <- MCMembers
 RuleName = {}
 RegistryName = {}
 Request = {r1, r2}
 MaxVersion = 2
 MaxWire = 2
SYMMETRY MCSymmetry
INVARIANTS
 TypeOK
 SettingsAreAssigned
PROPERTY
 NeverBack
