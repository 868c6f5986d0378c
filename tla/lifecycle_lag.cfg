SPECIFICATION Spec
CONSTANTS
  e1 = e1  e2 = e2  n1 = n1  n2 = n2  t1 = t1  t2 = t2
  Envs <- OneEnv
  Namespaces <- BothNames
  Names <- BothNames
  Teams <- BothTeams
  DefaultTarget <- SameDefault
  Nobody = Nobody  Unset = Unset
  Retarget = TRUE  Tamper = TRUE
  MaxVersions = 4  MaxOutside = 1  MaxFaults = 0  MaxCrashes = 1
INVARIANTS RecordInv OwnerShown
PROPERTIES NeverAdopts CreatesUnderRecord
