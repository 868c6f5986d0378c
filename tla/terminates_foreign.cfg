SPECIFICATION Spec
CONSTANTS
  e1 = e1  e2 = e2  n1 = n1  n2 = n2  t1 = t1  t2 = t2
  Envs <- OneEnv
  Namespaces <- OneName
  Names <- NoNames
  Teams <- NoTeams
  DefaultTarget <- SameDefault
  Nobody = Nobody  Unset = Unset
  Retarget = FALSE  Tamper = FALSE
  MaxVersions = 5  MaxOutside = 1  MaxFaults = 0  MaxCrashes = 0
PROPERTIES LeavesForeign
