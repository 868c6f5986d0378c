SPECIFICATION Spec
CONSTANTS
  e1 = e1  e2 = e2  n1 = n1  n2 = n2  t1 = t1  t2 = t2
  Envs <- BothEnvs
  Namespaces <- BothNames
  Names <- OtherName
  Teams <- NoTeams
  DefaultTarget <- SameDefault
  Nobody = Nobody  Unset = Unset
  Retarget = TRUE  Tamper = FALSE
  MaxVersions = 4  MaxOutside = 0  MaxFaults = 0  MaxCrashes = 0
SYMMETRY EnvSymmetry
INVARIANTS TypeOK HeldIsRecorded
PROPERTIES LeaseSpec
