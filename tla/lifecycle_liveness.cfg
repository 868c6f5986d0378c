SPECIFICATION FairSpec
CONSTANTS
  e1 = e1  e2 = e2  n1 = n1  n2 = n2  t1 = t1  t2 = t2
  Envs <- OneEnv
  Namespaces <- OneName
  Names <- NoNames
  Teams <- NoTeams
  DefaultTarget <- SameDefault
  Nobody = Nobody  Unset = Unset
  Retarget = FALSE  Tamper = TRUE
  MaxVersions = 6  MaxOutside = 1  MaxFaults = 1  MaxCrashes = 1
PROPERTIES DeletesOnlyClosing DeletionCompletes Provisioned ForeignLeftAlone
