SPECIFICATION FairSpec
CONSTANTS
  dockerconfigjson = dockerconfigjson  dockercfg = dockercfg  opaque = opaque
  d1 = d1  d2 = d2
  Types <- ThreeTypes
  DockerTypes <- BothAuthTypes
  Data <- BothData
  IsPull = TRUE
  MaxEdits = 3  MaxFaults = 1  MaxCrashes = 1
INVARIANTS TypeOK
PROPERTIES CopyConverges DeletesOnlyMismatch ForeignUntouched
