SPECIFICATION FairSpec
CONSTANTS
  s1 = s1  s2 = s2
  Services <- BothServices
  Replicas <- MixedReplicas
  MaxGeneration = 2  MaxChurn = 1  MaxFaults = 1  MaxCrashes = 1
INVARIANTS TypeOK
PROPERTIES NewerKept StatusConverges EditObserved WritesSettle
