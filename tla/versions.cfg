SPECIFICATION Spec
CONSTANTS
  Histories <- MCHistories
  MaxMerges = 2  MaxReleases = 1  MaxFailures = 1  MaxReruns = 2
INVARIANTS TypeOK AboveHistory ImagesFaithful
PROPERTIES VersionsIncrease RunsEnd
CHECK_DEADLOCK FALSE
