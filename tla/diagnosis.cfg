SPECIFICATION Spec
CONSTANTS
  Exits <- AnyExit
  WithInit = TRUE
  MaxRestarts = 3
INVARIANTS CrashLoopSeen NormalStartIgnored FreshNotStalled DenialExplained
