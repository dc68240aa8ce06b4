CONSTANTS
  boot = boot
  first = first
  second = second
  Runs <- MCRuns
  Boot <- boot
  None = None
  Tries = 3
SPECIFICATION FairSpec
INVARIANT MutualExclusion
PROPERTIES LockReleased
