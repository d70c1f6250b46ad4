SPECIFICATION FairSpec
CONSTANTS
  Fds = {3, 4}
  Pids = {1, 2}
  Reuse = FALSE
  MaxJobs = 2
  MaxData = 1
  KillTries = 1
INVARIANTS StatusIsOwn KillsOnlyOwn BufferEOFMeansEnded
PROPERTIES CallReturns
