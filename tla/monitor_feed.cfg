SPECIFICATION FairSpec
CONSTANTS
  Pid = {4, 5}
  None = None
  Owner <- MCOwner
  PageCounts = {0, 1, 2}
  Programs <- MCPrograms
  InitTables <- MCBusy
  SelfPid = 3
  OwnerUid = "me"
  Configs <- MCConfigs
  Faults <- MCAllFaults
  PageSize = 16
  WordSize = 64
  MaxChanges = 3
  MaxRuns = 1
INVARIANTS TypeOK FeedMatchesCache BatchIsDelta SweepMeetsPidOnce
PROPERTIES FeedIsTable Convergence
CHECK_DEADLOCK FALSE
