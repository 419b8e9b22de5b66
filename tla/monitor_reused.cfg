SPECIFICATION Spec
CONSTANTS
  Pid = {4, 5}
  None = None
  Owner <- MCOwner
  PageCounts = {0, 1, 2}
  Programs <- MCUserPrograms
  InitTables <- MCBusy
  SelfPid = 3
  OwnerUid = "me"
  Configs <- MCNoConfigs
  Faults <- MCNoFaults
  PageSize = 16
  WordSize = 64
  MaxChanges = 4
  MaxRuns = 1
PROPERTY OneProcessPerInfo
CHECK_DEADLOCK FALSE
