SPECIFICATION Spec
CONSTANTS
  Pid = {4, 5}
  None = None
  Owner <- MCOwner
  PageCounts = {0, 1, 2}
  Programs <- MCPrograms
  InitTables <- MCBusy
  SelfPid = 3
  OwnerUid = "me"
  Configs <- MCNoConfigs
  Faults <- MCNoFaults
  PageSize = 16
  WordSize = 64
  MaxChanges = 1
  MaxRuns = 2
PROPERTY CreatedIsNew
CHECK_DEADLOCK FALSE
