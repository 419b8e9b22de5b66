SPECIFICATION Spec
CONSTANTS
  Pids = {1, 4, 5, 6}
  Ppids = {0, 1, 4, 5, 6}
  MaxRows = 4
  MaxChanges = 3
  Rss <- MCRss
  Programs <- MCPrograms
  PageSize = 4096
  Worlds <- MCWorlds
  SelfPid = 3
  Shown = 2
  StackFrames = 4
  WordSize = 8
INVARIANTS
  ExitTellsTruth RowsTrue RowsComplete
  Terminates Placed Complete Totals TreeReadable
CHECK_DEADLOCK FALSE
