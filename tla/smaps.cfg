SPECIFICATION Spec
CONSTANTS
  Files <- MCFiles
  CallsFail = TRUE
  MaxLines = 5
INVARIANTS TypeOK LinesPartitioned DeliveredWhole
CHECK_DEADLOCK FALSE
