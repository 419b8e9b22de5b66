SPECIFICATION FairSpec
CONSTANTS
  Files <- MCFiles
  Newline = 10
  ChunkSize = 3
  SizeLimit = 4
  ReadsFail = TRUE
  MaxLength = 5
INVARIANTS TypeOK NothingLost WholeFile
PROPERTIES ReadsLines Returns
CHECK_DEADLOCK FALSE
