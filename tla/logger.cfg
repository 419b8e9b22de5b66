SPECIFICATION FairSpec
CONSTANTS
  main = main
  worker = worker
  Thread = {main, worker}
  Nobody = Nobody
  NoMessage = NoMessage
  Newline = "newline"
  Character = {"x", "newline"}
  Messages <- MCMessages
  MaxLength = 3
  MaxMessages = 3
INVARIANT TypeOK
PROPERTIES WholeMessages CallsReturn
CHECK_DEADLOCK FALSE
