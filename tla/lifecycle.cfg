SPECIFICATION FairSpec
CONSTANTS
  owner = owner
  helper = helper
  Client = {owner, helper}
  ClientOps <- MCOwnerStops
  CallbackOps <- MCCallbackUses
  MaxWorkers = 3
INVARIANTS TypeOK OneWorker StopIsFinal NoAbort
PROPERTIES WorkersTakeTurns CallsReturn
CHECK_DEADLOCK FALSE
