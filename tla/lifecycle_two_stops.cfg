SPECIFICATION Spec
CONSTANTS
  owner = owner
  helper = helper
  Client = {owner, helper}
  ClientOps <- MCBothStop
  CallbackOps <- MCNoOps
  MaxWorkers = 3
INVARIANT NoAbort
CHECK_DEADLOCK FALSE
