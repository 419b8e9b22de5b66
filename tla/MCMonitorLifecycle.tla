------------------------ MODULE MCMonitorLifecycle --------------------------
(* Values of MonitorLifecycle's constants for TLC.                         *)
EXTENDS MonitorLifecycle, TLC

CONSTANTS owner, helper   \* the thread that owns the monitor; another one

\* Only the owner stops and destroys the monitor, as main.cpp does.
MCOwnerStops ==
  (owner :> Ops) @@ (helper :> {"start", "read"})

MCBothStop == [c \in {owner, helper} |-> {"start", "stop"}]
MCCallbackUses == {"start"}
MCNoOps == {}
=============================================================================
