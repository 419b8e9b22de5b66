----------------------------- MODULE WorkerSlot -----------------------------
(***************************************************************************)
(* What start and stop of ProcessMonitor promise: there is one place for a *)
(* worker; a worker is put there when it is empty, with a stop token not   *)
(* set yet, and leaves it only after it was told to stop.  ProcessMonitor  *)
(* takes this for granted (its variables run and stop); MonitorLifecycle   *)
(* implements it.                                                          *)
(***************************************************************************)
EXTENDS Naturals

VARIABLES
  run,     \* how many workers there were
  stop,    \* the stop token of the last one
  running  \* whether it is still there

vars == <<run, stop, running>>

Init == run = 0 /\ stop = FALSE /\ running = FALSE

Start ==
  /\ ~running
  /\ run' = run + 1 /\ stop' = FALSE /\ running' = TRUE

RequestStop ==
  /\ running /\ stop' = TRUE
  /\ UNCHANGED <<run, running>>

Exit ==
  /\ running /\ stop /\ running' = FALSE
  /\ UNCHANGED <<run, stop>>

Next == Start \/ RequestStop \/ Exit

Spec == Init /\ [][Next]_vars
=============================================================================
