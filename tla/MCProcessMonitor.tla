-------------------------- MODULE MCProcessMonitor --------------------------
(* Values of ProcessMonitor's constants for TLC.                           *)
EXTENDS ProcessMonitor

\* The user running the monitor and root; what they may start.
MCOwner == {"me", "root"}
MCUserPrograms == {[owner |-> "me", kthread |-> FALSE, pages |-> 1]}
MCPrograms == MCUserPrograms \cup
  {[owner |-> "root", kthread |-> TRUE, pages |-> 0],
   [owner |-> "root", kthread |-> FALSE, pages |-> 1]}

InitProcess(p, parent, owner, kthread) ==
  [name |-> 100 + p, ppid |-> parent, owner |-> owner, kthread |-> kthread,
   zombie |-> FALSE, pages |-> IF kthread THEN 0 ELSE 1]

\* On a freshly booted machine: init, kthreadd and, if it has a pid, the monitor.
Booted(p) ==
  CASE p = 1 -> InitProcess(1, 0, "root", FALSE)
    [] p = 2 -> InitProcess(2, 0, "root", TRUE)
    [] p = SelfPid -> InitProcess(p, 1, "me", FALSE)
    [] OTHER -> None

\* The same with one more process running.
MCBusy == {[p \in Pid |-> IF p = 4 THEN InitProcess(4, 1, "me", FALSE)
                          ELSE Booted(p)]}

MCOnlyMine == [DefaultConfig EXCEPT !.only_current_user = TRUE]
MCEverything == [exclude_kernel_threads |-> FALSE, exclude_zombies |-> FALSE,
                 exclude_self |-> FALSE, only_current_user |-> FALSE]
MCConfigs == {MCOnlyMine, MCEverything}
MCNoConfigs == {}
MCAllFaults == {"opendir", "readdir", "stat", "statm", "status"}
MCNoFaults == {}
=============================================================================
