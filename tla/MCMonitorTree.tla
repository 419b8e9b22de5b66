---------------------------- MODULE MCMonitorTree ---------------------------
(* MonitorTree with the values of MCProcessMonitor, and the machine the    *)
(* circle of parents needs.                                                *)
EXTENDS MonitorTree, MCProcessMonitor
=============================================================================
