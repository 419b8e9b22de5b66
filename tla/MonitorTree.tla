----------------------------- MODULE MonitorTree ----------------------------
(***************************************************************************)
(* The client of main.cpp: it passes the list its callback keeps to        *)
(* ProcessTreeBuilder::build, under the mutex the callback holds too.      *)
(***************************************************************************)
EXTENDS ProcessMonitor
LOCAL INSTANCE SequencesExt

CONSTANT StackFrames   \* calls of build_node the stack has room for

Tree == INSTANCE ProcessTree

\* tracked_processes, in some order.
TrackedProcesses ==
  LET rows == SetToSeq(UNION {{p} \X DOMAIN tracked[p] : p \in Pid})
  IN [i \in DOMAIN rows |->
        LET row == tracked[rows[i][1]][rows[i][2]]
        IN [pid |-> rows[i][1], ppid |-> row.ppid, mem |-> row.mem]]

\* process_tree.hpp:44: build makes a forest of the list.  A process is left
\* out of it when the list's parents run in a circle, as they do once a
\* child's new child has the pid that the child's old parent had.
ForestShowsTracked ==
  pc # "callback" =>
    {node.info.pid : node \in Tree!Nodes(Tree!Build(TrackedProcesses))}
      = {p \in Pid : tracked[p] # <<>>}
=============================================================================
