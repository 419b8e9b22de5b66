---------------------------- MODULE ProcessFiles ----------------------------
(***************************************************************************)
(* What the program learns of a process from /proc/<pid>/status: the       *)
(* metadata of fetch_status_meta (process/procfs_reader.hpp) and the       *)
(* decision of should_track (process/process_filter.hpp), computed from    *)
(* the words of the file.  ProcessMonitor takes both for granted: there    *)
(* the program knows the process itself.                                   *)
(*                                                                         *)
(* A process is [comm, ppid, threads, zombie, kthread], comm being the     *)
(* words of its name, and what else is known of it.                        *)
(***************************************************************************)
EXTENDS Scrapers

CONSTANT SelfPid   \* ProcessFilter::self_pid_

Number(n) == [looks |-> "number", value |-> n]
Text(s) == [looks |-> "text", value |-> s]

\* The kernel's file; older kernels do not write the line Kthread.
StatusFile(p, kthreadLine) ==
  LET name == [key |-> "Name", words |-> p.comm]
      state == [key |-> "State",
                words |-> IF p.zombie THEN <<Text("Z"), Text("(zombie)")>>
                          ELSE <<Text("S"), Text("(sleeping)")>>]
      ppid == [key |-> "PPid", words |-> <<Number(p.ppid)>>]
      kthread == [key |-> "Kthread",
                  words |-> <<Number(IF p.kthread THEN 1 ELSE 0)>>]
      threads == [key |-> "Threads", words |-> <<Number(p.threads)>>]
  IN IF kthreadLine THEN <<name, state, ppid, kthread, threads>>
     ELSE <<name, state, ppid, threads>>

\* fetch_status_meta of a file KvAccepts.
FetchStatusMeta(status) ==
  [name |-> Get(status, "Name", "string", "Unknown"),
   ppid |-> Get(status, "PPid", "long", 0),
   thread_count |-> Get(status, "Threads", "long", 1)]

\* should_track(pid) with the default configuration: what it decides before
\* it reads the status file, besides that stat finds the directory ...
StatAllows(pid) == pid > 1 /\ pid # SelfPid

\* ... and from the status file, if that can be read.
StatusAllows(pid, status) ==
  /\ KvAccepts(TextOf(status))
  /\ pid # 2 /\ Get(status, "PPid", "long", 0) # 2
  /\ Get(status, "Kthread", "long", 0) # 1
  /\ Get(status, "State", "string", "") # "Z"
=============================================================================
