--------------------------- MODULE ProcessMonitor ---------------------------
(***************************************************************************)
(* The telemetry worker of process/process_monitor.cpp together with what  *)
(* it calls: the /proc scan (pid_scanner.hpp), the filter                  *)
(* (process_filter.hpp), the readers of statm and status                   *)
(* (procfs_reader.hpp), and the consumer of its events, the callback of    *)
(* main.cpp.  The kernel changes the process table between any two steps   *)
(* of the worker.                                                          *)
(*                                                                         *)
(* A process is [name, ppid, owner, kthread, zombie, pages].  The name is  *)
(* different for every process ever spawned, so it tells a process from a  *)
(* later one with the same pid; thread_count is read, cached and reported  *)
(* exactly as ppid is and is not a field of its own.  The five page counts *)
(* of statm that the code compares are one number, pages.                  *)
(***************************************************************************)
EXTENDS Integers, Sequences, Functions

CONSTANTS
  Pid,         \* the numeric names /proc may have
  None,        \* no process, no cache entry
  Owner,       \* user ids
  PageCounts,  \* values of statm
  Programs,    \* what may be spawned: [owner, kthread, pages]
  InitTables,  \* process tables the monitor may be started on
  SelfPid,     \* ProcessFilter::self_pid_
  OwnerUid,    \* ProcessFilter::owner_uid_
  Configs,     \* the FilterConfig values update_filter is called with
  Faults,      \* the calls that may fail although the process is there
  PageSize,    \* sysconf(_SC_PAGESIZE)
  WordSize,    \* 2^64, the range of uint64_t
  MaxChanges,  \* bound: kernel steps and filter updates in a behaviour
  MaxRuns      \* bound: calls of start() that spawn a worker

FilterConfig == [exclude_kernel_threads : BOOLEAN, exclude_zombies : BOOLEAN,
                 exclude_self : BOOLEAN, only_current_user : BOOLEAN]
DefaultConfig == [exclude_kernel_threads |-> TRUE, exclude_zombies |-> TRUE,
                  exclude_self |-> TRUE, only_current_user |-> FALSE]

Process == [name : Nat, ppid : Nat, owner : Owner, kthread : BOOLEAN,
            zombie : BOOLEAN, pages : PageCounts]
Entry == [name : Nat, ppid : Nat, pages : PageCounts]   \* CachedState
Info == [name : Nat, ppid : Nat, mem : Nat]             \* ProcessInfo
Kinds == {"Created", "Updated", "Terminated"}
Event == [kind : Kinds, pid : Pid, info : Info]

ASSUME MonitorAssumption ==
  /\ Pid \subseteq Nat \ {0}
  /\ None \notin Process \cup Entry \cup Info
  /\ PageCounts \subseteq Nat /\ 0 \in PageCounts
  /\ Programs \subseteq [owner : Owner, kthread : BOOLEAN, pages : PageCounts]
  /\ InitTables \subseteq [Pid -> Process \cup {None}]
  /\ Configs \subseteq FilterConfig
  /\ Faults \subseteq {"opendir", "readdir", "stat", "statm", "status"}
  /\ PageSize \in Nat \ {0} /\ WordSize \in Nat \ {0}
  /\ MaxChanges \in Nat /\ MaxRuns \in Nat \ {0}

\* The page counts of a real machine stay below 2^64 when turned into bytes.
ASSUME PagesFitAssumption == \A n \in PageCounts : n * PageSize < WordSize

\* The processes the monitor is started on have other names than later ones.
ASSUME NamesAssumption ==
  \A table \in InitTables, p \in Pid :
    table[p] # None => table[p].name \notin 1..MaxChanges

VARIABLES
  procs,     \* the kernel's process table
  changes,   \* kernel steps and filter updates so far; names new processes
  config,    \* ProcessFilter::config_
  run,       \* how many workers start() has spawned
  stop,      \* the stop token of the current worker
  pc,        \* where the worker is
  cursor,    \* the directory entry the scan is at
  cfg,       \* should_track's copy of config_
  pids,      \* pids_res; in step 2 of the sweep, the pids still to process
  cache,     \* run's cache
  metrics,   \* process_single_pid's metrics, while status is being read
  events,    \* the batch; in the callback, the events still to apply
  tracked    \* main.cpp's tracked_processes: its entries for each pid
             \* in the order they were pushed

kernelVars == <<procs, changes, config>>
scanVars == <<cursor, cfg, pids>>
vars == <<procs, changes, config, run, stop, pc, cursor, cfg, pids, cache,
          metrics, events, tracked>>

Locations == {"exited", "top", "readdir", "stat", "status", "evict",
              "metrics", "meta", "callback", "wait"}

-----------------------------------------------------------------------------
(* The kernel.  init, kthreadd and the monitor itself never exit, and pid  *)
(* numbers are reused as soon as the old process is reaped.                *)

Alive(p) == procs[p] # None /\ ~procs[p].zombie

KernelStep == changes < MaxChanges /\ changes' = changes + 1
              /\ UNCHANGED <<config, run, stop, pc, cursor, cfg, pids, cache,
                             metrics, events, tracked>>

\* A parent is init or a live process; kernel threads are kthreadd's, pid 2.
Spawn(p) ==
  /\ procs[p] = None
  /\ \E prog \in Programs :
       \E parent \in IF prog.kthread THEN {2}
                     ELSE {1} \cup {q \in Pid \ {2} : Alive(q)} :
         procs' = [procs EXCEPT ![p] =
           [name |-> changes + 1, ppid |-> parent, owner |-> prog.owner,
            kthread |-> prog.kthread, zombie |-> FALSE, pages |-> prog.pages]]
  /\ KernelStep

\* The process becomes a zombie, all its counters zero, its children init's.
Exit(p) ==
  /\ Alive(p) /\ p > 2 /\ p # SelfPid
  /\ procs' = [q \in Pid |->
       IF q = p THEN [procs[p] EXCEPT !.zombie = TRUE, !.pages = 0]
       ELSE IF procs[q] # None /\ procs[q].ppid = p
            THEN [procs[q] EXCEPT !.ppid = 1]
       ELSE procs[q]]
  /\ KernelStep

Reap(p) ==
  /\ procs[p] # None /\ procs[p].zombie
  /\ procs' = [procs EXCEPT ![p] = None]
  /\ KernelStep

Resize(p) ==
  /\ Alive(p) /\ ~procs[p].kthread
  /\ \E n \in PageCounts \ {procs[p].pages} :
       procs' = [procs EXCEPT ![p].pages = n]
  /\ KernelStep

-----------------------------------------------------------------------------
(* Calls from other threads.                                               *)

UpdateFilter(c) ==
  /\ changes < MaxChanges
  /\ changes' = changes + 1
  /\ config' = c
  /\ UNCHANGED <<procs, run, stop, pc, cursor, cfg, pids, cache, metrics,
                 events, tracked>>

\* start() once the previous worker is joined: a new worker with the locals
\* of run() as declared.
Start ==
  /\ pc = "exited" /\ run < MaxRuns
  /\ run' = run + 1
  /\ stop' = FALSE
  /\ pc' = "top"
  /\ cache' = [p \in Pid |-> None]
  /\ events' = <<>>
  /\ UNCHANGED <<kernelVars, scanVars, metrics, tracked>>

RequestStop ==
  /\ pc # "exited" /\ ~stop
  /\ stop' = TRUE
  /\ UNCHANGED <<kernelVars, run, pc, scanVars, cache, metrics, events,
                 tracked>>

-----------------------------------------------------------------------------
(* scan_pids: the worker lists /proc in increasing order of pid and asks   *)
(* the filter about every entry as it goes.                                *)

WorkerStep == UNCHANGED <<kernelVars, run, stop>>

BeginSweep ==
  /\ pc = "top" /\ ~stop
  /\ pc' = "readdir" /\ cursor' = 0 /\ pids' = <<>>
  /\ WorkerStep /\ UNCHANGED <<cfg, cache, metrics, events, tracked>>

\* opendir fails: the sweep is given up, the cache stays as it is.
ScanFails ==
  /\ pc = "top" /\ ~stop /\ "opendir" \in Faults
  /\ pc' = "wait"
  /\ WorkerStep /\ UNCHANGED <<scanVars, cache, metrics, events, tracked>>

ExitLoop ==
  /\ pc = "top" /\ stop
  /\ pc' = "exited"
  /\ WorkerStep /\ UNCHANGED <<scanVars, cache, metrics, events, tracked>>

\* The entries the directory stream has still to return.
Listed == {p \in Pid : procs[p] # None /\ p > cursor}

ReadDir ==
  /\ pc = "readdir"
  /\ \E p \in Listed : (\A q \in Listed : p <= q) /\ cursor' = p
  /\ pc' = "stat"
  /\ WorkerStep /\ UNCHANGED <<cfg, pids, cache, metrics, events, tracked>>

\* readdir returns null, at the end and also when it fails.
EndOfDir ==
  /\ pc = "readdir"
  /\ Listed = {} \/ "readdir" \in Faults
  /\ pc' = "evict" /\ events' = <<>>
  /\ WorkerStep /\ UNCHANGED <<scanVars, cache, metrics, tracked>>

Accept == pc' = "readdir" /\ pids' = Append(pids, cursor)
Reject == pc' = "readdir" /\ UNCHANGED pids

\* What should_track decides before it reads the status file ...
StatAllows(c, p) ==
  /\ p > 1
  /\ ~(c.exclude_self /\ p = SelfPid)
  /\ procs[p] # None
  /\ c.only_current_user => procs[p].owner = OwnerUid

NeedsStatus(c) == c.exclude_kernel_threads \/ c.exclude_zombies

\* ... and from the status file.
StatusAllows(c, p) ==
  /\ c.exclude_kernel_threads =>
       p # 2 /\ procs[p].ppid # 2 /\ ~procs[p].kthread
  /\ c.exclude_zombies => ~procs[p].zombie

\* The configuration is loaded once per pid, here.  ::stat may fail although
\* the process is there.
Stat ==
  /\ pc = "stat"
  /\ cfg' = config
  /\ \/ ~StatAllows(config, cursor) /\ Reject
     \/ "stat" \in Faults /\ Reject
     \/ /\ StatAllows(config, cursor) /\ ~NeedsStatus(config)
        /\ Accept
     \/ /\ StatAllows(config, cursor) /\ NeedsStatus(config)
        /\ pc' = "status" /\ UNCHANGED pids
  /\ WorkerStep /\ UNCHANGED <<cursor, cache, metrics, events, tracked>>

\* A file of a process can be read while the process is there, unless the
\* call fails for another reason.
CanRead(p) == procs[p] # None

\* Mutant: a call that a signal interrupts is not tried again.
CanFailInterrupted(p, call) == TRUE

CanFail(p, call) == procs[p] = None \/ call \in Faults

Status ==
  /\ pc = "status"
  /\ \/ CanFail(cursor, "status") /\ Reject
     \/ CanRead(cursor) /\ ~StatusAllows(cfg, cursor) /\ Reject
     \/ CanRead(cursor) /\ StatusAllows(cfg, cursor) /\ Accept
  /\ WorkerStep /\ UNCHANGED <<cursor, cfg, cache, metrics, events, tracked>>

-----------------------------------------------------------------------------
(* The sweep: evict what was not listed, process what was, dispatch.       *)

\* Mutant: a signed 64-bit product.
BytesSigned(n) ==
  LET b == (n * PageSize) % WordSize
  IN IF 2 * b < WordSize THEN b ELSE b - WordSize

\* Pages::bytes, in 64-bit arithmetic.
Bytes(n) == (n * PageSize) % WordSize

\* create_process_info from a cache entry.
InfoOf(e) == [name |-> e.name, ppid |-> e.ppid, mem |-> Bytes(e.pages)]

Push(kind, p, info) ==
  events' = Append(events, [kind |-> kind, pid |-> p, info |-> info])

\* Mutant: active_set is not filled.
StaleAll == {p \in Pid : cache[p] # None}

Stale == {p \in Pid : cache[p] # None /\ p \notin Range(pids)}

\* std::erase_if visits the entries in no particular order; the event has
\* the MemoryMetrics default, zero.
Evict ==
  /\ pc = "evict"
  /\ \E p \in Stale :
       /\ Push("Terminated", p,
               [name |-> cache[p].name, ppid |-> cache[p].ppid, mem |-> 0])
       /\ cache' = [cache EXCEPT ![p] = None]
  /\ WorkerStep /\ UNCHANGED <<pc, scanVars, metrics, tracked>>

EvictDone ==
  /\ pc = "evict" /\ Stale = {}
  /\ pc' = "metrics"
  /\ WorkerStep /\ UNCHANGED <<scanVars, cache, metrics, events, tracked>>

NextPid == pids' = Tail(pids) /\ pc' = "metrics"

\* fetch_metrics: on failure the pid is left as it is.
MetricsFail ==
  /\ pc = "metrics" /\ pids # <<>>
  /\ CanFail(Head(pids), "statm")
  /\ NextPid
  /\ WorkerStep /\ UNCHANGED <<cursor, cfg, cache, metrics, events, tracked>>

\* Mutant: report growth only.
DiffersGrowing(c, m) == m > c

Differs(c, m) == c # m

\* Mutant: the metadata of the event is left at its defaults.
WarmBlank ==
  /\ pc = "metrics" /\ pids # <<>>
  /\ LET p == Head(pids)
         entry == [cache[p] EXCEPT !.pages = procs[p].pages]
     IN /\ CanRead(p) /\ cache[p] # None
        /\ \/ /\ Differs(cache[p].pages, entry.pages)
              /\ cache' = [cache EXCEPT ![p] = entry]
              /\ Push("Updated", p, [InfoOf(entry) EXCEPT !.ppid = 0])
           \/ /\ ~Differs(cache[p].pages, entry.pages)
              /\ UNCHANGED <<cache, events>>
  /\ NextPid
  /\ WorkerStep /\ UNCHANGED <<cursor, cfg, metrics, tracked>>

\* The warm path of process_single_pid: the entry keeps its name and ppid.
Warm ==
  /\ pc = "metrics" /\ pids # <<>>
  /\ LET p == Head(pids)
         entry == [cache[p] EXCEPT !.pages = procs[p].pages]
     IN /\ CanRead(p) /\ cache[p] # None
        /\ \/ /\ Differs(cache[p].pages, entry.pages)
              /\ cache' = [cache EXCEPT ![p] = entry]
              /\ Push("Updated", p, InfoOf(entry))
           \/ /\ ~Differs(cache[p].pages, entry.pages)
              /\ UNCHANGED <<cache, events>>
  /\ NextPid
  /\ WorkerStep /\ UNCHANGED <<cursor, cfg, metrics, tracked>>

\* The cold path goes on to the status file.
Cold ==
  /\ pc = "metrics" /\ pids # <<>>
  /\ CanRead(Head(pids)) /\ cache[Head(pids)] = None
  /\ metrics' = procs[Head(pids)].pages
  /\ pc' = "meta"
  /\ WorkerStep /\ UNCHANGED <<scanVars, cache, events, tracked>>

Discover ==
  /\ pc = "meta"
  /\ LET p == Head(pids)
         entry == [name |-> procs[p].name, ppid |-> procs[p].ppid,
                   pages |-> metrics]
     IN /\ CanRead(p)
        /\ cache' = [cache EXCEPT ![p] = entry]
        /\ Push("Created", p, InfoOf(entry))
  /\ NextPid
  /\ WorkerStep /\ UNCHANGED <<cursor, cfg, metrics, tracked>>

MetaFail ==
  /\ pc = "meta" /\ CanFail(Head(pids), "status")
  /\ NextPid
  /\ WorkerStep /\ UNCHANGED <<cursor, cfg, cache, metrics, events, tracked>>

\* The callback the constructor was given is not empty.
Dispatch ==
  /\ pc = "metrics" /\ pids = <<>>
  /\ pc' = IF events # <<>> THEN "callback" ELSE "wait"
  /\ WorkerStep /\ UNCHANGED <<scanVars, cache, metrics, events, tracked>>

-----------------------------------------------------------------------------
(* The consumer: on_changed of main.cpp, under tracked_mutex while pc is   *)
(* "callback".                                                             *)

\* Mutant: an update is pushed back instead of replacing its row.
ApplyPush(rows, ev) ==
  IF ev.kind = "Terminated" THEN <<>> ELSE Append(rows, ev.info)

Apply(rows, ev) ==
  CASE ev.kind = "Created" -> Append(rows, ev.info)
    [] ev.kind = "Updated" -> IF rows = <<>> THEN rows
                              ELSE [rows EXCEPT ![1] = ev.info]
    [] ev.kind = "Terminated" -> <<>>

Consume ==
  /\ pc = "callback" /\ events # <<>>
  /\ LET ev == Head(events) IN
       tracked' = [tracked EXCEPT ![ev.pid] = Apply(tracked[ev.pid], ev)]
  /\ events' = Tail(events)
  /\ WorkerStep /\ UNCHANGED <<pc, scanVars, cache, metrics>>

CallbackReturns ==
  /\ pc = "callback" /\ events = <<>>
  /\ pc' = "wait"
  /\ WorkerStep /\ UNCHANGED <<scanVars, cache, metrics, events, tracked>>

\* wait_for: the interval has passed or a stop was requested.
WakeUp ==
  /\ pc = "wait"
  /\ pc' = "top"
  /\ WorkerStep /\ UNCHANGED <<scanVars, cache, metrics, events, tracked>>

-----------------------------------------------------------------------------
Init ==
  /\ procs \in InitTables /\ changes = 0 /\ config = DefaultConfig
  /\ run = 0 /\ stop = FALSE /\ pc = "exited"
  /\ cursor = 0 /\ cfg = DefaultConfig /\ pids = <<>>
  /\ cache = [p \in Pid |-> None] /\ metrics = 0 /\ events = <<>>
  /\ tracked = [p \in Pid |-> <<>>]

Kernel == \E p \in Pid : Spawn(p) \/ Exit(p) \/ Reap(p) \/ Resize(p)

Client == Start \/ RequestStop \/ \E c \in Configs : UpdateFilter(c)

Worker ==
  \/ BeginSweep \/ ScanFails \/ ExitLoop \/ ReadDir \/ EndOfDir
  \/ Stat \/ Status \/ Evict \/ EvictDone
  \/ MetricsFail \/ Warm \/ Cold \/ Discover \/ MetaFail
  \/ Dispatch \/ Consume \/ CallbackReturns \/ WakeUp

Next == Kernel \/ Client \/ Worker

Spec == Init /\ [][Next]_vars

\* The thread scheduler runs the worker; nothing else has to happen.
FairSpec == Spec /\ WF_vars(Worker)

-----------------------------------------------------------------------------
(* Properties.                                                             *)

TypeOK ==
  /\ procs \in [Pid -> Process \cup {None}]
  /\ changes \in 0..MaxChanges /\ config \in FilterConfig
  /\ run \in 0..MaxRuns /\ stop \in BOOLEAN /\ pc \in Locations
  /\ cursor \in Pid \cup {0} /\ cfg \in FilterConfig /\ pids \in Seq(Pid)
  /\ cache \in [Pid -> Entry \cup {None}] /\ metrics \in PageCounts
  /\ events \in Seq(Event) /\ tracked \in [Pid -> Seq(Info)]

\* The rows the consumer should have for a cache entry.
View(e) == IF e = None THEN <<>> ELSE <<InfoOf(e)>>

\* Whenever no sweep is being turned into events, the consumer's list is
\* the monitor's cache: one row for every process the monitor follows, with
\* its latest reported memory, and no other row.  (The first worker; see
\* CreatedIsNew for the second.)
FeedMatchesCache ==
  run <= 1 /\ pc \notin {"evict", "metrics", "meta", "callback"}
    => \A p \in Pid : tracked[p] = View(cache[p])

\* An event against the cache it was made from ...
CacheAgrees(ev) ==
  LET entry == cache[ev.pid] IN
  /\ ev.kind = "Terminated" => entry = None
  /\ ev.kind # "Terminated" => entry # None /\ ev.info = InfoOf(entry)

\* ... and against the rows the consumer has before it is applied.
RowsAgree(ev) ==
  LET rows == tracked[ev.pid] IN
  /\ ev.kind = "Created" => rows = <<>>
  /\ ev.kind # "Created" => Len(rows) = 1
  /\ ev.kind = "Updated" => /\ rows[1].mem # ev.info.mem
                            /\ ev.info = [rows[1] EXCEPT !.mem = ev.info.mem]

\* The events of a batch are about different pids, and each leads from the
\* row the consumer has to the one the cache describes; where no event is
\* due, the two agree already.
BatchIsDelta ==
  /\ \A i, j \in DOMAIN events : events[i].pid = events[j].pid => i = j
  /\ \A i \in DOMAIN events : CacheAgrees(events[i])
  /\ run <= 1 =>
       /\ \A i \in DOMAIN events : RowsAgree(events[i])
       /\ \A p \in Pid : (\A i \in DOMAIN events : events[i].pid # p)
                            => tracked[p] = View(cache[p])

\* The scan lists every pid once, in increasing order, and step 2 of the
\* sweep meets no pid that already has an event: not one it has processed,
\* and not one that was evicted in step 1.
SweepMeetsPidOnce ==
  /\ \A i, j \in DOMAIN pids : i < j => pids[i] < pids[j]
  /\ pc \in {"readdir", "stat", "status"} =>
       /\ events = <<>>
       /\ \A i \in DOMAIN pids :
            IF pc = "readdir" THEN pids[i] <= cursor ELSE pids[i] < cursor
  /\ pc \in {"evict", "metrics", "meta"} =>
       \A i \in DOMAIN events : events[i].pid \notin Range(pids)

\* The consumer's list as a table, for ProcessTable.
Table == [p \in Pid |-> IF tracked[p] = <<>> THEN None ELSE tracked[p][1]]
Feed == INSTANCE ProcessTable WITH table <- Table

\* The consumer's list changes as the abstract table does: rows are created
\* once, change only their memory and really change it, and are removed
\* only when there.
FeedIsTable == Feed!Spec

\* should_track would admit p.
Trackable(c, p) ==
  StatAllows(c, p) /\ (NeedsStatus(c) => StatusAllows(c, p))

\* Unless a call fails, a process that every filter in use admits is never
\* reported as terminated: at the eviction the process the entry was made
\* from is gone, a zombie or excluded, whatever happened in /proc while the
\* scan was under way.
EvictionJustified ==
  [][\A p \in Pid :
       cache[p] # None /\ cache'[p] = None /\ run' = run =>
         ~(/\ \A c \in Configs \cup {DefaultConfig} : Trackable(c, p)
           /\ procs[p].name = cache[p].name)]_vars

\* The consumer is up to date: it has a row exactly for the processes the
\* filter admits, with the memory they have.
UpToDate ==
  \A p \in Pid :
    IF Trackable(config, p)
    THEN Len(tracked[p]) = 1 /\ tracked[p][1].mem = Bytes(procs[p].pages)
    ELSE tracked[p] = <<>>

\* A call fails, or readdir does before the end, although the process or
\* directory it is about is there, and the sweep goes on otherwise than it
\* would have: a call that would have found nothing new may fail.
FaultStep ==
  \/ ScanFails
  \/ EndOfDir /\ Listed # {}
  \/ Stat /\ Trackable(config, cursor) /\ Reject
  \/ Status /\ CanRead(cursor) /\ StatusAllows(cfg, cursor) /\ Reject
  \/ ((MetricsFail /\ ~Warm) \/ MetaFail) /\ CanRead(Head(pids))

\* Once processes and filter stop changing and calls stop failing, the
\* consumer gets up to date, whatever was missed or wrongly evicted before,
\* and stays so as long as nobody stops the monitor.
Convergence ==
  <>[](run = 1 /\ ~stop) /\ <>[][~FaultStep]_vars => <>[]UpToDate

-----------------------------------------------------------------------------
(* What the sources say of the events and the program does not do; each is *)
(* refuted by a run of its own.                                            *)

Pushed(kind) ==
  Len(events') = Len(events) + 1 /\ events'[Len(events')].kind = kind

\* types.hpp:20: a ProcessInfo is the telemetry of a single process.  An
\* update after the pid was reused between two sweeps has the name of the
\* old process and the memory of the new one.
OneProcessPerInfo ==
  [][Pushed("Updated") =>
       LET ev == events'[Len(events')]
       IN procs[ev.pid].name = ev.info.name]_vars

\* types.hpp:31: a created event means a new process was discovered.  A
\* restarted monitor announces again what its consumer already follows.
CreatedIsNew ==
  [][\A p \in Pid :
       Len(tracked'[p]) > Len(tracked[p]) =>
         \A i \in DOMAIN tracked[p] :
           tracked[p][i].name # tracked'[p][Len(tracked'[p])].name]_vars
=============================================================================
