------------------------ MODULE ProcessMonitorProofs ------------------------
(* Theorems about ProcessMonitor, for all values of its constants.         *)
EXTENDS ProcessMonitor, SequenceTheorems, TLAPS

-----------------------------------------------------------------------------
(* Pages and bytes.                                                        *)

\* Bytes is 64-bit multiplication that does not overflow.
LEMMA BytesExact == \A n \in PageCounts : Bytes(n) = n * PageSize
<1> SUFFICES ASSUME NEW n \in PageCounts PROVE Bytes(n) = n * PageSize
  OBVIOUS
<1>1. n \in Nat /\ PageSize \in Nat /\ WordSize \in Nat \ {0}
  BY MonitorAssumption
<1>2. n * PageSize \in Nat
  BY <1>1
<1>3. n * PageSize < WordSize
  BY PagesFitAssumption
<1> DEFINE b == n * PageSize
<1>4. b \in Nat /\ b < WordSize
  BY <1>2, <1>3
<1> HIDE DEF b
<1>5. b % WordSize = b
  BY <1>1, <1>4
<1> QED BY <1>5 DEF Bytes, b

\* A page count in bytes is a number (Pages::bytes).
LEMMA BytesType == \A n \in PageCounts : Bytes(n) \in Nat
BY BytesExact, MonitorAssumption

\* Different page counts are different numbers of bytes.
LEMMA BytesInjective ==
  ASSUME NEW m \in PageCounts, NEW n \in PageCounts, Bytes(m) = Bytes(n)
  PROVE  m = n
<1>1. m \in Nat /\ n \in Nat /\ PageSize \in Nat \ {0}
  BY MonitorAssumption
<1>2. m * PageSize = n * PageSize
  BY BytesExact
<1> QED BY <1>1, <1>2

\* create_process_info makes a ProcessInfo of every cache entry.
LEMMA InfoOfType == \A e \in Entry : InfoOf(e) \in Info
BY BytesType DEF Entry, Info, InfoOf

-----------------------------------------------------------------------------
(* Type correctness.                                                       *)

\* The configuration of a new filter is one of those update_filter takes.
LEMMA DefaultConfigType == DefaultConfig \in FilterConfig
BY DEF DefaultConfig, FilterConfig

\* Before start() every variable has its type.
LEMMA InitTypeOK == Init => TypeOK
<1> SUFFICES ASSUME Init PROVE TypeOK
  OBVIOUS
<1> USE DEF Init
<1>1. procs \in [Pid -> Process \cup {None}]
  BY MonitorAssumption
<1>2. changes \in 0..MaxChanges /\ run \in 0..MaxRuns /\ metrics \in PageCounts
  BY MonitorAssumption
<1>3. config \in FilterConfig /\ cfg \in FilterConfig
  BY DefaultConfigType
<1>4. stop \in BOOLEAN /\ pc \in Locations /\ cursor \in Pid \cup {0}
  BY DEF Locations
<1>6. pids \in Seq(Pid) /\ events \in Seq(Event)
  OBVIOUS
<1>5. /\ cache \in [Pid -> Entry \cup {None}]
      /\ tracked \in [Pid -> Seq(Info)]
  OBVIOUS
<1> QED BY <1>1, <1>2, <1>3, <1>4, <1>5, <1>6 DEF TypeOK

\* What the type proofs need to know of the constants.
LEMMA ConstantTypes ==
  /\ Pid \subseteq Nat \ {0} /\ PageCounts \subseteq Nat /\ 0 \in PageCounts
  /\ MaxChanges \in Nat /\ MaxRuns \in Nat \ {0}
  /\ Configs \subseteq FilterConfig
  /\ None \notin Process /\ None \notin Entry /\ None \notin Info
BY MonitorAssumption

\* What fork puts into the process table is a process.
LEMMA SpawnedType ==
  ASSUME NEW prog \in Programs, NEW n \in Nat, NEW parent \in Nat
  PROVE  [name |-> n, ppid |-> parent, owner |-> prog.owner,
          kthread |-> prog.kthread, zombie |-> FALSE,
          pages |-> prog.pages] \in Process
<1>1. prog \in [owner : Owner, kthread : BOOLEAN, pages : PageCounts]
  BY MonitorAssumption
<1> QED BY <1>1 DEF Process

\* Steps of the kernel keep the types.
LEMMA KernelTypeOK == TypeOK /\ Kernel => TypeOK'
<1> SUFFICES ASSUME TypeOK, NEW p \in Pid,
                    Spawn(p) \/ Exit(p) \/ Reap(p) \/ Resize(p)
             PROVE  TypeOK'
  BY DEF Kernel
<1>1. changes' \in 0..MaxChanges
  BY ConstantTypes DEF TypeOK, KernelStep, Spawn, Exit, Reap, Resize
<1>2. procs \in [Pid -> Process \cup {None}]
  BY DEF TypeOK
<1>3. ASSUME NEW proc \in Process \cup {None},
             procs' = [procs EXCEPT ![p] = proc]
      PROVE  procs' \in [Pid -> Process \cup {None}]
  BY <1>2, <1>3
<1>4. procs' \in [Pid -> Process \cup {None}]
  <2>1. CASE Spawn(p)
    <3>1. PICK prog \in Programs :
            \E parent \in IF prog.kthread THEN {2}
                          ELSE {1} \cup {q \in Pid \ {2} : Alive(q)} :
              procs' = [procs EXCEPT ![p] =
                [name |-> changes + 1, ppid |-> parent, owner |-> prog.owner,
                 kthread |-> prog.kthread, zombie |-> FALSE,
                 pages |-> prog.pages]]
      BY <2>1 DEF Spawn
    <3>2. PICK parent \in Nat :
            procs' = [procs EXCEPT ![p] =
              [name |-> changes + 1, ppid |-> parent, owner |-> prog.owner,
               kthread |-> prog.kthread, zombie |-> FALSE,
               pages |-> prog.pages]]
      BY <3>1, ConstantTypes
    <3>3. changes + 1 \in Nat
      BY ConstantTypes DEF TypeOK
    <3> QED BY <1>3, <3>2, <3>3, SpawnedType
  <2>2. CASE Exit(p)
    <3>1. \A q \in Pid : procs[q] # None => procs[q] \in Process
      BY <1>2
    <3>2. \A q \in Pid : procs[q] # None =>
            /\ [procs[q] EXCEPT !.ppid = 1] \in Process
            /\ [procs[q] EXCEPT !.zombie = TRUE, !.pages = 0] \in Process
      BY <3>1, ConstantTypes DEF Process
    <3> QED BY <2>2, <1>2, <3>2 DEF Exit, Alive
  <2>3. CASE Reap(p)
    BY <1>3, <2>3 DEF Reap
  <2>4. CASE Resize(p)
    <3>1. PICK n \in PageCounts : procs' = [procs EXCEPT ![p].pages = n]
      BY <2>4 DEF Resize
    <3>2. procs[p] \in Process
      BY <2>4, <1>2 DEF Resize, Alive
    <3>3. [procs[p] EXCEPT !.pages = n] \in Process
      BY <3>2 DEF Process
    <3> QED BY <1>3, <3>1, <3>3
  <2> QED BY <2>1, <2>2, <2>3, <2>4
<1>5. UNCHANGED <<config, run, stop, pc, cursor, cfg, pids, cache, metrics,
                  events, tracked>>
  BY DEF KernelStep, Spawn, Exit, Reap, Resize
<1> QED BY <1>1, <1>4, <1>5 DEF TypeOK

\* Calls of start, stop and update_filter keep the types.
LEMMA ClientTypeOK == TypeOK /\ Client => TypeOK'
<1> SUFFICES ASSUME TypeOK, Client PROVE TypeOK'
  OBVIOUS
<1> USE ConstantTypes DEF TypeOK, kernelVars, scanVars, Locations
<1>1. CASE Start
  <2>0. run \in 0..MaxRuns /\ run < MaxRuns /\ run' = run + 1
    BY <1>1 DEF Start
  <2>1. run' \in 0..MaxRuns /\ stop' \in BOOLEAN /\ pc' \in Locations
    <3>1. run' \in 0..MaxRuns
      BY <2>0, MaxRuns \in Nat
    <3> QED BY <1>1, <3>1 DEF Start
  <2>2. /\ cache' \in [Pid -> Entry \cup {None}]
        /\ events' \in Seq(Event)
    BY <1>1 DEF Start
  <2> QED BY <1>1, <2>1, <2>2 DEF Start
<1>2. CASE RequestStop
  BY <1>2 DEF RequestStop
<1>3. CASE \E c \in Configs : UpdateFilter(c)
  BY <1>3 DEF UpdateFilter
<1> QED BY <1>1, <1>2, <1>3 DEF Client

\* The scan's steps change pids, cursor, cfg and pc, and clear events.
ScanStep ==
  BeginSweep \/ ScanFails \/ ExitLoop \/ ReadDir \/ EndOfDir \/ Stat \/ Status

\* The steps of the sweep that neither add an event nor change the cache.
QuietStep ==
  EvictDone \/ MetricsFail \/ Cold \/ MetaFail \/ Dispatch \/ CallbackReturns
  \/ WakeUp

\* The steps that add an event, or may.
ReportStep == Evict \/ Warm \/ Discover

\* A step of run() is one of these four sorts.
LEMMA WorkerSteps == Worker <=> ScanStep \/ QuietStep \/ ReportStep \/ Consume
BY DEF Worker, ScanStep, QuietStep, ReportStep

\* The steps of scan_pids keep the types.
LEMMA ScanTypeOK ==
  ASSUME TypeOK, pc \in {"stat", "status"} => cursor \in Pid, ScanStep
  PROVE  TypeOK'
<1>1. pc' \in Locations
  BY DEF ScanStep, BeginSweep, ScanFails, ExitLoop, ReadDir, EndOfDir, Stat,
         Status, Accept, Reject, Locations
<1>2. cursor' \in Pid \cup {0} /\ cfg' \in FilterConfig
  BY DEF TypeOK, scanVars, ScanStep, BeginSweep, ScanFails, ExitLoop, ReadDir,
         EndOfDir, Stat, Status, Listed
<1>3. pids' \in Seq(Pid)
  <2>1. pids \in Seq(Pid)
    BY DEF TypeOK
  <2>2. cursor \in Pid => Append(pids, cursor) \in Seq(Pid)
    BY <2>1, AppendProperties
  <2>3. <<>> \in Seq(Pid)
    OBVIOUS
  <2> QED
    BY <2>1, <2>2, <2>3 DEF scanVars, ScanStep, BeginSweep, ScanFails,
       ExitLoop, ReadDir, EndOfDir, Stat, Status, Accept, Reject
<1>4. events' \in Seq(Event)
  <2>1. events' \in {events, <<>>}
    BY DEF ScanStep, BeginSweep, ScanFails, ExitLoop, ReadDir, EndOfDir, Stat,
           Status
  <2>2. <<>> \in Seq(Event) /\ events \in Seq(Event)
    BY DEF TypeOK
  <2> QED BY <2>1, <2>2
<1>5. UNCHANGED <<kernelVars, run, stop, cache, metrics, tracked>>
  BY DEF WorkerStep, ScanStep, BeginSweep, ScanFails, ExitLoop, ReadDir,
         EndOfDir, Stat, Status
<1> QED BY <1>1, <1>2, <1>3, <1>4, <1>5 DEF TypeOK, kernelVars

\* A sequence with a first element: that element and the rest.
LEMMA HeadTail ==
  ASSUME NEW S, NEW s \in Seq(S), s # <<>>
  PROVE  Head(s) \in S /\ Tail(s) \in Seq(S)
BY HeadTailProperties

\* In "meta" there is a pid to go on with.
LEMMA QuietTypeOK ==
  ASSUME TypeOK, pc = "meta" => pids # <<>>, QuietStep
  PROVE  TypeOK'
<1>1. pc' \in Locations
  BY DEF QuietStep, EvictDone, MetricsFail, Cold, MetaFail, Dispatch,
         CallbackReturns, WakeUp, NextPid, Locations
<1>2. pids' \in Seq(Pid)
  <2>1. pids \in Seq(Pid)
    BY DEF TypeOK
  <2>2. pids # <<>> => Tail(pids) \in Seq(Pid)
    BY <2>1, HeadTail
  <2> QED
    BY <2>1, <2>2 DEF scanVars, QuietStep, EvictDone, MetricsFail, Cold,
       MetaFail, Dispatch, CallbackReturns, WakeUp, NextPid
<1>3. metrics' \in PageCounts
  <2>1. CASE Cold
    <3>1. Head(pids) \in Pid
      BY <2>1, HeadTail DEF Cold, TypeOK
    <3>2. procs[Head(pids)] \in Process
      BY <2>1, <3>1 DEF Cold, CanRead, TypeOK
    <3> QED BY <2>1, <3>2 DEF Cold, Process
  <2>2. CASE ~Cold
    BY <2>2 DEF TypeOK, QuietStep, EvictDone, MetricsFail, MetaFail, Dispatch,
       CallbackReturns, WakeUp
  <2> QED BY <2>1, <2>2
<1>4. UNCHANGED <<kernelVars, run, stop, cursor, cfg, cache, events, tracked>>
  BY DEF WorkerStep, scanVars, QuietStep, EvictDone, MetricsFail, Cold,
         MetaFail, Dispatch, CallbackReturns, WakeUp
<1> QED BY <1>1, <1>2, <1>3, <1>4 DEF TypeOK, kernelVars

\* What a step that adds an event does: ev is about the pid p whose cache
\* entry becomes entry.
Reports(p, entry, ev) ==
  /\ cache' = [cache EXCEPT ![p] = entry]
  /\ events' = Append(events, ev)
  /\ UNCHANGED <<kernelVars, run, stop, cursor, cfg, metrics, tracked>>

\* An entry that is evicted.
LEMMA EvictReports ==
  ASSUME TypeOK, Evict
  PROVE  \E p \in Stale :
           /\ cache[p] \in Entry
           /\ Reports(p, None, [kind |-> "Terminated", pid |-> p,
                info |-> [name |-> cache[p].name, ppid |-> cache[p].ppid,
                          mem |-> 0]])
           /\ UNCHANGED <<pids, pc>>
BY DEF Evict, Push, Reports, TypeOK, Stale, WorkerStep, scanVars

\* A process seen before: nothing to report, or new memory.
LEMMA WarmReports ==
  ASSUME TypeOK, Warm
  PROVE  /\ pc = "metrics" /\ pids # <<>> /\ NextPid
         /\ Head(pids) \in Pid /\ cache[Head(pids)] \in Entry
         /\ \/ UNCHANGED <<kernelVars, run, stop, cursor, cfg, cache, metrics,
                           events, tracked>>
            \/ \E n \in PageCounts \ {cache[Head(pids)].pages} :
                 LET entry == [cache[Head(pids)] EXCEPT !.pages = n]
                 IN /\ entry \in Entry
                    /\ Reports(Head(pids), entry,
                         [kind |-> "Updated", pid |-> Head(pids),
                          info |-> InfoOf(entry)])
<1>1. Head(pids) \in Pid
  BY HeadTail DEF Warm, TypeOK
<1>2. /\ cache[Head(pids)] \in Entry
      /\ procs[Head(pids)] \in Process
  BY <1>1 DEF Warm, CanRead, TypeOK
<1>3. procs[Head(pids)].pages \in PageCounts
  BY <1>2 DEF Process
<1> DEFINE entry == [cache[Head(pids)] EXCEPT !.pages = procs[Head(pids)].pages]
<1>4. entry \in Entry /\ entry.pages = procs[Head(pids)].pages
  BY <1>2, <1>3 DEF Entry
<1> QED BY <1>1, <1>2, <1>3, <1>4
        DEF Warm, NextPid, Differs, Push, Reports, WorkerStep

\* A process seen for the first time.
LEMMA DiscoverReports ==
  ASSUME TypeOK, pc = "meta" => pids # <<>>, Discover
  PROVE  /\ pc = "meta" /\ pids # <<>> /\ NextPid /\ Head(pids) \in Pid
         /\ \E entry \in Entry :
              Reports(Head(pids), entry,
                [kind |-> "Created", pid |-> Head(pids),
                 info |-> InfoOf(entry)])
<1>1. Head(pids) \in Pid
  BY HeadTail DEF Discover, TypeOK
<1>2. procs[Head(pids)] \in Process /\ metrics \in PageCounts
  BY <1>1 DEF Discover, CanRead, TypeOK
<1>3. [name |-> procs[Head(pids)].name, ppid |-> procs[Head(pids)].ppid,
       pages |-> metrics] \in Entry
  BY <1>2 DEF Process, Entry
<1> QED BY <1>1, <1>3 DEF Discover, NextPid, Push, Reports, WorkerStep

\* What the three have in common.
LEMMA ReportTypeOK ==
  ASSUME TypeOK, pc = "meta" => pids # <<>>, ReportStep
  PROVE  TypeOK'
<1>1. pc' \in Locations
  BY DEF TypeOK, ReportStep, Evict, Warm, Discover, NextPid, Locations
<1>2. pids' \in Seq(Pid)
  <2>1. pids \in Seq(Pid)
    BY DEF TypeOK
  <2>2. pids # <<>> => Tail(pids) \in Seq(Pid)
    BY <2>1, HeadTail
  <2> QED BY <2>1, <2>2 DEF scanVars, ReportStep, Evict, Warm, Discover, NextPid
<1>3. \/ UNCHANGED <<kernelVars, run, stop, cursor, cfg, cache, metrics,
                     events, tracked>>
      \/ \E p \in Pid, entry \in Entry \cup {None}, ev \in Event :
           Reports(p, entry, ev)
  <2>1. CASE Evict
    <3>1. PICK p \in Stale :
            /\ cache[p] \in Entry
            /\ Reports(p, None, [kind |-> "Terminated", pid |-> p,
                 info |-> [name |-> cache[p].name, ppid |-> cache[p].ppid,
                           mem |-> 0]])
      BY <2>1, EvictReports
    <3>2. [kind |-> "Terminated", pid |-> p,
           info |-> [name |-> cache[p].name, ppid |-> cache[p].ppid,
                     mem |-> 0]] \in Event
      BY <3>1 DEF Stale, Event, Info, Entry, Kinds
    <3> QED BY <3>1, <3>2 DEF Stale
  <2>2. CASE Warm
    BY <2>2, WarmReports, InfoOfType DEF Event, Kinds
  <2>3. CASE Discover
    BY <2>3, DiscoverReports, InfoOfType DEF Event, Kinds
  <2> QED BY <2>1, <2>2, <2>3 DEF ReportStep
<1>4. /\ cache' \in [Pid -> Entry \cup {None}]
      /\ events' \in Seq(Event)
      /\ UNCHANGED <<kernelVars, run, stop, cursor, cfg, metrics, tracked>>
  <2>1. \A ev \in Event : Append(events, ev) \in Seq(Event)
    BY AppendProperties DEF TypeOK
  <2> QED BY <1>3, <2>1 DEF Reports, TypeOK
<1> QED BY <1>1, <1>2, <1>4 DEF TypeOK, kernelVars

\* The callback's handling of one event keeps the types.
LEMMA ConsumeTypeOK ==
  ASSUME TypeOK, Consume
  PROVE  TypeOK'
<1>1. Head(events) \in Event /\ Tail(events) \in Seq(Event)
  BY HeadTail DEF TypeOK, Consume
<1>2. \A rows \in Seq(Info), ev \in Event : Apply(rows, ev) \in Seq(Info)
  <2> TAKE rows \in Seq(Info), ev \in Event
  <2>1. ev.info \in Info /\ ev.kind \in Kinds
    BY DEF Event
  <2>2. Append(rows, ev.info) \in Seq(Info) /\ <<>> \in Seq(Info)
    BY <2>1, AppendProperties
  <2>3. rows # <<>> => [rows EXCEPT ![1] = ev.info] \in Seq(Info)
    BY <2>1
  <2> QED BY <2>1, <2>2, <2>3 DEF Apply, Kinds
<1>3. Head(events).pid \in Pid
  BY <1>1 DEF Event
<1>4. tracked' \in [Pid -> Seq(Info)]
  BY <1>1, <1>2, <1>3 DEF Consume, TypeOK
<1> QED BY <1>1, <1>4 DEF Consume, WorkerStep, TypeOK, kernelVars, scanVars

-----------------------------------------------------------------------------
(* The inductive invariant.                                                *)

\* What the worker's location says of its locals: no event outside the sweep
\* and the callback, only evictions in step 1, an uncached pid on the cold
\* path, and a worker's cache that is empty until the worker runs.
Control ==
  /\ pc \in {"exited", "top", "readdir", "stat", "status", "wait"}
       => events = <<>>
  /\ pc = "evict" => \A i \in DOMAIN events : events[i].kind = "Terminated"
  /\ pc = "meta" => pids # <<>> /\ cache[Head(pids)] = None
  /\ pc \in {"stat", "status"} => cursor \in Pid
  /\ run = 0 => pc = "exited" /\ \A p \in Pid : cache[p] = None

IInv == TypeOK /\ Control /\ SweepMeetsPidOnce /\ BatchIsDelta

\* The inductive invariant holds before start().
LEMMA InitIInv == Init => IInv
<1> SUFFICES ASSUME Init PROVE IInv
  OBVIOUS
<1>1. TypeOK
  BY InitTypeOK
<1>2. Control
  BY DEF Init, Control
<1>3. SweepMeetsPidOnce
  BY DEF Init, SweepMeetsPidOnce
<1>4. BatchIsDelta
  BY DEF Init, BatchIsDelta, View
<1> QED BY <1>1, <1>2, <1>3, <1>4 DEF IInv

\* Every step keeps the types.
LEMMA StepTypeOK == IInv /\ [Next]_vars => TypeOK'
<1> SUFFICES ASSUME IInv, [Next]_vars PROVE TypeOK'
  OBVIOUS
<1>0. /\ TypeOK
      /\ pc = "meta" => pids # <<>>
      /\ pc \in {"stat", "status"} => cursor \in Pid
  BY DEF IInv, Control
<1>1. CASE Kernel
  BY <1>0, <1>1, KernelTypeOK
<1>2. CASE Client
  BY <1>0, <1>2, ClientTypeOK
<1>3. CASE ScanStep
  BY <1>0, <1>3, ScanTypeOK
<1>4. CASE QuietStep
  BY <1>0, <1>4, QuietTypeOK
<1>5. CASE ReportStep
  BY <1>0, <1>5, ReportTypeOK
<1>6. CASE Consume
  BY <1>0, <1>6, ConsumeTypeOK
<1>7. CASE UNCHANGED vars
  BY <1>0, <1>7 DEF vars, TypeOK
<1> QED BY <1>1, <1>2, <1>3, <1>4, <1>5, <1>6, <1>7, WorkerSteps DEF Next

\* Steps of the others do not reach what the worker works with.
LEMMA OthersLeaveSweep ==
  ASSUME Kernel \/ RequestStop \/ (\E c \in Configs : UpdateFilter(c))
         \/ UNCHANGED vars
  PROVE  UNCHANGED <<run, pc, cursor, pids, cache, events, tracked>>
BY DEF Kernel, KernelStep, Spawn, Exit, Reap, Resize, RequestStop,
       UpdateFilter, scanVars, vars

\* Every step keeps what is known at the worker's locations.
LEMMA StepControl == IInv /\ [Next]_vars => Control'
<1> SUFFICES ASSUME IInv, [Next]_vars PROVE Control'
  OBVIOUS
<1>0. Control /\ TypeOK
  BY DEF IInv
<1>1. CASE Kernel \/ RequestStop \/ (\E c \in Configs : UpdateFilter(c))
           \/ UNCHANGED vars
  BY <1>0, <1>1, OthersLeaveSweep DEF Control
<1>2. CASE Start
  BY <1>2, ConstantTypes DEF Start, Control, TypeOK, IInv
<1>3. CASE ScanStep
  BY <1>0, <1>3 DEF Control, WorkerStep, scanVars, ScanStep, BeginSweep,
     ScanFails, ExitLoop, ReadDir, EndOfDir, Stat, Status, Accept, Reject,
     Listed
<1>4. CASE QuietStep
  BY <1>0, <1>4 DEF Control, WorkerStep, scanVars, QuietStep, EvictDone,
     MetricsFail, Cold, MetaFail, Dispatch, CallbackReturns, WakeUp, NextPid
<1>5. CASE Evict
  <2>1. PICK p \in Stale, ev \in Event :
          /\ ev.kind = "Terminated"
          /\ events' = Append(events, ev)
          /\ UNCHANGED <<pids, pc, run>> /\ pc = "evict"
    <3>1. PICK p \in Stale :
            /\ cache[p] \in Entry
            /\ Reports(p, None, [kind |-> "Terminated", pid |-> p,
                 info |-> [name |-> cache[p].name, ppid |-> cache[p].ppid,
                           mem |-> 0]])
            /\ UNCHANGED <<pids, pc>>
      BY <1>0, <1>5, EvictReports
    <3>2. [kind |-> "Terminated", pid |-> p,
           info |-> [name |-> cache[p].name, ppid |-> cache[p].ppid,
                     mem |-> 0]] \in Event
      BY <3>1 DEF Stale, Event, Info, Entry, Kinds
    <3> QED BY <3>1, <3>2, <1>5 DEF Reports, Evict
  <2>2. \A i \in DOMAIN events' : events'[i].kind = "Terminated"
    BY <1>0, <2>1 DEF Control, TypeOK
  <2> QED BY <1>0, <2>1, <2>2 DEF Control
<1>6. CASE Warm \/ Discover
  BY <1>0, <1>6 DEF Control, Warm, Discover, NextPid, WorkerStep
<1>7. CASE Consume
  BY <1>0, <1>7 DEF Control, Consume, WorkerStep, scanVars
<1> QED BY <1>1, <1>2, <1>3, <1>4, <1>5, <1>6, <1>7, WorkerSteps
        DEF Next, Client, ReportStep

-----------------------------------------------------------------------------
(* The order of the scan.                                                  *)

Increasing(s) == \A i, j \in DOMAIN s : i < j => s[i] < s[j]

\* The tail of an increasing sequence is increasing and without its head.
LEMMA IncreasingTail ==
  ASSUME NEW s \in Seq(Nat), s # <<>>, Increasing(s)
  PROVE  /\ Increasing(Tail(s))
         /\ Range(Tail(s)) \subseteq Range(s) \ {Head(s)}
<1>1. /\ Len(s) \in Nat \ {0} /\ Len(Tail(s)) = Len(s) - 1
      /\ \A i \in 1..Len(s) - 1 : Tail(s)[i] = s[i + 1]
      /\ DOMAIN s = 1..Len(s) /\ DOMAIN Tail(s) = 1..Len(s) - 1
      /\ Head(s) = s[1]
  BY HeadTailProperties
<1>2. Increasing(Tail(s))
  BY <1>1 DEF Increasing
<1>3. ASSUME NEW i \in DOMAIN Tail(s)
      PROVE  Tail(s)[i] \in Range(s) \ {Head(s)}
  <2>1. i + 1 \in DOMAIN s /\ 1 \in DOMAIN s /\ 1 < i + 1
    BY <1>1
  <2>2. s[1] < s[i + 1]
    BY <2>1 DEF Increasing
  <2>3. s[1] \in Nat /\ s[i + 1] \in Nat
    BY <2>1
  <2> QED BY <1>1, <2>1, <2>2, <2>3 DEF Range
<1> QED BY <1>2, <1>3 DEF Range

\* An increasing sequence may be extended by a larger number.
LEMMA IncreasingAppend ==
  ASSUME NEW s \in Seq(Nat), NEW p \in Nat, Increasing(s),
         \A i \in DOMAIN s : s[i] < p
  PROVE  /\ Increasing(Append(s, p))
         /\ \A i \in DOMAIN Append(s, p) : Append(s, p)[i] <= p
<1>1. /\ Len(Append(s, p)) = Len(s) + 1 /\ Len(s) \in Nat
      /\ DOMAIN s = 1..Len(s) /\ DOMAIN Append(s, p) = 1..Len(s) + 1
      /\ \A i \in 1..Len(s) : Append(s, p)[i] = s[i]
      /\ Append(s, p)[Len(s) + 1] = p
  BY AppendProperties
<1>2. \A i \in 1..Len(s) : s[i] \in Nat
  BY <1>1
<1> QED BY <1>1, <1>2 DEF Increasing

\* The parts of SweepMeetsPidOnce.
Behind ==
  pc \in {"readdir", "stat", "status"} =>
    /\ events = <<>>
    /\ \A i \in DOMAIN pids :
         IF pc = "readdir" THEN pids[i] <= cursor ELSE pids[i] < cursor
Ahead ==
  pc \in {"evict", "metrics", "meta"} =>
    \A i \in DOMAIN events : events[i].pid \notin Range(pids)

\* SweepMeetsPidOnce, part by part.
LEMMA SweepParts == SweepMeetsPidOnce <=> Increasing(pids) /\ Behind /\ Ahead
BY DEF SweepMeetsPidOnce, Increasing, Behind, Ahead

\* The listed pids are numbers.
LEMMA PidsNat == TypeOK => pids \in Seq(Nat)
<1>1. Pid \subseteq Nat
  BY ConstantTypes
<1> QED BY <1>1, SeqMonotonic DEF TypeOK

\* scan_pids lists the pids in increasing order.
LEMMA ScanSweep == IInv /\ ScanStep => SweepMeetsPidOnce'
<1> SUFFICES ASSUME IInv, ScanStep PROVE SweepMeetsPidOnce'
  OBVIOUS
<1>0. TypeOK /\ Control /\ Increasing(pids) /\ Behind /\ Ahead
  BY SweepParts DEF IInv
<1>1. CASE BeginSweep
  BY <1>0, <1>1 DEF SweepMeetsPidOnce, BeginSweep, Control
<1>2. CASE ScanFails \/ ExitLoop
  BY <1>0, <1>2 DEF SweepMeetsPidOnce, Increasing, ScanFails, ExitLoop, scanVars
<1>3. CASE ReadDir
  <2>1. PICK p \in Pid : p > cursor /\ cursor' = p
    BY <1>3 DEF ReadDir, Listed
  <2>2. \A i \in DOMAIN pids : pids[i] \in Nat /\ pids[i] <= cursor
    BY <1>0, <1>3, PidsNat DEF Behind, ReadDir
  <2>3. cursor \in Nat /\ p \in Nat
    BY <1>0, ConstantTypes DEF TypeOK
  <2>4. \A i \in DOMAIN pids : pids[i] < p
    BY <2>1, <2>2, <2>3
  <2> QED BY <1>0, <1>3, <2>1, <2>4
          DEF SweepMeetsPidOnce, Increasing, Behind, ReadDir
<1>4. CASE EndOfDir
  BY <1>0, <1>4 DEF SweepMeetsPidOnce, Increasing, EndOfDir, scanVars
<1>5. CASE Stat \/ Status
  <2>1. /\ cursor \in Nat /\ \A i \in DOMAIN pids : pids[i] < cursor
        /\ events = <<>>
    BY <1>0, <1>5, ConstantTypes DEF Control, Behind, Stat, Status
  <2>2. UNCHANGED <<cursor, events>>
    BY <1>5 DEF Stat, Status
  <2>3. CASE Accept
    <3>1. /\ Increasing(Append(pids, cursor))
          /\ \A i \in DOMAIN Append(pids, cursor) :
               Append(pids, cursor)[i] <= cursor
      BY <1>0, <2>1, PidsNat, IncreasingAppend
    <3> QED BY <2>1, <2>2, <2>3, <3>1
            DEF Accept, SweepMeetsPidOnce, Increasing
  <2>4. CASE UNCHANGED pids /\ pc' \in {"readdir", "status"}
    <3>1. \A i \in DOMAIN pids : pids[i] <= cursor
      BY <1>0, <2>1, PidsNat
    <3> QED BY <1>0, <2>1, <2>2, <2>4, <3>1 DEF SweepMeetsPidOnce, Increasing
  <2> QED BY <1>5, <2>3, <2>4 DEF Stat, Status, Reject
<1> QED BY <1>1, <1>2, <1>3, <1>4, <1>5 DEF ScanStep

\* Going on with the next pid leaves the pids behind it.
LEMMA NextPidSweep ==
  ASSUME TypeOK, pids # <<>>, Increasing(pids), NextPid
  PROVE  /\ Increasing(pids') /\ pc' = "metrics"
         /\ Range(pids') \subseteq Range(pids) \ {Head(pids)}
BY PidsNat, IncreasingTail DEF NextPid

\* A step of the sweep without an event meets no pid twice.
LEMMA QuietSweep == IInv /\ QuietStep => SweepMeetsPidOnce'
<1> SUFFICES ASSUME IInv, QuietStep PROVE SweepMeetsPidOnce'
  OBVIOUS
<1>0. TypeOK /\ Control /\ Increasing(pids) /\ Behind /\ Ahead
  BY SweepParts DEF IInv
<1>1. CASE MetricsFail \/ MetaFail
  <2>1. pids # <<>> /\ NextPid /\ UNCHANGED events
        /\ pc \in {"metrics", "meta"}
    BY <1>0, <1>1 DEF MetricsFail, MetaFail, Control
  <2>2. Increasing(pids') /\ pc' = "metrics" /\ Range(pids') \subseteq Range(pids)
    BY <1>0, <2>1, NextPidSweep
  <2> QED BY <1>0, <2>1, <2>2 DEF SweepMeetsPidOnce, Increasing, Ahead
<1>2. CASE EvictDone \/ Cold \/ Dispatch \/ CallbackReturns \/ WakeUp
  BY <1>0, <1>2 DEF SweepMeetsPidOnce, Increasing, Ahead, EvictDone, Cold,
     Dispatch, CallbackReturns, WakeUp, scanVars
<1> QED BY <1>1, <1>2 DEF QuietStep

\* The pids with an event, after another one was added.
LEMMA PushedPids ==
  ASSUME TypeOK, NEW ev \in Event, events' = Append(events, ev)
  PROVE  \A i \in DOMAIN events' :
           \/ i \in DOMAIN events /\ events'[i] = events[i]
           \/ i = Len(events) + 1 /\ events'[i] = ev
BY AppendProperties DEF TypeOK

\* An event is about a pid that step 2 of the sweep will not meet again.
LEMMA ReportSweep == IInv /\ ReportStep => SweepMeetsPidOnce'
<1> SUFFICES ASSUME IInv, ReportStep PROVE SweepMeetsPidOnce'
  OBVIOUS
<1>0. TypeOK /\ Control /\ Increasing(pids) /\ Behind /\ Ahead
  BY SweepParts DEF IInv
<1>1. CASE Evict
  <2>1. PICK p \in Stale, ev \in Event :
          /\ ev.pid = p /\ events' = Append(events, ev)
          /\ UNCHANGED <<pids, pc>> /\ pc = "evict"
    <3>1. PICK p \in Stale :
            /\ cache[p] \in Entry
            /\ Reports(p, None, [kind |-> "Terminated", pid |-> p,
                 info |-> [name |-> cache[p].name, ppid |-> cache[p].ppid,
                           mem |-> 0]])
            /\ UNCHANGED <<pids, pc>>
      BY <1>0, <1>1, EvictReports
    <3>2. [kind |-> "Terminated", pid |-> p,
           info |-> [name |-> cache[p].name, ppid |-> cache[p].ppid,
                     mem |-> 0]] \in Event
      BY <3>1 DEF Stale, Event, Info, Entry, Kinds
    <3> QED BY <3>1, <3>2, <1>1 DEF Reports, Evict
  <2>2. \A i \in DOMAIN events' : events'[i].pid \notin Range(pids)
    BY <1>0, <2>1, PushedPids DEF Ahead, Stale
  <2> QED BY <1>0, <2>1, <2>2 DEF SweepMeetsPidOnce, Increasing, Range
<1>2. CASE Warm \/ Discover
  <2>1. /\ pids # <<>> /\ NextPid /\ pc \in {"metrics", "meta"}
        /\ \/ UNCHANGED events
           \/ \E ev \in Event : /\ ev.pid = Head(pids)
                                /\ events' = Append(events, ev)
    BY <1>0, <1>2, WarmReports, DiscoverReports, InfoOfType
    DEF Control, Reports, Event, Kinds
  <2>2. /\ Increasing(pids') /\ pc' = "metrics"
        /\ Range(pids') \subseteq Range(pids) \ {Head(pids)}
    BY <1>0, <2>1, NextPidSweep
  <2>3. \A i \in DOMAIN events' : events'[i].pid \notin Range(pids')
    BY <1>0, <2>1, <2>2, PushedPids DEF Ahead
  <2> QED BY <2>2, <2>3 DEF SweepMeetsPidOnce, Increasing, Range
<1> QED BY <1>1, <1>2 DEF ReportStep

\* Every step keeps SweepMeetsPidOnce.
LEMMA StepSweep == IInv /\ [Next]_vars => SweepMeetsPidOnce'
<1> SUFFICES ASSUME IInv, [Next]_vars PROVE SweepMeetsPidOnce'
  OBVIOUS
<1>1. CASE Kernel \/ RequestStop \/ (\E c \in Configs : UpdateFilter(c))
           \/ UNCHANGED vars
  BY <1>1, OthersLeaveSweep DEF IInv, SweepMeetsPidOnce, Range
<1>2. CASE Start
  BY <1>2 DEF IInv, SweepMeetsPidOnce, Start, scanVars
<1>3. CASE Consume
  BY <1>3 DEF IInv, SweepMeetsPidOnce, Consume, scanVars
<1> QED BY <1>1, <1>2, <1>3, ScanSweep, QuietSweep, ReportSweep, WorkerSteps
        DEF Next, Client

-----------------------------------------------------------------------------
(* The batch.                                                              *)

\* The two readings of a page count differ in bytes as they do in pages.
LEMMA NewMemory ==
  ASSUME NEW e \in Entry, NEW n \in PageCounts \ {e.pages}
  PROVE  LET old == InfoOf(e)
             new == InfoOf([e EXCEPT !.pages = n])
         IN old.mem # new.mem /\ new = [old EXCEPT !.mem = new.mem]
<1>1. e.pages \in PageCounts /\ e.pages # n
  BY DEF Entry
<1>2. Bytes(e.pages) # Bytes(n)
  BY <1>1, BytesInjective
<1> QED BY <1>2 DEF InfoOf, Entry

\* An event about p that agrees with the new entry and with the rows is the
\* delta of a pid that had none.
LEMMA ReportBatch ==
  ASSUME TypeOK, BatchIsDelta,
         NEW p \in Pid, NEW entry \in Entry \cup {None}, NEW ev \in Event,
         ev.pid = p, Reports(p, entry, ev),
         \A i \in DOMAIN events : events[i].pid # p,
         ev.kind = "Terminated" => entry = None,
         ev.kind # "Terminated" => entry # None /\ ev.info = InfoOf(entry),
         run <= 1 => RowsAgree(ev)
  PROVE  BatchIsDelta'
<1>1. /\ events' = Append(events, ev) /\ UNCHANGED <<run, tracked>>
      /\ cache'[p] = entry
      /\ \A q \in Pid \ {p} : cache'[q] = cache[q]
  BY DEF Reports, TypeOK
<1>2. /\ Len(events) \in Nat /\ DOMAIN events = 1..Len(events)
      /\ DOMAIN events' = 1..Len(events) + 1
      /\ \A i \in DOMAIN events : events'[i] = events[i]
      /\ events'[Len(events) + 1] = ev
  BY <1>1, AppendProperties DEF TypeOK
<1>3. \A i \in DOMAIN events : events[i] \in Event /\ events[i].pid \in Pid \ {p}
  <2>1. \A i \in DOMAIN events : events[i] \in Event
    BY <1>2 DEF TypeOK
  <2> QED BY <2>1 DEF Event
<1>4. \A i, j \in DOMAIN events' : events'[i].pid = events'[j].pid => i = j
  BY <1>2, <1>3 DEF BatchIsDelta
<1>5. \A i \in DOMAIN events' : CacheAgrees(events[i])'
  <2> TAKE i \in DOMAIN events'
  <2>1. CASE i = Len(events) + 1
    BY <1>1, <1>2, <2>1 DEF CacheAgrees, InfoOf, Bytes
  <2>2. CASE i \in DOMAIN events
    <3>1. events'[i] = events[i] /\ CacheAgrees(events[i])
      BY <1>2, <2>2 DEF BatchIsDelta
    <3>2. cache'[events[i].pid] = cache[events[i].pid]
      BY <1>1, <1>3, <2>2
    <3> QED BY <3>1, <3>2 DEF CacheAgrees, InfoOf, Bytes
  <2> QED BY <1>2, <2>1, <2>2
<1>6. ASSUME run' <= 1, NEW i \in DOMAIN events' PROVE RowsAgree(events[i])'
  <2>1. CASE i = Len(events) + 1
    BY <1>1, <1>2, <1>6, <2>1 DEF RowsAgree
  <2>2. CASE i \in DOMAIN events
    <3>1. events'[i] = events[i] /\ RowsAgree(events[i])
      BY <1>1, <1>2, <1>6, <2>2 DEF BatchIsDelta
    <3> QED BY <1>1, <3>1 DEF RowsAgree
  <2> QED BY <1>2, <2>1, <2>2
<1>7. ASSUME run' <= 1, NEW q \in Pid, \A i \in DOMAIN events' : events'[i].pid # q
      PROVE  View(cache[q])' = tracked'[q]
  <2>1. q # p /\ \A i \in DOMAIN events : events[i].pid # q
    BY <1>2, <1>7
  <2> QED BY <1>1, <1>7, <2>1 DEF BatchIsDelta, View, InfoOf, Bytes
<1> QED BY <1>4, <1>5, <1>6, <1>7 DEF BatchIsDelta

\* A pid without an event has the rows of its cache entry.
LEMMA EvictBatch == IInv /\ Evict => BatchIsDelta'
<1> SUFFICES ASSUME IInv, Evict PROVE BatchIsDelta'
  OBVIOUS
<1>0. TypeOK /\ Control /\ BatchIsDelta
  BY DEF IInv
<1>1. PICK p \in Stale :
        /\ cache[p] \in Entry
        /\ Reports(p, None, [kind |-> "Terminated", pid |-> p,
             info |-> [name |-> cache[p].name, ppid |-> cache[p].ppid,
                       mem |-> 0]])
  BY <1>0, EvictReports
<1> DEFINE ev == [kind |-> "Terminated", pid |-> p,
                  info |-> [name |-> cache[p].name, ppid |-> cache[p].ppid,
                            mem |-> 0]]
<1>2. ev \in Event /\ ev.pid = p /\ ev.kind = "Terminated"
  BY <1>1 DEF Stale, Event, Info, Entry, Kinds
<1>3. p \in Pid /\ cache[p] # None
  BY DEF Stale
<1>4. \A i \in DOMAIN events : events[i].pid # p
  <2> SUFFICES ASSUME NEW i \in DOMAIN events PROVE events[i].pid # p
    OBVIOUS
  <2>1. CacheAgrees(events[i]) /\ events[i].kind = "Terminated"
    BY <1>0 DEF BatchIsDelta, Control, Evict
  <2> QED BY <1>3, <2>1 DEF CacheAgrees
<1>5. run <= 1 => RowsAgree(ev)
  <2> SUFFICES ASSUME run <= 1 PROVE RowsAgree(ev)
    OBVIOUS
  <2>1. tracked[p] = View(cache[p])
    BY <1>0, <1>3, <1>4 DEF BatchIsDelta
  <2>2. Len(tracked[p]) = 1
    BY <1>3, <2>1 DEF View
  <2> QED BY <1>2, <2>2 DEF RowsAgree
<1> HIDE DEF ev
<1>6. Reports(p, None, ev)
  BY <1>1 DEF ev
<1> QED BY <1>0, <1>2, <1>3, <1>4, <1>5, <1>6, ReportBatch

\* The pid at hand has no event yet.
LEMMA HeadHasNoEvent ==
  ASSUME SweepMeetsPidOnce, TypeOK, pc \in {"metrics", "meta"}, pids # <<>>
  PROVE  \A i \in DOMAIN events : events[i].pid # Head(pids)
<1>1. 1 \in DOMAIN pids /\ Head(pids) = pids[1]
  BY HeadTailProperties DEF TypeOK
<1>2. Head(pids) \in Range(pids)
  BY <1>1 DEF Range
<1> QED BY <1>2 DEF SweepMeetsPidOnce

\* An Updated event of the warm path is the delta of its pid.
LEMMA WarmBatch == IInv /\ Warm => BatchIsDelta'
<1> SUFFICES ASSUME IInv, Warm PROVE BatchIsDelta'
  OBVIOUS
<1>0. TypeOK /\ Control /\ BatchIsDelta /\ SweepMeetsPidOnce
  BY DEF IInv
<1> DEFINE p == Head(pids)
<1>1. /\ pc = "metrics" /\ pids # <<>> /\ p \in Pid /\ cache[p] \in Entry
  BY <1>0, WarmReports
<1>2. CASE UNCHANGED <<kernelVars, run, stop, cursor, cfg, cache, metrics,
                       events, tracked>>
  BY <1>0, <1>2 DEF BatchIsDelta, CacheAgrees, RowsAgree, View, InfoOf, Bytes
<1>3. CASE \E n \in PageCounts \ {cache[p].pages} :
             LET entry == [cache[p] EXCEPT !.pages = n]
             IN /\ entry \in Entry
                /\ Reports(p, entry, [kind |-> "Updated", pid |-> p,
                                      info |-> InfoOf(entry)])
  <2>1. PICK n \in PageCounts \ {cache[p].pages} :
          LET entry == [cache[p] EXCEPT !.pages = n]
          IN /\ entry \in Entry
             /\ Reports(p, entry, [kind |-> "Updated", pid |-> p,
                                   info |-> InfoOf(entry)])
    BY <1>3
  <2> DEFINE entry == [cache[p] EXCEPT !.pages = n]
             ev == [kind |-> "Updated", pid |-> p, info |-> InfoOf(entry)]
  <2>2. entry \in Entry /\ Reports(p, entry, ev)
    BY <2>1
  <2>3. /\ ev \in Event /\ ev.pid = p /\ ev.kind = "Updated"
        /\ ev.info = InfoOf(entry)
    BY <1>1, <2>2, InfoOfType DEF Event, Kinds
  <2>4. entry # None
    BY <2>2, ConstantTypes
  <2>5. \A i \in DOMAIN events : events[i].pid # p
    BY <1>0, <1>1, HeadHasNoEvent
  <2>6. run <= 1 => RowsAgree(ev)
    <3> SUFFICES ASSUME run <= 1 PROVE RowsAgree(ev)
      OBVIOUS
    <3>1. tracked[p] = View(cache[p])
      BY <1>0, <1>1, <2>5 DEF BatchIsDelta
    <3>2. tracked[p] = <<InfoOf(cache[p])>>
      BY <1>1, <3>1, ConstantTypes DEF View
    <3>3. /\ InfoOf(cache[p]).mem # ev.info.mem
          /\ ev.info = [InfoOf(cache[p]) EXCEPT !.mem = ev.info.mem]
      BY <1>1, <2>3, NewMemory
    <3>4. Len(tracked[p]) = 1 /\ tracked[p][1] = InfoOf(cache[p])
      BY <3>2
    <3> HIDE DEF ev
    <3> QED BY <2>3, <3>3, <3>4 DEF RowsAgree
  <2> HIDE DEF ev, entry, p
  <2> QED BY <1>0, <1>1, <2>2, <2>3, <2>4, <2>5, <2>6, ReportBatch
<1> QED BY <1>0, <1>2, <1>3, WarmReports

\* A Created event of the cold path is the delta of its pid.
LEMMA DiscoverBatch == IInv /\ Discover => BatchIsDelta'
<1> SUFFICES ASSUME IInv, Discover PROVE BatchIsDelta'
  OBVIOUS
<1>0. TypeOK /\ Control /\ BatchIsDelta /\ SweepMeetsPidOnce
  BY DEF IInv
<1> DEFINE p == Head(pids)
<1>1. pc = "meta" /\ pids # <<>> /\ p \in Pid /\ cache[p] = None
  BY <1>0, DiscoverReports DEF Control, Discover
<1>2. PICK entry \in Entry :
        Reports(p, entry, [kind |-> "Created", pid |-> p,
                           info |-> InfoOf(entry)])
  BY <1>0, <1>1, DiscoverReports
<1> DEFINE ev == [kind |-> "Created", pid |-> p, info |-> InfoOf(entry)]
<1>3. /\ ev \in Event /\ ev.pid = p /\ ev.kind = "Created"
      /\ ev.info = InfoOf(entry)
  BY <1>1, InfoOfType DEF Event, Kinds
<1>4. entry # None
  BY ConstantTypes
<1>5. \A i \in DOMAIN events : events[i].pid # p
  BY <1>0, <1>1, HeadHasNoEvent
<1>6. run <= 1 => RowsAgree(ev)
  BY <1>0, <1>1, <1>3, <1>5 DEF BatchIsDelta, View, RowsAgree
<1>7. Reports(p, entry, ev)
  BY <1>2
<1> HIDE DEF ev, p
<1> QED BY <1>0, <1>1, <1>3, <1>4, <1>5, <1>6, <1>7, ReportBatch

\* Applying the first event leaves the deltas of the others.
LEMMA ConsumeBatch == IInv /\ Consume => BatchIsDelta'
<1> SUFFICES ASSUME IInv, Consume PROVE BatchIsDelta'
  OBVIOUS
<1>0. TypeOK /\ BatchIsDelta
  BY DEF IInv
<1> DEFINE ev == Head(events)
<1>1. /\ Len(events) \in Nat \ {0} /\ DOMAIN events = 1..Len(events)
      /\ DOMAIN events' = 1..Len(events) - 1
      /\ \A i \in DOMAIN events' : events'[i] = events[i + 1]
      /\ ev = events[1]
  BY <1>0, HeadTailProperties DEF Consume, TypeOK
<1>2. \A i \in DOMAIN events : events[i] \in Event
  BY <1>0, <1>1 DEF TypeOK
<1>3. ev \in Event /\ ev.pid \in Pid /\ ev.kind \in Kinds
  BY <1>1, <1>2 DEF Event
<1>4. /\ \A q \in Pid \ {ev.pid} : tracked'[q] = tracked[q]
      /\ tracked'[ev.pid] = Apply(tracked[ev.pid], ev)
      /\ UNCHANGED <<cache, run>>
  BY <1>0, <1>3 DEF Consume, WorkerStep, TypeOK
<1>5. \A i \in DOMAIN events' :
        i + 1 \in DOMAIN events /\ events[i + 1].pid # ev.pid
  BY <1>0, <1>1 DEF BatchIsDelta
<1>6. \A i, j \in DOMAIN events' : events'[i].pid = events'[j].pid => i = j
  BY <1>0, <1>1, <1>5 DEF BatchIsDelta
<1>7. \A i \in DOMAIN events' : CacheAgrees(events[i])'
  BY <1>0, <1>1, <1>4, <1>5 DEF BatchIsDelta, CacheAgrees, InfoOf, Bytes
<1>8. ASSUME run' <= 1, NEW i \in DOMAIN events' PROVE RowsAgree(events[i])'
  <2>1. RowsAgree(events[i + 1]) /\ events[i + 1].pid \in Pid
    BY <1>0, <1>2, <1>4, <1>5, <1>8 DEF BatchIsDelta, Event
  <2>2. tracked'[events[i + 1].pid] = tracked[events[i + 1].pid]
    BY <1>4, <1>5, <2>1
  <2> QED BY <1>1, <2>1, <2>2 DEF RowsAgree
<1>9. ASSUME run' <= 1, NEW q \in Pid, \A i \in DOMAIN events' : events'[i].pid # q
      PROVE  tracked'[q] = View(cache[q])'
  <2>1. CASE q = ev.pid
    <3>1. CacheAgrees(ev) /\ RowsAgree(ev)
      BY <1>0, <1>1, <1>4, <1>9 DEF BatchIsDelta
    <3>2. ev.kind = "Terminated" => tracked'[q] = <<>> /\ cache[q] = None
      BY <1>4, <2>1, <3>1 DEF Apply, CacheAgrees
    <3>3. ev.kind # "Terminated" =>
            tracked'[q] = <<ev.info>> /\ cache[q] # None
            /\ ev.info = InfoOf(cache[q])
      <4>1. ev.kind = "Created" => tracked'[q] = <<ev.info>>
        <5> SUFFICES ASSUME ev.kind = "Created" PROVE tracked'[q] = <<ev.info>>
          OBVIOUS
        <5>1. tracked[q] = <<>>
          BY <2>1, <3>1 DEF RowsAgree
        <5>2. tracked'[q] = Append(<<>>, ev.info)
          BY <1>4, <2>1, <5>1 DEF Apply
        <5>3. ev.info \in Info
          BY <1>3 DEF Event
        <5> QED BY <5>2, <5>3
      <4>2. ev.kind = "Updated" => tracked'[q] = <<ev.info>>
        <5> SUFFICES ASSUME ev.kind = "Updated" PROVE tracked'[q] = <<ev.info>>
          OBVIOUS
        <5>1. tracked[q] \in Seq(Info) /\ Len(tracked[q]) = 1
          BY <1>0, <2>1, <3>1 DEF TypeOK, RowsAgree
        <5>2. tracked'[q] = [tracked[q] EXCEPT ![1] = ev.info]
          BY <1>4, <2>1, <5>1 DEF Apply
        <5> QED BY <5>1, <5>2
      <4> QED BY <1>3, <2>1, <3>1, <4>1, <4>2 DEF CacheAgrees, Kinds
    <3> QED BY <1>4, <3>2, <3>3 DEF View, InfoOf, Bytes
  <2>2. CASE q # ev.pid
    <3>1. \A i \in DOMAIN events : events[i].pid # q
      <4> SUFFICES ASSUME NEW i \in DOMAIN events, i # 1
                   PROVE  events[i].pid # q
        BY <1>1, <2>2
      <4>1. i - 1 \in DOMAIN events' /\ events'[i - 1] = events[i]
        BY <1>1
      <4> QED BY <1>9, <4>1
    <3> QED BY <1>0, <1>4, <1>9, <2>2, <3>1 DEF BatchIsDelta, View, InfoOf, Bytes
  <2> QED BY <2>1, <2>2
<1> QED BY <1>6, <1>7, <1>8, <1>9 DEF BatchIsDelta

\* Every step keeps BatchIsDelta.
LEMMA StepBatch == IInv /\ [Next]_vars => BatchIsDelta'
<1> SUFFICES ASSUME IInv, [Next]_vars PROVE BatchIsDelta'
  OBVIOUS
<1>0. Control /\ BatchIsDelta
  BY DEF IInv
<1>1. ASSUME UNCHANGED <<run, cache, events, tracked>> PROVE BatchIsDelta'
  BY <1>0, <1>1 DEF BatchIsDelta, CacheAgrees, RowsAgree, View, InfoOf, Bytes
<1>2. CASE Kernel \/ RequestStop \/ (\E c \in Configs : UpdateFilter(c))
           \/ UNCHANGED vars
  BY <1>1, <1>2, OthersLeaveSweep
<1>3. CASE Start
  <2>1. events' = <<>> /\ tracked' = tracked /\ run' = run + 1
        /\ cache' = [p \in Pid |-> None] /\ events = <<>>
    BY <1>0, <1>3 DEF Start, Control
  <2>2. run' <= 1 => run = 0
    BY <2>1, ConstantTypes DEF IInv, TypeOK
  <2>3. run = 0 => \A p \in Pid : tracked[p] = <<>>
    <3> SUFFICES ASSUME run = 0, NEW p \in Pid PROVE tracked[p] = <<>>
      OBVIOUS
    <3>1. tracked[p] = View(cache[p])
      BY <1>0, <2>1 DEF BatchIsDelta
    <3> QED BY <1>0, <3>1 DEF Control, View
  <2>4. run' <= 1 => \A p \in Pid : tracked'[p] = View(cache[p])'
    BY <2>1, <2>2, <2>3 DEF View
  <2> QED BY <2>1, <2>4 DEF BatchIsDelta
<1>4. CASE ScanStep
  BY <1>0, <1>1, <1>4 DEF Control, WorkerStep, ScanStep, BeginSweep,
     ScanFails, ExitLoop, ReadDir, EndOfDir, Stat, Status
<1>5. CASE QuietStep
  BY <1>1, <1>5 DEF WorkerStep, QuietStep, EvictDone, MetricsFail, Cold,
     MetaFail, Dispatch, CallbackReturns, WakeUp
<1> QED BY <1>2, <1>3, <1>4, <1>5, EvictBatch, WarmBatch, DiscoverBatch,
           ConsumeBatch, WorkerSteps DEF Next, Client, ReportStep

-----------------------------------------------------------------------------
(* The theorems.                                                           *)

\* IInv is an invariant: see the lemmas on each of its parts.
THEOREM Inductive == Spec => []IInv
<1>1. Init => IInv
  BY InitIInv
<1>2. IInv /\ [Next]_vars => IInv'
  BY StepTypeOK, StepControl, StepSweep, StepBatch DEF IInv
<1> QED BY <1>1, <1>2, PTL DEF Spec

\* Every variable of the monitor, its worker and its consumer keeps its type.
THEOREM TypeCorrect == Spec => []TypeOK
<1>1. IInv => TypeOK
  BY DEF IInv
<1> QED BY <1>1, Inductive, PTL

\* scan_pids returns every pid once, and a sweep never reports two events
\* about one pid.
THEOREM SweepOnce == Spec => []SweepMeetsPidOnce
<1>1. IInv => SweepMeetsPidOnce
  BY DEF IInv
<1> QED BY <1>1, Inductive, PTL

\* The batch that run collects in events is exactly the difference between
\* the consumer's rows and the cache.
THEOREM BatchCorrect == Spec => []BatchIsDelta
<1>1. IInv => BatchIsDelta
  BY DEF IInv
<1> QED BY <1>1, Inductive, PTL

\* Between the sweeps of the first worker the consumer has the cache's rows.
THEOREM FeedCorrect == Spec => []FeedMatchesCache
<1>1. IInv => FeedMatchesCache
  <2> SUFFICES ASSUME IInv, run <= 1,
                      pc \notin {"evict", "metrics", "meta", "callback"},
                      NEW p \in Pid
               PROVE  tracked[p] = View(cache[p])
    BY DEF FeedMatchesCache
  <2>1. events = <<>>
    BY DEF IInv, TypeOK, Locations, Control
  <2> QED BY <2>1 DEF IInv, BatchIsDelta
<1> QED BY <1>1, Inductive, PTL

\* A monitor that is started once feeds its consumer the changes of a table:
\* the Consume step inserts, modifies or removes one row, every other step
\* leaves the table alone.
THEOREM Refinement == MaxRuns = 1 => (Spec => FeedIsTable)
<1> SUFFICES ASSUME MaxRuns = 1 PROVE Spec => FeedIsTable
  OBVIOUS
<1>1. Init => Feed!Init
  BY DEF Init, Feed!Init, Table
<1>2. IInv /\ [Next]_vars => [Feed!Next]_Table
  <2> SUFFICES ASSUME IInv, [Next]_vars PROVE [Feed!Next]_Table
    OBVIOUS
  <2>1. CASE tracked' = tracked
    BY <2>1 DEF Table
  <2>2. CASE Consume
    <3> DEFINE ev == Head(events)
               p == ev.pid
    <3>1. run <= 1 /\ 1 \in DOMAIN events /\ ev = events[1] /\ ev \in Event
      BY <2>2, HeadTailProperties DEF IInv, TypeOK, Consume
    <3>2. p \in Pid /\ ev.kind \in Kinds /\ ev.info \in Info
      BY <3>1 DEF Event
    <3>3. RowsAgree(ev)
      BY <3>1 DEF IInv, BatchIsDelta
    <3>4. /\ tracked' = [tracked EXCEPT ![p] = Apply(tracked[p], ev)]
          /\ tracked \in [Pid -> Seq(Info)]
      BY <2>2 DEF Consume, IInv, TypeOK
    <3>5. /\ \A q \in Pid \ {p} : Table'[q] = Table[q]
          /\ Table \in [Pid -> Info \cup {None}]
      <4>1. \A q \in Pid \ {p} : Table'[q] = Table[q]
        BY <3>2, <3>4 DEF Table
      <4>2. \A q \in Pid : tracked[q] # <<>> => tracked[q][1] \in Info
        BY <3>4
      <4> QED BY <4>1, <4>2 DEF Table
    <3>6. Table' = [Table EXCEPT ![p] = Table'[p]]
      BY <3>2, <3>5 DEF Table
    <3>7. CASE ev.kind = "Created"
      <4>1. tracked[p] = <<>> /\ tracked'[p] = <<ev.info>>
        <5>1. tracked[p] = <<>>
          BY <3>3, <3>7 DEF RowsAgree
        <5>2. tracked'[p] = Append(<<>>, ev.info)
          BY <3>2, <3>4, <3>7, <5>1 DEF Apply
        <5> HIDE DEF ev, p
        <5> QED BY <3>2, <5>1, <5>2
      <4>2. Table[p] = None /\ Table'[p] = ev.info
        BY <3>2, <4>1 DEF Table
      <4>3. Feed!Insert(p)
        BY <3>2, <3>6, <4>2 DEF Feed!Insert, Feed!OnlyRow
      <4> QED BY <3>2, <4>3 DEF Feed!Next
    <3>8. CASE ev.kind = "Updated"
      <4>1. /\ Len(tracked[p]) = 1 /\ tracked[p] \in Seq(Info)
            /\ tracked[p] # <<>>
            /\ tracked[p][1].mem # ev.info.mem
            /\ ev.info = [tracked[p][1] EXCEPT !.mem = ev.info.mem]
        BY <3>2, <3>3, <3>4, <3>8 DEF RowsAgree
      <4>2. tracked'[p] = [tracked[p] EXCEPT ![1] = ev.info]
        BY <3>2, <3>4, <3>8, <4>1 DEF Apply
      <4>3. tracked'[p] # <<>> /\ tracked'[p][1] = ev.info
        BY <4>1, <4>2
      <4>4. Table[p] = tracked[p][1] /\ Table'[p] = ev.info
        BY <3>2, <4>1, <4>3 DEF Table
      <4>5. Table[p] # None
        BY <3>5, <4>1, <4>4, ConstantTypes
      <4>6. Feed!Modify(p)
        BY <3>2, <3>6, <4>1, <4>4, <4>5 DEF Feed!Modify, Feed!OnlyRow
      <4> QED BY <3>2, <4>6 DEF Feed!Next
    <3>9. CASE ev.kind = "Terminated"
      <4>1. Len(tracked[p]) = 1 /\ tracked'[p] = <<>>
        BY <3>2, <3>3, <3>4, <3>9 DEF RowsAgree, Apply
      <4>2. Table[p] = tracked[p][1] /\ tracked[p][1] \in Info
        BY <3>2, <3>4, <4>1 DEF Table
      <4>3. Table[p] # None /\ Table'[p] = None
        BY <3>2, <4>1, <4>2, ConstantTypes DEF Table
      <4>4. Feed!Remove(p)
        BY <3>6, <4>3 DEF Feed!Remove
      <4> QED BY <3>2, <4>4 DEF Feed!Next
    <3> QED BY <3>2, <3>7, <3>8, <3>9 DEF Kinds
  <2>3. Consume \/ tracked' = tracked
    BY OthersLeaveSweep, WorkerSteps
       DEF Next, Client, Start, ScanStep, BeginSweep, ScanFails, ExitLoop,
           ReadDir, EndOfDir, Stat, Status, QuietStep, EvictDone, MetricsFail,
           Cold, MetaFail, Dispatch, CallbackReturns, WakeUp, ReportStep,
           Evict, Warm, Discover
  <2> QED BY <2>1, <2>2, <2>3
<1> QED BY <1>1, <1>2, Inductive, PTL DEF Spec, FeedIsTable, Feed!Spec

-----------------------------------------------------------------------------
(* When a process is reported as terminated, if listing a process and      *)
(* reading its status do not fail.  The inductive invariant: what is known *)
(* of the pids the scan has passed.                                        *)

\* The configurations a filter may have at any time.
InUse == Configs \cup {DefaultConfig}

ConfigInUse == config \in InUse /\ cfg \in InUse

\* All of them admit the process that has the pid p.
Admitted(p) == \A c \in InUse : Trackable(c, p)

\* Names that are still to be given out.
NewNames == changes + 1..MaxChanges

\* No process and no cache entry has one.
NamesUsed ==
  \A p \in Pid :
    /\ procs[p] # None => procs[p].name \notin NewNames
    /\ cache[p] # None => cache[p].name \notin NewNames

\* The process the cache has for p is gone, or some filter excludes it.
Lost(p) ==
  cache[p] # None => ~(procs[p].name = cache[p].name /\ Admitted(p))

\* Pids whose listing is over.
Passed(p) ==
  \/ pc = "readdir" /\ p <= cursor
  \/ pc \in {"stat", "status"} /\ p < cursor
  \/ pc = "evict"

\* A pid that the scan has passed and not returned is lost, since then or
\* since before.
Judged == \A p \in Pid : Passed(p) /\ p \notin Range(pids) => Lost(p)

SInv == IInv /\ ConfigInUse /\ NamesUsed /\ Judged

-----------------------------------------------------------------------------
(* What the kernel does to one process.                                    *)

\* A later state of the same process: a filter that excludes it still does.
Later(old, new) ==
  /\ new.name = old.name /\ new.owner = old.owner /\ new.kthread = old.kthread
  /\ old.zombie => new.zombie
  /\ old.ppid = 2 => new.ppid = 2

\* A step of the kernel leaves a process, changes it, or spawns a new one.
LEMMA KernelRow ==
  ASSUME TypeOK, Kernel, NEW p \in Pid, procs'[p] # None
  PROVE  \/ /\ procs[p] # None /\ Later(procs[p], procs'[p])
         \/ /\ procs'[p].name = changes + 1 /\ changes < MaxChanges
<1>1. PICK q \in Pid : Spawn(q) \/ Exit(q) \/ Reap(q) \/ Resize(q)
  BY DEF Kernel
<1>2. \A r \in Pid : procs[r] # None => procs[r] \in Process
  BY DEF TypeOK
<1>3. procs \in [Pid -> Process \cup {None}]
  BY DEF TypeOK
<1>4. CASE Spawn(q)
  <2>1. PICK new :
          /\ new.name = changes + 1
          /\ procs' = [procs EXCEPT ![q] = new]
    BY <1>4 DEF Spawn
  <2>2. changes < MaxChanges
    BY <1>4 DEF Spawn, KernelStep
  <2>3. CASE p = q
    BY <2>1, <2>2, <2>3, <1>3
  <2>4. CASE p # q
    BY <2>1, <2>4, <1>3 DEF Later
  <2>. QED
    BY <2>3, <2>4
<1>5. CASE Exit(q)
  <2>1. procs[p] # None
    BY <1>5, <1>3 DEF Exit, Alive
  <2>2. procs[p] \in Process
    BY <2>1, <1>2
  <2>3. q > 2
    BY <1>5 DEF Exit
  <2>4. \/ procs'[p] = [procs[p] EXCEPT !.zombie = TRUE, !.pages = 0]
        \/ procs'[p] = [procs[p] EXCEPT !.ppid = 1] /\ procs[p].ppid = q
        \/ procs'[p] = procs[p]
    BY <1>5, <2>1 DEF Exit
  <2>5. CASE procs'[p] = [procs[p] EXCEPT !.zombie = TRUE, !.pages = 0]
    BY <2>1, <2>2, <2>5 DEF Later, Process
  <2>6. CASE procs'[p] = [procs[p] EXCEPT !.ppid = 1] /\ procs[p].ppid = q
    <3>1. procs[p].ppid # 2
      BY <2>3, <2>6, ConstantTypes
    <3>. QED
      BY <2>1, <2>2, <2>6, <3>1 DEF Later, Process
  <2>7. CASE procs'[p] = procs[p]
    BY <2>1, <2>7 DEF Later
  <2>. QED
    BY <2>4, <2>5, <2>6, <2>7
<1>6. CASE Reap(q)
  BY <1>6, <1>3 DEF Reap, Later
<1>7. CASE Resize(q)
  <2>1. PICK n \in PageCounts : procs' = [procs EXCEPT ![q].pages = n]
    BY <1>7 DEF Resize
  <2>2. procs[q] \in Process
    BY <1>7, <1>2 DEF Resize, Alive
  <2>3. CASE p = q
    BY <2>1, <2>2, <2>3, <1>3, <1>7 DEF Later, Process, Resize, Alive
  <2>4. CASE p # q
    BY <2>1, <2>4, <1>3 DEF Later
  <2>. QED
    BY <2>3, <2>4
<1>. QED
  BY <1>1, <1>4, <1>5, <1>6, <1>7

\* What a filter admits of a later state it admitted before.
LEMMA AdmittedBefore ==
  ASSUME NEW p \in Pid, procs[p] # None, procs'[p] # None,
         Later(procs[p], procs'[p]), Admitted(p)'
  PROVE  Admitted(p)
<1>. SUFFICES ASSUME NEW c \in InUse PROVE Trackable(c, p)
  BY DEF Admitted
<1>1. Trackable(c, p)'
  BY DEF Admitted, InUse
<1>2. /\ p > 1 /\ ~(c.exclude_self /\ p = SelfPid)
      /\ c.only_current_user => procs'[p].owner = OwnerUid
      /\ NeedsStatus(c) =>
           /\ c.exclude_kernel_threads =>
                p # 2 /\ procs'[p].ppid # 2 /\ ~procs'[p].kthread
           /\ c.exclude_zombies => ~procs'[p].zombie
  BY <1>1 DEF Trackable, StatAllows, StatusAllows, NeedsStatus
<1>. QED
  BY <1>2 DEF Later, Trackable, StatAllows, StatusAllows

\* A kernel step finds no lost process again.
LEMMA KernelKeepsLost ==
  ASSUME TypeOK, NamesUsed, Kernel, NEW p \in Pid, Lost(p)
  PROVE  Lost(p)'
<1>1. cache' = cache
  BY OthersLeaveSweep
<1>2. SUFFICES ASSUME cache[p] # None, procs'[p].name = cache[p].name,
                      Admitted(p)'
               PROVE  FALSE
  BY <1>1 DEF Lost
<1>3. procs'[p] # None
  BY <1>2 DEF Admitted, InUse, Trackable, StatAllows
<1>4. CASE procs[p] # None /\ Later(procs[p], procs'[p])
  BY <1>2, <1>3, <1>4, AdmittedBefore DEF Later, Lost
<1>5. CASE procs'[p].name = changes + 1 /\ changes < MaxChanges
  <2>1. changes + 1 \in NewNames
    BY <1>5, ConstantTypes DEF NewNames, TypeOK
  <2>. QED
    BY <1>2, <1>5, <2>1 DEF NamesUsed
<1>. QED
  BY <1>3, <1>4, <1>5, KernelRow

-----------------------------------------------------------------------------
(* Names and configurations.                                               *)

\* Before start() no name was given out.
LEMMA InitSInv == Init => SInv
<1>. SUFFICES ASSUME Init PROVE SInv
  OBVIOUS
<1>1. ConfigInUse
  BY DEF Init, ConfigInUse, InUse
<1>2. NamesUsed
  BY NamesAssumption DEF Init, NamesUsed, NewNames
<1>3. Judged
  BY DEF Init, Judged, Passed
<1>. QED
  BY <1>1, <1>2, <1>3, InitIInv DEF SInv

\* The filter's configuration is the default or was given to update_filter.
LEMMA StepConfig == SInv /\ [Next]_vars => ConfigInUse'
<1>. SUFFICES ASSUME SInv, [Next]_vars PROVE ConfigInUse'
  OBVIOUS
<1>1. config \in InUse /\ cfg \in InUse
  BY DEF SInv, ConfigInUse
<1>2. CASE Kernel \/ UNCHANGED vars
  BY <1>1, <1>2 DEF Kernel, Spawn, Exit, Reap, Resize, KernelStep, vars,
     ConfigInUse, InUse
<1>3. CASE Client
  BY <1>1, <1>3 DEF Client, Start, RequestStop, UpdateFilter, kernelVars,
     scanVars, ConfigInUse, InUse
<1>4. CASE ScanStep
  BY <1>1, <1>4 DEF ScanStep, BeginSweep, ScanFails, ExitLoop, ReadDir,
     EndOfDir, Stat, Status, WorkerStep, kernelVars, scanVars, ConfigInUse,
     InUse
<1>5. CASE QuietStep \/ ReportStep \/ Consume
  BY <1>1, <1>5 DEF QuietStep, EvictDone, MetricsFail, Cold, MetaFail,
     Dispatch, CallbackReturns, WakeUp, ReportStep, Evict, Warm, Discover,
     Consume, WorkerStep, kernelVars, scanVars, ConfigInUse, InUse
<1>. QED
  BY <1>2, <1>3, <1>4, <1>5, WorkerSteps DEF Next

\* A process keeps its name, and a new one gets one that is then used.
LEMMA KernelNames ==
  ASSUME TypeOK, NamesUsed, Kernel
  PROVE  NamesUsed'
<1>1. cache' = cache
  BY OthersLeaveSweep
<1>2. changes' = changes + 1 /\ changes \in Nat /\ MaxChanges \in Nat
  BY ConstantTypes DEF Kernel, Spawn, Exit, Reap, Resize, KernelStep, TypeOK
<1>3. \A n : n \in NewNames' => n \in NewNames /\ n # changes + 1
  BY <1>2 DEF NewNames
<1>4. ASSUME NEW p \in Pid, procs'[p] # None
      PROVE  procs'[p].name \notin NewNames'
  BY <1>3, <1>4, KernelRow DEF NamesUsed, Later
<1>. QED
  BY <1>1, <1>3, <1>4 DEF NamesUsed

\* The worker gives its entries the names of processes.
LEMMA StepNames == SInv /\ [Next]_vars => NamesUsed'
<1>. SUFFICES ASSUME SInv, [Next]_vars PROVE NamesUsed'
  OBVIOUS
<1>0. NamesUsed /\ TypeOK /\ Control
  BY DEF SInv, IInv
<1>1. CASE Kernel
  BY <1>0, <1>1, KernelNames
<1>2. CASE \E c \in Configs : UpdateFilter(c)
  <2>1. changes' = changes + 1 /\ UNCHANGED <<procs, cache>>
    BY <1>2 DEF UpdateFilter
  <2>2. changes \in Nat /\ MaxChanges \in Nat
    BY <1>0, ConstantTypes DEF TypeOK
  <2>3. \A n : n \in NewNames' => n \in NewNames
    BY <2>1, <2>2 DEF NewNames
  <2>. QED
    BY <1>0, <2>1, <2>3 DEF NamesUsed
<1>3. CASE Start
  BY <1>0, <1>3 DEF Start, kernelVars, NamesUsed, NewNames
<1>4. CASE RequestStop \/ ScanStep \/ QuietStep \/ Consume \/ UNCHANGED vars
  <2>1. UNCHANGED <<procs, changes, cache>>
    BY <1>4 DEF RequestStop, ScanStep, BeginSweep, ScanFails, ExitLoop,
       ReadDir, EndOfDir, Stat, Status, QuietStep, EvictDone, MetricsFail,
       Cold, MetaFail, Dispatch, CallbackReturns, WakeUp, Consume,
       WorkerStep, kernelVars, vars
  <2>. QED
    BY <1>0, <2>1 DEF NamesUsed, NewNames
<1>5. CASE ReportStep
  <2>1. UNCHANGED <<procs, changes>>
    BY <1>5 DEF ReportStep, Evict, Warm, Discover, WorkerStep, kernelVars
  <2>2. ASSUME NEW p \in Pid, cache'[p] # None
        PROVE  \/ cache[p] # None /\ cache'[p].name = cache[p].name
               \/ procs[p] # None /\ cache'[p].name = procs[p].name
    <3>. USE <1>0 DEF TypeOK
    <3>1. CASE Evict
      BY <2>2, <3>1 DEF Evict
    <3>2. CASE Warm
      <4>1. Head(pids) \in Pid /\ cache[Head(pids)] \in Entry
        BY <3>2, WarmReports
      <4>2. CASE cache' = cache
        BY <2>2, <4>2
      <4>3. CASE cache' # cache
        <5>1. cache' = [cache EXCEPT ![Head(pids)] =
                [cache[Head(pids)] EXCEPT !.pages = procs[Head(pids)].pages]]
          BY <3>2, <4>3 DEF Warm
        <5>. QED
          BY <5>1, <4>1, <2>2, ConstantTypes DEF Entry
      <4>. QED
        BY <4>2, <4>3
    <3>3. CASE Discover
      <4>1. Head(pids) \in Pid
        BY <3>3, DiscoverReports DEF Control
      <4>. QED
        BY <2>2, <3>3, <4>1 DEF Discover, CanRead
    <3>. QED
      BY <1>5, <3>1, <3>2, <3>3 DEF ReportStep
  <2>3. NewNames' = NewNames
    BY <2>1 DEF NewNames
  <2>. QED
    BY <1>0, <2>1, <2>2, <2>3 DEF NamesUsed
<1>. QED
  BY <1>1, <1>2, <1>3, <1>4, <1>5, WorkerSteps DEF Next, Client

-----------------------------------------------------------------------------
(* The scan.                                                               *)

\* What a step does that the invariant does not look at.
LEMMA SameLost ==
  ASSUME UNCHANGED <<procs, cache>>
  PROVE  \A p \in Pid : Lost(p)' = Lost(p)
BY DEF Lost, Admitted, InUse, Trackable, StatAllows, StatusAllows, NeedsStatus

\* Other threads and the kernel: the scan is where it was.
LEMMA OthersJudged ==
  ASSUME SInv,
         Kernel \/ RequestStop \/ (\E c \in Configs : UpdateFilter(c))
         \/ UNCHANGED vars
  PROVE  Judged'
<1>1. UNCHANGED <<pc, cursor, pids, cache>>
  BY OthersLeaveSweep
<1>2. \A p \in Pid : Passed(p)' = Passed(p) /\ Range(pids)' = Range(pids)
  BY <1>1 DEF Passed
<1>3. \A p \in Pid : Lost(p) => Lost(p)'
  <2>1. CASE Kernel
    BY <2>1, KernelKeepsLost DEF SInv, IInv
  <2>2. CASE ~Kernel
    <3>1. UNCHANGED <<procs, cache>>
      BY <2>2 DEF RequestStop, UpdateFilter, kernelVars, vars
    <3>. QED
      BY <3>1, SameLost
  <2>. QED
    BY <2>1, <2>2
<1>. QED
  BY <1>2, <1>3 DEF SInv, Judged

\* A scan begins in front of the first pid.
LEMMA BeginJudged ==
  ASSUME SInv, BeginSweep \/ ScanFails \/ ExitLoop
  PROVE  Judged'
<1>1. \A p \in Pid : p > 0
  BY ConstantTypes
<1>. QED
  BY <1>1, ConstantTypes DEF BeginSweep, ScanFails, ExitLoop, Judged, Passed

\* Pids that readdir leaves out have no process.
LEMMA ReadDirJudged ==
  ASSUME SInv, ReadDir
  PROVE  Judged'
<1>1. /\ pc = "readdir" /\ pc' = "stat"
      /\ UNCHANGED <<procs, pids, cache>>
  BY DEF ReadDir, WorkerStep, kernelVars
<1>2. cursor' \in Listed /\ \A q \in Listed : cursor' <= q
  BY DEF ReadDir
<1>. SUFFICES ASSUME NEW p \in Pid, p < cursor', p \notin Range(pids)
              PROVE  Lost(p)
  BY <1>1, SameLost DEF Judged, Passed
<1>3. p \in Nat /\ cursor \in Nat /\ cursor' \in Nat
  BY <1>2, ConstantTypes DEF SInv, IInv, TypeOK, Listed
<1>4. CASE p <= cursor
  BY <1>1, <1>4 DEF SInv, Judged, Passed
<1>5. CASE p > cursor
  <2>1. p \notin Listed
    BY <1>2, <1>3
  <2>2. procs[p] = None
    BY <2>1, <1>5 DEF Listed
  <2>. QED
    BY <2>2 DEF Lost, Admitted, InUse, Trackable, StatAllows
<1>. QED
  BY <1>3, <1>4, <1>5

\* Without a failure the listing ends when no pid is left.
LEMMA EndJudged ==
  ASSUME SInv, "readdir" \notin Faults, EndOfDir
  PROVE  Judged'
<1>1. /\ pc = "readdir" /\ pc' = "evict" /\ Listed = {}
      /\ UNCHANGED <<procs, pids, cache>>
  BY DEF EndOfDir, WorkerStep, kernelVars, scanVars
<1>. SUFFICES ASSUME NEW p \in Pid, p \notin Range(pids)
              PROVE  Lost(p)
  BY <1>1, SameLost DEF Judged, Passed
<1>2. p \in Nat /\ cursor \in Nat
  BY ConstantTypes DEF SInv, IInv, TypeOK
<1>3. CASE p <= cursor
  BY <1>1, <1>3 DEF SInv, Judged, Passed
<1>4. CASE p > cursor
  <2>1. procs[p] = None
    BY <1>1, <1>4 DEF Listed
  <2>. QED
    BY <2>1 DEF Lost, Admitted, InUse, Trackable, StatAllows
<1>. QED
  BY <1>2, <1>3, <1>4

\* The elements of a longer sequence.
LEMMA RangeAppend ==
  ASSUME NEW S, NEW s \in Seq(S), NEW e \in S
  PROVE  Range(Append(s, e)) = Range(s) \cup {e}
<1>1. /\ Append(s, e) \in Seq(S) /\ Len(Append(s, e)) = Len(s) + 1
      /\ Len(s) \in Nat
      /\ \A i \in 1..Len(s) : Append(s, e)[i] = s[i]
      /\ Append(s, e)[Len(s) + 1] = e
  BY AppendProperties, LenProperties
<1>2. /\ DOMAIN s = 1..Len(s)
      /\ DOMAIN Append(s, e) = 1..Len(s) + 1
  BY <1>1, LenProperties
<1>3. 1..Len(s) + 1 = 1..Len(s) \cup {Len(s) + 1}
  BY <1>1
<1>. QED
  BY <1>1, <1>2, <1>3 DEF Range

\* A pid that is rejected is lost, so that readdir may go on.
LEMMA RejectJudged ==
  ASSUME SInv, pc \in {"stat", "status"}, Lost(cursor),
         Reject, UNCHANGED <<procs, cursor, cache>>
  PROVE  Judged'
<1>1. \A p \in Pid : p <= cursor => p < cursor \/ p = cursor
  BY ConstantTypes DEF SInv, IInv, TypeOK
<1>2. \A p \in Pid : p <= cursor /\ p \notin Range(pids) => Lost(p)
  BY <1>1 DEF SInv, Judged, Passed
<1>. QED
  BY <1>2, SameLost DEF Reject, Judged, Passed

\* A pid that is accepted is returned.
LEMMA AcceptJudged ==
  ASSUME SInv, pc \in {"stat", "status"},
         Accept, UNCHANGED <<procs, cursor, cache>>
  PROVE  Judged'
<1>1. cursor \in Pid /\ pids \in Seq(Pid)
  BY DEF SInv, IInv, TypeOK, Control
<1>2. Range(pids') = Range(pids) \cup {cursor}
  BY <1>1, RangeAppend DEF Accept
<1>3. \A p \in Pid : p <= cursor => p < cursor \/ p = cursor
  BY <1>1, ConstantTypes
<1>4. \A p \in Pid : p <= cursor /\ p \notin Range(pids') => Lost(p)
  BY <1>2, <1>3 DEF SInv, Judged, Passed
<1>. QED
  BY <1>4, SameLost DEF Accept, Judged, Passed

\* The first half of should_track rejects what its configuration excludes, if
\* it can find the process.
LEMMA StatJudged ==
  ASSUME SInv, "stat" \notin Faults, Stat
  PROVE  Judged'
<1>1. pc = "stat" /\ UNCHANGED <<procs, cursor, cache>>
  BY DEF Stat, WorkerStep, kernelVars
<1>2. CASE ~StatAllows(config, cursor) /\ Reject
  <2>1. ~Admitted(cursor)
    BY <1>2 DEF SInv, ConfigInUse, Admitted, Trackable
  <2>. QED
    BY <1>1, <1>2, <2>1, RejectJudged DEF Lost
<1>3. CASE Accept
  BY <1>1, <1>3, AcceptJudged
<1>4. CASE pc' = "status" /\ UNCHANGED pids
  BY <1>1, <1>4, SameLost DEF SInv, Judged, Passed
<1>. QED
  BY <1>2, <1>3, <1>4 DEF Stat

\* The second half, when the status file can be read.
LEMMA StatusJudged ==
  ASSUME SInv, "status" \notin Faults, Status
  PROVE  Judged'
<1>1. pc = "status" /\ UNCHANGED <<procs, cursor, cache>>
  BY DEF Status, WorkerStep, kernelVars
<1>2. CASE CanFail(cursor, "status") /\ Reject
  <2>1. ~Admitted(cursor)
    BY <1>2 DEF CanFail, Admitted, InUse, Trackable, StatAllows
  <2>. QED
    BY <1>1, <1>2, <2>1, RejectJudged DEF Lost
<1>3. CASE CanRead(cursor) /\ ~StatusAllows(cfg, cursor) /\ Reject
  <2>1. ~Admitted(cursor)
    BY <1>3 DEF SInv, ConfigInUse, Admitted, Trackable, StatusAllows,
       NeedsStatus
  <2>. QED
    BY <1>1, <1>3, <2>1, RejectJudged DEF Lost
<1>4. CASE Accept
  BY <1>1, <1>4, AcceptJudged
<1>. QED
  BY <1>2, <1>3, <1>4 DEF Status

\* Eviction takes one entry and leaves the others.
LEMMA EvictJudged ==
  ASSUME SInv, Evict
  PROVE  Judged'
<1>1. PICK e \in Pid : cache' = [cache EXCEPT ![e] = None]
  BY DEF Evict, Stale
<1>2. pc = "evict" /\ UNCHANGED <<pc, procs, pids>>
  BY DEF Evict, WorkerStep, kernelVars, scanVars
<1>3. ASSUME NEW p \in Pid, p \notin Range(pids)
      PROVE  Lost(p)'
  <2>1. Lost(p)
    BY <1>2, <1>3 DEF SInv, Judged, Passed
  <2>2. cache'[p] = cache[p] \/ cache'[p] = None
    BY <1>1 DEF SInv, IInv, TypeOK
  <2>3. Admitted(p)' = Admitted(p)
    BY <1>2 DEF Admitted, InUse, Trackable, StatAllows, StatusAllows,
       NeedsStatus
  <2>. QED
    BY <1>2, <2>1, <2>2, <2>3 DEF Lost
<1>. QED
  BY <1>2, <1>3 DEF Judged

\* The rest of the sweep is not about the scan.
LEMMA StepJudged ==
  ASSUME Faults \cap {"readdir", "stat", "status"} = {}
  PROVE  SInv /\ [Next]_vars => Judged'
<1>. SUFFICES ASSUME SInv, [Next]_vars PROVE Judged'
  OBVIOUS
<1>1. CASE Kernel \/ RequestStop \/ (\E c \in Configs : UpdateFilter(c))
           \/ UNCHANGED vars
  BY <1>1, OthersJudged
<1>2. CASE Start
  BY <1>2 DEF Start, Judged, Passed
<1>3. CASE ScanStep
  BY <1>3, BeginJudged, ReadDirJudged, EndJudged, StatJudged, StatusJudged
     DEF ScanStep
<1>4. CASE Evict
  BY <1>4, EvictJudged
<1>5. CASE QuietStep \/ Warm \/ Discover \/ Consume
  BY <1>5 DEF QuietStep, EvictDone, MetricsFail, Cold, MetaFail, Dispatch,
     CallbackReturns, WakeUp, Warm, Discover, NextPid, Consume, Judged, Passed
<1>. QED
  BY <1>1, <1>2, <1>3, <1>4, <1>5, WorkerSteps DEF Next, Client, ReportStep

-----------------------------------------------------------------------------
(* The theorem.                                                            *)

\* While listing /proc, stat and reading status files do not fail, no process
\* that every filter in use admits is reported as terminated, however /proc
\* changes during the scan; opendir and the reads of statm may fail
\* (process_monitor.cpp:65).
THEOREM EvictionCorrect ==
  ASSUME Faults \cap {"readdir", "stat", "status"} = {}
  PROVE  Spec => EvictionJustified
<1>1. Init => SInv
  BY InitSInv
<1>2. SInv /\ [Next]_vars => SInv'
  BY StepTypeOK, StepControl, StepSweep, StepBatch, StepConfig, StepNames,
     StepJudged DEF SInv, IInv
<1>3. SInv /\ [Next]_vars =>
        [\A p \in Pid :
           cache[p] # None /\ cache'[p] = None /\ run' = run =>
             ~(/\ \A c \in Configs \cup {DefaultConfig} : Trackable(c, p)
               /\ procs[p].name = cache[p].name)]_vars
  <2>. SUFFICES ASSUME SInv, Next, NEW p \in Pid,
                       cache[p] # None, cache'[p] = None, run' = run
                PROVE  Lost(p)
    BY DEF Lost, Admitted, InUse
  <2>1. CASE Evict
    <3>1. pc = "evict" /\ p \notin Range(pids)
      BY <2>1 DEF Evict, Stale, SInv, IInv, TypeOK
    <3>. QED
      BY <3>1 DEF SInv, Judged, Passed
  <2>2. CASE Start
    BY <2>2, ConstantTypes DEF Start, SInv, IInv, TypeOK
  <2>3. CASE Warm
    <3>1. Head(pids) \in Pid /\ cache[Head(pids)] \in Entry
      BY <2>3, WarmReports DEF SInv, IInv
    <3>2. CASE cache' = cache
      BY <3>2
    <3>3. CASE cache' # cache
      <4>. DEFINE entry == [cache[Head(pids)] EXCEPT
                              !.pages = procs[Head(pids)].pages]
      <4>1. cache' = [cache EXCEPT ![Head(pids)] = entry]
        BY <2>3, <3>3 DEF Warm
      <4>2. entry \in Entry
        BY <2>3, <3>1 DEF Warm, CanRead, SInv, IInv, TypeOK, Entry, Process
      <4>. HIDE DEF entry
      <4>. QED
        BY <4>1, <4>2, <3>1, ConstantTypes DEF SInv, IInv, TypeOK
    <3>. QED
      BY <3>2, <3>3
  <2>4. CASE Discover
    <3>1. PICK entry \in Entry : cache' = [cache EXCEPT ![Head(pids)] = entry]
      BY <2>4, DiscoverReports DEF SInv, IInv, Control, Reports
    <3>. QED
      BY <3>1, ConstantTypes DEF SInv, IInv, TypeOK
  <2>5. CASE cache' = cache
    BY <2>5
  <2>6. Kernel \/ RequestStop \/ (\E c \in Configs : UpdateFilter(c))
        \/ ScanStep \/ QuietStep \/ Consume => cache' = cache
    BY OthersLeaveSweep DEF ScanStep, BeginSweep, ScanFails, ExitLoop,
       ReadDir, EndOfDir, Stat, Status, QuietStep, EvictDone, MetricsFail,
       Cold, MetaFail, Dispatch, CallbackReturns, WakeUp, Consume
  <2>. QED
    BY <2>1, <2>2, <2>3, <2>4, <2>5, <2>6, WorkerSteps
       DEF Next, Client, ReportStep
<1>. QED
  BY <1>1, <1>2, <1>3, PTL DEF Spec, EvictionJustified
=============================================================================
