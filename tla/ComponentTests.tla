--------------------------- MODULE ComponentTests ---------------------------
(***************************************************************************)
(* main.cpp: the component tests main runs one after the other, on files   *)
(* it writes first, on /proc and on the list its monitor keeps, and the    *)
(* exit status it makes of their results.  How the list comes about is in  *)
(* ProcessMonitor and MonitorLifecycle; here it is part of the world the   *)
(* program runs in: any list of processes with different pids.  While the  *)
(* program lists the processes of /proc they are started, run other        *)
(* programs, exit and are waited for, and its calls may fail.              *)
(***************************************************************************)
EXTENDS Integers, FiniteSets, ProcessFiles, ProcessTree
LOCAL INSTANCE SequencesExt
LOCAL INSTANCE FiniteSetsExt

CONSTANTS
  Worlds,  \* what the program may meet
  Programs,  \* what a process may run: [comm, threads, size, resident]
  PageSize,  \* sysconf(_SC_PAGESIZE)
  Pids, Ppids, Rss,  \* of the processes its monitor follows; Rss by pid
  Shown    \* rows of the process list: 5

Plain(kind) == [kind |-> kind, plain |-> TRUE, newline |-> TRUE]

\* create_test_files, and test_scraper_error_handling; no test writes
\* nonexistent.txt and no test reads kv_data.txt.
Written ==
  [sample |-> <<Plain("text"), Plain("text"), Plain("text")>>,
   kv_data |-> [i \in 1..6 |-> Plain("metric")],
   statm_data |-> <<Plain("statm")>>,
   maps_data |-> <<Plain("header"), Plain("header")>>,
   smaps_data |-> <<Plain("header"), Plain("metric"), Plain("metric"),
                    Plain("metric"), Plain("metric"), Plain("blank"),
                    Plain("header"), Plain("metric")>>,
   invalid_statm |-> <<Plain("text")>>,
   nonexistent |-> <<>>]

\* A file of the world: whether it opens, whether it reads to its end, and
\* what is on the disk of what was written.
FileName == DOMAIN Written

\* What /proc has of a process; a number or a text is the value of a word,
\* the memory of statm is counted in pages.
Word == [looks : {"number", "hex"}, value : Int]
        \cup [looks : {"text", "odd"}, value : STRING]
Process == [present : BOOLEAN, comm : Seq(Word), ppid : Nat, threads : Nat,
            zombie : BOOLEAN, kthread : BOOLEAN, size : Nat, resident : Nat]

\* Every thread of the kernel is kthreadd or a child of it.
ThreadsKnown(table) ==
  \A p \in DOMAIN table : table[p].kthread => p = 2 \/ table[p].ppid = 2

ASSUME WorldAssumption ==
  /\ Shown \in Nat \ {0} /\ PageSize \in Nat \ {0}
  /\ Programs \subseteq [comm : Seq(Word), threads : Nat, size : Nat, resident : Nat]
  /\ Pids \subseteq Nat \ {0} /\ Ppids \subseteq Nat /\ Rss \in [Pids -> 0..WordSize - 1]
  /\ \A w \in Worlds :
       /\ w.files \in
            [FileName -> [opens : BOOLEAN, reads : BOOLEAN, text : Seq(Line)]]
       /\ w.listable \subseteq {"test_data", "/proc"}
       /\ w.faults \subseteq {"readdir", "stat", "status", "statm"}
       /\ w.churn \in Nat /\ w.kthreadLine \in BOOLEAN /\ w.busy \in Nat
       /\ DOMAIN w.procs \subseteq Nat /\ w.procs \in [DOMAIN w.procs -> Process]
       /\ ThreadsKnown(w.procs)

VARIABLES
  world,    \* [files, listable, faults, churn, kthreadLine, procs, busy]: the
            \* files, the directories that opendir opens ("test_data" and
            \* "/proc"), the calls that may fail although the process is there,
            \* how often /proc changes while it is listed (a bound), the
            \* kernel's age, /proc, and how many processes are followed
  procs,    \* the kernel's process table
  results,  \* what the tests so far returned
  pc,       \* inside a test, or "tests" between two
  cursor,   \* the process list: the directory entry the scan is at,
  pids,     \*   the pids found and still to come, in ascending order,
  meta,     \*   the metadata of the first of them,
  rows,     \*   the lines displayed,
  skipped,  \*   and how many pids were not
  tracked_processes,  \* when test_process_monitoring reads it
  printed,  \* the lines of the tree it shows
  status,   \* main's return value, -1 before it returns
  past,     \* history: the process tables since the start, the current one last
  failed    \* history: pids for which a call failed although they were there

kernelVars == <<procs, past>>
scanVars == <<cursor, pids, failed>>
listVars == <<meta, rows, skipped>>
monitorVars == <<tracked_processes, printed>>
vars == <<world, results, pc, kernelVars, scanVars, listVars, monitorVars, status>>

\* The order of main; test_kv_scraper is not called.
Tests == <<"read_all", "read_lines", "enumerate_directory", "error_handling",
           "statm_scraper", "maps_scraper", "smaps_scraper",
           "scraper_error_handling", "pid_scanner", "process_list",
           "process_monitoring">>

Current == Tests[Len(results) + 1]
At(test) == pc = "tests" /\ Len(results) < Len(Tests) /\ Current = test
Finish(passed) == results' = Append(results, passed)

\* The tests that read one file or directory, and what they return.  A
\* readdir that fails half way ends the enumeration as its end does, and the
\* test returns true with what it has.
Readable(file) == file.opens /\ file.reads

FileTests ==
  LET files == world.files
  IN [read_all |-> Readable(files.sample),
      read_lines |-> Readable(files.sample),
      enumerate_directory |-> "test_data" \in world.listable,
      error_handling |-> ~files.nonexistent.opens]

ScraperTests ==
  LET files == world.files
  IN [statm_scraper |->
        ScrapeFile(files.statm_data, StatmAccepts(files.statm_data.text)) = "ok",
      maps_scraper |->
        ScrapeFile(files.maps_data, MapsAccepts(files.maps_data.text)) = "ok",
      smaps_scraper |->
        ScrapeFile(files.smaps_data, SmapsAccepts(files.smaps_data.text)) = "ok",
      scraper_error_handling |->
        ScrapeFile(files.invalid_statm,
                   StatmAccepts(files.invalid_statm.text)) # "ok",
      pid_scanner |-> "/proc" \in world.listable]

Simple ==
  [test \in DOMAIN FileTests \cup DOMAIN ScraperTests |->
     IF test \in DOMAIN FileTests THEN FileTests[test] ELSE ScraperTests[test]]

RunSimple ==
  /\ \E test \in DOMAIN Simple : At(test) /\ Finish(Simple[test])
  /\ UNCHANGED <<world, pc, kernelVars, scanVars, listVars, monitorVars, status>>

-----------------------------------------------------------------------------
(* The kernel, while test_process_list runs.                               *)

Present == {p \in DOMAIN procs : procs[p].present}
Running == {p \in Present : ~procs[p].zombie}

KernelStep(table) ==
  /\ pc # "tests" /\ Len(past) <= world.churn
  /\ procs' = table /\ past' = Append(past, table)
  /\ UNCHANGED <<world, results, pc, scanVars, listVars, monitorVars, status>>

\* fork and exec, with a pid that may have been another process's.
Spawn(p) ==
  /\ p \notin Present
  /\ \E prog \in Programs, parent \in Running :
       KernelStep([procs EXCEPT ![p] =
         [present |-> TRUE, comm |-> prog.comm, ppid |-> parent,
          threads |-> prog.threads, zombie |-> FALSE, kthread |-> parent = 2,
          size |-> prog.size, resident |-> prog.resident]])

Exec(p) ==
  /\ p \in Running /\ ~procs[p].kthread
  /\ \E prog \in Programs :
       KernelStep([procs EXCEPT ![p] =
         [procs[p] EXCEPT !.comm = prog.comm, !.threads = prog.threads,
                          !.size = prog.size, !.resident = prog.resident]])

\* The process becomes a zombie without memory, its children init's.
Exit(p) ==
  /\ p \in Running /\ p > 2 /\ p # SelfPid
  /\ KernelStep([q \in DOMAIN procs |->
       IF q = p THEN [procs[p] EXCEPT !.zombie = TRUE, !.threads = 1,
                                      !.size = 0, !.resident = 0]
       ELSE IF procs[q].ppid = p THEN [procs[q] EXCEPT !.ppid = 1]
       ELSE procs[q]])

Reap(p) ==
  /\ p \in Present \ Running
  /\ KernelStep([procs EXCEPT ![p].present = FALSE])

Kernel == \E p \in DOMAIN procs : Spawn(p) \/ Exec(p) \/ Exit(p) \/ Reap(p)

-----------------------------------------------------------------------------
(* test_process_list: scan_pids, and what is displayed of its pids.        *)

Status(p) == StatusFile(procs[p], world.kthreadLine)

CallFails(call, p) == call \in world.faults /\ failed' = failed \cup {p}

BeginList ==
  /\ At("process_list")
  /\ \/ /\ "/proc" \in world.listable
        /\ pc' = "readdir" /\ cursor' = 0 /\ UNCHANGED results
     \/ /\ "/proc" \notin world.listable
        /\ Finish(FALSE) /\ UNCHANGED <<pc, cursor>>
  /\ UNCHANGED <<world, kernelVars, pids, failed, listVars, monitorVars, status>>

\* The entries the directory stream has still to return.
Ahead == {p \in Present : p > cursor}

ReadDir ==
  /\ pc = "readdir"
  /\ \E p \in Ahead : (\A q \in Ahead : p <= q) /\ cursor' = p
  /\ pc' = "stat"
  /\ UNCHANGED <<world, results, kernelVars, pids, failed, listVars, monitorVars,
                 status>>

\* readdir returns null at the end, and also when it fails.
EndOfDir ==
  /\ pc = "readdir"
  /\ Ahead = {} \/ "readdir" \in world.faults
  /\ pc' = "list" /\ failed' = failed \cup Ahead
  /\ UNCHANGED <<world, results, kernelVars, cursor, pids, listVars, monitorVars,
                 status>>

Stat ==
  /\ pc = "stat"
  /\ \/ /\ cursor \in Present /\ StatAllows(cursor)
        /\ pc' = "filter" /\ UNCHANGED failed
     \/ /\ ~(cursor \in Present /\ StatAllows(cursor))
        /\ pc' = "readdir" /\ UNCHANGED failed
     \/ CallFails("stat", cursor) /\ pc' = "readdir"
  /\ UNCHANGED <<world, results, kernelVars, cursor, pids, listVars, monitorVars,
                 status>>

Filter ==
  /\ pc = "filter" /\ pc' = "readdir"
  /\ LET allowed == cursor \in Present /\ StatusAllows(cursor, Status(cursor)) IN
       \/ allowed /\ pids' = pids \cup {cursor} /\ UNCHANGED failed
       \/ ~allowed /\ UNCHANGED <<pids, failed>>
       \/ CallFails("status", cursor) /\ UNCHANGED pids
  /\ UNCHANGED <<world, results, kernelVars, cursor, listVars, monitorVars, status>>

\* Mutant: a pid that is skipped takes the room of a line.
InListSkipped == pids # {} /\ Len(rows) + skipped < Shown

InList == pids # {} /\ Len(rows) < Shown
First == CHOOSE p \in pids : \A q \in pids : p <= q
Skip == skipped' = skipped + 1 /\ pids' = pids \ {First} /\ pc' = "list"

ListStatus ==
  /\ pc = "list" /\ InList
  /\ LET p == First
         readable == p \in Present /\ KvAccepts(TextOf(Status(p)))
     IN \/ ~readable /\ Skip /\ UNCHANGED <<meta, failed>>
        \/ CallFails("status", p) /\ Skip /\ UNCHANGED meta
        \/ /\ readable
           /\ meta' = FetchStatusMeta(Status(p))
           /\ pc' = "metrics" /\ UNCHANGED <<pids, skipped, failed>>
  /\ UNCHANGED <<world, results, kernelVars, cursor, rows, monitorVars, status>>

\* Pages::bytes, and the list's division.
Kilobytes(pages) == (pages * PageSize) \div 1024

ListMetrics ==
  /\ pc = "metrics"
  /\ LET p == First IN
       \/ p \notin Present /\ Skip /\ UNCHANGED <<rows, failed>>
       \/ CallFails("statm", p) /\ Skip /\ UNCHANGED rows
       \/ /\ p \in Present
          /\ rows' = Append(rows,
               [pid |-> p, name |-> meta.name, ppid |-> meta.ppid,
                size |-> Kilobytes(procs[p].size),
                rss |-> Kilobytes(procs[p].resident),
                thread_count |-> meta.thread_count])
          /\ pids' = pids \ {p} /\ pc' = "list" /\ UNCHANGED <<skipped, failed>>
  /\ UNCHANGED <<world, results, kernelVars, cursor, meta, monitorVars, status>>

EndList ==
  /\ pc = "list" /\ ~InList
  /\ pc' = "tests" /\ Finish(TRUE)
  /\ UNCHANGED <<world, kernelVars, scanVars, listVars, monitorVars, status>>

-----------------------------------------------------------------------------
(* test_process_monitoring, and the end of main.                           *)

\* Mutant: the children's lines begin where their parent's does.
LinesFlat(node, indent, isLast, print) ==
  LET lines[i \in 0..Len(node.children)] ==
        IF i = 0 THEN <<[pid |-> node.info.pid, indent |-> indent, last |-> isLast]>>
        ELSE lines[i - 1]
               \o print[node.children[i]][indent][i = Len(node.children)]
  IN lines[Len(node.children)]

\* A node's line and those of its children; indent has TRUE for four blanks,
\* FALSE for a bar.
Lines(node, indent, isLast, print) ==
  LET lines[i \in 0..Len(node.children)] ==
        IF i = 0 THEN <<[pid |-> node.info.pid, indent |-> indent, last |-> isLast]>>
        ELSE lines[i - 1] \o
               print[node.children[i]][Append(indent, isLast)][i = Len(node.children)]
  IN lines[Len(node.children)]

\* print_process_hierarchy, which nests no deeper than build_node.
PrintHierarchy(root) ==
  LET print[frames \in 0..StackFrames] ==
        [node \in Nodes(<<root>>) |-> [indent \in Seq(BOOLEAN) |-> [isLast \in BOOLEAN |->
           IF frames = 0 THEN <<>> ELSE Lines(node, indent, isLast, print[frames - 1])]]]
  IN print[StackFrames][root][<<>>][TRUE]

\* std::max_element: the first of the largest.
Largest(roots) ==
  CHOOSE i \in DOMAIN roots : \A j \in DOMAIN roots :
    LET a == Aggregate(roots[i])
        b == Aggregate(roots[j])
    IN a > b \/ (a = b /\ i <= j)

Monitor ==
  /\ At("process_monitoring") /\ Finish(TRUE)
  /\ \E n \in 0..world.busy :
       \E pid \in {f \in [1..n -> Pids] : \A i, j \in 1..n : f[i] = f[j] => i = j},
          ppid \in [1..n -> Ppids] :
         /\ \A i \in 1..n : pid[i] # ppid[i]
         /\ tracked_processes' =
              [i \in 1..n |-> [pid |-> pid[i], ppid |-> ppid[i], mem |-> Rss[pid[i]]]]
  /\ LET roots == Build(tracked_processes') IN
       printed' = IF roots = <<>> THEN <<>> ELSE PrintHierarchy(roots[Largest(roots)])
  /\ UNCHANGED <<world, pc, kernelVars, scanVars, listVars, status>>

\* Mutant: the last result decides.
SummaryLast ==
  /\ Len(results) = Len(Tests) /\ status = -1
  /\ status' = IF Last(results) THEN 0 ELSE 1
  /\ UNCHANGED <<world, results, pc, kernelVars, scanVars, listVars, monitorVars>>

Summary ==
  /\ Len(results) = Len(Tests) /\ status = -1
  /\ status' = IF \A i \in DOMAIN results : results[i] THEN 0 ELSE 1
  /\ UNCHANGED <<world, results, pc, kernelVars, scanVars, listVars, monitorVars>>

-----------------------------------------------------------------------------
Init ==
  /\ world \in Worlds /\ procs = world.procs /\ past = <<procs>>
  /\ results = <<>> /\ pc = "tests" /\ status = -1
  /\ cursor = 0 /\ pids = {} /\ failed = {}
  /\ meta = <<>> /\ rows = <<>> /\ skipped = 0
  /\ tracked_processes = <<>> /\ printed = <<>>

List ==
  \/ BeginList \/ ReadDir \/ EndOfDir \/ Stat \/ Filter
  \/ ListStatus \/ ListMetrics \/ EndList

Next == RunSimple \/ List \/ Monitor \/ Summary \/ Kernel

Spec == Init /\ [][Next]_vars

-----------------------------------------------------------------------------
(* Properties.                                                             *)

\* Every file has what was written, and the directories can be listed.
Intact ==
  /\ \A name \in FileName \ {"nonexistent"} :
       Readable(world.files[name]) /\ world.files[name].text = Written[name]
  /\ ~world.files.nonexistent.opens /\ world.listable = {"test_data", "/proc"}

\* main fails only if something is wrong: the grammars match what the tests
\* write.  It succeeds only if each file was read to its end and the statm
\* and smaps files were not empty.
ExitTellsTruth ==
  /\ status = 1 => ~Intact
  /\ status = 0 =>
       /\ Readable(world.files.sample)
       /\ world.listable = {"test_data", "/proc"}
       /\ \A name \in {"statm_data", "maps_data", "smaps_data"} :
            /\ Readable(world.files[name])
            /\ world.files[name].text # <<>> \/ name = "maps_data"

\* What a reader of the list should see of a process: its name is the first
\* word of the kernel's, unless that is taken for a number.
ShownName(p) ==
  IF p.comm = <<>> \/ Head(p.comm).looks # "text" THEN "Unknown"
  ELSE Head(p.comm).value
Legible(p) == \A i \in DOMAIN p.comm : p.comm[i].looks # "odd"

\* What a process table says of a pid: should_track's answer, and whether a
\* line of the list has the metadata or the memory of its process.
Admits(table, p) ==
  LET q == table[p] IN
  /\ p > 1 /\ p # 2 /\ p # SelfPid /\ q.present /\ Legible(q)
  /\ ~q.kthread /\ ~q.zombie /\ q.ppid # 2
HasMeta(table, row) ==
  LET q == table[row.pid] IN
  /\ q.present /\ Legible(q)
  /\ row.name = ShownName(q) /\ row.ppid = q.ppid /\ row.thread_count = q.threads
HasMemory(table, row) ==
  LET q == table[row.pid] IN
  /\ q.present
  /\ row.size = Kilobytes(q.size) /\ row.rss = Kilobytes(q.resident)

\* A line of the list is made of three looks at /proc, in this order: the
\* filter's, which admits the pid, one that has its metadata, and one that
\* has its memory, however the processes change in between and whichever
\* calls fail.  So a line may be of a zombie, and of two processes if the
\* pid is reused; but a pid that is never free while the list is made has no
\* line if it is a kernel thread's.  Lines come in the order of the pids.
RowsTrue ==
  /\ Len(rows) <= Shown
  /\ \A i \in DOMAIN rows :
       LET p == rows[i].pid IN
       /\ \E a, b, c \in DOMAIN past :
            /\ a <= b /\ b <= c
            /\ Admits(past[a], p) /\ HasMeta(past[b], rows[i])
            /\ HasMemory(past[c], rows[i])
       /\ (\A n \in DOMAIN past : past[n][p].present) =>
            \A n \in DOMAIN past : ~past[n][p].kthread
       /\ \A j \in 1..i - 1 : rows[j].pid < rows[i].pid

\* A process that the filter would admit all the time, and for which no call
\* fails, has its line, if the list has room for it, whatever happens to the
\* others.
RowsComplete ==
  Len(results) >= 10 /\ results[10] =>
    \A p \in DOMAIN procs \ failed :
      (\A n \in DOMAIN past : Admits(past[n], p)) =>
        \/ \E i \in DOMAIN rows : rows[i].pid = p
        \/ Len(rows) = Shown /\ rows[Shown].pid < p

\* From here on, what is checked of the forest that was shown when main ends.
Viewed == status # -1
Flat == tracked_processes
Forest == Build(Flat)

\* build_node never calls itself more often than the list is long, however
\* the parents of the list refer to each other.
Terminates == Viewed => \A node \in Nodes(Forest) : node # Overflow

\* Every process is placed at most once, as a root or under the process its
\* ppid names.
Placed ==
  Viewed =>
    /\ \A i, j \in DOMAIN Forest : Forest[i].info = Forest[j].info => i = j
    /\ \A parent \in Nodes(Forest) : \A i \in DOMAIN parent.children :
         LET child == parent.children[i].info IN
         child = Overflow.info
         \/ /\ child.ppid = parent.info.pid
            /\ \A k \in DOMAIN Forest : Forest[k].info # child
            /\ \A other \in Nodes(Forest) : \A j \in DOMAIN other.children :
                 other.children[j].info = child => other = parent /\ i = j

\* The processes left out are those on a cycle of ppids and their
\* descendants; every other one is in the forest.
OnCycle(p) ==
  ~IsRoot(p, Flat) /\ \E q \in Descendants(Flat, {p}) : p.ppid = q.pid

Complete ==
  Viewed =>
    {node.info : node \in Nodes(Forest)} =
      Members(Flat) \ Descendants(Flat, {p \in Members(Flat) : OnCycle(p)})

\* An aggregate is the sum over all descendants, modulo 2^64.
Totals ==
  Viewed =>
    \A node \in Nodes(Forest) \ {Overflow} :
      LET below == Descendants(Flat, {node.info})
      IN Aggregate(node) = SumOver(Flat, below) % WordSize

\* The picture of a tree can be read: the line above with one level less is
\* the parent's, every process below the root is drawn once, and an ancestor
\* has a bar beside the lines under it if and only if a sibling of it is
\* still to come.
Level(i) == Len(printed[i].indent)
Sibling(i, j) ==
  /\ i < j /\ Level(i) = Level(j)
  /\ \A k \in i + 1..j : Level(k) >= Level(i)

TreeReadable ==
  LET lines == printed
      info(i) == CHOOSE p \in Members(Flat) : p.pid = lines[i].pid
  IN Viewed /\ lines # <<>> =>
       /\ {info(i) : i \in DOMAIN lines} = Descendants(Flat, {info(1)})
       /\ \A i \in DOMAIN lines :
            /\ lines[i].last <=> ~\E j \in DOMAIN lines : Sibling(i, j)
            /\ \A j \in 1..i - 1 : lines[j].pid # lines[i].pid
            /\ i > 1 => \E j \in 1..i - 1 :
                 /\ Level(j) = Level(i) - 1 /\ info(i).ppid = lines[j].pid
                 /\ \A k \in j + 1..i : Level(k) > Level(j)
                 /\ lines[i].indent = Append(lines[j].indent, lines[j].last)
=============================================================================
