# MemoryAnalysisTool: TLA+ models, checks and proofs

The program is a C++23 library, with a test executable, that follows the
processes of a Linux machine through `/proc`: a background worker scans it
periodically and sends its client the changes; other functions build a process
forest and read `maps` and `smaps`. This directory models the parts with
behaviour that is hard to test. Paths below are relative to `src/` of the
repository (`process/process_monitor.cpp` is `src/src/process/process_monitor.cpp`).

## 1. Inventory

| component | state | operations | interacts with |
|---|---|---|---|
| telemetry worker, `ProcessMonitor::run` | `cache`, `events`, `active_set` (locals of the thread) | sweep: scan, evict, process each pid, dispatch, sleep | filter, scanner, procfs reader, callback |
| life cycle, `ProcessMonitor` | `worker_`, `mutex_`, `cv_`, stop token | `start`, `stop`, destructor, `update_filter` | worker thread, the callback's locks |
| `ProcessFilter` | an atomic `FilterConfig` | `set_config`, `should_track` | reads `/proc/[pid]` and its status |
| `scan_pids`, `enumerate_dir` | a directory stream | one pass over `/proc` | filter |
| `ProcfsReader`, scrapers | none | read and parse statm, status, maps, smaps | `FileReader` |
| consumer, `on_changed` of `main.cpp` | `tracked_processes`, `tracked_mutex` | apply a batch of events; the reader builds a tree of the list | worker, process tree |
| `ProcessTreeBuilder`, `ProcessTreeNode` | none | `build`, three aggregates | the consumer's list |
| `FileReader` | descriptor offset, chunk buffer and its two indices | `read_line`, `read_all` | read(2) |
| `BlockReader`, `SmapsScraper::scrape_stream` | lookahead line, two flags | `read_next_block`, `scrape_stream` | `FileReader`, `is_vma_start`, callback |
| `UniqueFd` | `fd_`, a number in the process's descriptor table | open, two moves, `reset`, destructor | open(2), close(2), other users of the table |
| `MultilineLogger` | `logger_mutex_`, the output | `sink_it_` | all threads |
| component tests, `main.cpp` | the test files, the result of each test | 11 of the 12 tests, exit status | all of the above |
| error texts, generated headers, build | none | - | - |

What is hard: `/proc` changes between any two reads of the worker and of the
process list; five calls of a sweep can fail on their own; pids are reused; the client calls from
several threads and from inside the callback, while `stop` waits for a thread
that may itself wait for the client; a restarted worker has forgotten what its
consumer remembers; files are cut into chunks, lines and blocks at different
places; descriptor numbers are given out again the moment they are free; the
types of values are guessed from their looks. `PROJECT.json` lists the hazards
at their lines.

What makes each part correct: the consumer's list is the worker's cache
between sweeps, changes like a table, and converges to the truth; one worker
at a time, none after `stop`, every call returns; the forest has every process
once; a reader delivers every byte, line and block once; an open file has one
owner and is closed by it; a message is written in one piece; the tests succeed
only if what they read was there.

## 2. Modules

| module | models | role |
|---|---|---|
| `ProcessTable` | the promise to the consumer of events | abstract specification |
| `ProcessMonitor` | kernel, `run`, scanner, filter, readers, `on_changed` | component, implements `ProcessTable` |
| `ProcessMonitorProofs` | - | theorems about `ProcessMonitor`: the feed, evictions |
| `WorkerSlot` | the promise of `start` and `stop` | abstract specification |
| `MonitorLifecycle` | `start`, `stop`, destructor, `wait_for`, callback and client locks | component, implements `WorkerSlot` |
| `MonitorLifecycleProofs` | - | theorems about `MonitorLifecycle` |
| `Selection` | some of the elements of a sequence, in order | operators |
| `SelectionProofs` | - | lemmas about `Selection`, induction on numbers |
| `ProcessTree` | `build` and the aggregates | operators over `Selection` |
| `MonitorTree` | `build` on the lists of `ProcessMonitor` | composition |
| `LineStream` | the promise of `read_line` | abstract specification |
| `FileReader` | `read_line`, `read_all` | component, implements `LineStream` |
| `FileReaderProofs` | - | theorems about `FileReader` |
| `Scrapers` | grammars, `scrape_file`, the key-value registry | operators |
| `SmapsStream` | `read_next_block`, `is_vma_start`, `scrape_stream` | component |
| `SmapsStreamProofs` | - | theorems about `SmapsStream` |
| `ProcessFiles` | the status file, `fetch_status_meta`, `should_track` | operators |
| `ComponentTests` | `main` and its tests | composition of `ProcessFiles`, `Scrapers`, `ProcessTree` |
| `ComponentTestsProofs` | - | theorems about `ComponentTests` and the tree |
| `OwnedFiles` | the promise of `UniqueFd` | abstract specification |
| `Descriptors` | `UniqueFd` over the descriptor table | component, implements `OwnedFiles` |
| `DescriptorsProofs` | - | theorems about `Descriptors` |
| `MessageLog` | the promise of the logger | abstract specification |
| `MultilineLogger` | `sink_it_` | component, implements `MessageLog` |
| `MultilineLoggerProofs` | - | theorems about `MultilineLogger` |
| `MC*` | values of the constants | model checking |

### ProcessMonitor

`procs` is the process table of the kernel; `Spawn`, `Exit`, `Reap`, `Resize`
change it at any moment, as fork, exit, wait and memory allocation do. A
process has a `name` that is never used again, which makes it possible to say
whether two readings of a pid were of one process; the program's own name field
stands for it. The five counters of statm that the code compares are one number;
`thread_count` is treated by the code as `ppid` is and is left out.

The worker is at `pc`. Every system call it makes is a step of its own:

| action | code |
|---|---|
| `BeginSweep`, `ScanFails` | `opendir` succeeds or fails |
| `ReadDir`, `EndOfDir` | one `readdir`; null at the end and on failure |
| `Stat`, `Status` | the two halves of `should_track`; the configuration is copied once, in `Stat` |
| `Evict`, `EvictDone` | `erase_if`, one entry at a time in any order |
| `MetricsFail`, `Warm`, `Cold` | `fetch_metrics` and the lookup in the cache |
| `Discover`, `MetaFail` | `fetch_status_meta` |
| `Dispatch`, `Consume`, `CallbackReturns` | the callback, event by event |
| `WakeUp`, `ExitLoop` | `wait_for` returns; the loop's condition |

The kernel lists pids of `/proc` in increasing order and shows a process that is
there during the whole listing; `cursor` is the position. The consumer's
`tracked` keeps the entries of each pid in order; `MonitorTree` puts them back
into one list. `MaxChanges` bounds the kernel's steps and the filter updates,
`MaxRuns` the calls of `start`. The callback given to the constructor is taken
not to be empty, as `main.cpp` has it. `update_filter` is here and not in the
life cycle: it stores into an atomic and touches no lock.

### MonitorLifecycle

Here a sweep is one step with or without events, and the steps are those of the
locks: the check of `stop` under `mutex_`, then `request_stop`, `notify_all` and
`join` without it; in the worker the callback under the client's mutex, then
`wait_for` as the standard specifies it: predicate under the lock, sleep unless
a stop was requested, wake on notification, time or for no reason, relock. The
stop token's callback notifies `cv_` as well and is part of `NotifyAll`. A
`join` that cannot succeed (of the own thread, of a thread that is being joined
or was joined) throws `std::system_error`, and out of a `noexcept` function that
is `std::terminate`: every thread is `"aborted"`. For two threads in one `join`
the standard promises nothing; throwing is the mildest outcome. The destructor
is called by an owner while no other client is in a call, which is what C++
requires of it.
A callback makes at most one call; `CallbackOps` says which; no run has one that
stops the monitor.

`WorkerSlot` is the promise behind these steps: a worker is put into an empty
place, with a stop token that is not set, and leaves it after it was told to
stop. `ProcessMonitor` takes just this for granted: its variables `run` and
`stop` are those of `WorkerSlot`.

### ProcessTree, MonitorTree

`Build` is a function of the list. Room on the stack is a constant
(`StackFrames`): `BuildNodes` has what `build_node` returns for every process
with room for 0, 1, 2, ... calls, and a call with no room leaves an `Overflow`
node, so that endless recursion is visible. `mem` stands for the three aggregated
numbers; `Accumulate` is the loop of an aggregate over the children, which wraps
at each addition, and `Aggregate` its recursion. The sequences the code fills by
`push_back` under a condition are `Selected` positions of the list.

`Descendants` and `SumOver` are not code: they say what a forest and its sums
should be, by closing a set of processes under the parent relation of the flat
list, without trees.

### FileReader, SmapsStream, Scrapers

A file is a sequence of bytes that are a newline or anything else; read(2)
returns any number up to a chunk. A reader is used with one of its two methods,
as all callers do. The buffer is written in place, so that bytes
of an earlier chunk remain behind a shorter one. `SmapsStream` starts from
lines, which is what `read_line` delivers (`ReadsLines` below); opening the file
and every read may fail (`CallsFail`).

`Scrapers` has the grammars as predicates on sequences of lines. A line has a
kind (header of a mapping, key with values, statm, other text, blank), is plain
or has a character that stops the grammar, and has its newline or not.
`KVRegistry` is in it with the order in which the grammar tries the types of a
value (`scrapers/kv_scraper.hpp:23`): a hexadecimal number first, then a decimal
one, then a string.

### Descriptors

The kernel's table maps numbers to files; open gives out the lowest free number,
and other parts of the program (`others`) open and close as they like between
any two steps. `reset` is two steps, `close` and the store into `fd_`: between
them the number may belong to someone else already. A handle is in `phase`
`"assign"` or `"destroy"` while `reset` runs for `operator=` or the destructor.
Which number a handle answers for is the refinement mapping: `fd_`, or inside
`operator=` the new number, or inside the destructor none.

### MultilineLogger

`Lock`, one step for each line found, and the last piece with the unlocking;
`payload`, `prev` and `logger_mutex_` are the code's. `MessageLog` writes a
whole message in one step; `output` is mapped to what was written before the
message in progress.

### ProcessFiles, ComponentTests

`ComponentTests` is `main`: eleven tests in their order, then the exit status. A
world has the test files as far as they were written, opened and read, the
directories that can be listed, and the processes in `/proc`. Tests that read one
file or directory are a step each, by `Simple`; a `readdir` that fails half way
ends an enumeration as its end does, and the test passes all the same.

The list of processes is made in steps, one per call that can see `/proc`
differently, as in `ProcessMonitor`:

| action | code |
|---|---|
| `BeginList` | `opendir` succeeds or fails |
| `ReadDir`, `EndOfDir` | one `readdir`; null at the end and on failure |
| `Stat`, `Filter` | the two halves of `should_track`: `stat` and the read of status |
| `ListStatus` | `fetch_status_meta` of the first pid left, or the pid is skipped |
| `ListMetrics` | `fetch_metrics`, and the line with name, ppid, size, RSS and threads; or the pid is skipped |
| `EndList` | five lines are displayed, or no pid is left |

Between any two of them the kernel may take a step: `Spawn` (a new process, with
a pid that was never used or that is free again), `Exec`, `Exit` (a zombie
without memory remains, and the children become init's) and `Reap`. `procs` is
the kernel's table. A world says which calls may fail although the process is
there (`faults`: `readdir`, `stat`, and the reads of status and statm) and how
often the kernel takes a step (`churn`, at most `MaxChanges`). What a process
may run is the constant `Programs`; memory is counted in pages, and `Kilobytes`
is `Pages::bytes` with the list's division. Two history variables are for the
properties: `past` has all process tables so far, `failed` the pids for which
a call failed although they were there. The sorted list of pids is the set
`pids`, of which the loop takes the `First`.

The tracked list that the tree test reads is any list without duplicate pids:
what the monitor really delivers is the subject of `ProcessMonitor` and
`MonitorTree`.
`PrintHierarchy` has the lines of `print_process_hierarchy`, `Lines` those of one
call; it is given as much room on the stack as `build_node` had.
`ProcessFiles` computes name, ppid, threads and the filter's answer from the words
of the status file, where `ProcessMonitor` lets the program know the process itself.

## 3. Runs

`tlc -workers 2 -config <run>.cfg <module>`; the module of each run is in
`PROJECT.json`.

Runs that pass:

| run | properties | bounds |
|---|---|---|
| `monitor_feed` | `TypeOK`, `FeedMatchesCache`, `BatchIsDelta`, `SweepMeetsPidOnce`, `FeedIsTable`, `Convergence` | 2 pids, 3 changes, all five faults, two other filters, one worker |
| `monitor_truth` | `EvictionJustified`, `Convergence` | kthreadd, the monitor and 2 more pids, 3 changes including the filter, no faults |
| `lifecycle` | `TypeOK`, `OneWorker`, `StopIsFinal`, `NoAbort`, `WorkersTakeTurns`, `CallsReturn` | 2 clients, 3 workers, a callback that may call `start` |
| `tree` | `ExitTellsTruth`, `RowsTrue`, `RowsComplete`, `Terminates`, `Placed`, `Complete`, `Totals`, `TreeReadable` | one file at a time cut after any of its lines or unreadable; 6 processes, one with any kind of name and state; 3 changes of 3 processes without faults, or 1 with all four; every list of up to 4 tracked processes |
| `reader` | `TypeOK`, `NothingLost`, `ReadsLines`, `WholeFile`, `Returns` | every layout of files up to 5 bytes, chunks of 3, a limit of 4 |
| `smaps` | `TypeOK`, `LinesPartitioned`, `DeliveredWhole` | every file up to 5 lines, with failing calls |
| `descriptors` | `TypeOK`, `NoLeak`, `OneOwner`, `FilesAreOwned` | 3 handles (symmetric), 3 numbers, 4 opens |
| `logger` | `TypeOK`, `WholeMessages`, `CallsReturn` | 2 threads, every message up to 3 characters, 3 messages |

What they show. `monitor_feed`: whatever fails and changes between two reads,
the consumer's list is the cache between sweeps, a batch is the exact difference
during one, seen from outside the list changes as `ProcessTable` allows, and it
becomes exactly the admitted processes with their memory once the machine, the
filter and the failures are quiet. `monitor_truth`: the cache in turn is right
about `/proc`: without failing calls no process that every filter in use admits
is evicted; with the monitor's own pid and kthreadd among the pids, the list
converges as well. `lifecycle`: one worker at a time, none after `stop` or the
destructor, no call ends the program as long as one thread stops, workers follow
each other as `WorkerSlot` allows, and all calls return. `tree`: `main` returns
0 only if what the tests read was there, and 1 only if something was wrong; a
line of the process list is made of three looks at `/proc` in their order, of
which the filter's admitted the pid, one had the metadata and one the memory (so
a line may be of a zombie, or of two processes that had one pid, but not of a
kernel thread whose pid was never free), and a process that the filter would
admit all the time and for which no call fails has a line unless there is no
room; `build` ends on any list without duplicates, and loses exactly the
processes on a circle of ppids and those below it; aggregates are sums modulo
2^64; the bars of the printed tree tell which siblings are still to come.
`reader`: every line whole and in order, files whole or refused. `smaps`: the
lookahead neither loses nor repeats a line; success of `scrape_stream` means
that every mapping of the body was delivered once and in order, or that the body
did not parse and none was. The body is the file but for a last line that
`is_vma_start` splits off, which never parses on its own. `descriptors`: no
move, reset or destruction leaks a number or closes someone else's file.
`logger`: every message whole, and every call returns.

Why these bounds: the hazards of a sweep concern one pid (dies, is reused,
changes, is filtered) beside another one that must not be disturbed; three
changes let a process be seen, exit, be reaped and its pid be taken again around
a scan. The feed properties are also proved without bounds. Three workers are
one to stop, one started during the stop and one after it. A circle of parents
with a process below it takes three processes, a tree beside it one more. Five
bytes and chunks of three put line ends before, on and after the edge of a
chunk, in a first, full and partial read. Five lines make two mappings with
metrics and one line too many. `WordSize` is small so that sums wrap. Three
handles are one to move from, one to move to and one beside them; with three
numbers and four opens a closed number is given out again while a `reset` is
under way, and the table can be full. Messages of three characters have newlines
at the start, in the middle, at the end and next to each other; three of them by
two threads wait for each other. A file of a test ends after any of its lines, one
file at a time, because no test depends on two. Six processes are more than the
list shows (`Shown` is 2 instead of 5); three of them are init, kthreadd and the
program, one is arbitrary. While the list is made, three changes are an exit, the
reaping and a new process with the same pid; they fall between any two calls. A
failing call and one change show that neither hides the other.

Runs that end in a counterexample, each of one property quoting what the
sources say (details in `PROJECT.json`, `findings`):

| run | what happens |
|---|---|
| `monitor_reused` | a pid reused between sweeps: old name, new memory, no `Created` |
| `monitor_restarted` | after `stop` and `start` known processes are `Created` again |
| `lifecycle_two_stops` | two concurrent `stop` calls end the program |
| `tree_circle` | ppids of different ages form a circle, its processes are not in the forest |

Differences between code and comments that need no run to be seen, and choices a
user of the code should know:

- `update_filter` does not notify `cv_`, whose comment
  (`process/process_monitor.hpp:66`) says it wakes the worker on filter updates.
- A filter change ends in `Terminated` for processes that live
  (`process/types.hpp:33`); an `Updated` event repeats the ppid and thread count
  of the discovery (`types.hpp:39`).
- A failing `readdir` is taken for the end of the directory
  (`sys_io/fs_directory.hpp:39`), and the rest of the processes for terminated;
  they come back, as `Convergence` in `monitor_feed` shows.
- `is_vma_start` (`scrapers/maps_scraper.hpp:45`) accepts no line that still has
  its newline, and `read_line` leaves it there: smaps is read as one block, and
  one mapping that does not parse loses all of them.
- `read_all` after `read_line` leaves out what is buffered
  (`sys_io/fs_reader.hpp:30`: "the entire remaining file contents").
- `stop` inside the callback joins its own thread.
- The process list of `main.cpp` asks the filter once and reads status and statm
  later (`main.cpp:260-263`): its lines may be of a zombie, or of a process that
  the filter was never asked about, and may have the name of one process and the
  memory of the next with the same pid.
- A process named by a number, decimal or with 0x, is listed as "Unknown", of a
  name with blanks the first word is shown, and one with a character that is not
  printable is not tracked at all: its status does not parse.
- A path with a blank (`... (deleted)`) makes all of maps or smaps fail; an
  empty maps file is accepted.
- `main` does not call `test_kv_scraper`; its test of a file that does not parse
  passes when the file cannot be opened.
- The error formatter of the file system names `@FS_TEMPLATE_VALUE@`, which cmake
  does not set; `fs_errc::not_found` is ENOTDIR, so that ENOENT prints as
  unknown; `scrapper_errc::file_too_large` is never produced.

Deadlock is not checked: monitors may be stopped for good, files and tests end,
and the bounds stop the kernel, the logging threads and the opening of files.

### Fairness

`Convergence` assumes weak fairness of the worker as a whole: its thread is
scheduled, its calls return, and the interval of `wait_for` passes. It speaks of
behaviours in which calls fail only finitely often (`<>[][~FaultStep]_vars`) and
nobody stops the monitor; changes end with `MaxChanges`.
`CallsReturn` assumes weak fairness of each thread's steps and strong fairness
of its acquisitions of a mutex: a mutex that becomes free again and again is
obtained at some time. std::mutex does not promise that on paper; the platforms'
mutexes keep it in practice, and without it no program with two contending
threads terminates. No client is assumed to call anything, and the interval need
not pass, so that the run shows that `stop` does not rely on it. `Returns`
assumes that a call that began goes on, not that reads succeed or fail. The logger's
`CallsReturn` assumes weak fairness of a thread's writing and strong fairness of
its `Lock`, for the same reason as above.

## 4. Proofs

No theorem has a bound on its instance: all hold for every value of the constants
that the named assumptions of the modules admit, and the hypotheses below.

| module | theorem | states |
|---|---|---|
| `ProcessMonitorProofs` | `TypeCorrect` | `Spec => []TypeOK` |
| | `SweepOnce` | `Spec => []SweepMeetsPidOnce` |
| | `BatchCorrect` | `Spec => []BatchIsDelta` |
| | `FeedCorrect` | `Spec => []FeedMatchesCache` |
| | `Refinement` | `MaxRuns = 1 => (Spec => FeedIsTable)` |
| | `EvictionCorrect` | `Spec => EvictionJustified`, if `readdir`, `stat` and `status` are not among `Faults` |
| `MonitorLifecycleProofs` | `TypeCorrect` | `Spec => []TypeOK` |
| | `AtMostOne` | `Spec => []OneWorker` |
| | `StopEnds` | `Spec => []StopIsFinal` |
| | `NoOneAborts` | `Spec => []NoAbort`, for one thread that stops and callbacks that do not |
| | `Refinement` | `Spec => WorkersTakeTurns`, for one thread that stops |
| `FileReaderProofs` | `TypeCorrect`, `NothingLostCorrect`, `WholeFileCorrect` | `Spec => []TypeOK`, `[]NothingLost`, `[]WholeFile` |
| | `Refinement` | `Spec => ReadsLines` |
| `SmapsStreamProofs` | `PartitionCorrect`, `TypeCorrect` | `Spec => []LinesPartitioned`, `[]TypeOK` |
| | `DeliveredCorrect` | `Spec => []DeliveredWhole` |
| `MultilineLoggerProofs` | `TypeCorrect` | `Spec => []TypeOK` |
| | `Refinement` | `Spec => WholeMessages` |
| `ComponentTestsProofs` | `Inductive` | `Spec => []IInv` |
| | `RowsCorrect`, `RowsAll`, `ExitCorrect` | `Spec => []RowsTrue`, `[]RowsComplete`, `[]ExitTellsTruth` |
| | `PlacedOnce` | `Spec => []Placed` |
| | `BuildEnds`, `BuildComplete` | `Spec => []Terminates`, `[]Complete`, if `StackSuffices` |
| | `TotalsCorrect`, `PictureReadable` | `Spec => []Totals`, `[]TreeReadable`, if `StackSuffices` |
| `DescriptorsProofs` | `TypeCorrect`, `NothingLeaks`, `SingleOwner` | `Spec => []TypeOK`, `[]NoLeak`, `[]OneOwner` |
| | `Refinement` | `Spec => FilesAreOwned` |

### The feed (`ProcessMonitorProofs`)

The assumptions are those of `ProcessMonitor`: `MonitorAssumption` gives the
constants their types, `PagesFitAssumption` says that a machine has less than
2^64 bytes. The latter is needed: were it false, two different page counts could
be the same number of bytes, and an `Updated` event would change nothing.
`NamesAssumption` keeps the names of the initial processes apart from those given
out later; it is about naming only.

The argument. What one wants, `FeedMatchesCache`, is false during a sweep, when
the cache is ahead of the consumer by the events of the batch. `BatchIsDelta`
says by how much: each event leads from the consumer's row of its pid to the row
of the cache, and a pid without an event has equal rows. This is preserved by
adding an event only if its pid has none yet, which is `SweepMeetsPidOnce`: the
pids still to be processed are increasing, hence different, and none of them has
an event. That in turn rests on the order of the scan. `Control` collects what
is known at each location (for instance that a sweep does not begin with events
left over). `IInv`, the conjunction of the four with `TypeOK`, is inductive;
`Inductive` is proved by one lemma per conjunct and one step per action. The
callback goes backwards through the same argument: applying the first event
makes the rows of its pid equal. The refinement then reads each `Consume` as an
insertion, a modification or a removal of one row.

For a second worker the rows are not those of the cache (`monitor_restarted`),
so the properties about them speak of the first one.

### Evictions (`ProcessMonitorProofs`)

`EvictionJustified` says of an `Evict` step that the process is gone or excluded
by a filter in use. When it happens, the reason may be long past: the process
was seen, or not, when the scan passed its pid. So the invariant `Judged` says,
of each pid the scan has passed and not returned, that the cached process is
`Lost`: it is not the one that has the pid now, or some filter excludes it.
`Lost` is stable. A name is not used again (`NamesUsed`), a kernel thread and a
zombie stay what they are, an owner does not change (`Later`). `opendir` and the
reads of statm may fail without harm; `readdir`, `stat` and status may not, which
is why they are in the hypothesis.

### The life cycle (`MonitorLifecycleProofs`)

`IInv` is `TypeOK` with: all threads abort or none (`AbortAll`); `worker_` is the
last worker or nobody, and no other one lives (`Slots`); a worker ends only when
told to (`Told`); what `StopIsFinal` says, for calls of `start` too (`Final`);
the destructor is alone, and after it nothing lives (`Ended`); at most one thread
is in `join`, with a thread to join (`Joins`); and a worker is left for each
`start` under way (`Bounded`), which is about the model's bound only. This
needs no hypothesis. `NoOneAborts` needs two, and neither is mentioned by the
class: one thread stops (`OneStopper`; `lifecycle_two_stops` shows what happens
otherwise) and no callback does. Between the check and the `join` of the one
that stops, nobody else can then replace or join the worker.

### Readers (`FileReaderProofs`, `SmapsStreamProofs`)

Sequences that are cut and joined are hard for the provers; the invariant of
`FileReader` speaks of bytes. What was returned is the start of the file
(`DeliveredPart`), what the running call has collected follows it
(`CollectedPart`), what is in the buffer ends at the descriptor's offset
(`BufferedPart`), and unless a call failed the three lengths add up to that
offset (`AllRead`). `NothingLost` follows byte by byte. For the refinement, a
line has no newline before its end (`InOneLine`).

`SmapsStreamProofs` needs to know that `read_next_block` takes the lookahead
before it reads (`Control`): so a line is never put into a lookahead that is in
use. The rest is `LinesPartitioned` itself, split into what was returned and what
is pending. `TypeOK` says among other things that what was delivered are lines of
the file, which is a fact about `Selected`. For `DeliveredWhole`, a line with its
newline is no start of a mapping for `is_vma_start`, so a file is split at its
last line if at all (`StartsAtEnd`), and the invariant has three cases: before a
block was returned nothing is delivered and the block under construction is all
that was read (`Before`); then only the line split off is left, which does not
parse (`Between`, `CutFails`); then the end was seen (`After`).

### Descriptors (`DescriptorsProofs`)

`IInv` is `TypeOK`, `NoLeak` and `OneOwner`, and besides that no two numbers stand
for one file (`Distinct`), which follows from the numbering of files (`Numbered`),
and that other owners' numbers are open. All of it is about `Holds(h)`, the
number a handle answers for: in the middle of `reset`, when `fd_` names a number
that may already be someone else's, `Holds` is the new one, so that the moment of
danger is no exception. Each action is first reduced to what it does to
`table` and `Holds`, and then to each part of the invariant.

### The logger (`MultilineLoggerProofs`)

`MessageLog` says what the lines of a message are by the positions of its
newlines: the line that the n-th newline ends is the n-th. The invariant is this
for the part of the message written so far: the thread with the mutex stands at
the start of a line (`Begun`), and the end of the output has the lines up to
there (`LinesOf`). Only the thread with the mutex is past the start of its loop
(`Mutex`), so nobody else's lines come between. `Refinement` maps `output` to
what was there before the message in progress; the last piece is `Write`, every
other step stutters or is `Log`.

### The tests and the process list (`ComponentTestsProofs`)

`IInv` says that the history ends with the present table and that a pid which was
never free is a kernel thread's always or never (`WorldKept`), where the program
is (`Phase`), that the filter admitted each pid to come at some time (`PidsFrom`),
that the metadata was read after that (`MetaFrom`), that each line is of three
looks in order and of a pid before those to come (`RowsFrom`), that a process
which was admissible all the time and had no failing call was not passed over
(`Covered`, `ListEnded`), that each result is what its test returns in this
world (`Returned`), and what the exit status says of the results (`Summarised`).
A step of the kernel only makes the history longer, so that what was seen in it
remains, and what is true of all of it gets weaker. Beyond
the invariant, `RowsTrue` and `RowsComplete` need to know what `get` finds in a
status file: the first section of lemmas computes it from the words of the file.
`WorldAssumption` gives the worlds their types, says that a tracked process has a
positive pid and memory below 2^64, and that the kernel threads are kthreadd (pid 2) and its
children, which is how the kernel makes them and how `should_track` recognises
them.

### The tree (`SelectionProofs`, `ComponentTestsProofs`)

The functions of `ProcessTree` are recursive, and a proof needs induction. The
library's induction theorems take a predicate, which cannot be instantiated here;
`NatSet` states induction for a set instead, which can, and is proved from the
least element of a set of numbers (`NatLeast`). A recursive function is
shown to exist for arguments up to n by extending one for n - 1 (`LevelsTo`,
`GenerationsTo`, `SumsTo`, `PrintsTo`), and for the nested ones by the depth.

Then the argument is about lines of descent. `Path` is a sequence of processes
each of which is the parent of the next; `Reach` is its ends. Two lines to one
process meet (`LinesMeet`), so a process has one depth under the roots
(`OneDepth`): this is why nothing is placed twice. A line that is longer than the
list passes a process twice (`Revisits`, a pigeonhole), and from there it is on a
circle: a process is under a root exactly if no line to it comes from a circle
(`RootedUnlessCyclic`). This gives `Placed` for every stack, and, with
`StackSuffices` (the stack has room for as many calls as processes are followed),
`Terminates` and `Complete`. The hypothesis is needed: with a long chain of
processes and a small stack, `build_node` does overflow.

An aggregate wraps at every addition and the reference sum once, so sums are
compared modulo 2^64 (`ModAdd`). The descendants of a node are itself and, one
after the other, those of its children, which are disjoint by `OneDepth` (`UpTo`,
`UpToIs`), and the sum of a union of disjoint sets is the sum of sums
(`SumUnion`). `AccumulateIs` puts this together for one node, `AggregateIs` for
all by induction from the leaves.

The picture is proved in the same order. `Drawn` says that some lines are the
picture of a process: the first line is its own (`Begins`), each of its
descendants has one line (`Draws`), every other line is below its parent's, with
the right bars. `DrawnUpTo` says the same of the lines up to the k-th child,
where the last child so far still has to have a sibling below it; `Follows` is
the step that puts the lines of one more child behind. `DrawChild` proves the
step, an induction over children and one over the room on the stack the rest.
`DrawnReads` translates it to what `TreeReadable` says.

### Only model-checked

Liveness: `Convergence`, the two `CallsReturn`, and `Returns`, which are out of
the prover's reach. Every invariant and every action property of the runs that
pass is stated by a theorem, some under a hypothesis that the table names. What
the `monitor_*`, `lifecycle_two_stops` and `tree_circle` runs refute is shown by
TLC's counterexample.

## 5. Not modelled

The grammars character by character: Boost.Spirit does the work, and lines and
words are given by what the grammars tell apart. Error texts and categories
(`utils/error_utils.hpp`, the two `.hpp.in` files, `cmake/`): they convert codes
into words and keep no state. `StackPath`, which formats a path; its buffers are
long enough for every path the program makes. The build. Levels, colours and
time stamps of the log. Use of one reader with both of its methods, which no
caller makes. Allocation failure: it would end the program in every `noexcept`
function. `MonitorMode`, which `main.cpp` passes to the constructor, does not
exist in the library, so the test program does not compile as it is; its
consumer and tests are modelled all the same, being the only client there is.

## 6. Plan

Done: the modules, runs and theorems above. What could follow:

1. `MonitorSystem`: `ProcessMonitor` with the steps of `MonitorLifecycle` in place
   of its own `Start` and stop, to state what a consumer sees across `stop`
   and `start`; at present `WorkerSlot` is where the two meet.
2. Theorems about `MonitorTree`: that the lists `ProcessMonitor` delivers are lists
   without duplicates, which `ComponentTests` takes for granted.
3. `NoOneAborts` and `Refinement` of the life cycle for callbacks that may call
   `stop`, which needs the owner's thread told apart from the worker's.
