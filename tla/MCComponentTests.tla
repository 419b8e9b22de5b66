-------------------------- MODULE MCComponentTests --------------------------
(* The worlds of ComponentTests for TLC: one thing varies at a time.       *)
EXTENDS ComponentTests, TLC

CONSTANTS
  MaxRows,    \* bound: of tracked_processes
  MaxChanges  \* bound: of the changes of /proc while it is listed

\* Files that were written in part, cannot be read, or cannot be opened.
Cuts(name) ==
  {[opens |-> TRUE, reads |-> r, text |-> SubSeq(Written[name], 1, n)] :
     n \in 0..Len(Written[name]), r \in BOOLEAN}
  \cup {[opens |-> FALSE, reads |-> FALSE, text |-> <<>>]}
Whole(name) ==
  [opens |-> name # "nonexistent", reads |-> TRUE, text |-> Written[name]]
WholeFiles == [name \in FileName |-> Whole(name)]

NoProcess == [present |-> FALSE, comm |-> <<>>, ppid |-> 0, threads |-> 1,
              zombie |-> FALSE, kthread |-> FALSE, size |-> 0, resident |-> 0]
Comms == {<<>>, <<Text("cat")>>, <<Number(7)>>, <<[looks |-> "hex", value |-> 7]>>,
          <<[looks |-> "odd", value |-> "?"]>>, <<Text("Web"), Text("Content")>>,
          <<Text("cat"), [looks |-> "odd", value |-> "?"]>>}
Processes ==
  {p \in [present : {TRUE}, comm : Comms, ppid : {1, 2}, threads : {1, 3},
          zombie : BOOLEAN, kthread : BOOLEAN, size : {3}, resident : {1}] :
     p.kthread => p.ppid = 2}
Kthreadd == [NoProcess EXCEPT !.present = TRUE, !.comm = <<Text("kthreadd")>>,
                              !.kthread = TRUE]
User == [NoProcess EXCEPT !.present = TRUE, !.comm = <<Text("sh")>>, !.ppid = 1,
                          !.size = 2, !.resident = 1]
Booted == (1 :> [User EXCEPT !.ppid = 0]) @@ (2 :> Kthreadd)
          @@ (SelfPid :> User)

Default == [files |-> WholeFiles, listable |-> {"test_data", "/proc"},
            faults |-> {}, churn |-> 0, kthreadLine |-> TRUE, procs |-> Booted,
            busy |-> 0]

FileWorlds ==
  UNION {{[Default EXCEPT !.files[name] = cut] : cut \in Cuts(name)} :
           name \in FileName}
  \cup {[Default EXCEPT !.listable = dirs] : dirs \in SUBSET Default.listable}

ProcessWorlds ==
  {[Default EXCEPT !.procs = Booted @@ (4 :> p) @@ (5 :> q) @@ (6 :> User),
                   !.kthreadLine = line] :
     p \in Processes, q \in {User, [User EXCEPT !.zombie = TRUE]},
     line \in BOOLEAN}

\* Three processes, the second a child of the first, and what may be run.
Family == Booted @@ (4 :> User) @@ (5 :> [User EXCEPT !.ppid = 4]) @@ (6 :> User)
MCPrograms ==
  {[comm |-> <<Text("cat")>>, threads |-> 3, size |-> 4, resident |-> 2],
   [comm |-> <<[looks |-> "odd", value |-> "?"]>>, threads |-> 1, size |-> 4,
    resident |-> 2]}

\* A pid is free for another process after two changes.
ChurnWorlds ==
  {[Default EXCEPT !.procs = Family, !.churn = MaxChanges],
   [Default EXCEPT !.procs = Family, !.churn = 1,
                   !.faults = {"readdir", "stat", "status", "statm"}]}

MCRss == [p \in Pids |-> p]

MCWorlds ==
  FileWorlds \cup ProcessWorlds \cup ChurnWorlds
  \cup {[Default EXCEPT !.busy = MaxRows]}
=============================================================================
