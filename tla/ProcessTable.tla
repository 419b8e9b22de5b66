---------------------------- MODULE ProcessTable ----------------------------
(***************************************************************************)
(* What the monitor promises the consumer of its events: a table with at   *)
(* most one row per pid that changes one row at a time.  A row appears     *)
(* (Created), changes its memory and nothing else (Updated), and goes away *)
(* (Terminated).  The table never forgets a row on its own and never       *)
(* overwrites one with a row of another process.                           *)
(***************************************************************************)
CONSTANTS Pid,      \* process identifiers
          Info,     \* ProcessInfo values: records with a field mem
          None      \* no row

VARIABLE table

Init == table = [p \in Pid |-> None]

\* The rows of all pids but p stay as they are.
OnlyRow(p) == table' = [table EXCEPT ![p] = table'[p]]

Insert(p) ==
  /\ table[p] = None
  /\ table'[p] \in Info
  /\ OnlyRow(p)

\* The row keeps its name and ppid, and its memory really changes.
Modify(p) ==
  /\ table[p] # None
  /\ table'[p] \in Info
  /\ table'[p].mem # table[p].mem
  /\ table'[p] = [table[p] EXCEPT !.mem = table'[p].mem]
  /\ OnlyRow(p)

Remove(p) ==
  /\ table[p] # None
  /\ table' = [table EXCEPT ![p] = None]

Next == \E p \in Pid : Insert(p) \/ Modify(p) \/ Remove(p)

Spec == Init /\ [][Next]_table
=============================================================================
