----------------------------- MODULE LineStream -----------------------------
(***************************************************************************)
(* What the callers of FileReader::read_line count on: the lines of the    *)
(* file one after the other, each whole, none lost and none twice, until   *)
(* the file ends or reading fails.                                         *)
(***************************************************************************)
EXTENDS Naturals, Sequences

CONSTANT Newline   \* the byte that ends a line

VARIABLES file,    \* the bytes of the file
          taken    \* how many of them were delivered

\* The line that starts after the first n bytes ends with the e-th.
LineEnd(n, e) ==
  /\ e \in n + 1..Len(file)
  /\ \A i \in n + 1..e - 1 : file[i] # Newline
  /\ file[e] = Newline \/ e = Len(file)

Init == taken = 0

TakeLine ==
  /\ \E e \in DOMAIN file : LineEnd(taken, e) /\ taken' = e
  /\ UNCHANGED file

Spec == Init /\ [][TakeLine]_<<file, taken>>
=============================================================================
