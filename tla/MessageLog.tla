----------------------------- MODULE MessageLog -----------------------------
(***************************************************************************)
(* What MultilineLogger promises: a message appears in the output at once, *)
(* line by line, between its thread's call and the return of the call, and *)
(* nothing else comes between its lines.                                   *)
(***************************************************************************)
EXTENDS Naturals, Sequences, FiniteSets

CONSTANTS Thread, Newline, NoMessage

VARIABLES
  output,  \* the lines written
  pending  \* the message each thread is logging

vars == <<output, pending>>

\* A newline ends every line; what is behind the last one of a message is a
\* line, too, as is the empty message.
Ended(m) == IF m # <<>> /\ m[Len(m)] = Newline THEN m ELSE Append(m, Newline)

\* The newlines among the first n characters.
Ends(text, n) == {i \in 1..n : text[i] = Newline}

\* A line begins at first and ends with the newline at last.
IsLine(text, first, last) ==
  /\ text[last] = Newline /\ \A i \in first..last - 1 : text[i] # Newline
  /\ first = 1 \/ text[first - 1] = Newline

\* These are the lines of the message, without their newlines: the line that
\* the n-th newline ends is the n-th.
AreLines(lines, m) ==
  LET text == Ended(m) IN
  /\ Len(lines) = Cardinality(Ends(text, Len(text)))
  /\ \A last \in Ends(text, Len(text)) : \A first \in 1..last :
       IsLine(text, first, last) =>
         lines[Cardinality(Ends(text, last))] = SubSeq(text, first, last - 1)

Init == output = <<>> /\ pending = [t \in Thread |-> NoMessage]

Log(t) ==
  /\ pending[t] = NoMessage /\ pending'[t] # NoMessage
  /\ pending' = [pending EXCEPT ![t] = pending'[t]]
  /\ UNCHANGED output

Write(t) ==
  /\ pending[t] # NoMessage
  /\ LET lines == SubSeq(output', Len(output) + 1, Len(output')) IN
       output' = output \o lines /\ AreLines(lines, pending[t])
  /\ pending' = [pending EXCEPT ![t] = NoMessage]

Next == \E t \in Thread : Log(t) \/ Write(t)

Spec == Init /\ [][Next]_vars
=============================================================================
