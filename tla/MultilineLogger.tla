-------------------------- MODULE MultilineLogger ---------------------------
(***************************************************************************)
(* utils/logger.hpp: MultilineLogger::sink_it_ splits a message at its     *)
(* newlines and forwards the pieces to the single-threaded sink one after  *)
(* the other, under logger_mutex_, while other threads log as well.  A     *)
(* message is a sequence of characters; time, level and colours, the same  *)
(* for all lines of a message, are left out.                               *)
(***************************************************************************)
EXTENDS Naturals, Sequences, FiniteSets

CONSTANTS
  Thread,      \* the threads that log
  Character,   \* what messages are made of
  Newline,     \* one of them
  Messages,    \* what is logged
  Nobody,      \* no thread
  NoMessage,   \* no message
  MaxMessages  \* bound: calls in a behaviour

ASSUME LoggerAssumption ==
  /\ Newline \in Character /\ Messages \subseteq Seq(Character)
  /\ Nobody \notin Thread /\ NoMessage \notin Messages /\ MaxMessages \in Nat

VARIABLES
  logger_mutex_,
  payload,  \* of each thread's call, NoMessage when it makes none
  prev,     \* where the next piece starts
  calls,    \* how many calls were made
  output    \* what the sink wrote: the lines, without their newlines

vars == <<logger_mutex_, payload, prev, calls, output>>

Log(t) ==
  /\ payload[t] = NoMessage /\ calls < MaxMessages
  /\ \E m \in Messages : payload' = [payload EXCEPT ![t] = m]
  /\ calls' = calls + 1
  /\ UNCHANGED <<logger_mutex_, prev, output>>

\* Mutant: there is no lock.
LockNothing(t) ==
  /\ payload[t] # NoMessage /\ prev[t] = 0
  /\ prev' = [prev EXCEPT ![t] = 1]
  /\ UNCHANGED <<logger_mutex_, payload, calls, output>>

Lock(t) ==
  /\ payload[t] # NoMessage /\ prev[t] = 0
  /\ logger_mutex_ = Nobody /\ logger_mutex_' = t
  /\ prev' = [prev EXCEPT ![t] = 1]
  /\ UNCHANGED <<payload, calls, output>>

Holding(t) == payload[t] # NoMessage /\ prev[t] > 0

\* The newlines from prev on, and the one payload.find('\n', prev) returns.
Newlines(t) == {i \in prev[t]..Len(payload[t]) : payload[t][i] = Newline}
Found(t, pos) == pos \in Newlines(t) /\ \A i \in Newlines(t) : pos <= i

Forward(t, last) == output' = Append(output, SubSeq(payload[t], prev[t], last))

\* Mutant: the piece has its newline.
ForwardLineWhole(t) ==
  /\ Holding(t)
  /\ \E pos \in 1..Len(payload[t]) :
       Found(t, pos) /\ Forward(t, pos) /\ prev' = [prev EXCEPT ![t] = pos + 1]
  /\ UNCHANGED <<logger_mutex_, payload, calls>>

\* One turn of the loop: the piece before the next newline.
ForwardLine(t) ==
  /\ Holding(t)
  /\ \E pos \in 1..Len(payload[t]) :
       /\ Found(t, pos) /\ Forward(t, pos - 1)
       /\ prev' = [prev EXCEPT ![t] = pos + 1]
  /\ UNCHANGED <<logger_mutex_, payload, calls>>

Return(t) ==
  /\ logger_mutex_' = Nobody
  /\ payload' = [payload EXCEPT ![t] = NoMessage]
  /\ prev' = [prev EXCEPT ![t] = 0]
  /\ UNCHANGED calls

\* Mutant: unlocked by hand, and not when there is no rest.
ForwardRestStuck(t) ==
  /\ Holding(t) /\ Newlines(t) = {}
  /\ prev[t] <= Len(payload[t]) \/ payload[t] = <<>>
  /\ Forward(t, Len(payload[t]))
  /\ Return(t)

\* The text after the last newline, or the blank line of an empty message.
ForwardRest(t) ==
  /\ Holding(t) /\ Newlines(t) = {}
  /\ \/ /\ prev[t] <= Len(payload[t]) \/ payload[t] = <<>>
        /\ Forward(t, Len(payload[t]))
     \/ /\ prev[t] > Len(payload[t]) /\ payload[t] # <<>>
        /\ UNCHANGED output
  /\ Return(t)

-----------------------------------------------------------------------------
Init ==
  /\ logger_mutex_ = Nobody /\ payload = [t \in Thread |-> NoMessage]
  /\ prev = [t \in Thread |-> 0] /\ calls = 0 /\ output = <<>>

Write(t) == ForwardLine(t) \/ ForwardRest(t)

Next == \E t \in Thread : Log(t) \/ Lock(t) \/ Write(t)

Spec == Init /\ [][Next]_vars

\* Threads are scheduled, and get a mutex that becomes free again and again.
FairSpec ==
  Spec /\ \A t \in Thread : WF_vars(Write(t)) /\ SF_vars(Lock(t))

-----------------------------------------------------------------------------
(* Properties.                                                             *)

TypeOK ==
  /\ logger_mutex_ \in Thread \cup {Nobody}
  /\ payload \in [Thread -> Messages \cup {NoMessage}]
  /\ prev \in [Thread -> Nat]
  /\ \A t \in Thread :
       prev[t] <= IF payload[t] = NoMessage THEN 0 ELSE Len(payload[t]) + 1
  /\ calls \in 0..MaxMessages /\ output \in Seq(Seq(Character \ {Newline}))

\* The lines of the message being written are not part of the log until it
\* is complete: one for each newline before prev.
Written(t) == Cardinality({i \in 1..prev[t] - 1 : payload[t][i] = Newline})

\* What precedes them.
Complete ==
  IF logger_mutex_ = Nobody THEN output
  ELSE SubSeq(output, 1, Len(output) - Written(logger_mutex_))

Promised == INSTANCE MessageLog WITH output <- Complete, pending <- payload

\* The output is a sequence of whole messages, each split into its lines,
\* and what the thread that holds the mutex has written of the next.
WholeMessages == Promised!Spec

\* Every call returns.
CallsReturn == \A t \in Thread : payload[t] # NoMessage ~> payload[t] = NoMessage
=============================================================================
