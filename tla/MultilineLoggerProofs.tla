----------------------- MODULE MultilineLoggerProofs ------------------------
(* Theorems about MultilineLogger: for any number of threads, and messages *)
(* of any length.                                                          *)
EXTENDS MultilineLogger, FiniteSetTheorems, SequenceTheorems, TLAPS

-----------------------------------------------------------------------------
(* The inductive invariant.                                                *)

\* A thread is past the start of its loop if and only if it has the mutex.
Mutex == \A t \in Thread : prev[t] > 0 <=> logger_mutex_ = t

\* How many of the first n characters are newlines.
Count(text, n) == Cardinality(Promised!Ends(text, n))

\* The end of the output is the lines of the message up to prev, which is
\* the start of a line: the line of the n-th newline is the n-th of them.
Begun(t) == prev[t] = 1 \/ payload[t][prev[t] - 1] = Newline

LinesOf(t, lines, skipped) ==
  \A last \in Promised!Ends(payload[t], prev[t] - 1) : \A first \in 1..last :
    Promised!IsLine(payload[t], first, last) =>
      lines[skipped + Count(payload[t], last)] =
        SubSeq(payload[t], first, last - 1)

Pieces(t) ==
  /\ Begun(t)
  /\ Written(t) <= Len(output)
  /\ LinesOf(t, output, Len(output) - Written(t))

InProgress == \A t \in Thread : logger_mutex_ = t => Pieces(t)

IInv == TypeOK /\ Mutex /\ InProgress

-----------------------------------------------------------------------------
(* Newlines.                                                               *)

\* The promise counts as the log does.
LEMMA SameCardinality == \A S : Promised!Cardinality(S) = Cardinality(S)
BY DEF Promised!Cardinality, Cardinality

\* They are finitely many.
LEMMA CountType ==
  ASSUME NEW text, NEW n \in Nat
  PROVE  IsFiniteSet(Promised!Ends(text, n)) /\ Count(text, n) \in Nat
<1>1. IsFiniteSet(1..n)
  BY FS_Interval
<1>2. Promised!Ends(text, n) \subseteq 1..n
  BY DEF Promised!Ends
<1> QED
  BY <1>1, <1>2, FS_Subset, FS_CardinalityType DEF Count

\* There is none in an empty text.
LEMMA CountZero == ASSUME NEW text PROVE Count(text, 0) = 0
<1>1. Promised!Ends(text, 0) = {}
  BY DEF Promised!Ends
<1> QED
  BY <1>1, FS_EmptySet DEF Count

\* The next newline is one more.
LEMMA CountNext ==
  ASSUME NEW text, NEW n \in Nat, NEW last \in Nat, n < last,
         text[last] = Newline, \A i \in n + 1..last - 1 : text[i] # Newline
  PROVE  Count(text, last) = Count(text, n) + 1
<1>1. Promised!Ends(text, last) = Promised!Ends(text, n) \cup {last}
  <2>1. ASSUME NEW i
        PROVE  i \in Promised!Ends(text, last)
               <=> i \in Promised!Ends(text, n) \cup {last}
    <3>1. CASE i \in 1..last
      BY <3>1 DEF Promised!Ends
    <3>2. CASE i \notin 1..last
      BY <3>2 DEF Promised!Ends
    <3> QED BY <3>1, <3>2
  <2> QED BY <2>1
<1>2. last \notin Promised!Ends(text, n)
  BY DEF Promised!Ends
<1> QED
  BY <1>1, <1>2, CountType, FS_AddElement DEF Count

\* A newline is the n-th for an n between 1 and their number.
LEMMA CountOf ==
  ASSUME NEW text, NEW n \in Nat, NEW last \in Promised!Ends(text, n)
  PROVE  Count(text, last) \in 1..Count(text, n)
<1>1. last \in Nat /\ last \in 1..n
  BY DEF Promised!Ends
<1>2. Promised!Ends(text, last) \subseteq Promised!Ends(text, n)
  BY <1>1 DEF Promised!Ends
<1>3. Count(text, last) <= Count(text, n)
  BY <1>1, <1>2, CountType, FS_Subset DEF Count
<1>4. last \in Promised!Ends(text, last)
  BY <1>1 DEF Promised!Ends
<1>5. Count(text, last) # 0
  BY <1>1, <1>4, CountType, FS_EmptySet DEF Count
<1> QED
  BY <1>1, <1>3, <1>5, CountType

\* Of two texts only the newlines of the common part count.
LEMMA CountSame ==
  ASSUME NEW text, NEW other, NEW n \in Nat,
         \A i \in 1..n : text[i] = other[i]
  PROVE  Promised!Ends(text, n) = Promised!Ends(other, n)
         /\ Count(text, n) = Count(other, n)
<1>1. Promised!Ends(text, n) = Promised!Ends(other, n)
  BY DEF Promised!Ends
<1> QED
  BY <1>1 DEF Count

\* Where no newline is between, the number stays.
LEMMA CountMore ==
  ASSUME NEW text, NEW n \in Nat, NEW m \in Nat, n <= m,
         \A i \in n + 1..m : text[i] # Newline
  PROVE  Promised!Ends(text, m) = Promised!Ends(text, n)
         /\ Count(text, m) = Count(text, n)
<1>1. Promised!Ends(text, m) = Promised!Ends(text, n)
  <2>1. ASSUME NEW i
        PROVE  i \in Promised!Ends(text, m) <=> i \in Promised!Ends(text, n)
    BY DEF Promised!Ends
  <2> QED BY <2>1
<1> QED
  BY <1>1 DEF Count

\* A line that ends behind prev, with no newline between, begins at prev.
LEMMA LineBegins ==
  ASSUME NEW text, NEW start \in Nat \ {0}, NEW last \in Nat, start <= last,
         start = 1 \/ text[start - 1] = Newline,
         \A i \in start..last - 1 : text[i] # Newline,
         NEW first \in 1..last, Promised!IsLine(text, first, last)
  PROVE  first = start
<1>1. CASE first < start
  <2>1. start - 1 \in first..last - 1 /\ start # 1
    BY <1>1
  <2> QED
    BY <2>1 DEF Promised!IsLine
<1>2. CASE first > start
  <2>1. first - 1 \in start..last - 1 /\ first # 1
    BY <1>2
  <2> QED
    BY <2>1 DEF Promised!IsLine
<1> QED
  BY <1>1, <1>2

\* Where the lines of the message are in the output: base lines before them.
LEMMA PlaceWithin ==
  ASSUME NEW base \in Nat, NEW n \in Nat, NEW size \in Nat, base + n = size,
         NEW i \in 1..n
  PROVE  base + i \in 1..size
OBVIOUS

\* The line after n lines.
LEMMA PlaceNext ==
  ASSUME NEW base \in Nat, NEW n \in Nat, NEW size \in Nat, base + n = size
  PROVE  base + (n + 1) = size + 1
OBVIOUS

\* A line more moves none of those before.
LEMMA PlaceKept ==
  ASSUME NEW n \in Nat, NEW size \in Nat
  PROVE  (size + 1) - (n + 1) = size - n
OBVIOUS

-----------------------------------------------------------------------------
(* The steps.                                                              *)

\* What is logged is a text.
LEMMA Payload ==
  ASSUME TypeOK, NEW t \in Thread, payload[t] # NoMessage
  PROVE  /\ payload[t] \in Messages /\ payload[t] \in Seq(Character)
         /\ Len(payload[t]) \in Nat /\ prev[t] \in 0..Len(payload[t]) + 1
<1>1. payload[t] \in Messages /\ prev[t] \in Nat
  BY DEF TypeOK
<1>2. payload[t] \in Seq(Character)
  BY <1>1, LoggerAssumption
<1>3. prev[t] <= Len(payload[t]) + 1
  BY DEF TypeOK
<1> QED
  BY <1>1, <1>2, <1>3, LenProperties

\* Written counts the newlines before prev.
LEMMA WrittenIs ==
  ASSUME NEW t \in Thread
  PROVE  /\ Written(t) = Count(payload[t], prev[t] - 1)
         /\ Written(t)' = Count(payload'[t], prev'[t] - 1)
BY DEF Written, Count, Promised!Ends

\* A call begins.
LEMMA LogKeeps ==
  ASSUME IInv, NEW t \in Thread, Log(t)
  PROVE  IInv'
<1>. USE DEF IInv, Log
<1>1. PICK m \in Messages : payload' = [payload EXCEPT ![t] = m]
  OBVIOUS
<1>2. prev[t] = 0 /\ logger_mutex_ # t
  <2>1. prev[t] <= 0 /\ prev[t] \in Nat
    BY DEF TypeOK
  <2> QED BY <2>1 DEF Mutex
<1>3. TypeOK'
  <2>1. Len(m) \in Nat
    BY <1>1, LoggerAssumption, LenProperties
  <2>2. payload' \in [Thread -> Messages \cup {NoMessage}]
    BY <1>1 DEF TypeOK
  <2>3. calls' \in 0..MaxMessages
    BY LoggerAssumption DEF TypeOK
  <2>4. m # NoMessage
    BY <1>1, LoggerAssumption
  <2>5. \A u \in Thread : prev'[u] <=
          IF payload'[u] = NoMessage THEN 0 ELSE Len(payload'[u]) + 1
    <3> SUFFICES ASSUME NEW u \in Thread
                 PROVE  prev[u] <=
                   IF payload'[u] = NoMessage THEN 0 ELSE Len(payload'[u]) + 1
      OBVIOUS
    <3>1. CASE u = t
      BY <1>1, <1>2, <2>1, <2>4, <3>1 DEF TypeOK
    <3>2. CASE u # t
      BY <1>1, <3>2 DEF TypeOK
    <3> QED BY <3>1, <3>2
  <2> QED
    BY <2>2, <2>3, <2>5 DEF TypeOK
<1>4. Mutex'
  BY DEF Mutex
<1>5. InProgress'
  <2> SUFFICES ASSUME NEW u \in Thread, logger_mutex_ = u
               PROVE  Pieces(u)'
    BY DEF InProgress
  <2>1. payload'[u] = payload[u]
    BY <1>1, <1>2 DEF TypeOK
  <2>2. Pieces(u)
    BY DEF InProgress
  <2>3. Written(u)' = Written(u)
    BY <2>1, WrittenIs
  <2> QED
    BY <2>1, <2>2, <2>3 DEF Pieces, Begun, LinesOf
<1> QED
  BY <1>3, <1>4, <1>5

\* The thread gets the mutex, and has written nothing yet.
LEMMA LockKeeps ==
  ASSUME IInv, NEW t \in Thread, Lock(t)
  PROVE  IInv'
<1>. USE DEF IInv, Lock
<1>0. prev' = [prev EXCEPT ![t] = 1] /\ prev \in [Thread -> Nat]
  BY DEF TypeOK
<1>1. Len(payload[t]) \in Nat
  BY Payload
<1>2. TypeOK'
  <2>1. \A u \in Thread : prev'[u] <=
          IF payload[u] = NoMessage THEN 0 ELSE Len(payload[u]) + 1
    <3> SUFFICES ASSUME NEW u \in Thread
                 PROVE  prev'[u] <=
                   IF payload[u] = NoMessage THEN 0 ELSE Len(payload[u]) + 1
      OBVIOUS
    <3>1. CASE u = t
      BY <1>0, <1>1, <3>1
    <3>2. CASE u # t
      BY <1>0, <3>2 DEF TypeOK
    <3> QED BY <3>1, <3>2
  <2> QED
    BY <1>0, <2>1 DEF TypeOK
<1>3. Mutex'
  BY <1>0, LoggerAssumption DEF Mutex
<1>4. InProgress'
  <2>1. prev'[t] = 1 /\ payload' = payload /\ output' = output
    BY <1>0
  <2>2. Written(t)' = 0
    BY <2>1, WrittenIs, CountZero
  <2>3. Promised!Ends(payload[t], 0) = {}
    BY DEF Promised!Ends
  <2>4. output \in Seq(Seq(Character \ {Newline}))
    BY DEF TypeOK
  <2>5. Len(output) \in Nat
    BY <2>4, LenProperties
  <2>6. LinesOf(t, output, Len(output) - Written(t))'
    BY <2>1, <2>3 DEF LinesOf
  <2>7. Pieces(t)'
    BY <2>1, <2>2, <2>5, <2>6 DEF Pieces, Begun
  <2> QED
    BY <2>7 DEF InProgress
<1> QED
  BY <1>2, <1>3, <1>4

\* The facts of a loop's turn that find the newline at pos.
LEMMA FoundLine ==
  ASSUME IInv, NEW t \in Thread, Holding(t),
         NEW pos \in 1..Len(payload[t]), Found(t, pos)
  PROVE  /\ prev[t] \in 1..pos /\ payload[t][pos] = Newline
         /\ \A i \in prev[t]..pos - 1 : payload[t][i] # Newline
         /\ logger_mutex_ = t /\ Pieces(t)
<1>1. Len(payload[t]) \in Nat /\ prev[t] \in Nat
  BY Payload DEF IInv, Holding
<1>2. pos \in prev[t]..Len(payload[t]) /\ payload[t][pos] = Newline
  BY DEF Found, Newlines
<1>3. \A i \in prev[t]..Len(payload[t]) : payload[t][i] = Newline => pos <= i
  BY DEF Found, Newlines
<1>4. \A i \in prev[t]..pos - 1 : payload[t][i] # Newline
  BY <1>1, <1>2, <1>3
<1>5. logger_mutex_ = t /\ Pieces(t)
  BY DEF IInv, Mutex, InProgress, Holding
<1> QED
  BY <1>1, <1>2, <1>4, <1>5 DEF Holding

\* A piece of a message without a newline in it is a line.
LEMMA PieceType ==
  ASSUME NEW text \in Seq(Character), NEW first \in 1..Len(text) + 1,
         NEW last \in 0..Len(text), first <= last + 1,
         \A i \in first..last : text[i] # Newline
  PROVE  SubSeq(text, first, last) \in Seq(Character \ {Newline})
<1> DEFINE piece == SubSeq(text, first, last)
<1>1. Len(text) \in Nat /\ DOMAIN text = 1..Len(text)
      /\ \A i \in 1..Len(text) : text[i] \in Character
  BY LenProperties, ElementOfSeq
<1>2. Len(piece) = last - first + 1 /\ piece \in Seq(Character)
      /\ \A i \in 1..last - first + 1 : piece[i] = text[first + i - 1]
  BY <1>1, SubSeqProperties
<1>3. last - first + 1 \in Nat
  BY <1>1
<1>4. \A i \in 1..last - first + 1 : piece[i] \in Character \ {Newline}
  BY <1>1, <1>2
<1>5. piece \in [1..last - first + 1 -> Character \ {Newline}]
  BY <1>2, <1>4, LenProperties
<1> QED
  BY <1>3, <1>5, SeqDef

\* A line more, up to the newline at pos.
LEMMA ForwardLineKeeps ==
  ASSUME IInv, NEW t \in Thread, ForwardLine(t)
  PROVE  IInv'
<1>0. PICK pos \in 1..Len(payload[t]) :
        /\ Found(t, pos) /\ Forward(t, pos - 1)
        /\ prev' = [prev EXCEPT ![t] = pos + 1]
  BY DEF ForwardLine
<1> DEFINE text == payload[t]
           line == SubSeq(text, prev[t], pos - 1)
<1>1. Holding(t) /\ UNCHANGED <<logger_mutex_, payload, calls>>
  BY DEF ForwardLine
<1>2. /\ text \in Seq(Character) /\ Len(text) \in Nat /\ text # NoMessage
      /\ prev \in [Thread -> Nat] /\ output \in Seq(Seq(Character \ {Newline}))
      /\ Len(output) \in Nat
  BY <1>1, Payload, LenProperties DEF IInv, TypeOK, Holding
<1>3. /\ prev[t] \in 1..pos /\ text[pos] = Newline
      /\ \A i \in prev[t]..pos - 1 : text[i] # Newline
      /\ logger_mutex_ = t /\ Pieces(t)
  BY <1>0, <1>1, FoundLine
<1>4. output' = Append(output, line) /\ prev'[t] = pos + 1
      /\ \A u \in Thread : u # t => prev'[u] = prev[u]
  BY <1>0, <1>2 DEF Forward
<1>5. line \in Seq(Character \ {Newline})
  BY <1>2, <1>3, PieceType
<1>6. /\ output' \in Seq(Seq(Character \ {Newline}))
      /\ Len(output') = Len(output) + 1 /\ output'[Len(output) + 1] = line
      /\ \A i \in 1..Len(output) : output'[i] = output[i]
  BY <1>2, <1>4, <1>5, AppendProperties
<1>7. TypeOK'
  <2>1. prev' \in [Thread -> Nat]
    BY <1>0, <1>2
  <2>2. \A u \in Thread : prev'[u] <=
          IF payload[u] = NoMessage THEN 0 ELSE Len(payload[u]) + 1
    <3> SUFFICES ASSUME NEW u \in Thread
                 PROVE  prev'[u] <=
                   IF payload[u] = NoMessage THEN 0 ELSE Len(payload[u]) + 1
      OBVIOUS
    <3>1. CASE u = t
      BY <1>2, <1>4, <3>1
    <3>2. CASE u # t
      BY <1>4, <3>2 DEF IInv, TypeOK
    <3> QED BY <3>1, <3>2
  <2> QED
    BY <1>1, <1>6, <2>1, <2>2 DEF IInv, TypeOK
<1>8. Mutex'
  BY <1>1, <1>3, <1>4 DEF IInv, Mutex
<1>9. Written(t) = Count(text, prev[t] - 1) /\ Written(t)' = Count(text, pos)
      /\ Written(t) \in Nat /\ Written(t) <= Len(output)
      /\ Written(t)' = Written(t) + 1
  <2>1. Written(t) = Count(text, prev[t] - 1)
        /\ Written(t)' = Count(text, prev'[t] - 1)
    BY <1>1, WrittenIs
  <2>2. prev[t] - 1 \in Nat /\ pos \in Nat /\ prev'[t] - 1 = pos
    BY <1>2, <1>3, <1>4
  <2>3. Count(text, pos) = Count(text, prev[t] - 1) + 1
    <3>1. \A i \in (prev[t] - 1) + 1..pos - 1 : text[i] # Newline
      BY <1>3
    <3>2. prev[t] - 1 < pos
      BY <1>3
    <3>3. text[pos] = Newline
      BY <1>3
    <3>. HIDE DEF text
    <3> QED
      BY <2>2, <3>1, <3>2, <3>3, CountNext
  <2>4. Written(t) <= Len(output)
    BY <1>3 DEF Pieces
  <2> QED
    BY <2>1, <2>2, <2>3, <2>4, CountType
<1> DEFINE base == Len(output) - Written(t)
<1>10. \A last \in Promised!Ends(text, pos) : \A first \in 1..last :
         Promised!IsLine(text, first, last) =>
           output'[base + Count(text, last)] = SubSeq(text, first, last - 1)
  <2>0. base \in Nat /\ base + Written(t) = Len(output)
    BY <1>2, <1>9
  <2> SUFFICES ASSUME NEW last \in Promised!Ends(text, pos),
                      NEW first \in 1..last,
                      Promised!IsLine(text, first, last)
               PROVE  output'[base + Count(text, last)]
                      = SubSeq(text, first, last - 1)
    OBVIOUS
  <2>1. CASE last \in Promised!Ends(text, prev[t] - 1)
    <3>1. Count(text, last) \in 1..Written(t)
      BY <1>3, <1>9, <2>1, CountOf
    <3>2. base + Count(text, last) \in 1..Len(output)
      <4>. HIDE DEF base
      <4> QED BY <1>2, <1>9, <2>0, <3>1, PlaceWithin
    <3>3. output[base + Count(text, last)] = SubSeq(text, first, last - 1)
      BY <1>3, <2>1 DEF Pieces, LinesOf
    <3> QED
      BY <1>6, <2>0, <3>1, <3>2, <3>3
  <2>2. CASE last \notin Promised!Ends(text, prev[t] - 1)
    <3>1. last = pos
      BY <1>3, <2>2 DEF Promised!Ends
    <3>2. first = prev[t]
      <4>1. prev[t] \in Nat \ {0} /\ pos \in Nat /\ prev[t] <= pos
        BY <1>3
      <4>2. prev[t] = 1 \/ text[prev[t] - 1] = Newline
        BY <1>3 DEF Pieces, Begun
      <4>3. Promised!IsLine(text, first, pos) /\ first \in 1..pos
        BY <3>1
      <4>. HIDE DEF text
      <4> QED
        BY <1>3, <4>1, <4>2, <4>3, LineBegins
    <3>3. base + Count(text, last) = Len(output) + 1
      <4>1. Count(text, last) = Written(t) + 1
        BY <1>9, <3>1
      <4>. HIDE DEF base
      <4> QED BY <1>2, <1>9, <2>0, <4>1, PlaceNext
    <3> QED
      BY <1>6, <2>0, <1>9, <3>1, <3>2, <3>3
  <2> QED BY <2>1, <2>2
<1>11. Pieces(t)'
  <2>1. Begun(t)'
    BY <1>1, <1>3, <1>4 DEF Begun
  <2>2. Written(t)' <= Len(output')
    BY <1>2, <1>6, <1>9
  <2>3. LinesOf(t, output, Len(output) - Written(t))'
    <3>1. Len(output') - Written(t)' = base
      BY <1>2, <1>6, <1>9, PlaceKept
    <3>2. prev'[t] - 1 = pos
      BY <1>4
    <3> QED
      BY <1>1, <1>10, <3>1, <3>2 DEF LinesOf
  <2> QED
    BY <2>1, <2>2, <2>3 DEF Pieces
<1>12. InProgress'
  BY <1>1, <1>3, <1>11 DEF InProgress
<1> QED
  BY <1>7, <1>8, <1>12 DEF IInv

\* The holder's state at the end: behind the last newline, or the message
\* ends with it.
LEMMA RestFound ==
  ASSUME IInv, NEW t \in Thread, Holding(t), Newlines(t) = {}
  PROVE  /\ logger_mutex_ = t /\ Pieces(t) /\ payload[t] \in Seq(Character)
         /\ Len(payload[t]) \in Nat /\ prev[t] \in 1..Len(payload[t]) + 1
         /\ \A i \in prev[t]..Len(payload[t]) : payload[t][i] # Newline
<1>1. /\ Len(payload[t]) \in Nat /\ prev[t] \in 1..Len(payload[t]) + 1
      /\ payload[t] \in Seq(Character)
  BY Payload DEF IInv, Holding
<1>2. logger_mutex_ = t /\ Pieces(t)
  BY DEF IInv, Mutex, InProgress, Holding
<1> QED
  BY <1>1, <1>2 DEF Newlines

\* The call returns.
LEMMA ForwardRestKeeps ==
  ASSUME IInv, NEW t \in Thread, ForwardRest(t)
  PROVE  IInv'
<1>. USE DEF IInv, ForwardRest, Return
<1>1. /\ payload[t] \in Seq(Character) /\ Len(payload[t]) \in Nat
      /\ prev[t] \in 1..Len(payload[t]) + 1 /\ logger_mutex_ = t
      /\ \A i \in prev[t]..Len(payload[t]) : payload[t][i] # Newline
  BY RestFound
<1>2. output' \in Seq(Seq(Character \ {Newline}))
  <2>1. SubSeq(payload[t], prev[t], Len(payload[t]))
        \in Seq(Character \ {Newline})
    BY <1>1, PieceType
  <2>2. output \in Seq(Seq(Character \ {Newline}))
    BY DEF TypeOK
  <2>3. \A p \in Seq(Character \ {Newline}) :
          Append(output, p) \in Seq(Seq(Character \ {Newline}))
    BY <2>2, AppendProperties
  <2>4. output' = Append(output, SubSeq(payload[t], prev[t], Len(payload[t])))
        \/ output' = output
    BY DEF Forward
  <2>. HIDE DEF IInv, ForwardRest, Return
  <2> QED
    BY <2>1, <2>2, <2>3, <2>4
<1>3. /\ payload \in [Thread -> Messages \cup {NoMessage}]
      /\ prev \in [Thread -> Nat]
  BY DEF TypeOK
<1>4. TypeOK'
  <2>1. \A u \in Thread : prev'[u] <=
          IF payload'[u] = NoMessage THEN 0 ELSE Len(payload'[u]) + 1
    <3> SUFFICES ASSUME NEW u \in Thread
                 PROVE  prev'[u] <=
                   IF payload'[u] = NoMessage THEN 0 ELSE Len(payload'[u]) + 1
      OBVIOUS
    <3>1. CASE u = t
      BY <1>3, <3>1
    <3>2. CASE u # t
      BY <1>3, <3>2 DEF TypeOK
    <3> QED BY <3>1, <3>2
  <2> QED
    BY <1>2, <1>3, <2>1 DEF TypeOK
<1>5. Mutex'
  <2>1. prev' = [prev EXCEPT ![t] = 0] /\ prev \in [Thread -> Nat]
    BY <1>3
  <2>2. \A u \in Thread : u # logger_mutex_ => prev[u] = 0
    BY <1>3 DEF Mutex
  <2> QED
    BY <1>1, <2>1, <2>2, LoggerAssumption DEF Mutex
<1>6. InProgress'
  BY LoggerAssumption DEF InProgress
<1> QED
  BY <1>4, <1>5, <1>6

\* Every step keeps the invariant.
LEMMA Inductive == IInv /\ [Next]_vars => IInv'
<1> SUFFICES ASSUME IInv, [Next]_vars PROVE IInv'
  OBVIOUS
<1>1. ASSUME NEW t \in Thread, Log(t) PROVE IInv'
  BY <1>1, LogKeeps
<1>2. ASSUME NEW t \in Thread, Lock(t) PROVE IInv'
  BY <1>2, LockKeeps
<1>3. ASSUME NEW t \in Thread, ForwardLine(t) PROVE IInv'
  BY <1>3, ForwardLineKeeps
<1>4. ASSUME NEW t \in Thread, ForwardRest(t) PROVE IInv'
  BY <1>4, ForwardRestKeeps
<1>5. CASE UNCHANGED vars
  <2>1. ASSUME NEW t \in Thread PROVE Written(t)' = Written(t)
    BY <1>5, WrittenIs DEF vars
  <2>2. TypeOK' /\ Mutex'
    BY <1>5 DEF vars, IInv, TypeOK, Mutex
  <2>3. InProgress'
    BY <1>5, <2>1 DEF vars, IInv, InProgress, Pieces, Begun, LinesOf
  <2> QED
    BY <2>2, <2>3 DEF IInv
<1> QED
  BY <1>1, <1>2, <1>3, <1>4, <1>5 DEF Next, Write

\* It holds at the start.
LEMMA Initially == Init => IInv
<1> SUFFICES ASSUME Init PROVE IInv
  OBVIOUS
<1>1. output \in Seq(Seq(Character \ {Newline}))
  BY EmptySeq DEF Init
<1>2. TypeOK
  BY <1>1, LoggerAssumption DEF Init, TypeOK
<1>3. Mutex /\ InProgress
  BY LoggerAssumption DEF Init, Mutex, InProgress
<1> QED
  BY <1>2, <1>3 DEF IInv

\* What sink_it_ (logger.hpp) holds: its mutex is one of its threads', what is
\* cut off is within the message, and no line written has a newline in it.
THEOREM TypeCorrect == Spec => []TypeOK
<1>1. IInv => TypeOK
  BY DEF IInv
<1> QED
  BY Initially, Inductive, <1>1, PTL DEF Spec

-----------------------------------------------------------------------------
(* The refinement.                                                         *)

\* Two steps of the output: what is complete, and what follows it.
LEMMA SplitOutput ==
  ASSUME NEW S, NEW all \in Seq(S), NEW base \in 0..Len(all)
  PROVE  /\ all = SubSeq(all, 1, base) \o SubSeq(all, base + 1, Len(all))
         /\ Len(SubSeq(all, 1, base)) = base
         /\ Len(SubSeq(all, base + 1, Len(all))) = Len(all) - base
         /\ \A i \in 1..Len(all) - base :
              SubSeq(all, base + 1, Len(all))[i] = all[base + i]
<1> DEFINE done == SubSeq(all, 1, base)
           rest == SubSeq(all, base + 1, Len(all))
<1>1. Len(all) \in Nat /\ base \in Nat
  BY LenProperties
<1>2. /\ done \in Seq(S) /\ Len(done) = base
      /\ \A i \in 1..base : done[i] = all[i]
  BY <1>1, SubSeqProperties
<1>3. /\ rest \in Seq(S) /\ Len(rest) = Len(all) - base
      /\ \A i \in 1..Len(all) - base : rest[i] = all[base + i]
  BY <1>1, SubSeqProperties
<1>4. done \o rest = all
  <2>1. 1 \in 1..Len(all) + 1 /\ base \in 1 - 1..Len(all)
        /\ Len(all) \in base..Len(all)
    BY <1>1
  <2>2. done \o rest = SubSeq(all, 1, Len(all))
    BY <2>1, ConcatAdjacentSubSeq
  <2> QED
    BY <2>2, SubSeqFull
<1>. HIDE DEF done, rest
<1> QED
  BY <1>2, <1>3, <1>4 DEF done, rest

\* A text and a longer one that begins with it.
LEMMA SameWithin ==
  ASSUME NEW m \in Seq(Character), NEW text \in Seq(Character),
         Len(text) = Len(m) + 1, \A i \in 1..Len(m) : text[i] = m[i],
         NEW first \in Nat \ {0}, NEW last \in 1..Len(m) + 1, first <= last
  PROVE  SubSeq(text, first, last - 1) = SubSeq(m, first, last - 1)
<1>1. Len(m) \in Nat /\ (last - first) \in Nat
  BY LenProperties
<1> DEFINE a == SubSeq(text, first, last - 1)
           b == SubSeq(m, first, last - 1)
<1>2. /\ a \in Seq(Character) /\ Len(a) = last - first
      /\ \A i \in 1..last - first : a[i] = text[first + i - 1]
  BY <1>1, SubSeqProperties
<1>3. /\ b \in Seq(Character) /\ Len(b) = last - first
      /\ \A i \in 1..last - first : b[i] = m[first + i - 1]
  BY <1>1, SubSeqProperties
<1>4. \A i \in 1..last - first : first + i - 1 \in 1..Len(m)
  BY <1>1
<1>. HIDE DEF a, b
<1>5. Len(a) = Len(b) /\ \A i \in 1..Len(a) : a[i] = b[i]
  BY <1>1, <1>2, <1>3, <1>4
<1>6. a = b
  BY <1>2, <1>3, <1>5, SeqEqual
<1> QED
  BY <1>6 DEF a, b

\* What the holder wrote does not depend on the lines before.
LEMMA PrefixSame ==
  ASSUME NEW S, NEW all \in Seq(S), NEW more \in S, NEW base \in 0..Len(all)
  PROVE  SubSeq(Append(all, more), 1, base) = SubSeq(all, 1, base)
<1>1. Len(all) \in Nat /\ base \in Nat
  BY LenProperties
<1>2. /\ Append(all, more) \in Seq(S) /\ Len(Append(all, more)) = Len(all) + 1
      /\ \A i \in 1..Len(all) : Append(all, more)[i] = all[i]
  BY <1>1, AppendProperties
<1> DEFINE longer == Append(all, more)
<1> DEFINE a == SubSeq(longer, 1, base)
           b == SubSeq(all, 1, base)
<1>3. a \in Seq(S) /\ Len(a) = base /\ \A i \in 1..base : a[i] = longer[i]
  BY <1>1, <1>2, SubSeqProperties
<1>4. b \in Seq(S) /\ Len(b) = base /\ \A i \in 1..base : b[i] = all[i]
  BY <1>1, SubSeqProperties
<1>. HIDE DEF a, b
<1>5. Len(a) = Len(b) /\ \A i \in 1..Len(a) : a[i] = b[i]
  BY <1>1, <1>2, <1>3, <1>4
<1>6. a = b
  BY <1>3, <1>4, <1>5, SeqEqual
<1> QED
  BY <1>6 DEF a, b, longer

\* A call, the lock and a line more complete nothing.
LEMMA NothingComplete ==
  ASSUME IInv, NEW t \in Thread, Lock(t) \/ ForwardLine(t)
  PROVE  UNCHANGED <<Complete, payload>>
<1>1. output \in Seq(Seq(Character \ {Newline})) /\ Len(output) \in Nat
  BY LenProperties DEF IInv, TypeOK
<1>2. CASE Lock(t)
  <2>1. prev'[t] = 1
    BY <1>2 DEF IInv, TypeOK, Lock
  <2>2. Written(t)' = 0
    BY <2>1, WrittenIs, CountZero
  <2>3. /\ logger_mutex_ = Nobody /\ logger_mutex_' = t /\ output' = output
        /\ payload' = payload
    BY <1>2 DEF Lock
  <2>4. SubSeq(output, 1, Len(output) - 0) = output
    BY <1>1
  <2> QED
    BY <2>2, <2>3, <2>4, LoggerAssumption DEF Complete
<1>3. CASE ForwardLine(t)
  <2>1. PICK pos \in 1..Len(payload[t]) :
          Found(t, pos) /\ Forward(t, pos - 1)
          /\ prev' = [prev EXCEPT ![t] = pos + 1]
    BY <1>3 DEF ForwardLine
  <2> DEFINE line == SubSeq(payload[t], prev[t], pos - 1)
  <2>2. Holding(t) /\ UNCHANGED <<logger_mutex_, payload, calls>>
    BY <1>3 DEF ForwardLine
  <2>3. /\ prev[t] \in 1..pos /\ payload[t][pos] = Newline
        /\ \A i \in prev[t]..pos - 1 : payload[t][i] # Newline
        /\ logger_mutex_ = t /\ Pieces(t)
    BY <2>1, <2>2, FoundLine
  <2>4. payload[t] \in Seq(Character) /\ Len(payload[t]) \in Nat
    BY <2>2, Payload DEF IInv, Holding
  <2>5. line \in Seq(Character \ {Newline})
    BY <2>3, <2>4, PieceType
  <2>6. output' = Append(output, line) /\ Len(output') = Len(output) + 1
    BY <1>1, <2>1, <2>5, AppendProperties DEF Forward
  <2>7. Written(t)' = Written(t) + 1 /\ Written(t) \in Nat
        /\ Written(t) <= Len(output)
    <3>1. prev \in [Thread -> Nat] /\ prev[t] - 1 \in Nat /\ prev[t] - 1 < pos
      BY <2>3 DEF IInv, TypeOK
    <3>2. \A i \in (prev[t] - 1) + 1..pos - 1 : payload[t][i] # Newline
      BY <2>3
    <3>3. Count(payload[t], pos) = Count(payload[t], prev[t] - 1) + 1
      BY <2>3, <3>1, <3>2, CountNext
    <3>4. prev'[t] - 1 = pos
      BY <2>1, <3>1
    <3>5. Written(t) <= Len(output)
      BY <2>3 DEF Pieces
    <3> QED
      BY <2>2, <3>1, <3>3, <3>4, <3>5, WrittenIs, CountType
  <2>8. Len(output') - Written(t)' = Len(output) - Written(t)
    BY <1>1, <2>6, <2>7, PlaceKept
  <2>9. SubSeq(output', 1, Len(output) - Written(t))
        = SubSeq(output, 1, Len(output) - Written(t))
    <3>1. Len(output) - Written(t) \in 0..Len(output)
      BY <1>1, <2>7
    <3> QED
      BY <1>1, <2>5, <2>6, <3>1, PrefixSame
  <2> QED
    BY <2>2, <2>3, <2>8, <2>9, LoggerAssumption DEF Complete
<1> QED
  BY <1>2, <1>3

\* At the end the lines written are those of the message.
LEMMA LinesComplete ==
  ASSUME IInv, NEW t \in Thread, ForwardRest(t)
  PROVE  LET base == Len(output) - Written(t)
             lines == SubSeq(output', base + 1, Len(output'))
         IN  /\ base \in 0..Len(output')
             /\ SubSeq(output', 1, base) = SubSeq(output, 1, base)
             /\ Promised!AreLines(lines, payload[t])
<1> DEFINE base == Len(output) - Written(t)
           lines == SubSeq(output', base + 1, Len(output'))
           m == payload[t]
           text == Promised!Ended(m)
<1>1. /\ logger_mutex_ = t /\ Pieces(t) /\ m \in Seq(Character)
      /\ Len(m) \in Nat /\ prev[t] \in 1..Len(m) + 1
      /\ \A i \in prev[t]..Len(m) : m[i] # Newline
  BY RestFound DEF ForwardRest
<1>2. /\ output \in Seq(Seq(Character \ {Newline})) /\ Len(output) \in Nat
      /\ output' \in Seq(Seq(Character \ {Newline}))
  BY ForwardRestKeeps, LenProperties DEF IInv, TypeOK
<1>3. Written(t) = Count(m, prev[t] - 1) /\ Written(t) \in Nat
      /\ Written(t) <= Len(output) /\ prev[t] - 1 \in Nat
  BY <1>1, WrittenIs, CountType DEF Pieces
<1>4. base \in 0..Len(output) /\ base + Written(t) = Len(output) /\ base \in Nat
  BY <1>2, <1>3
<1>5. \A last \in Promised!Ends(m, prev[t] - 1) : \A first \in 1..last :
        Promised!IsLine(m, first, last) =>
          output[base + Count(m, last)] = SubSeq(m, first, last - 1)
  BY <1>1 DEF Pieces, LinesOf
<1>6. CASE prev[t] <= Len(m) \/ m = <<>>
  <2> DEFINE rest == SubSeq(m, prev[t], Len(m))
  <2>1. output' = Append(output, rest)
    BY <1>1, <1>6 DEF ForwardRest, Forward
  <2>2. rest \in Seq(Character \ {Newline})
    BY <1>1, PieceType
  <2>3. /\ Len(output') = Len(output) + 1 /\ output'[Len(output) + 1] = rest
        /\ \A i \in 1..Len(output) : output'[i] = output[i]
    BY <1>2, <2>1, <2>2, AppendProperties
  <2>4. base \in 0..Len(output')
    BY <1>2, <1>4, <2>3
  <2>5. SubSeq(output', 1, base) = SubSeq(output, 1, base)
    BY <1>2, <1>4, <2>1, <2>2, PrefixSame
  <2>6. Len(lines) = Written(t) + 1
        /\ \A i \in 1..Written(t) + 1 : lines[i] = output'[base + i]
    <3>1. Len(output') - base = Written(t) + 1
      BY <1>2, <1>3, <1>4, <2>3
    <3> QED
      BY <1>2, <2>4, <3>1, SplitOutput
  <2>7. text = Append(m, Newline)
    BY <1>1, <1>6 DEF Promised!Ended
  <2>8. /\ Len(text) = Len(m) + 1 /\ text[Len(m) + 1] = Newline
        /\ text \in Seq(Character) /\ \A i \in 1..Len(m) : text[i] = m[i]
    BY <1>1, <2>7, AppendProperties, LoggerAssumption
  <2>. HIDE DEF text, lines, base
  <2>9. /\ Promised!Ends(text, prev[t] - 1) = Promised!Ends(m, prev[t] - 1)
        /\ Count(text, prev[t] - 1) = Written(t)
    <3>1. \A i \in 1..prev[t] - 1 : text[i] = m[i]
      BY <1>1, <2>8
    <3> QED
      BY <1>3, <3>1, CountSame
  <2>10. Count(text, Len(m) + 1) = Written(t) + 1
    <3>1. \A i \in (prev[t] - 1) + 1..(Len(m) + 1) - 1 : text[i] # Newline
      BY <1>1, <2>8
    <3>2. prev[t] - 1 < Len(m) + 1 /\ Len(m) + 1 \in Nat
      BY <1>1
    <3> QED
      BY <1>3, <2>8, <2>9, <3>1, <3>2, CountNext
  <2>11. ASSUME NEW last \in Promised!Ends(text, Len(text)),
                NEW first \in 1..last, Promised!IsLine(text, first, last)
         PROVE  lines[Count(text, last)] = SubSeq(text, first, last - 1)
    <3>0. last \in 1..Len(m) + 1 /\ text[last] = Newline /\ last \in Nat
          /\ first \in Nat
      BY <2>8 DEF Promised!Ends
    <3>1. SubSeq(text, first, last - 1) = SubSeq(m, first, last - 1)
      BY <1>1, <2>8, <3>0, SameWithin
    <3>2. CASE last <= prev[t] - 1
      <4>1. last \in Promised!Ends(m, prev[t] - 1)
        BY <1>1, <2>8, <3>0, <3>2 DEF Promised!Ends
      <4>2. Promised!IsLine(m, first, last)
        <5>1. \A i \in 1..last : text[i] = m[i]
          BY <1>1, <2>8, <3>0, <3>2
        <5>2. first = 1 \/ first - 1 \in 1..last
          BY <3>0
        <5>3. last \in 1..last /\ \A i \in first..last - 1 : i \in 1..last
          BY <3>0
        <5> QED
          BY <2>11, <5>1, <5>2, <5>3 DEF Promised!IsLine
      <4>3. Count(text, last) = Count(m, last)
        <5>1. \A i \in 1..last : text[i] = m[i]
          BY <1>1, <2>8, <3>0, <3>2
        <5> QED BY <3>0, <5>1, CountSame
      <4>4. Count(m, last) \in 1..Written(t)
        BY <1>3, <4>1, CountOf
      <4>5. base + Count(m, last) \in 1..Len(output)
        BY <1>2, <1>3, <1>4, <4>4, PlaceWithin
      <4>6. Count(m, last) \in 1..Written(t) + 1
        BY <1>3, <4>4
      <4> QED
        BY <1>5, <2>3, <2>6, <3>1, <4>1, <4>2, <4>3, <4>5, <4>6
    <3>3. CASE last > prev[t] - 1
      <4>1. last = Len(m) + 1
        BY <1>1, <2>8, <3>0, <3>3
      <4>2. first = prev[t]
        <5>1. prev[t] \in Nat \ {0} /\ prev[t] <= last
          BY <1>1, <3>0, <3>3
        <5>2. prev[t] = 1 \/ text[prev[t] - 1] = Newline
          <6>1. prev[t] = 1 \/ m[prev[t] - 1] = Newline
            BY <1>1 DEF Pieces, Begun
          <6>2. prev[t] = 1 \/ prev[t] - 1 \in 1..Len(m)
            BY <1>1
          <6>. HIDE DEF m
          <6> QED
            BY <2>8, <6>1, <6>2
        <5>3. \A i \in prev[t]..last - 1 : text[i] # Newline
          BY <1>1, <2>8, <4>1
        <5> QED
          BY <2>11, <3>0, <5>1, <5>2, <5>3, LineBegins
      <4>3. base + (Written(t) + 1) = Len(output) + 1
        BY <1>2, <1>3, <1>4, PlaceNext
      <4>4. lines[Written(t) + 1] = rest
        BY <1>3, <2>3, <2>6, <4>3
      <4>5. SubSeq(text, first, last - 1) = rest
        BY <1>1, <3>1, <4>1, <4>2
      <4> QED
        BY <2>10, <4>1, <4>4, <4>5
    <3> QED
      BY <1>3, <3>0, <3>2, <3>3
  <2>12. Len(lines) = Cardinality(Promised!Ends(text, Len(text)))
    BY <2>6, <2>8, <2>10 DEF Count
  <2>13. Promised!AreLines(lines, m)
    <3>. HIDE DEF m
    <3> QED
      BY <2>11, <2>12, SameCardinality DEF Promised!AreLines, Count, text
  <2> QED
    BY <2>4, <2>5, <2>13 DEF lines, base
<1>7. CASE prev[t] > Len(m) /\ m # <<>>
  <2>1. output' = output
    BY <1>1, <1>7 DEF ForwardRest
  <2>2. prev[t] - 1 = Len(m) /\ Len(m) # 0
    <3>1. Len(m) # 0
      BY <1>1, <1>7, EmptySeq
    <3>. HIDE DEF m
    <3> QED
      BY <1>1, <1>7, <3>1
  <2>3. m[Len(m)] = Newline
    BY <1>1, <2>2 DEF Pieces, Begun
  <2>4. text = m
    BY <1>7, <2>3 DEF Promised!Ended
  <2>5. Len(lines) = Written(t)
        /\ \A i \in 1..Written(t) : lines[i] = output[base + i]
    <3>1. Len(output) - base = Written(t)
      BY <1>2, <1>3, <1>4
    <3> QED
      BY <1>2, <1>4, <2>1, <3>1, SplitOutput
  <2>. HIDE DEF text, lines, base
  <2>6. ASSUME NEW last \in Promised!Ends(m, Len(m)),
               NEW first \in 1..last, Promised!IsLine(m, first, last)
        PROVE  lines[Count(m, last)] = SubSeq(m, first, last - 1)
    <3>1. Count(m, last) \in 1..Written(t)
      BY <1>1, <1>3, <2>2, CountOf
    <3> QED
      BY <1>5, <2>2, <2>5, <2>6, <3>1
  <2>7. Len(lines) = Cardinality(Promised!Ends(m, Len(m)))
    BY <1>3, <2>2, <2>5 DEF Count
  <2>8. Promised!AreLines(lines, m)
    <3>1. Promised!Ended(m) = m
      BY <2>4 DEF text
    <3>. HIDE DEF m
    <3> QED
      BY <2>6, <2>7, <3>1, SameCardinality
         DEF Promised!AreLines, Count
  <2> QED
    BY <1>4, <2>1, <2>8 DEF lines, base
<1> QED
  BY <1>1, <1>6, <1>7

\* Every step writes a whole message, makes a call, or shows nothing.
LEMMA StepRefines ==
  ASSUME IInv, [Next]_vars
  PROVE  [Promised!Next]_(Promised!vars)
<1>0. /\ output \in Seq(Seq(Character \ {Newline}))
      /\ payload \in [Thread -> Messages \cup {NoMessage}]
  BY DEF IInv, TypeOK
<1>1. ASSUME NEW t \in Thread, Log(t) PROVE Promised!Log(t)
  <2>1. PICK m \in Messages : payload' = [payload EXCEPT ![t] = m]
    BY <1>1 DEF Log
  <2>2. m # NoMessage /\ payload'[t] = m /\ payload[t] = NoMessage
    BY <1>0, <1>1, <2>1, LoggerAssumption DEF Log
  <2>3. prev[t] = 0
    <3>1. prev[t] <= 0 /\ prev[t] \in Nat
      BY <2>2 DEF IInv, TypeOK
    <3> QED BY <3>1
  <2>4. logger_mutex_ # t
    BY <2>3 DEF IInv, Mutex
  <2>5. UNCHANGED <<logger_mutex_, prev, output>>
    BY <1>1 DEF Log
  <2>6. Complete' = Complete
    <3>1. CASE logger_mutex_ = Nobody
      BY <2>5, <3>1 DEF Complete
    <3>2. CASE logger_mutex_ # Nobody
      <4>1. logger_mutex_ \in Thread
        BY <3>2 DEF IInv, TypeOK
      <4>2. payload'[logger_mutex_] = payload[logger_mutex_]
        BY <1>0, <2>1, <2>4, <4>1
      <4>3. Written(logger_mutex_)' = Written(logger_mutex_)
        BY <2>5, <4>2 DEF Written
      <4> QED
        BY <2>5, <3>2, <4>3 DEF Complete
    <3> QED BY <3>1, <3>2
  <2> QED
    BY <2>1, <2>2, <2>6 DEF Promised!Log
<1>2. ASSUME NEW t \in Thread, Lock(t) \/ ForwardLine(t)
      PROVE  UNCHANGED Promised!vars
  BY <1>2, NothingComplete DEF Promised!vars
<1>3. ASSUME NEW t \in Thread, ForwardRest(t) PROVE Promised!Write(t)
  <2> DEFINE base == Len(output) - Written(t)
             lines == SubSeq(output', base + 1, Len(output'))
  <2>1. /\ base \in 0..Len(output')
        /\ SubSeq(output', 1, base) = SubSeq(output, 1, base)
        /\ Promised!AreLines(lines, payload[t])
    BY <1>3, LinesComplete
  <2>2. logger_mutex_ = t /\ logger_mutex_ # Nobody
    BY <1>3, RestFound, LoggerAssumption DEF ForwardRest
  <2>3. Complete = SubSeq(output, 1, base)
    BY <2>2 DEF Complete
  <2>4. Complete' = output'
    BY <1>3 DEF Complete, ForwardRest, Return
  <2>5. output' \in Seq(Seq(Character \ {Newline}))
    BY <1>3, ForwardRestKeeps DEF IInv, TypeOK
  <2>6. output' = Complete \o lines /\ Len(Complete) = base
    <3>1. output' = SubSeq(output', 1, base) \o lines
          /\ Len(SubSeq(output', 1, base)) = base
      BY <2>1, <2>5, SplitOutput
    <3>. HIDE DEF lines, base
    <3> QED
      BY <2>1, <2>3, <3>1
  <2>7. lines = SubSeq(Complete', Len(Complete) + 1, Len(Complete'))
    BY <2>4, <2>6
  <2>8. payload[t] # NoMessage /\ payload' = [payload EXCEPT ![t] = NoMessage]
    BY <1>3 DEF ForwardRest, Holding, Return
  <2>. HIDE DEF lines
  <2> QED
    BY <2>1, <2>4, <2>6, <2>7, <2>8 DEF Promised!Write
<1>4. CASE UNCHANGED vars
  <2>1. Complete' = Complete
    BY <1>4 DEF vars, Complete, Written
  <2> QED
    BY <1>4, <2>1 DEF vars, Promised!vars
<1> QED
  BY <1>1, <1>2, <1>3, <1>4 DEF Next, Write, Promised!Next

\* What MultilineLogger (logger.hpp) is for: whatever threads log, every
\* message is in the output line by line, with no line of another between.
THEOREM Refinement == Spec => WholeMessages
<1>1. Init => Promised!Init
  BY DEF Init, Promised!Init, Complete
<1>2. IInv /\ [Next]_vars => [Promised!Next]_(Promised!vars)
  BY StepRefines
<1> QED
  BY Initially, Inductive, <1>1, <1>2, PTL DEF Spec, WholeMessages, Promised!Spec
=============================================================================
