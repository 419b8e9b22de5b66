-------------------------- MODULE FileReaderProofs --------------------------
(* Theorems about FileReader, for any files, chunk size and limit.         *)
EXTENDS FileReader, SequenceTheorems, TLAPS

-----------------------------------------------------------------------------
(* The inductive invariant: what the buffer, the running call's result and *)
(* the results returned so far are of the file, byte by byte.              *)

\* What the running call has taken out of the buffer.
Collected == IF call = "none" THEN 0 ELSE Len(out)

\* A caller goes on only after a success, with the method it began with.
Control ==
  /\ call # "none" => result \in {"none", "line", "contents"}
  /\ method = "read_line" => result \in {"none", "line", "eof", "error"}
  /\ method = "read_all" =>
       /\ result \in {"none", "contents", "over_limit", "error"}
       /\ offset = 0 /\ bytes = 0

\* The three places are parts of the file, one after the other, and unless a
\* call failed they are all that was read.
DeliveredPart ==
  /\ Len(delivered) <= Len(file)
  /\ \A i \in 1..Len(delivered) : delivered[i] = file[i]

CollectedPart ==
  call # "none" =>
    /\ Len(delivered) + Len(out) <= Len(file)
    /\ \A i \in 1..Len(out) : out[i] = file[Len(delivered) + i]

BufferedPart ==
  /\ bytes <= position
  /\ \A i \in offset + 1..bytes : chunk[i] = file[position - bytes + i]

AllRead ==
  result \notin {"error", "over_limit"} =>
    Len(delivered) + Collected + (bytes - offset) = position

\* read_line returns at the first newline.
InOneLine ==
  method = "read_line" /\ call # "none" =>
    \A i \in 1..Len(out) : out[i] # Newline

\* read_all has not returned before it has everything.
FirstContents ==
  method = "read_all" /\ result = "none" =>
    delivered = <<>> /\ Len(out) <= SizeLimit

IInv ==
  /\ TypeOK /\ Control
  /\ DeliveredPart /\ CollectedPart /\ BufferedPart /\ AllRead
  /\ InOneLine /\ FirstContents /\ WholeFile

-----------------------------------------------------------------------------
(* What the steps' common parts do to the bytes.                           *)

\* A read brings the next bytes of the file.
LEMMA ChunkRead ==
  ASSUME TypeOK, NEW n \in 1..ChunkSize, ReadChunk(n), file' = file
  PROVE  /\ position' = position + n /\ position' \in 0..Len(file)
         /\ chunk' \in [1..ChunkSize -> Byte]
         /\ \A i \in 1..n : chunk'[i] = file[position + i]
<1>1. \A i \in 1..n : position + i \in 1..Len(file)
  BY ReaderAssumption DEF TypeOK, ReadChunk
<1>2. \A i \in 1..n : file[position + i] \in Byte
  BY <1>1, ElementOfSeq DEF TypeOK
<1>. QED
  BY <1>2, ReaderAssumption DEF TypeOK, ReadChunk

\* What is appended to out are the bytes from m to n of the buffer.
LEMMA Collecting ==
  ASSUME NEW buffer \in [1..ChunkSize -> Byte], out \in Seq(Byte),
         NEW m \in 1..ChunkSize, NEW n \in m..ChunkSize,
         out' = out \o SubSeq(buffer, m, n)
  PROVE  /\ out' \in Seq(Byte)
         /\ Len(out') = Len(out) + (n - m + 1)
         /\ \A i \in 1..Len(out) : out'[i] = out[i]
         /\ \A i \in Len(out) + 1..Len(out') :
              out'[i] = buffer[m + (i - Len(out)) - 1]
<1>. DEFINE part == SubSeq(buffer, m, n)
<1>1. /\ part \in Seq(Byte) /\ Len(part) = n - m + 1
      /\ \A i \in 1..n - m + 1 : part[i] = buffer[m + i - 1]
  BY SubSeqProperties, ReaderAssumption
<1>2. /\ out' \in Seq(Byte)
      /\ Len(out') = Len(out) + Len(part)
      /\ \A i \in 1..Len(out) + Len(part) :
           out'[i] = IF i <= Len(out) THEN out[i] ELSE part[i - Len(out)]
  BY <1>1, ConcatProperties
<1>3. Len(out) \in Nat
  BY LenProperties
<1>4. ASSUME NEW i \in Len(out) + 1..Len(out')
      PROVE  out'[i] = buffer[m + (i - Len(out)) - 1]
  <2>. DEFINE j == i - Len(out)
  <2>1. j \in 1..n - m + 1 /\ out'[i] = part[j]
    BY <1>1, <1>2, <1>3, ReaderAssumption
  <2>. QED
    BY <2>1, <1>1
<1>. HIDE DEF part
<1>. QED
  BY <1>1, <1>2, <1>3, <1>4, ReaderAssumption

\* A result goes behind those returned before.
LEMMA Returning ==
  ASSUME delivered \in Seq(Byte), out' \in Seq(Byte), file' = file,
         NEW kind \in {"line", "contents"}, Return(kind),
         DeliveredPart,
         Len(delivered) + Len(out') <= Len(file),
         \A i \in 1..Len(out') : out'[i] = file[Len(delivered) + i]
  PROVE  /\ delivered' \in Seq(Byte) /\ DeliveredPart'
         /\ Len(delivered') = Len(delivered) + Len(out')
<1>1. /\ delivered' \in Seq(Byte)
      /\ Len(delivered') = Len(delivered) + Len(out')
      /\ \A i \in 1..Len(delivered) + Len(out') :
           delivered'[i] = IF i <= Len(delivered) THEN delivered[i]
                           ELSE out'[i - Len(delivered)]
  BY ConcatProperties DEF Return
<1>2. Len(delivered) \in Nat /\ Len(out') \in Nat
  BY LenProperties
<1>3. ASSUME NEW i \in 1..Len(delivered')
      PROVE  delivered'[i] = file[i]
  <2>1. CASE i <= Len(delivered)
    BY <2>1, <1>1, <1>2, <1>3 DEF DeliveredPart
  <2>2. CASE i > Len(delivered)
    <3>. DEFINE j == i - Len(delivered)
    <3>1. j \in 1..Len(out') /\ delivered'[i] = out'[j]
      BY <2>2, <1>1, <1>2, <1>3
    <3>2. Len(delivered) + j = i
      BY <1>2
    <3>. QED
      BY <3>1, <3>2
  <2>. QED
    BY <2>1, <2>2, <1>2
<1>. QED
  BY <1>1, <1>3 DEF DeliveredPart

-----------------------------------------------------------------------------
(* Every step preserves the invariant.                                     *)

\* Before the first call nothing was read.
LEMMA InitOk == Init => IInv
<1>. SUFFICES ASSUME Init PROVE IInv
  OBVIOUS
<1>. USE ReaderAssumption
<1>1. file \in Seq(Byte) /\ Len(file) \in Nat
  BY LenProperties DEF Init
<1>2. /\ Len(<<>>) = 0 /\ <<>> \in Seq(Byte)
      /\ \A i \in 1..0 : FALSE
  OBVIOUS
<1>3. TypeOK
  BY <1>1, <1>2 DEF Init, TypeOK, Byte, Results
<1>4. Control
  BY DEF Init, Control
<1>5. DeliveredPart /\ CollectedPart /\ BufferedPart /\ AllRead
  BY <1>1, <1>2 DEF Init, DeliveredPart, CollectedPart, BufferedPart, AllRead,
                    Collected
<1>6. InOneLine /\ FirstContents /\ WholeFile
  BY <1>2 DEF Init, InOneLine, FirstContents, WholeFile
<1>. QED
  BY <1>3, <1>4, <1>5, <1>6 DEF IInv

\* The lengths the arithmetic is about.
LEMMA Lengths ==
  ASSUME TypeOK
  PROVE  /\ Len(file) \in Nat /\ Len(out) \in Nat /\ Len(delivered) \in Nat
         /\ position \in 0..Len(file)
         /\ bytes \in 0..ChunkSize /\ offset \in 0..bytes
         /\ ChunkSize \in Nat \ {0} /\ SizeLimit \in Nat
BY LenProperties, ReaderAssumption DEF TypeOK

\* A call begins with an empty result.
LEMMA BeginOk ==
  ASSUME IInv, Begin
  PROVE  IInv'
<1>. USE DEF Begin, IInv, bufferVars
<1>1. /\ method' = method /\ Len(out') = 0 /\ Collected' = 0 /\ Collected = 0
      /\ out' \in Seq(Byte) /\ \A i \in 1..Len(out') : FALSE
  BY DEF Collected
<1>2. TypeOK'
  BY <1>1 DEF TypeOK
<1>3. Control'
  BY <1>1 DEF Control
<1>4. DeliveredPart' /\ CollectedPart' /\ BufferedPart'
  BY <1>1, Lengths DEF DeliveredPart, CollectedPart, BufferedPart
<1>5. AllRead'
  BY <1>1 DEF AllRead
<1>6. InOneLine' /\ FirstContents' /\ WholeFile'
  BY <1>1, Lengths DEF InOneLine, FirstContents, WholeFile
<1>. QED
  BY <1>2, <1>3, <1>4, <1>5, <1>6

\* The buffer is filled again, when nothing is left in it.
LEMMA RefillOk ==
  ASSUME IInv, Refill
  PROVE  IInv'
<1>. USE DEF Refill, IInv
<1>1. PICK n \in 1..ChunkSize : ReadChunk(n) /\ bytes' = n
  OBVIOUS
<1>2. /\ position' = position + n /\ position' \in 0..Len(file)
      /\ chunk' \in [1..ChunkSize -> Byte]
      /\ \A i \in 1..n : chunk'[i] = file[position + i]
  BY <1>1, ChunkRead
<1>3. TypeOK'
  BY <1>1, <1>2, Lengths DEF TypeOK
<1>4. Control'
  BY DEF Control, TypeOK
<1>5. DeliveredPart' /\ CollectedPart'
  BY DEF DeliveredPart, CollectedPart
<1>6. BufferedPart'
  BY <1>1, <1>2, Lengths DEF BufferedPart
<1>7. AllRead'
  BY <1>1, <1>2, Lengths DEF AllRead, Collected
<1>8. InOneLine' /\ FirstContents' /\ WholeFile'
  BY DEF InOneLine, FirstContents, WholeFile
<1>. QED
  BY <1>3, <1>4, <1>5, <1>6, <1>7, <1>8

\* At the end of the file the rest of it is the last line.
LEMMA LineAtEofOk ==
  ASSUME IInv, LineAtEof
  PROVE  IInv'
<1>. USE DEF LineAtEof, IInv
<1>0. /\ method = "read_line" /\ out' = out /\ call' = "none"
      /\ Collected' = 0 /\ Collected = Len(out)
  BY DEF TypeOK, Return, Collected
<1>1. CASE out # <<>>
  <2>1. Return("line")
    BY <1>1
  <2>2. /\ Len(delivered) + Len(out') <= Len(file)
        /\ \A i \in 1..Len(out') : out'[i] = file[Len(delivered) + i]
    BY <1>0 DEF CollectedPart
  <2>3. /\ delivered' \in Seq(Byte) /\ DeliveredPart'
        /\ Len(delivered') = Len(delivered) + Len(out')
    BY <1>0, <2>1, <2>2, Returning DEF TypeOK
  <2>4. TypeOK'
    BY <1>0, <2>1, <2>3, Lengths DEF TypeOK, Return, Results
  <2>5. Control' /\ CollectedPart' /\ InOneLine'
    BY <1>0, <2>1 DEF Control, CollectedPart, InOneLine, Return
  <2>6. BufferedPart' /\ AllRead'
    BY <1>0, <2>3, Lengths DEF BufferedPart, AllRead, Control
  <2>7. FirstContents' /\ WholeFile'
    BY <1>0, <2>1 DEF FirstContents, WholeFile, Return
  <2>. QED
    BY <2>3, <2>4, <2>5, <2>6, <2>7
<1>2. CASE out = <<>>
  <2>1. /\ result' = "eof" /\ delivered' = delivered /\ Len(out) = 0
    BY <1>2 DEF Return
  <2>2. TypeOK'
    BY <1>0, <2>1, Lengths DEF TypeOK, Results
  <2>3. Control' /\ DeliveredPart' /\ CollectedPart' /\ InOneLine'
    BY <1>0, <2>1 DEF Control, DeliveredPart, CollectedPart, InOneLine
  <2>4. BufferedPart' /\ AllRead'
    BY <1>0, <2>1, Lengths DEF BufferedPart, AllRead, Control
  <2>5. FirstContents' /\ WholeFile'
    BY <1>0, <2>1 DEF FirstContents, WholeFile
  <2>. QED
    BY <2>2, <2>3, <2>4, <2>5
<1>. QED
  BY <1>1, <1>2

\* The bytes of the buffer up to m come after the r that were taken before.
LEMMA Position ==
  ASSUME NEW p \in Int, NEW b \in Int, NEW o \in Int, NEW r \in Int,
         NEW m \in Int, r + (b - o) = p
  PROVE  r + (m - o) = p - b + m
OBVIOUS

\* The step Take makes when its part of the buffer ends at end.
TakeTo(end) ==
  /\ \A i \in offset + 1..end - 1 : chunk[i] # Newline
  /\ out' = out \o SubSeq(chunk, offset + 1, end)

\* What Take appends is the next part of the file, with a newline at its end
\* or nowhere.
LEMMA Taken ==
  ASSUME IInv, Take,
         NEW end \in offset + 1..bytes, TakeTo(end)
  PROVE  /\ out' \in Seq(Byte) /\ Len(out') = Len(out) + (end - offset)
         /\ Len(delivered) + Len(out') <= Len(file)
         /\ \A i \in 1..Len(out') : out'[i] = file[Len(delivered) + i]
         /\ \A i \in 1..Len(out') - 1 : out'[i] # Newline
         /\ out'[Len(out')] = chunk[end]
         /\ Len(delivered) + Len(out') = position - bytes + end
<1>L. /\ Len(file) \in Nat /\ Len(out) \in Nat /\ Len(delivered) \in Nat
      /\ position \in 0..Len(file)
      /\ bytes \in 0..ChunkSize /\ offset \in 0..bytes
      /\ ChunkSize \in Nat \ {0}
  BY Lengths DEF IInv
<1>0. /\ method = "read_line" /\ result \notin {"error", "over_limit"}
      /\ Collected = Len(out)
  BY DEF IInv, Take, TypeOK, Control, Collected
<1>1. /\ out' \in Seq(Byte)
      /\ Len(out') = Len(out) + (end - (offset + 1) + 1)
      /\ \A i \in 1..Len(out) : out'[i] = out[i]
      /\ \A i \in Len(out) + 1..Len(out') :
           out'[i] = chunk[(offset + 1) + (i - Len(out)) - 1]
  <2>1. chunk \in [1..ChunkSize -> Byte] /\ out \in Seq(Byte)
    BY DEF IInv, TypeOK
  <2>2. offset + 1 \in 1..ChunkSize /\ end \in offset + 1..ChunkSize
    BY <1>L
  <2>. QED
    BY <2>1, <2>2, Collecting DEF TakeTo
<1>I. bytes \in Int /\ offset \in Int /\ position \in Int /\ end \in Int
  BY <1>L
<1>2. Len(out') = Len(out) + (end - offset) /\ Len(out') \in Int
  BY <1>1, <1>L, <1>I
<1>N. Len(delivered) \in Nat /\ Len(out) \in Nat /\ Len(out') \in Int
  BY <1>2, <1>L
<1>3. Len(delivered) + Len(out) + (bytes - offset) = position
  BY <1>0 DEF IInv, AllRead
<1>4. ASSUME NEW i \in Len(out) + 1..Len(out')
      PROVE  out'[i] = file[Len(delivered) + i]
  <2>. DEFINE j == offset + (i - Len(out))
  <2>1. j \in offset + 1..bytes /\ out'[i] = chunk[j]
    <3>1. j \in offset + 1..end /\ j \in offset + 1..bytes
      BY <1>2, <1>N, <1>I
    <3>2. (offset + 1) + (i - Len(out)) - 1 = j
      BY <1>N, <1>I
    <3>. QED
      BY <3>1, <3>2, <1>1
  <2>2. chunk[j] = file[position - bytes + j]
    BY <2>1 DEF IInv, BufferedPart
  <2>3. position - bytes + j = Len(delivered) + i
    <3>1. Len(delivered) + Len(out) + (j - offset) = position - bytes + j
      BY <1>3, <1>N, <1>I, <2>1, Position
    <3>2. Len(delivered) + Len(out) + (j - offset) = Len(delivered) + i
      BY <1>N, <1>I
    <3>. QED
      BY <3>1, <3>2
  <2>. QED
    BY <2>1, <2>2, <2>3
<1>5. \A i \in 1..Len(out') : out'[i] = file[Len(delivered) + i]
  BY <1>1, <1>2, <1>4, <1>L, <1>I DEF IInv, CollectedPart, Take
<1>6. ASSUME NEW i \in 1..Len(out') - 1
      PROVE  out'[i] # Newline
  <2>1. CASE i <= Len(out)
    BY <2>1, <1>0, <1>1, <1>L DEF IInv, InOneLine, Take
  <2>2. CASE i > Len(out)
    <3>. DEFINE j == offset + (i - Len(out))
    <3>1. i \in Len(out) + 1..Len(out') /\ j \in offset + 1..end - 1
      BY <2>2, <1>2, <1>L, <1>I
    <3>2. (offset + 1) + (i - Len(out)) - 1 = j
      BY <1>L, <1>I
    <3>3. out'[i] = chunk[j]
      BY <3>1, <3>2, <1>1
    <3>. QED
      BY <3>1, <3>3 DEF TakeTo
  <2>. QED
    BY <2>1, <2>2, <1>2, <1>L
<1>7. out'[Len(out')] = chunk[end]
  <2>1. Len(out') \in Len(out) + 1..Len(out')
    BY <1>2, <1>L
  <2>2. offset + 1 + (Len(out') - Len(out)) - 1 = end
    BY <1>2, <1>L
  <2>. QED
    BY <2>1, <2>2, <1>1
<1>8. Len(delivered) + Len(out') = position - bytes + end
  <2>1. Len(delivered) + Len(out) + (end - offset) = position - bytes + end
    BY <1>3, <1>N, <1>I, Position
  <2>2. Len(delivered) + Len(out) + (end - offset) = Len(delivered) + Len(out')
    BY <1>2, <1>N, <1>I
  <2>. QED
    BY <2>1, <2>2
<1>9. Len(delivered) + Len(out') <= Len(file)
  BY <1>8, <1>L, <1>I
<1>. QED
  BY <1>1, <1>2, <1>5, <1>6, <1>7, <1>8, <1>9

\* A line grows, and is returned when it has its newline.
LEMMA TakeOk ==
  ASSUME IInv, Take
  PROVE  IInv'
<1>L. /\ Len(file) \in Nat /\ Len(out) \in Nat /\ Len(delivered) \in Nat
      /\ position \in 0..Len(file)
      /\ bytes \in 0..ChunkSize /\ offset \in 0..bytes
      /\ ChunkSize \in Nat \ {0}
  BY Lengths DEF IInv
<1>1. PICK end \in offset + 1..bytes :
        /\ TakeTo(end)
        /\ chunk[end] = Newline \/ end = bytes
        /\ offset' = end
        /\ \/ chunk[end] = Newline /\ Return("line")
           \/ chunk[end] # Newline /\ UNCHANGED <<call, result, delivered>>
  BY DEF Take, TakeTo
<1>2. /\ out' \in Seq(Byte) /\ Len(out') = Len(out) + (end - offset)
      /\ Len(delivered) + Len(out') <= Len(file)
      /\ \A i \in 1..Len(out') : out'[i] = file[Len(delivered) + i]
      /\ \A i \in 1..Len(out') - 1 : out'[i] # Newline
      /\ out'[Len(out')] = chunk[end]
      /\ Len(delivered) + Len(out') = position - bytes + end
  BY <1>1, Taken
<1>3. /\ method = "read_line" /\ call = "read_line"
      /\ UNCHANGED <<file, method, position, chunk, bytes>>
  BY DEF IInv, Take, TypeOK
<1>4. BufferedPart'
  BY <1>1, <1>L, <1>3 DEF IInv, BufferedPart
<1>5. offset' \in 0..bytes'
  BY <1>1, <1>3, <1>L
<1>I. /\ end \in Int /\ offset' = end /\ bytes' = bytes /\ position' = position
      /\ bytes \in Int /\ position \in Int
      /\ Len(delivered) \in Int /\ Len(out') \in Int
  BY <1>1, <1>2, <1>3, <1>L, LenProperties
<1>6. Len(delivered) + Len(out') + (bytes' - offset') = position'
  BY <1>2, <1>I
<1>7. CASE chunk[end] = Newline /\ Return("line")
  <2>1. /\ delivered' \in Seq(Byte) /\ DeliveredPart'
        /\ Len(delivered') = Len(delivered) + Len(out')
    BY <1>2, <1>7, Returning, <1>3 DEF IInv, TypeOK
  <2>2. TypeOK'
    BY <1>2, <1>3, <1>5, <1>7, <2>1 DEF IInv, TypeOK, Return, Results
  <2>3. Control' /\ CollectedPart' /\ InOneLine'
    BY <1>3, <1>7 DEF IInv, Control, CollectedPart, InOneLine, Return
  <2>4. AllRead'
    <3>1. Collected' = 0 /\ Len(delivered') \in Int
      BY <1>7, <2>1, LenProperties DEF Return, Collected
    <3>2. Len(delivered') + 0 + (bytes' - offset') = position'
      BY <2>1, <1>6, <1>I, <3>1
    <3>. QED
      BY <3>1, <3>2 DEF AllRead
  <2>5. FirstContents' /\ WholeFile'
    BY <1>3, <1>7 DEF IInv, FirstContents, WholeFile, Return
  <2>. QED
    BY <1>4, <2>1, <2>2, <2>3, <2>4, <2>5 DEF IInv
<1>8. CASE chunk[end] # Newline /\ UNCHANGED <<call, result, delivered>>
  <2>1. TypeOK'
    BY <1>2, <1>5, <1>8, <1>3 DEF IInv, TypeOK
  <2>2. Control' /\ DeliveredPart'
    BY <1>3, <1>8 DEF IInv, Control, DeliveredPart
  <2>3. CollectedPart'
    BY <1>2, <1>8, <1>3 DEF IInv, CollectedPart
  <2>4. AllRead'
    BY <1>3, <1>8, <1>6 DEF AllRead, Collected
  <2>5. InOneLine'
    <3>1. \A i \in 1..Len(out') : out'[i] # Newline
      <4>1. \A i \in 1..Len(out') : i # Len(out') => i \in 1..Len(out') - 1
        BY LenProperties, <1>2
      <4>. QED
        BY <4>1, <1>2, <1>8
    <3>. QED
      BY <3>1, <1>3 DEF IInv, InOneLine
  <2>6. FirstContents' /\ WholeFile'
    BY <1>3, <1>8 DEF IInv, FirstContents, WholeFile
  <2>. QED
    BY <1>4, <2>1, <2>2, <2>3, <2>4, <2>5, <2>6 DEF IInv
<1>. QED
  BY <1>1, <1>7, <1>8

\* The step read_all makes with a chunk of n bytes.
AppendChunk(n) == ReadChunk(n) /\ out' = out \o SubSeq(chunk', 1, n)

\* What read_all appends is the next part of the file.
LEMMA ChunkTaken ==
  ASSUME IInv, call = "read_all", file' = file, NEW n \in 1..ChunkSize,
         AppendChunk(n)
  PROVE  /\ out' \in Seq(Byte) /\ Len(out') = Len(out) + n
         /\ Len(delivered) + Len(out') = position'
         /\ Len(delivered) + Len(out') <= Len(file)
         /\ \A i \in 1..Len(out') : out'[i] = file[Len(delivered) + i]
<1>L. /\ Len(file) \in Nat /\ Len(out) \in Nat /\ Len(delivered) \in Nat
      /\ position \in Int /\ ChunkSize \in Nat \ {0}
  BY Lengths DEF IInv
<1>1. Len(delivered) + Len(out) = position
  <2>1. /\ offset = 0 /\ bytes = 0 /\ result \notin {"error", "over_limit"}
        /\ Collected = Len(out)
    BY DEF IInv, TypeOK, Control, Collected
  <2>. QED
    BY <2>1, <1>L DEF IInv, AllRead
<1>2. /\ position' = position + n /\ position' \in 0..Len(file)
      /\ chunk' \in [1..ChunkSize -> Byte]
      /\ \A i \in 1..n : chunk'[i] = file[position + i]
  BY ChunkRead DEF IInv, AppendChunk
<1>3. /\ out' \in Seq(Byte)
      /\ Len(out') = Len(out) + (n - 1 + 1)
      /\ \A i \in 1..Len(out) : out'[i] = out[i]
      /\ \A i \in Len(out) + 1..Len(out') :
           out'[i] = chunk'[1 + (i - Len(out)) - 1]
  <2>1. out \in Seq(Byte) /\ 1 \in 1..ChunkSize /\ n \in 1..ChunkSize
    BY <1>L DEF IInv, TypeOK
  <2>. QED
    BY <2>1, <1>2, Collecting DEF AppendChunk
<1>4. Len(out') = Len(out) + n
  BY <1>3, <1>L
<1>5. ASSUME NEW i \in Len(out) + 1..Len(out')
      PROVE  out'[i] = file[Len(delivered) + i]
  <2>. DEFINE j == i - Len(out)
  <2>1. j \in 1..n /\ 1 + (i - Len(out)) - 1 = j
    BY <1>4, <1>L
  <2>2. position + j = Len(delivered) + i
    BY <1>1, <1>L
  <2>3. out'[i] = chunk'[j]
    BY <1>3, <2>1
  <2>. QED
    BY <2>1, <2>2, <2>3, <1>2
<1>6. \A i \in 1..Len(out') : out'[i] = file[Len(delivered) + i]
  BY <1>3, <1>4, <1>5, <1>L DEF IInv, CollectedPart
<1>7. Len(delivered) + Len(out') = position' /\ position' <= Len(file)
  <2>1. Len(delivered) + (Len(out) + n) = position + n
    BY <1>1, <1>L
  <2>. QED
    BY <2>1, <1>2, <1>4, <1>L
<1>. QED
  BY <1>3, <1>4, <1>6, <1>7

\* read_all collects, or refuses what is over the limit.
LEMMA AllChunkOk ==
  ASSUME IInv, AllChunk
  PROVE  IInv'
<1>L. /\ Len(file) \in Nat /\ Len(out) \in Nat /\ Len(delivered) \in Nat
      /\ position \in 0..Len(file) /\ SizeLimit \in Nat
      /\ ChunkSize \in Nat \ {0}
  BY Lengths DEF IInv
<1>1. PICK n \in 1..ChunkSize :
        /\ ReadChunk(n)
        /\ \/ n + Len(out) > SizeLimit /\ out' = out /\ Return("over_limit")
           \/ /\ n + Len(out) <= SizeLimit
              /\ out' = out \o SubSeq(chunk', 1, n)
              /\ UNCHANGED <<call, result, delivered>>
  BY DEF AllChunk
<1>2. /\ method = "read_all" /\ call = "read_all"
      /\ UNCHANGED <<file, method, offset, bytes>>
      /\ offset = 0 /\ bytes = 0 /\ result \in {"none", "contents"}
  BY DEF IInv, AllChunk, TypeOK, Control
<1>3. /\ position' = position + n /\ position' \in 0..Len(file)
      /\ chunk' \in [1..ChunkSize -> Byte]
  BY <1>1, <1>2, ChunkRead DEF IInv
<1>4. Len(delivered) + Len(out) = position
  BY <1>2, <1>L DEF IInv, AllRead, Collected
<1>5. result = "none"
  \* After contents the file is at its end.
  <2>1. result # "contents"
    BY <1>3, <1>4, <1>L DEF IInv, WholeFile
  <2>. QED
    BY <2>1, <1>2
<1>6. BufferedPart'
  BY <1>2, <1>3 DEF BufferedPart
<1>7. CASE n + Len(out) > SizeLimit /\ out' = out /\ Return("over_limit")
  <2>1. /\ call' = "none" /\ result' = "over_limit" /\ delivered' = delivered
    BY <1>7 DEF Return
  <2>2. TypeOK'
    BY <1>2, <1>3, <1>7, <2>1 DEF IInv, TypeOK, Results
  <2>3. Control' /\ DeliveredPart' /\ CollectedPart' /\ AllRead' /\ InOneLine'
    BY <1>2, <2>1 DEF IInv, Control, DeliveredPart, CollectedPart, AllRead,
                      InOneLine
  <2>4. Len(file) > SizeLimit
    BY <1>3, <1>4, <1>7, <1>L
  <2>5. FirstContents' /\ WholeFile'
    BY <1>2, <2>1, <2>4 DEF FirstContents, WholeFile
  <2>. QED
    BY <1>6, <2>2, <2>3, <2>5 DEF IInv
<1>8. CASE /\ n + Len(out) <= SizeLimit
           /\ out' = out \o SubSeq(chunk', 1, n)
           /\ UNCHANGED <<call, result, delivered>>
  <2>1. /\ out' \in Seq(Byte) /\ Len(out') = Len(out) + n
        /\ Len(delivered) + Len(out') = position'
        /\ Len(delivered) + Len(out') <= Len(file)
        /\ \A i \in 1..Len(out') : out'[i] = file[Len(delivered) + i]
    BY <1>1, <1>2, <1>8, ChunkTaken DEF AppendChunk
  <2>2. TypeOK'
    BY <1>2, <1>3, <1>8, <2>1 DEF IInv, TypeOK
  <2>3. Control' /\ DeliveredPart' /\ InOneLine'
    BY <1>2, <1>8 DEF IInv, Control, DeliveredPart, InOneLine
  <2>4. CollectedPart'
    BY <1>2, <1>8, <2>1 DEF CollectedPart
  <2>5. AllRead'
    BY <1>2, <1>3, <1>8, <2>1 DEF AllRead, Collected
  <2>6. FirstContents' /\ WholeFile'
    BY <1>2, <1>5, <1>8, <2>1, <1>L
       DEF IInv, FirstContents, WholeFile
  <2>. QED
    BY <1>6, <2>2, <2>3, <2>4, <2>5, <2>6 DEF IInv
<1>. QED
  BY <1>1, <1>7, <1>8

\* At the end of the file everything has been collected.
LEMMA AllAtEofOk ==
  ASSUME IInv, AllAtEof
  PROVE  IInv'
<1>L. /\ Len(file) \in Nat /\ Len(out) \in Nat /\ Len(delivered) \in Nat
      /\ SizeLimit \in Nat
  BY Lengths DEF IInv
<1>1. /\ method = "read_all" /\ call = "read_all" /\ position = Len(file)
      /\ UNCHANGED <<file, method, position, chunk, offset, bytes, out>>
      /\ offset = 0 /\ bytes = 0 /\ result \in {"none", "contents"}
      /\ Return("contents")
  BY DEF IInv, AllAtEof, AtEof, TypeOK, Control, bufferVars
<1>2. Len(delivered) + Len(out) = Len(file)
  BY <1>1, <1>L DEF IInv, AllRead, Collected
<1>3. /\ delivered' \in Seq(Byte) /\ DeliveredPart'
      /\ Len(delivered') = Len(file)
  <2>1. \A i \in 1..Len(out') : out'[i] = file[Len(delivered) + i]
    BY <1>1 DEF IInv, CollectedPart
  <2>2. Len(delivered) + Len(out') <= Len(file) /\ out' \in Seq(Byte)
    BY <1>1, <1>2, <1>L DEF IInv, TypeOK
  <2>3. /\ delivered' \in Seq(Byte) /\ DeliveredPart'
        /\ Len(delivered') = Len(delivered) + Len(out')
    BY <1>1, <2>1, <2>2, Returning DEF IInv, TypeOK
  <2>. QED
    BY <1>1, <1>2, <2>3
<1>4. delivered' = file'
  BY <1>1, <1>3, SeqEqual DEF IInv, TypeOK, DeliveredPart
<1>5. Len(file) <= SizeLimit
  <2>1. CASE result = "none"
    BY <2>1, <1>1, <1>2, <1>L DEF IInv, FirstContents
  <2>2. CASE result = "contents"
    BY <2>2 DEF IInv, WholeFile
  <2>. QED
    BY <1>1, <2>1, <2>2
<1>6. call' = "none" /\ result' = "contents"
  BY <1>1 DEF Return
<1>7. TypeOK'
  BY <1>1, <1>3, <1>6 DEF IInv, TypeOK, Results
<1>8. Control' /\ CollectedPart' /\ BufferedPart' /\ InOneLine'
  BY <1>1, <1>6, <1>L DEF Control, CollectedPart, BufferedPart, InOneLine
<1>9. AllRead'
  BY <1>1, <1>3, <1>6, <1>L DEF AllRead, Collected
<1>10. FirstContents' /\ WholeFile'
  BY <1>1, <1>4, <1>5, <1>6 DEF FirstContents, WholeFile
<1>. QED
  BY <1>3, <1>7, <1>8, <1>9, <1>10 DEF IInv

\* A failing read loses the running call's result and nothing else.
LEMMA ReadErrorOk ==
  ASSUME IInv, ReadError
  PROVE  IInv'
<1>1. /\ call' = "none" /\ result' = "error" /\ call # "none"
      /\ UNCHANGED <<file, method, position, chunk, offset, bytes, out,
                     delivered>>
  BY DEF ReadError, Return, bufferVars
<1>2. TypeOK'
  BY <1>1 DEF IInv, TypeOK, Results
<1>3. Control' /\ DeliveredPart' /\ CollectedPart' /\ BufferedPart' /\ AllRead'
  BY <1>1 DEF IInv, Control, DeliveredPart, CollectedPart, BufferedPart, AllRead
<1>4. InOneLine' /\ FirstContents' /\ WholeFile'
  BY <1>1 DEF InOneLine, FirstContents, WholeFile
<1>. QED
  BY <1>2, <1>3, <1>4 DEF IInv

\* Without a step everything stays.
LEMMA StutterOk ==
  ASSUME IInv, UNCHANGED vars
  PROVE  IInv'
BY DEF IInv, vars, bufferVars, TypeOK, Control, DeliveredPart, CollectedPart,
       BufferedPart, AllRead, Collected, InOneLine, FirstContents, WholeFile

\* A reader that is used with one of its methods keeps the invariant.
LEMMA Inductive == Spec => []IInv
<1>1. Init => IInv
  BY InitOk
<1>2. IInv /\ [Next]_vars => IInv'
  <2>. SUFFICES ASSUME IInv, [Next]_vars PROVE IInv'
    OBVIOUS
  <2>1. CASE Begin
    BY <2>1, BeginOk
  <2>2. CASE Refill
    BY <2>2, RefillOk
  <2>3. CASE LineAtEof
    BY <2>3, LineAtEofOk
  <2>4. CASE Take
    BY <2>4, TakeOk
  <2>5. CASE AllChunk
    BY <2>5, AllChunkOk
  <2>6. CASE AllAtEof
    BY <2>6, AllAtEofOk
  <2>7. CASE ReadError
    BY <2>7, ReadErrorOk
  <2>8. CASE UNCHANGED vars
    BY <2>8, StutterOk
  <2>. QED
    BY <2>1, <2>2, <2>3, <2>4, <2>5, <2>6, <2>7, <2>8 DEF Next, Step
<1>. QED
  BY <1>1, <1>2, PTL DEF Spec

-----------------------------------------------------------------------------
(* The theorems.                                                           *)

\* The buffer's indices stay in the buffer (fs_reader.hpp:57).
THEOREM TypeCorrect == Spec => []TypeOK
<1>1. IInv => TypeOK
  BY DEF IInv
<1>. QED
  BY <1>1, Inductive, PTL

\* read_all returns the whole file, and refuses just the files that are too
\* long (fs_reader.cpp:62).
THEOREM WholeFileCorrect == Spec => []WholeFile
<1>1. IInv => WholeFile
  BY DEF IInv
<1>. QED
  BY <1>1, Inductive, PTL

\* What read_line has returned, the running call has collected and the buffer
\* still holds is all that was read, in order (fs_reader.cpp:88).
THEOREM NothingLostCorrect == Spec => []NothingLost
<1>1. IInv => NothingLost
  <2>. SUFFICES ASSUME IInv, method = "read_line", result # "error"
                PROVE  SubSeq(file, 1, position) =
                         delivered \o (IF call = "none" THEN <<>> ELSE out)
                                   \o SubSeq(chunk, offset + 1, bytes)
    BY DEF NothingLost
  <2>. DEFINE part == IF call = "none" THEN <<>> ELSE out
              buffered == SubSeq(chunk, offset + 1, bytes)
              read == SubSeq(file, 1, position)
              parts == delivered \o part
  <2>L. /\ Len(file) \in Nat /\ Len(out) \in Nat /\ Len(delivered) \in Nat
        /\ position \in 0..Len(file) /\ position \in Int
        /\ bytes \in 0..ChunkSize /\ offset \in 0..bytes
        /\ bytes \in Int /\ offset \in Int /\ ChunkSize \in Nat
    BY Lengths DEF IInv
  <2>1. part \in Seq(Byte) /\ Len(part) = Collected /\ Collected \in Nat
    BY <2>L DEF IInv, TypeOK, Collected
  <2>2. Len(delivered) + Len(part) + (bytes - offset) = position
    BY <2>1 DEF IInv, AllRead, Control
  <2>3. /\ buffered \in Seq(Byte) /\ Len(buffered) = bytes - offset
        /\ \A i \in 1..bytes - offset : buffered[i] = chunk[offset + i]
    <3>1. \A i \in offset + 1..bytes : chunk[i] \in Byte
      BY <2>L DEF IInv, TypeOK
    <3>2. /\ buffered \in Seq(Byte)
          /\ Len(buffered) = IF offset + 1 <= bytes
                             THEN bytes - (offset + 1) + 1 ELSE 0
          /\ \A i \in 1..bytes - (offset + 1) + 1 :
               buffered[i] = chunk[offset + 1 + i - 1]
      <4>1. offset + 1 \in Int
        BY <2>L
      <4>. QED
        BY <3>1, <4>1, <2>L, SubSeqProperties
    <3>. QED
      BY <3>2, <2>L
  <2>4. /\ read \in Seq(Byte) /\ Len(read) = position
        /\ \A i \in 1..position : read[i] = file[i]
    <3>1. \A i \in 1..position : file[i] \in Byte
      BY <2>L, ElementOfSeq DEF IInv, TypeOK
    <3>2. /\ read \in Seq(Byte)
          /\ Len(read) = IF 1 <= position THEN position - 1 + 1 ELSE 0
          /\ \A i \in 1..position - 1 + 1 : read[i] = file[1 + i - 1]
      BY <3>1, <2>L, SubSeqProperties
    <3>. QED
      BY <3>2, <2>L
  <2>5. /\ parts \in Seq(Byte) /\ Len(parts) = Len(delivered) + Len(part)
        /\ \A i \in 1..Len(parts) : parts[i] = file[i]
    <3>1. /\ parts \in Seq(Byte) /\ Len(parts) = Len(delivered) + Len(part)
          /\ \A i \in 1..Len(delivered) + Len(part) :
               parts[i] = IF i <= Len(delivered) THEN delivered[i]
                          ELSE part[i - Len(delivered)]
      BY <2>1, ConcatProperties DEF IInv, TypeOK
    <3>2. \A i \in 1..Len(part) : part[i] = file[Len(delivered) + i]
      BY <2>1 DEF IInv, CollectedPart
    <3>3. ASSUME NEW i \in 1..Len(parts), i > Len(delivered)
          PROVE  parts[i] = file[i]
      <4>. DEFINE j == i - Len(delivered)
      <4>1. j \in 1..Len(part) /\ Len(delivered) + j = i
        BY <3>1, <3>3, <2>1, <2>L
      <4>2. parts[i] = part[j]
        BY <3>1, <3>3, <2>L
      <4>. HIDE DEF part, parts, j
      <4>. QED
        BY <4>1, <4>2, <3>2
    <3>4. \A i \in 1..Len(delivered) : parts[i] = file[i]
      BY <3>1, <2>1, <2>L DEF IInv, DeliveredPart
    <3>. HIDE DEF part, parts
    <3>. QED
      BY <3>1, <3>3, <3>4, <2>1, <2>L
  <2>6. /\ parts \o buffered \in Seq(Byte) /\ Len(parts \o buffered) = position
        /\ \A i \in 1..position : (parts \o buffered)[i] = file[i]
    <3>. HIDE DEF part, parts, buffered
    <3>1. /\ parts \o buffered \in Seq(Byte)
          /\ Len(parts \o buffered) = Len(parts) + Len(buffered)
          /\ \A i \in 1..Len(parts) + Len(buffered) :
               (parts \o buffered)[i] = IF i <= Len(parts) THEN parts[i]
                                        ELSE buffered[i - Len(parts)]
      <4>1. parts \in Seq(Byte) /\ buffered \in Seq(Byte)
        BY <2>3, <2>5
      <4>. QED
        BY <4>1, ConcatProperties
    <3>2. Len(parts) \in Nat /\ Len(parts) + (bytes - offset) = position
      BY <2>1, <2>2, <2>5, <2>L
    <3>3. ASSUME NEW i \in 1..position, i > Len(parts)
          PROVE  (parts \o buffered)[i] = file[i]
      <4>. DEFINE j == i - Len(parts)
      <4>1. j \in 1..bytes - offset /\ (parts \o buffered)[i] = buffered[j]
        BY <3>1, <3>2, <3>3, <2>3, <2>L
      <4>2. buffered[j] = chunk[offset + j] /\ offset + j \in offset + 1..bytes
        BY <4>1, <2>3, <2>L
      <4>3. position - bytes + (offset + j) = i
        BY <3>2, <2>L
      <4>4. chunk[offset + j] = file[position - bytes + (offset + j)]
        BY <4>2 DEF IInv, BufferedPart
      <4>. QED
        BY <4>1, <4>2, <4>3, <4>4
    <3>4. \A i \in 1..Len(parts) : (parts \o buffered)[i] = file[i]
      BY <3>1, <3>2, <2>3, <2>5, <2>L
    <3>5. Len(parts) + Len(buffered) = position
      BY <3>2, <2>3, <2>L
    <3>6. \A i \in 1..position : i > Len(parts) \/ i \in 1..Len(parts)
      BY <3>2
    <3>7. \A i \in 1..position : (parts \o buffered)[i] = file[i]
      BY <3>3, <3>4, <3>6
    <3>. QED
      BY <3>1, <3>5, <3>7
  <2>. HIDE DEF part, parts, buffered, read
  <2>7. read = parts \o buffered
    BY <2>4, <2>6, SeqEqual
  <2>. QED
    BY <2>7 DEF part, parts, buffered, read
<1>. QED
  BY <1>1, Inductive, PTL

\* read_line implements the stream of whole lines its callers count on
\* (fs_reader.cpp:88).
THEOREM Refinement == Spec => ReadsLines
<1>. DEFINE taken == IF method = "read_line" THEN Len(delivered) ELSE 0
<1>1. Init => Lines!Init
  BY DEF Init, Lines!Init
<1>2. IInv /\ [Next]_vars => [Lines!TakeLine]_<<file, taken>>
  <2>. SUFFICES ASSUME IInv, [Next]_vars
                PROVE  Lines!TakeLine \/ UNCHANGED <<file, taken>>
    OBVIOUS
  <2>1. CASE Begin
    BY <2>1 DEF Begin
  <2>2. CASE Refill
    BY <2>2 DEF Refill
  <2>3. CASE LineAtEof
    <3>1. /\ method = "read_line" /\ UNCHANGED <<file, method, out>>
          /\ call = "read_line" /\ offset >= bytes /\ position = Len(file)
          /\ Return(IF out # <<>> THEN "line" ELSE "eof")
      BY <2>3 DEF LineAtEof, AtEof, IInv, TypeOK
    <3>2. CASE out = <<>>
      BY <3>1, <3>2 DEF Return
    <3>3. CASE out # <<>>
      <4>L. /\ Len(file) \in Nat /\ Len(out) \in Nat /\ Len(delivered) \in Nat
            /\ position \in Int /\ bytes \in Int /\ offset = bytes
        BY <3>1, Lengths DEF IInv
      <4>1. Len(delivered) + Len(out) = Len(file)
        BY <3>1, <4>L DEF IInv, AllRead, Collected, Control
      <4>2. delivered' = delivered \o out
        BY <3>1, <3>3 DEF Return
      <4>3. Len(delivered') = Len(file)
        BY <4>1, <4>2, ConcatProperties DEF IInv, TypeOK
      <4>4. Len(out) > 0
        BY <3>3, EmptySeq, <4>L DEF IInv, TypeOK
      <4>5. \A i \in Len(delivered) + 1..Len(file) - 1 : file[i] # Newline
        <5>1. SUFFICES ASSUME NEW i \in Len(delivered) + 1..Len(file) - 1
                       PROVE  file[i] # Newline
          OBVIOUS
        <5>. DEFINE j == i - Len(delivered)
        <5>2. j \in 1..Len(out) /\ Len(delivered) + j = i
          BY <4>1, <4>L
        <5>3. out[j] = file[Len(delivered) + j] /\ out[j] # Newline
          BY <5>2, <3>1 DEF IInv, CollectedPart, InOneLine
        <5>. QED
          BY <5>2, <5>3
      <4>6. /\ Len(file) \in DOMAIN file
            /\ Len(file) \in Len(delivered) + 1..Len(file)
        BY <4>1, <4>4, <4>L, LenProperties DEF IInv, TypeOK
      <4>7. Lines!LineEnd(taken, Len(file)) /\ taken' = Len(file)
        BY <3>1, <4>3, <4>5, <4>6 DEF Lines!LineEnd
      <4>. QED
        BY <3>1, <4>6, <4>7 DEF Lines!TakeLine
    <3>. QED
      BY <3>2, <3>3
  <2>4. CASE Take
    <3>1. PICK end \in offset + 1..bytes :
            /\ TakeTo(end)
            /\ \/ chunk[end] = Newline /\ Return("line")
               \/ chunk[end] # Newline /\ UNCHANGED <<call, result, delivered>>
      BY <2>4 DEF Take, TakeTo
    <3>2. method = "read_line" /\ UNCHANGED <<file, method>>
      BY <2>4 DEF Take, IInv, TypeOK
    <3>3. CASE chunk[end] # Newline /\ UNCHANGED <<call, result, delivered>>
      BY <3>2, <3>3
    <3>4. CASE chunk[end] = Newline /\ Return("line")
      <4>1. /\ out' \in Seq(Byte) /\ Len(out') = Len(out) + (end - offset)
            /\ Len(delivered) + Len(out') <= Len(file)
            /\ \A i \in 1..Len(out') : out'[i] = file[Len(delivered) + i]
            /\ \A i \in 1..Len(out') - 1 : out'[i] # Newline
            /\ out'[Len(out')] = chunk[end]
        BY <2>4, <3>1, Taken
      <4>L. /\ Len(file) \in Nat /\ Len(delivered) \in Nat /\ Len(out') \in Int
            /\ Len(out') > 0
        <5>1. /\ Len(out) \in Nat /\ Len(file) \in Nat /\ Len(delivered) \in Nat
              /\ offset \in Int /\ end \in Int /\ end > offset
          BY Lengths DEF IInv
        <5>. QED
          BY <5>1, <4>1
      <4>. DEFINE e == Len(delivered) + Len(out')
      <4>2. delivered' = delivered \o out'
        BY <3>4 DEF Return
      <4>3. Len(delivered') = e
        BY <4>1, <4>2, ConcatProperties DEF IInv, TypeOK
      <4>4. e \in DOMAIN file /\ e \in Len(delivered) + 1..Len(file)
        BY <4>1, <4>L, LenProperties DEF IInv, TypeOK
      <4>5. file[e] = Newline
        BY <4>1, <4>L, <3>4
      <4>6. \A i \in Len(delivered) + 1..e - 1 : file[i] # Newline
        <5>1. SUFFICES ASSUME NEW i \in Len(delivered) + 1..e - 1
                       PROVE  file[i] # Newline
          OBVIOUS
        <5>. DEFINE j == i - Len(delivered)
        <5>2. /\ j \in 1..Len(out') /\ j \in 1..Len(out') - 1
              /\ Len(delivered) + j = i
          BY <4>L
        <5>. QED
          BY <5>2, <4>1
      <4>7. taken' = e
        BY <3>2, <4>3
      <4>. HIDE DEF e
      <4>8. Lines!LineEnd(taken, e)
        BY <3>2, <4>4, <4>5, <4>6 DEF Lines!LineEnd
      <4>. QED
        BY <3>2, <4>4, <4>7, <4>8 DEF Lines!TakeLine
    <3>. QED
      BY <3>1, <3>3, <3>4
  <2>5. CASE AllChunk \/ AllAtEof
    BY <2>5 DEF AllChunk, AllAtEof, IInv, TypeOK
  <2>6. CASE ReadError
    BY <2>6 DEF ReadError, Return
  <2>7. CASE UNCHANGED vars
    BY <2>7 DEF vars
  <2>. QED
    BY <2>1, <2>2, <2>3, <2>4, <2>5, <2>6, <2>7 DEF Next, Step
<1>. HIDE DEF taken
<1>. QED
  BY <1>1, <1>2, Inductive, PTL DEF Spec, ReadsLines, Lines!Spec, taken
=============================================================================
