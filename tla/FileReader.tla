----------------------------- MODULE FileReader -----------------------------
(***************************************************************************)
(* sys_io/fs_reader.cpp: FileReader::read_line and FileReader::read_all    *)
(* over the chunk buffer they share.  read() returns as many bytes as it   *)
(* likes, up to the size of a chunk; EINTR is retried and not seen here.   *)
(* The buffer is written in place: what a shorter read does not overwrite  *)
(* stays there.                                                            *)
(*                                                                         *)
(* A byte is Newline or anything else; files differ in their bytes so that *)
(* a lost, repeated or misplaced byte shows.                               *)
(***************************************************************************)
EXTENDS Integers, Sequences, Functions

CONSTANTS
  Files,       \* the files that may be read: sequences of bytes
  Newline,     \* '\n'
  ChunkSize,   \* CHUNK_SIZE
  SizeLimit,   \* the 20 MB of read_all
  ReadsFail    \* whether read() may fail

\* Byte 0 is what the buffer holds before the first read.
Byte == {Newline, 0} \cup UNION {Range(f) : f \in Files}

ASSUME ReaderAssumption ==
  /\ Files \subseteq Seq(Byte)
  /\ ChunkSize \in Nat \ {0} /\ SizeLimit \in Nat
  /\ ReadsFail \in BOOLEAN

VARIABLES
  file,        \* the file's bytes
  method,      \* what the caller reads it with: read_line or read_all
  position,    \* the descriptor's offset in it
  chunk,       \* chunk_buffer_
  offset,      \* buffer_offset_
  bytes,       \* buffer_bytes_
  call,        \* the method that is running, or "none"
  out,         \* its result under construction
  result,      \* how the last call ended
  delivered    \* history: all that calls have returned

bufferVars == <<chunk, offset, bytes>>
vars == <<file, method, position, bufferVars, call, out, result, delivered>>

Results == {"none", "line", "eof", "contents", "error", "over_limit"}

-----------------------------------------------------------------------------
\* read(fd, chunk_buffer_, CHUNK_SIZE) returning n bytes.
ReadChunk(n) ==
  /\ n \in 1..ChunkSize /\ position + n <= Len(file)
  /\ chunk' = [i \in 1..ChunkSize |-> IF i <= n THEN file[position + i]
                                      ELSE chunk[i]]
  /\ position' = position + n

AtEof == position = Len(file)

Return(kind) ==
  /\ call' = "none" /\ result' = kind
  /\ delivered' = IF kind \in {"line", "contents"} THEN delivered \o out'
                  ELSE delivered

\* The library's callers use one of the methods, scrape_file read_all and
\* BlockReader read_line.  Both give up after an error, and read_line is not
\* called again at the end of the file.
Begin ==
  /\ call = "none"
  /\ result \in {"none", "line", "contents"}
  /\ call' = method /\ out' = <<>>
  /\ UNCHANGED <<file, method, position, bufferVars, result, delivered>>

\* Mutant: populate_buffer does not reset buffer_offset_.
RefillOnly ==
  /\ call = "read_line" /\ offset >= bytes
  /\ \E n \in 1..ChunkSize : ReadChunk(n) /\ bytes' = n
  /\ UNCHANGED <<file, method, offset, call, out, result, delivered>>

\* populate_buffer, when the buffer is used up.
Refill ==
  /\ call = "read_line" /\ offset >= bytes
  /\ \E n \in 1..ChunkSize : ReadChunk(n) /\ bytes' = n
  /\ offset' = 0
  /\ UNCHANGED <<file, method, call, out, result, delivered>>

\* Mutant: a last line without newline waits for its newline.
LineAtEofWaits ==
  /\ call = "read_line" /\ offset >= bytes /\ AtEof
  /\ offset' = 0 /\ bytes' = 0
  /\ \/ out = <<>> /\ Return("eof")
     \/ out # <<>> /\ UNCHANGED <<call, result, delivered>>
  /\ UNCHANGED <<file, method, position, chunk, out>>

\* has_chars is out # <<>>: nothing else is appended to out.
LineAtEof ==
  /\ call = "read_line" /\ offset >= bytes /\ AtEof
  /\ offset' = 0 /\ bytes' = 0
  /\ UNCHANGED out
  /\ Return(IF out # <<>> THEN "line" ELSE "eof")
  /\ UNCHANGED <<file, method, position, chunk>>

\* Mutants: the newline is looked for without regard to what is in out; the
\* rest of a chunk is dropped when it has no newline.
TakeChunk ==
  /\ call = "read_line" /\ offset < bytes
  /\ out' = out \o SubSeq(chunk, offset + 1, bytes)
  /\ offset' = bytes
  /\ Return("line")
  /\ UNCHANGED <<file, method, position, chunk, bytes>>

TakeBlind ==
  /\ call = "read_line" /\ offset < bytes
  /\ LET newlines == {i \in offset + 1..bytes : chunk[i] = Newline}
     IN IF newlines # {}
        THEN LET end == CHOOSE i \in newlines : \A j \in newlines : i <= j
             IN /\ out' = SubSeq(chunk, offset + 1, end)
                /\ offset' = end /\ Return("line")
        ELSE /\ out' = SubSeq(chunk, offset + 1, bytes)
             /\ offset' = bytes /\ UNCHANGED <<call, result, delivered>>
  /\ UNCHANGED <<file, method, position, chunk, bytes>>

\* The bytes up to the next newline, or all that are buffered.
Take ==
  /\ call = "read_line" /\ offset < bytes
  /\ \E end \in offset + 1..bytes :
       /\ \A i \in offset + 1..end - 1 : chunk[i] # Newline
       /\ chunk[end] = Newline \/ end = bytes
       /\ out' = out \o SubSeq(chunk, offset + 1, end)
       /\ offset' = end
       /\ \/ chunk[end] = Newline /\ Return("line")
          \/ chunk[end] # Newline /\ UNCHANGED <<call, result, delivered>>
  /\ UNCHANGED <<file, method, position, chunk, bytes>>

\* Mutant: the limit is checked before the chunk is counted.
AllChunkLate ==
  /\ call = "read_all"
  /\ \E n \in 1..ChunkSize :
       /\ ReadChunk(n)
       /\ IF Len(out) > SizeLimit THEN UNCHANGED out /\ Return("over_limit")
          ELSE out' = out \o SubSeq(chunk', 1, n)
               /\ UNCHANGED <<call, result, delivered>>
  /\ UNCHANGED <<file, method, offset, bytes>>

\* One turn of read_all's loop; the indices into the buffer are not touched.
AllChunk ==
  /\ call = "read_all"
  /\ \E n \in 1..ChunkSize :
       /\ ReadChunk(n)
       /\ \/ /\ n + Len(out) > SizeLimit
             /\ UNCHANGED out /\ Return("over_limit")
          \/ /\ n + Len(out) <= SizeLimit
             /\ out' = out \o SubSeq(chunk', 1, n)
             /\ UNCHANGED <<call, result, delivered>>
  /\ UNCHANGED <<file, method, offset, bytes>>

AllAtEof ==
  /\ call = "read_all" /\ AtEof
  /\ UNCHANGED out /\ Return("contents")
  /\ UNCHANGED <<file, method, position, bufferVars>>

\* read() fails: the call returns the error, out is lost.
ReadError ==
  /\ ReadsFail
  /\ call = "read_all" \/ (call = "read_line" /\ offset >= bytes)
  /\ UNCHANGED out /\ Return("error")
  /\ UNCHANGED <<file, method, position, bufferVars>>

-----------------------------------------------------------------------------
Init ==
  /\ file \in Files /\ method \in {"read_line", "read_all"} /\ position = 0
  /\ chunk = [i \in 1..ChunkSize |-> 0]   \* make_unique<char[]> zeroes it
  /\ offset = 0 /\ bytes = 0
  /\ call = "none" /\ out = <<>> /\ result = "none" /\ delivered = <<>>

Step == Refill \/ LineAtEof \/ Take \/ AllChunk \/ AllAtEof

Next == Begin \/ Step \/ ReadError

Spec == Init /\ [][Next]_vars

\* A call that has begun goes on; whether it fails is read()'s affair.
FairSpec == Spec /\ WF_vars(Step)

-----------------------------------------------------------------------------
(* Properties.                                                             *)

TypeOK ==
  /\ file \in Seq(Byte) /\ method \in {"read_line", "read_all"}
  /\ position \in 0..Len(file)
  /\ chunk \in [1..ChunkSize -> Byte]
  /\ bytes \in 0..ChunkSize /\ offset \in 0..bytes
  /\ call \in {"none", method} /\ result \in Results
  /\ out \in Seq(Byte) /\ delivered \in Seq(Byte)

\* Whatever sizes the reads have, read_line delivers the file: what it has
\* returned, what the running call has collected and what is still buffered
\* make up the part of the file that was read.
NothingLost ==
  method = "read_line" /\ result # "error" =>
    SubSeq(file, 1, position) =
      delivered \o (IF call = "none" THEN <<>> ELSE out)
                \o SubSeq(chunk, offset + 1, bytes)

\* read_line is a stream of whole lines, in chunks of any size.  (For
\* read_all the stream stays where it is.)
Lines == INSTANCE LineStream
  WITH taken <- IF method = "read_line" THEN Len(delivered) ELSE 0
ReadsLines == Lines!Spec

\* read_all returns the whole file, and refuses just
\* the files that are too long.
WholeFile ==
  /\ result = "contents" => delivered = file /\ Len(file) <= SizeLimit
  /\ result = "over_limit" => Len(file) > SizeLimit

\* A call returns, however long the line.
Returns == call # "none" ~> call = "none"
=============================================================================
