----------------------------- MODULE SmapsStream -----------------------------
(***************************************************************************)
(* SmapsScraper::scrape_stream over BlockReader::read_next_block: the file *)
(* is cut into blocks where is_vma_start sees the header of a mapping, one *)
(* line of lookahead is kept, and the mappings of every block that parses  *)
(* are handed to the callback.  read_line is used as FileReader provides   *)
(* it: the next line with its newline, the end of the file, or an error.   *)
(*                                                                         *)
(* Lines and the grammar of smaps are in Scrapers.                         *)
(***************************************************************************)
EXTENDS Scrapers, Selection

CONSTANTS
  Files,       \* sequences of lines
  CallsFail    \* whether open and read_line may fail

ASSUME StreamAssumption ==
  /\ CallsFail \in BOOLEAN
  /\ \A f \in Files : f \in Seq(Line)
  /\ \A f \in Files : \A i \in DOMAIN f : f[i].newline \/ i = Len(f)

VARIABLES
  file,       \* the lines of the file
  next,       \* how many of them were read
  block,      \* the block under construction: numbers of lines
  lookahead,  \* lookahead_line_: <<>> or the number of one line
  eof,        \* eof_reached_
  pc,         \* "open" and "scrape": in scrape_stream; "block": in
              \* read_next_block
  blocks,     \* history: the blocks returned
  delivered   \* history: the headers of the mappings the callback was given

vars == <<file, next, block, lookahead, eof, pc, blocks, delivered>>

-----------------------------------------------------------------------------
\* scrape of a block: its lines are given by their numbers.
Parses(b) == SmapsAccepts([i \in DOMAIN b |-> file[b[i]]])

\* The mappings of a block, by the lines that begin them.
Headers(b) == Selected(b, {i \in DOMAIN b : file[b[i]].kind = "header"})

\* read_next_block returns b, and scrape_stream passes it on if it parses.
Hand(b) ==
  /\ pc' = "scrape" /\ blocks' = Append(blocks, b)
  /\ delivered' = IF Parses(b) THEN delivered \o Headers(b) ELSE delivered

Open ==
  /\ pc = "open" /\ pc' = "scrape"
  /\ UNCHANGED <<file, next, block, lookahead, eof, blocks, delivered>>

\* FileReader::open fails, and scrape_stream with it.
OpenFails ==
  /\ pc = "open" /\ CallsFail
  /\ pc' = "failed"
  /\ UNCHANGED <<file, next, block, lookahead, eof, blocks, delivered>>

\* Mutant: the line kept from the last call is forgotten.
BeginBlockFresh ==
  /\ pc = "scrape" /\ ~eof
  /\ block' = <<>> /\ lookahead' = <<>>
  /\ pc' = "block"
  /\ UNCHANGED <<file, next, eof, blocks, delivered>>

BeginBlock ==
  /\ pc = "scrape" /\ ~eof
  /\ block' = lookahead /\ lookahead' = <<>>
  /\ pc' = "block"
  /\ UNCHANGED <<file, next, eof, blocks, delivered>>

\* Mutant: the block is not returned when the next one starts.
NextLineStays ==
  /\ pc = "block" /\ next < Len(file)
  /\ next' = next + 1
  /\ lookahead' = IF IsVmaStart(file[next']) /\ block # <<>> THEN <<next'>>
                  ELSE lookahead
  /\ block' = Append(block, next')
  /\ UNCHANGED <<file, eof, pc, blocks, delivered>>

\* A line that starts a block is kept for the next call, unless the block
\* is still empty.
NextLine ==
  /\ pc = "block" /\ next < Len(file)
  /\ next' = next + 1
  /\ \/ /\ IsVmaStart(file[next']) /\ block # <<>>
        /\ lookahead' = <<next'>> /\ block' = <<>> /\ Hand(block)
     \/ /\ ~(IsVmaStart(file[next']) /\ block # <<>>)
        /\ block' = Append(block, next')
        /\ UNCHANGED <<lookahead, pc, blocks, delivered>>
  /\ UNCHANGED <<file, eof>>

\* Mutant: the block the end of the file cuts off is not returned.
EndOfFileDrops ==
  /\ pc = "block" /\ next = Len(file)
  /\ eof' = TRUE /\ pc' = "done" /\ block' = <<>>
  /\ UNCHANGED <<file, next, lookahead, blocks, delivered>>

EndOfFile ==
  /\ pc = "block" /\ next = Len(file)
  /\ eof' = TRUE
  /\ \/ block # <<>> /\ Hand(block) /\ block' = <<>>
     \/ block = <<>> /\ pc' = "done" /\ UNCHANGED <<block, blocks, delivered>>
  /\ UNCHANGED <<file, next, lookahead>>

\* eof_reached_: no block is left, scrape_stream reports success.
NoBlock ==
  /\ pc = "scrape" /\ eof
  /\ pc' = "done"
  /\ UNCHANGED <<file, next, block, lookahead, eof, blocks, delivered>>

\* read_line fails: the block under construction is lost with the call.
ReadError ==
  /\ pc = "block" /\ CallsFail
  /\ pc' = "failed"
  /\ UNCHANGED <<file, next, block, lookahead, eof, blocks, delivered>>

-----------------------------------------------------------------------------
Init ==
  /\ file \in Files /\ next = 0
  /\ block = <<>> /\ lookahead = <<>> /\ eof = FALSE /\ pc = "open"
  /\ blocks = <<>> /\ delivered = <<>>

Next ==
  \/ Open \/ OpenFails
  \/ BeginBlock \/ NextLine \/ EndOfFile \/ NoBlock \/ ReadError

Spec == Init /\ [][Next]_vars

-----------------------------------------------------------------------------
(* Properties.                                                             *)

TypeOK ==
  /\ file \in Seq(Line) /\ next \in 0..Len(file)
  /\ block \in Seq(1..Len(file)) /\ lookahead \in Seq(1..Len(file))
  /\ eof \in BOOLEAN /\ pc \in {"open", "scrape", "block", "done", "failed"}
  /\ blocks \in Seq(Seq(1..Len(file))) /\ delivered \in Seq(1..Len(file))
  /\ lookahead # <<>> => block = <<>> /\ ~eof

\* The number of the last line of the first n blocks.
LastOf(n) == IF n = 0 THEN 0 ELSE blocks[n][Len(blocks[n])]

\* Every line read is in one place: in a block that was returned, in the
\* block under construction or in the lookahead, in the order of the file,
\* and no block that is returned is empty.
LinesPartitioned ==
  LET unreturned == block \o lookahead IN
  /\ \A k \in DOMAIN blocks :
       /\ blocks[k] # <<>>
       /\ \A i \in DOMAIN blocks[k] : blocks[k][i] = LastOf(k - 1) + i
  /\ \A i \in DOMAIN unreturned : unreturned[i] = LastOf(Len(blocks)) + i
  /\ LastOf(Len(blocks)) + Len(unreturned) = next

\* Only a last line without its newline can start a block of its own: what is
\* parsed as one block is the rest of the file, however many mappings it has.
Splits == Len(file) > 1 /\ IsVmaStart(file[Len(file)])
Body == [i \in 1..Len(file) - (IF Splits THEN 1 ELSE 0) |-> i]

\* Success does not mean that anything was delivered: it is every mapping of
\* the body, once and in order, if all of the body parses, and else none, and
\* never the line that was split off.  After a failed call it is none, unless
\* the body was complete before the read that failed.
DeliveredWhole ==
  /\ pc = "done" => delivered = IF Parses(Body) THEN Headers(Body) ELSE <<>>
  /\ pc = "failed" /\ delivered # <<>> =>
       Splits /\ next = Len(file) /\ Parses(Body) /\ delivered = Headers(Body)
=============================================================================
