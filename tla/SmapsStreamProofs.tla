-------------------------- MODULE SmapsStreamProofs --------------------------
(***************************************************************************)
(* SmapsStream cuts every file into blocks without losing, repeating or    *)
(* exchanging a line, whatever the file, and whether or not reads fail.    *)
(***************************************************************************)
EXTENDS SmapsStream, SelectionProofs

\* The lines read and not returned: at most one of the two is not empty.
Unreturned == block \o lookahead

Types ==
  /\ next \in Nat
  /\ block \in Seq(Nat) /\ lookahead \in Seq(Nat) /\ blocks \in Seq(Seq(Nat))

\* A block is under construction in read_next_block only, which has taken
\* the lookahead before it reads.
Control ==
  /\ pc = "block" => lookahead = <<>>
  /\ pc \in {"open", "scrape"} => block = <<>>

\* The two halves of LinesPartitioned, about what was returned and what not.
Returned ==
  \A k \in DOMAIN blocks :
    /\ blocks[k] # <<>>
    /\ \A i \in DOMAIN blocks[k] : blocks[k][i] = LastOf(k - 1) + i

Pending ==
  /\ \A i \in DOMAIN Unreturned : Unreturned[i] = LastOf(Len(blocks)) + i
  /\ LastOf(Len(blocks)) + Len(Unreturned) = next

IInv == Types /\ Control /\ Returned /\ Pending

-----------------------------------------------------------------------------
\* The last line of the blocks returned is a number.
LEMMA LastOfNat ==
  ASSUME Types, Returned, NEW n \in 0..Len(blocks)
  PROVE  LastOf(n) \in Nat
<1>1. CASE n = 0
  BY <1>1 DEF LastOf
<1>2. CASE n # 0
  <2>1. n \in DOMAIN blocks /\ blocks[n] \in Seq(Nat) /\ blocks[n] # <<>>
    BY <1>2 DEF Types, Returned
  <2>2. Len(blocks[n]) \in DOMAIN blocks[n]
    BY <2>1
  <2>3. blocks[n][Len(blocks[n])] \in Nat
    BY <2>1, <2>2
  <2>4. QED
    BY <1>2, <2>3 DEF LastOf
<1>3. QED
  BY <1>1, <1>2

\* A block returned is added at the end: Hand as far as the lines go.
Returns(b) == blocks' = Append(blocks, b)

\* The lines of the earlier blocks stay where they were.
LEMMA LastOfKept ==
  ASSUME Types, NEW b \in Seq(Nat), Returns(b), NEW n \in 0..Len(blocks)
  PROVE  LastOf(n)' = LastOf(n)
<1>1. CASE n = 0
  BY <1>1 DEF LastOf
<1>2. CASE n # 0
  <2>1. blocks'[n] = blocks[n]
    BY <1>2 DEF Types, Returns
  <2>2. QED
    BY <1>2, <2>1 DEF LastOf
<1>3. QED
  BY <1>1, <1>2

\* Returning the block under construction, with nothing in the lookahead,
\* keeps what is known of the blocks returned, the last line of which is now
\* the last line that was read.
LEMMA HandOver ==
  ASSUME Types, Returned, Pending, lookahead = <<>>, block # <<>>,
         Returns(block)
  PROVE  Returned' /\ LastOf(Len(blocks))' = next
<1> DEFINE n == Len(blocks)
<1>1. n \in Nat /\ LastOf(n) \in Nat
  BY LastOfNat DEF Types
<1>2. Unreturned = block
  BY DEF Unreturned, Types
<1>3. /\ \A i \in DOMAIN block : block[i] = LastOf(n) + i
      /\ LastOf(n) + Len(block) = next
  BY <1>2 DEF Pending
<1>4. blocks' = Append(blocks, block)
  BY DEF Returns
<1>5. Len(blocks') = n + 1 /\ blocks'[n + 1] = block
      /\ \A k \in 1..n : blocks'[k] = blocks[k]
  BY <1>4 DEF Types
<1>6. DOMAIN blocks' = 1..(n + 1) /\ DOMAIN blocks = 1..n
  BY <1>4 DEF Types
<1>7. Len(block) \in DOMAIN block /\ Len(block) \in Nat
  BY DEF Types
<1>8. \A m \in 0..n : LastOf(m)' = LastOf(m)
  BY LastOfKept DEF Types
<1>9. Returned'
  <2> SUFFICES ASSUME NEW k \in 1..(n + 1)
               PROVE  /\ blocks'[k] # <<>>
                      /\ \A i \in DOMAIN blocks'[k] :
                           blocks'[k][i] = LastOf(k - 1)' + i
    BY <1>6 DEF Returned
  <2>1. CASE k = n + 1
    <3>1. LastOf(k - 1)' = LastOf(n)
      BY <1>1, <1>8, <2>1
    <3>2. QED
      BY <1>3, <1>5, <2>1, <3>1
  <2>2. CASE k \in 1..n
    <3>1. LastOf(k - 1)' = LastOf(k - 1)
      BY <1>1, <1>8, <2>2
    <3>2. QED
      BY <1>5, <1>6, <2>2, <3>1 DEF Returned
  <2>3. QED
    BY <1>1, <2>1, <2>2
<1>10. LastOf(Len(blocks))' = next
  <2>1. LastOf(Len(blocks))' = blocks'[n + 1][Len(blocks'[n + 1])]
    BY <1>1, <1>5 DEF LastOf
  <2>2. QED
    BY <1>3, <1>5, <1>7, <2>1
<1>11. QED
  BY <1>9, <1>10

\* As long as no block is returned, what is known of the blocks stays.
LEMMA NothingHanded ==
  ASSUME Returned, blocks' = blocks
  PROVE  Returned' /\ LastOf(Len(blocks))' = LastOf(Len(blocks))
BY DEF Returned, LastOf

-----------------------------------------------------------------------------
(* The steps.                                                              *)

\* The number of the line after the lines before it.
LEMMA OneMore ==
  ASSUME NEW a \in Nat, NEW b \in Nat
  PROVE  a + (b + 1) = (a + b) + 1
OBVIOUS

\* The lookahead becomes the start of the block.
LEMMA BeginBlockKeeps == IInv /\ BeginBlock => IInv'
<1> SUFFICES ASSUME IInv, BeginBlock PROVE IInv'
  OBVIOUS
<1>1. Types' /\ Control'
  BY DEF IInv, Types, Control, BeginBlock
<1>2. Returned' /\ LastOf(Len(blocks))' = LastOf(Len(blocks))
  BY NothingHanded DEF IInv, BeginBlock
<1>3. Unreturned' = Unreturned
  BY DEF IInv, Types, Control, BeginBlock, Unreturned
<1>4. Pending'
  BY <1>2, <1>3 DEF IInv, Pending, BeginBlock
<1>5. QED
  BY <1>1, <1>2, <1>4 DEF IInv

\* The line read goes behind the block, or the block is returned and the line
\* is the lookahead.
LEMMA NextLineKeeps == IInv /\ NextLine => IInv'
<1> SUFFICES ASSUME IInv, NextLine PROVE IInv'
  OBVIOUS
<1>1. lookahead = <<>> /\ next' = next + 1 /\ next \in Nat
      /\ block \in Seq(Nat) /\ blocks \in Seq(Seq(Nat))
  BY DEF IInv, Types, Control, NextLine
<1>2. CASE block # <<>> /\ lookahead' = <<next'>> /\ block' = <<>>
           /\ Hand(block)
  <2>1. Returns(block)
    BY <1>2 DEF Returns, Hand
  <2>2. Types'
    BY <1>1, <1>2 DEF Types, Hand
  <2>3. Control'
    BY <1>2 DEF Control, Hand
  <2>4. Returned' /\ LastOf(Len(blocks))' = next
    BY <1>1, <1>2, <2>1, HandOver DEF IInv
  <2>5. Unreturned' = <<next + 1>>
    BY <1>1, <1>2 DEF Unreturned
  <2>6. Pending'
    BY <1>1, <2>4, <2>5 DEF Pending
  <2>7. QED
    BY <2>2, <2>3, <2>4, <2>6 DEF IInv
<1>3. CASE block' = Append(block, next')
           /\ UNCHANGED <<lookahead, pc, blocks, delivered>>
  <2>1. Types'
    BY <1>1, <1>3 DEF Types
  <2>2. Control'
    BY <1>1, <1>3 DEF IInv, Control, NextLine
  <2>3. Returned' /\ LastOf(Len(blocks))' = LastOf(Len(blocks))
    BY <1>3, NothingHanded DEF IInv
  <2>4. Unreturned = block /\ Unreturned' = Append(block, next + 1)
    BY <1>1, <1>3 DEF Unreturned
  <2>5. LastOf(Len(blocks)) \in Nat
    BY <1>1, LastOfNat DEF IInv
  <2>6. Pending'
    <3> DEFINE last == LastOf(Len(blocks))
               more == Append(block, next + 1)
    <3>1. /\ \A i \in DOMAIN block : block[i] = last + i
          /\ last + Len(block) = next
      BY <2>4 DEF IInv, Pending
    <3>2. DOMAIN block = 1..Len(block) /\ Len(block) \in Nat
          /\ DOMAIN more = 1..(Len(block) + 1) /\ Len(more) = Len(block) + 1
      BY <1>1
    <3>3. (\A i \in 1..Len(block) : more[i] = block[i])
          /\ more[Len(block) + 1] = next + 1
      BY <1>1
    <3> HIDE DEF more, last
    <3>4. last \in Nat
      BY <2>5 DEF last
    <3>5. \A i \in DOMAIN more : more[i] = last + i
      <4> SUFFICES ASSUME NEW i \in 1..(Len(block) + 1)
                   PROVE  more[i] = last + i
        BY <3>2
      <4>1. CASE i \in 1..Len(block)
        BY <3>1, <3>2, <3>3, <4>1
      <4>2. CASE i = Len(block) + 1
        <5>1. last + i = next + 1
          BY <3>1, <3>2, <3>4, <4>2, OneMore
        <5>2. QED
          BY <3>3, <4>2, <5>1
      <4>3. QED
        BY <3>2, <4>1, <4>2
    <3>6. last + Len(more) = next'
      BY <1>1, <3>1, <3>2, <3>4
    <3>7. Unreturned' = more /\ LastOf(Len(blocks))' = last
      BY <2>3, <2>4 DEF more, last
    <3>8. QED
      BY <3>5, <3>6, <3>7 DEF Pending
  <2>7. QED
    BY <2>1, <2>2, <2>3, <2>6 DEF IInv
<1>4. QED
  BY <1>2, <1>3 DEF NextLine

\* A step that leaves the lines where they are.
LEMMA SameLinesKeep ==
  ASSUME IInv, UNCHANGED <<next, block, lookahead, blocks>>,
         pc' \in {"open", "scrape"} => pc \in {"open", "scrape"},
         pc' = "block" => pc = "block"
  PROVE  IInv'
BY DEF IInv, Types, Control, Returned, Pending, Unreturned, LastOf

\* The end of the file returns what is left.
LEMMA EndOfFileKeeps == IInv /\ EndOfFile => IInv'
<1> SUFFICES ASSUME IInv, EndOfFile PROVE IInv'
  OBVIOUS
<1>1. lookahead = <<>> /\ lookahead' = <<>> /\ next' = next /\ next \in Nat
      /\ block \in Seq(Nat) /\ blocks \in Seq(Seq(Nat))
  BY DEF IInv, Types, Control, EndOfFile
<1>2. CASE block # <<>> /\ Hand(block) /\ block' = <<>>
  <2>1. Returns(block)
    BY <1>2 DEF Returns, Hand
  <2>2. Types'
    BY <1>1, <1>2 DEF Types, Hand
  <2>3. Control'
    BY <1>2 DEF Control, Hand
  <2>4. Returned' /\ LastOf(Len(blocks))' = next
    BY <1>1, <1>2, <2>1, HandOver DEF IInv
  <2>5. Unreturned' = <<>>
    BY <1>1, <1>2 DEF Unreturned
  <2>6. Pending'
    BY <1>1, <2>4, <2>5 DEF Pending
  <2>7. QED
    BY <2>2, <2>3, <2>4, <2>6 DEF IInv
<1>3. CASE pc' = "done" /\ UNCHANGED <<block, blocks, delivered>>
  BY <1>1, <1>3, SameLinesKeep
<1>4. QED
  BY <1>2, <1>3 DEF EndOfFile

\* The invariant is inductive.
LEMMA Inductive == IInv /\ [Next]_vars => IInv'
<1> SUFFICES ASSUME IInv, [Next]_vars PROVE IInv'
  OBVIOUS
<1>1. CASE BeginBlock
  BY <1>1, BeginBlockKeeps
<1>2. CASE NextLine
  BY <1>2, NextLineKeeps
<1>3. CASE EndOfFile
  BY <1>3, EndOfFileKeeps
<1>4. CASE NoBlock
  BY <1>4, SameLinesKeep DEF NoBlock
<1>5. CASE ReadError
  BY <1>5, SameLinesKeep DEF ReadError
<1>6. CASE Open \/ OpenFails
  BY <1>6, SameLinesKeep DEF Open, OpenFails
<1>7. CASE UNCHANGED vars
  BY <1>7, SameLinesKeep DEF vars
<1>8. QED
  BY <1>1, <1>2, <1>3, <1>4, <1>5, <1>6, <1>7 DEF Next

\* Every line that was read is in one place, in the order of the file: for
\* any file, and at whatever line a read fails.
THEOREM PartitionCorrect == Spec => []LinesPartitioned
<1>1. Init => IInv
  BY DEF Init, IInv, Types, Control, Returned, Pending, Unreturned, LastOf
<1>2. IInv => LinesPartitioned
  BY DEF IInv, Returned, Pending, Unreturned, LinesPartitioned
<1>3. QED
  BY <1>1, <1>2, Inductive, PTL DEF Spec

-----------------------------------------------------------------------------
(* Headers.                                                                *)

\* Headers gives lines of the block.
LEMMA HeadersType ==
  ASSUME NEW S, NEW b \in Seq(S)
  PROVE  Headers(b) \in Seq(S)
BY SelectedType DEF Headers

\* An empty block has none.
LEMMA HeadersEmpty == Headers(<<>>) = <<>>
<1> DEFINE P == {i \in DOMAIN <<>> : file[<<>>[i]].kind = "header"}
<1>1. P = {}
  OBVIOUS
<1>2. P \in SUBSET DOMAIN <<>> /\ Cardinality(P) = 0
  BY <1>1, FS_EmptySet
<1>3. Selected(<<>>, P) \in Seq({}) /\ Len(Selected(<<>>, P)) = 0
  <2>1. <<>> \in Seq({})
    BY EmptySeq
  <2>. HIDE DEF P
  <2> QED BY <1>2, <2>1, SelectedType
<1> QED
  BY <1>3, EmptySeq DEF Headers

-----------------------------------------------------------------------------
(* Types.                                                                  *)

\* The end is seen once, when all that is kept is the block.
TInv ==
  /\ TypeOK
  /\ Control
  /\ pc \in {"open", "block"} => ~eof

\* What Hand does to the history.
LEMMA HandType ==
  ASSUME TypeOK, NEW b \in Seq(1..Len(file)), Hand(b)
  PROVE  /\ blocks' \in Seq(Seq(1..Len(file)))
         /\ delivered' \in Seq(1..Len(file)) /\ pc' = "scrape"
<1>1. blocks \in Seq(Seq(1..Len(file))) /\ delivered \in Seq(1..Len(file))
  BY DEF TypeOK
<1>2. Headers(b) \in Seq(1..Len(file))
  BY HeadersType
<1>3. delivered \o Headers(b) \in Seq(1..Len(file))
  BY <1>1, <1>2, ConcatProperties
<1>4. Append(blocks, b) \in Seq(Seq(1..Len(file)))
  BY <1>1, AppendProperties
<1> QED
  BY <1>1, <1>3, <1>4 DEF Hand

\* Every step keeps the types.
LEMMA TypesKept == TInv /\ [Next]_vars => TInv'
<1> SUFFICES ASSUME TInv, [Next]_vars PROVE TInv'
  OBVIOUS
<1>. USE DEF TInv
<1>1. /\ file \in Seq(Line) /\ next \in 0..Len(file) /\ Len(file) \in Nat
      /\ block \in Seq(1..Len(file)) /\ lookahead \in Seq(1..Len(file))
      /\ blocks \in Seq(Seq(1..Len(file))) /\ delivered \in Seq(1..Len(file))
  BY LenProperties DEF TypeOK
<1>2. <<>> \in Seq(1..Len(file))
  BY EmptySeq
<1>3. CASE BeginBlock
  BY <1>1, <1>2, <1>3 DEF BeginBlock, TypeOK, Control
<1>4. CASE NextLine
  <2>1. lookahead = <<>> /\ next' \in 1..Len(file) /\ file' = file /\ ~eof
        /\ eof' = eof /\ next' = next + 1 /\ pc = "block"
    BY <1>1, <1>4 DEF NextLine, Control
  <2>2. CASE block # <<>> /\ lookahead' = <<next'>> /\ block' = <<>>
             /\ Hand(block)
    <3>1. <<next'>> \in Seq(1..Len(file))
      BY <2>1
    <3>2. /\ blocks' \in Seq(Seq(1..Len(file)))
          /\ delivered' \in Seq(1..Len(file)) /\ pc' = "scrape"
      BY <1>1, <2>2, HandType
    <3>3. TypeOK'
      BY <1>1, <1>2, <2>1, <2>2, <3>1, <3>2 DEF TypeOK
    <3> QED
      BY <2>1, <2>2, <3>2, <3>3 DEF Control
  <2>3. CASE block' = Append(block, next')
             /\ UNCHANGED <<lookahead, pc, blocks, delivered>>
    <3>1. Append(block, next') \in Seq(1..Len(file))
      BY <1>1, <2>1, AppendProperties
    <3>2. TypeOK'
      BY <1>1, <2>1, <2>3, <3>1 DEF TypeOK
    <3> QED
      BY <2>1, <2>3, <3>2 DEF Control
  <2> QED
    BY <1>4, <2>2, <2>3 DEF NextLine
<1>5. CASE EndOfFile
  <2>1. /\ lookahead = <<>> /\ UNCHANGED <<file, next, lookahead>> /\ eof'
        /\ eof' \in BOOLEAN /\ pc = "block"
    BY <1>5 DEF EndOfFile, Control
  <2>2. CASE block # <<>> /\ Hand(block) /\ block' = <<>>
    <3>1. /\ blocks' \in Seq(Seq(1..Len(file)))
          /\ delivered' \in Seq(1..Len(file)) /\ pc' = "scrape"
      BY <1>1, <2>2, HandType
    <3>2. TypeOK'
      BY <1>1, <1>2, <2>1, <2>2, <3>1 DEF TypeOK
    <3> QED
      BY <2>1, <2>2, <3>1, <3>2 DEF Control
  <2>3. CASE pc' = "done" /\ UNCHANGED <<block, blocks, delivered>>
    <3>1. TypeOK'
      BY <1>1, <2>1, <2>3 DEF TypeOK
    <3> QED
      BY <2>1, <2>3, <3>1 DEF Control
  <2> QED
    BY <1>5, <2>2, <2>3 DEF EndOfFile
<1>6. CASE NoBlock
  BY <1>6 DEF NoBlock, TypeOK, Control
<1>7. CASE ReadError
  BY <1>7 DEF ReadError, TypeOK, Control
<1>8. CASE Open \/ OpenFails
  BY <1>8 DEF Open, OpenFails, TypeOK, Control
<1>9. CASE UNCHANGED vars
  BY <1>9 DEF vars, TypeOK, Control
<1> QED
  BY <1>3, <1>4, <1>5, <1>6, <1>7, <1>8, <1>9 DEF Next

\* The types hold at the start.
LEMMA TypesInit == Init => TInv
<1> SUFFICES ASSUME Init PROVE TInv
  OBVIOUS
<1>1. file \in Seq(Line) /\ Len(file) \in Nat
  BY StreamAssumption, LenProperties DEF Init
<1>2. <<>> \in Seq(1..Len(file)) /\ <<>> \in Seq(Seq(1..Len(file)))
  BY EmptySeq
<1>3. 0 \in 0..Len(file)
  BY <1>1
<1>4. TypeOK
  BY <1>1, <1>2, <1>3 DEF Init, TypeOK
<1> QED
  BY <1>4 DEF Init, TInv, Control

\* The blocks of BlockReader (fs_reader.cpp) and what scrape_stream
\* (smaps_scraper.hpp) hands on are lines of the file, and no line is kept
\* for a next block (lookahead_line_) when the end was seen.
THEOREM TypeCorrect == Spec => []TypeOK
<1>1. TInv => TypeOK
  BY DEF TInv
<1> QED
  BY TypesInit, TypesKept, <1>1, PTL DEF Spec

-----------------------------------------------------------------------------
(* What is delivered.                                                      *)

\* The lines of a file end with a newline, but the last.
FileKept ==
  /\ file \in Seq(Line)
  /\ \A i \in DOMAIN file : file[i].newline \/ i = Len(file)

Delivery == IF Parses(Body) THEN Headers(Body) ELSE <<>>

\* Before a block is returned nothing is delivered; if the last line splits
\* off, the block of the others is returned when that line is read.
Before ==
  /\ lookahead = <<>> /\ ~eof /\ pc # "done" /\ blocks = <<>> /\ delivered = <<>>
  /\ Splits => next < Len(file)

\* Then only the last line is left, in the lookahead or in a block.
Between ==
  /\ Splits /\ ~eof /\ pc # "done" /\ next = Len(file) /\ delivered = Delivery
  /\ lookahead \o block = <<Len(file)>>

\* When the end was seen all is delivered.
After == eof /\ block = <<>> /\ pc # "failed" /\ delivered = Delivery

DInv == IInv /\ TInv /\ FileKept /\ (Before \/ Between \/ After)

\* A file of two lines or more splits at its last line only.
LEMMA StartsAtEnd ==
  ASSUME FileKept, NEW n \in 1..Len(file), IsVmaStart(file[n]), n > 1
  PROVE  Splits /\ n = Len(file)
<1>1. Len(file) \in Nat /\ DOMAIN file = 1..Len(file)
  BY LenProperties DEF FileKept
<1>2. n = Len(file)
  BY <1>1 DEF FileKept, IsVmaStart
<1> QED
  BY <1>1, <1>2 DEF Splits

\* The block under construction is all that was read, before one is returned.
LEMMA BlockIsAll ==
  ASSUME TypeOK, IInv, lookahead = <<>>, blocks = <<>>
  PROVE  block = [i \in 1..next |-> i] /\ next \in Nat
<1>1. block \in Seq(1..Len(file)) /\ Len(file) \in Nat /\ Len(block) \in Nat
      /\ next \in Nat
  BY LenProperties DEF TypeOK
<1>2. Unreturned = block
  BY <1>1 DEF Unreturned
<1>3. Len(blocks) = 0
  OBVIOUS
<1>4. LastOf(Len(blocks)) = 0
  BY <1>3 DEF LastOf
<1>5. Len(block) = next /\ \A i \in DOMAIN block : block[i] = i
  <2>1. 0 + Len(block) = next /\ \A i \in DOMAIN block : block[i] = 0 + i
    BY <1>2, <1>4 DEF IInv, Pending
  <2>2. DOMAIN block = 1..Len(block)
    BY <1>1, LenProperties
  <2> QED BY <1>1, <2>1, <2>2
<1>6. block = [i \in 1..Len(block) |-> block[i]]
  BY <1>1
<1> QED
  BY <1>1, <1>5, <1>6

\* A line without its newline is no block that parses.
LEMMA CutFails ==
  ASSUME FileKept, Splits
  PROVE  ~Parses(<<Len(file)>>)
<1>1. ~file[Len(file)].newline
  BY DEF Splits, IsVmaStart
<1> DEFINE b == <<Len(file)>>
           text == [i \in DOMAIN b |-> file[b[i]]]
<1>2. 1 \in DOMAIN text /\ text[1] = file[Len(file)]
  OBVIOUS
<1>. HIDE DEF text
<1>3. ~SmapsAccepts(text)
  BY <1>1, <1>2 DEF SmapsAccepts
<1> QED
  BY <1>3 DEF Parses, text

\* The file does not change.
LEMMA FileStays ==
  ASSUME [Next]_vars
  PROVE  /\ file' = file /\ (FileKept => FileKept') /\ Delivery' = Delivery
         /\ Splits' = Splits /\ Body' = Body
<1>1. file' = file
  BY DEF Next, vars, Open, OpenFails, BeginBlock, NextLine, EndOfFile, NoBlock,
         ReadError
<1> QED
  BY <1>1 DEF FileKept, Delivery, Parses, Headers, Splits, Body

\* A step to what is before the first block's return.
LEMMA BeforeKept ==
  ASSUME DInv, Before, [Next]_vars
  PROVE  Before' \/ Between' \/ After'
<1>0. /\ TypeOK /\ Control /\ FileKept /\ IInv /\ Len(file) \in Nat
      /\ next \in 0..Len(file) /\ (pc = "block" => ~eof)
  BY LenProperties DEF DInv, TInv, TypeOK
<1>f. /\ file' = file /\ Delivery' = Delivery /\ Splits' = Splits
  BY FileStays
<1>1. CASE Open \/ OpenFails \/ BeginBlock \/ ReadError \/ UNCHANGED vars
  BY <1>f, <1>1 DEF Before, Open, OpenFails, BeginBlock, ReadError, vars
<1>2. CASE NoBlock
  BY <1>2 DEF Before, NoBlock
<1>3. CASE NextLine
  <2>1. next' = next + 1 /\ next' \in 1..Len(file) /\ eof' = eof /\ pc = "block"
    BY <1>0, <1>3 DEF NextLine
  <2>2. block = [i \in 1..next |-> i]
    BY <1>0, BlockIsAll DEF Before
  <2>3. CASE /\ IsVmaStart(file[next']) /\ block # <<>>
             /\ lookahead' = <<next'>> /\ block' = <<>> /\ Hand(block)
    <3>1. next' > 1
      <4>1. next # 0
        BY <2>2, <2>3
      <4> QED BY <1>0, <2>1, <4>1
    <3>2. Splits /\ next' = Len(file)
      BY <1>0, <2>1, <2>3, <3>1, StartsAtEnd
    <3>3. block = Body
      <4>1. next = Len(file) - 1
        BY <1>0, <2>1, <3>2
      <4> QED BY <2>2, <3>2, <4>1 DEF Body
    <3>4. delivered' = Delivery
      <4>1. Headers(block) \in Seq(1..Len(file))
        BY <1>0, HeadersType DEF TypeOK
      <4>2. <<>> \o Headers(block) = Headers(block)
        BY <4>1, ConcatEmptySeq
      <4> QED
        BY <2>3, <3>3, <4>2 DEF Hand, Delivery, Before
    <3>5. lookahead' \o block' = <<Len(file)>>
      <4>1. <<Len(file)>> \in Seq(Nat) /\ <<>> \in Seq(Nat)
        BY <1>0
      <4> QED
        BY <2>3, <3>2, <4>1, ConcatEmptySeq
    <3> QED
      BY <1>f, <2>1, <2>3, <3>2, <3>4, <3>5 DEF Between, Before, Hand
  <2>4. CASE /\ ~(IsVmaStart(file[next']) /\ block # <<>>)
             /\ UNCHANGED <<lookahead, pc, blocks, delivered>>
    <3>1. Splits => next' < Len(file)
      <4> SUFFICES ASSUME Splits, ~(next' < Len(file)) PROVE FALSE
        OBVIOUS
      <4>1. next' = Len(file) /\ next = Len(file) - 1 /\ Len(file) > 1
        BY <1>0, <2>1 DEF Splits
      <4>2. 1 \in 1..next
        BY <1>0, <4>1
      <4>3. block # <<>>
        BY <2>2, <4>2
      <4> QED
        BY <2>4, <4>1, <4>3 DEF Splits
    <3> QED
      BY <1>f, <2>1, <2>4, <3>1 DEF Before
  <2> QED
    BY <1>3, <2>3, <2>4 DEF NextLine
<1>4. CASE EndOfFile
  <2>1. pc = "block" /\ next = Len(file) /\ eof'
    BY <1>4 DEF EndOfFile
  <2>2. ~Splits
    BY <1>0, <2>1 DEF Before
  <2>3. block = Body
    <3>1. block = [i \in 1..next |-> i]
      BY <1>0, BlockIsAll DEF Before
    <3> QED BY <1>0, <2>1, <2>2, <3>1 DEF Body
  <2>4. CASE block # <<>> /\ Hand(block) /\ block' = <<>>
    <3>1. Headers(block) \in Seq(1..Len(file))
      BY <1>0, HeadersType DEF TypeOK
    <3>2. <<>> \o Headers(block) = Headers(block)
      BY <3>1, ConcatEmptySeq
    <3>3. delivered' = Delivery
      BY <2>3, <2>4, <3>2 DEF Hand, Delivery, Before
    <3> QED
      BY <1>f, <2>1, <2>4, <3>3 DEF After, Hand
  <2>5. CASE block = <<>> /\ pc' = "done" /\ UNCHANGED <<block, blocks, delivered>>
    <3>1. Delivery = <<>>
      BY <2>3, <2>5, HeadersEmpty DEF Delivery
    <3> QED
      BY <1>f, <2>1, <2>5, <3>1 DEF After, Before
  <2> QED
    BY <1>4, <2>4, <2>5 DEF EndOfFile
<1> QED
  BY <1>1, <1>2, <1>3, <1>4 DEF Next

\* A step while the last line is left.
LEMMA BetweenKept ==
  ASSUME DInv, Between, [Next]_vars
  PROVE  Between' \/ After'
<1>0. /\ TypeOK /\ Control /\ FileKept /\ Len(file) \in Nat
      /\ block \in Seq(1..Len(file)) /\ lookahead \in Seq(1..Len(file))
  BY LenProperties DEF DInv, TInv, TypeOK
<1>f. /\ file' = file /\ Delivery' = Delivery /\ Splits' = Splits
  BY FileStays
<1>1. CASE Open \/ OpenFails \/ ReadError \/ UNCHANGED vars
  BY <1>f, <1>1 DEF Between, Open, OpenFails, ReadError, vars
<1>2. CASE BeginBlock
  <2>1. block = <<>> /\ block' = lookahead /\ lookahead' = <<>>
    BY <1>0, <1>2 DEF BeginBlock, Control
  <2>2. lookahead = <<Len(file)>>
    BY <1>0, <2>1, ConcatEmptySeq DEF Between
  <2>3. lookahead' \o block' = <<Len(file)>>
    BY <1>0, <2>1, <2>2, ConcatEmptySeq
  <2> QED
    BY <1>f, <1>2, <2>3 DEF Between, BeginBlock
<1>3. CASE NoBlock
  BY <1>3 DEF Between, NoBlock
<1>4. CASE NextLine
  BY <1>0, <1>4 DEF Between, NextLine
<1>5. CASE EndOfFile
  <2>1. lookahead = <<>>
    BY <1>0, <1>5 DEF EndOfFile, Control
  <2>2. block = <<Len(file)>>
    BY <1>0, <2>1, ConcatEmptySeq DEF Between
  <2>3. ~Parses(block)
    BY <1>0, <2>2, CutFails DEF Between
  <2> QED
    BY <1>f, <1>5, <2>2, <2>3 DEF EndOfFile, Hand, After, Between
<1> QED
  BY <1>1, <1>2, <1>3, <1>4, <1>5 DEF Next

\* A step after the end was seen.
LEMMA AfterKept ==
  ASSUME DInv, After, [Next]_vars
  PROVE  After'
<1>0. pc \notin {"open", "block"} /\ eof
  BY DEF DInv, TInv, After
<1>f. Delivery' = Delivery
  BY FileStays
<1>1. CASE NoBlock \/ UNCHANGED vars
  BY <1>f, <1>1 DEF After, NoBlock, vars
<1>2. CASE Open \/ OpenFails \/ NextLine \/ EndOfFile \/ ReadError
  BY <1>0, <1>2 DEF Open, OpenFails, NextLine, EndOfFile, ReadError
<1>3. CASE BeginBlock
  BY <1>0, <1>3 DEF BeginBlock
<1> QED
  BY <1>1, <1>2, <1>3 DEF Next

\* scrape_stream (smaps_scraper.hpp) delivers every mapping of the body of a
\* file, once and in order, or none of them, whatever the file and wherever a
\* call fails.
THEOREM DeliveredCorrect == Spec => []DeliveredWhole
<1>1. Init => DInv
  <2> SUFFICES ASSUME Init PROVE DInv
    OBVIOUS
  <2>1. IInv
    BY DEF Init, IInv, Types, Control, Returned, Pending, Unreturned, LastOf
  <2>2. FileKept
    BY StreamAssumption DEF Init, FileKept
  <2>3. Before
    <3>1. Len(file) \in Nat
      BY <2>2, LenProperties DEF FileKept
    <3> QED
      BY <3>1 DEF Init, Before, Splits
  <2> QED
    BY <2>1, <2>2, <2>3, TypesInit DEF DInv
<1>2. DInv /\ [Next]_vars => DInv'
  BY Inductive, TypesKept, FileStays, BeforeKept, BetweenKept, AfterKept DEF DInv
<1>3. DInv => DeliveredWhole
  BY DEF DInv, Before, Between, After, Delivery, DeliveredWhole
<1> QED
  BY <1>1, <1>2, <1>3, PTL DEF Spec
=============================================================================
