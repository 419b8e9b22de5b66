------------------------------ MODULE Scrapers ------------------------------
(***************************************************************************)
(* The scrapers of scrapers/*.hpp as functions of the text they are given: *)
(* which texts their grammars match to the last character, and what the    *)
(* registry of a key-value text has under a key.                           *)
(*                                                                         *)
(* A text is a sequence of lines, of which only the last may lack its      *)
(* newline.  A header is the first line of a mapping, a metric a line      *)
(* "key: values"; a statm line has seven numbers.  A line is plain if      *)
(* every character in it is printable and, in a header, the path has no    *)
(* blank, as "/lib/x.so (deleted)" has.  The grammars skip blanks and      *)
(* tabs, and stop at the first character that is not printable.            *)
(***************************************************************************)
EXTENDS Naturals, Sequences

Line == [kind : {"header", "metric", "statm", "text", "blank"},
         plain : BOOLEAN, newline : BOOLEAN]

IsMapping(line) == line.kind = "header" /\ line.plain
IsKeyed(line) == line.kind = "metric" /\ line.plain

\* validate_rule accepts a line the rule matches to the last character, and
\* the rule does not match a newline.
IsVmaStart(line) == IsMapping(line) /\ ~line.newline

\* (line % eol) >> *eol: blank lines stand at the end only.
KvAccepts(text) ==
  \E n \in DOMAIN text :
    /\ \A i \in 1..n : IsKeyed(text[i])
    /\ \A i \in n + 1..Len(text) : text[i].kind = "blank"

StatmAccepts(text) ==
  \A i \in DOMAIN text \cup {1} :
    i \in DOMAIN text /\ text[i].kind = IF i = 1 THEN "statm" ELSE "blank"

\* *(line | +eol)
MapsAccepts(text) ==
  \A i \in DOMAIN text : IsMapping(text[i]) \/ text[i].kind = "blank"

\* +(smaps_entry | eol): every header is followed by its metrics, every line
\* by its newline; blank lines stand between the mappings.
SmapsAccepts(text) ==
  /\ text # <<>>
  /\ \A i \in DOMAIN text :
       /\ text[i].newline
       /\ \/ text[i].kind = "blank"
          \/ IsMapping(text[i]) /\ i < Len(text) /\ IsKeyed(text[i + 1])
          \/ IsKeyed(text[i]) /\ i > 1 /\ text[i - 1].kind # "blank"

\* scrape_file over a file that opens or not and reads to its end or not,
\* of a grammar that matches its text or not.
ScrapeFile(file, matches) ==
  IF ~file.opens THEN "file_not_found"
  ELSE IF ~file.reads THEN "file_read_failed"
  ELSE IF matches THEN "ok" ELSE "invalid_syntax"

-----------------------------------------------------------------------------
(* Values.  A word is [looks, value]: "number" (it fits a long), "hex" (0x *)
(* and 32 bits at most), "text", or "odd", with a character in it that is  *)
(* not printable.                                                          *)

\* Mutant: the alternatives in another order.
TypeOfStringFirst(word) == "string"

\* val: whether a value is a number is decided by its looks.
TypeOf(word) == IF word.looks \in {"number", "hex"} THEN "long" ELSE "string"

\* KVRegistry::get of the first value of a key.  entries is a sequence of
\* [key, words] with different keys.
Get(entries, key, type, fallback) ==
  LET found == {i \in DOMAIN entries :
                  /\ entries[i].key = key /\ entries[i].words # <<>>
                  /\ TypeOf(Head(entries[i].words)) = type}
  IN IF found = {} THEN fallback
     ELSE Head(entries[CHOOSE i \in found : TRUE].words).value

\* The text such entries are in a file.
TextOf(entries) ==
  [i \in DOMAIN entries |->
     [kind |-> "metric", newline |-> TRUE,
      plain |-> \A k \in DOMAIN entries[i].words :
                  entries[i].words[k].looks # "odd"]]
=============================================================================
