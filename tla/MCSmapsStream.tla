--------------------------- MODULE MCSmapsStream ----------------------------
(* Values of SmapsStream's constants for TLC.                              *)
EXTENDS SmapsStream

CONSTANT MaxLines   \* of the files

Whole == {l \in Line : /\ l.kind \in {"header", "metric", "blank"}
                       /\ l.newline /\ (l.kind # "header" => l.plain)}
Cut == {[l EXCEPT !.newline = FALSE] : l \in {k \in Whole : k.kind # "blank"}}

\* Every file of at most MaxLines lines: only headers may have a blank in
\* them, and only the last line may lack its newline.
MCFiles ==
  {<<>>} \cup
  UNION {{Append(f, l) : f \in [1..n - 1 -> Whole], l \in Whole \cup Cut} :
           n \in 1..MaxLines}
=============================================================================
