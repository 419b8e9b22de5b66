----------------------------- MODULE Selection ------------------------------
(* The elements of a sequence, and those at some of its positions.         *)
EXTENDS Naturals, Sequences, FiniteSets

Members(seq) == {seq[i] : i \in DOMAIN seq}

\* The k-th of some positions is that with k of them up to it.
Place(positions, k) ==
  CHOOSE i \in positions : Cardinality(positions \cap 1..i) = k

\* What is there, in the order of the sequence.
Selected(seq, positions) ==
  [k \in 1..Cardinality(positions) |-> seq[Place(positions, k)]]
=============================================================================
