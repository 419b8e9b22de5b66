---------------------------- MODULE MCFileReader ----------------------------
(* Values of FileReader's constants for TLC.                               *)
EXTENDS FileReader

CONSTANT MaxLength   \* of the files

\* Every layout of lines: the byte at i is Newline (10) or 100 + i.
MCFiles ==
  UNION {{f \in [1..n -> {10} \cup 100..100 + n] :
            \A i \in 1..n : f[i] \in {10, 100 + i}} : n \in 0..MaxLength}
=============================================================================
