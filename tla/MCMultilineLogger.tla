------------------------- MODULE MCMultilineLogger --------------------------
(* Values of MultilineLogger's constants for TLC.                          *)
EXTENDS MultilineLogger
LOCAL INSTANCE SequencesExt

CONSTANTS main, worker,  \* the threads of main.cpp
          MaxLength      \* of the messages

MCMessages == BoundedSeq(Character, MaxLength)
=============================================================================
