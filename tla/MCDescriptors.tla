--------------------------- MODULE MCDescriptors ----------------------------
(* Values of Descriptors' constants for TLC.                               *)
EXTENDS Descriptors, TLC

CONSTANTS a, b, c   \* three UniqueFd objects

Symmetric == Permutations(Handle)
=============================================================================
