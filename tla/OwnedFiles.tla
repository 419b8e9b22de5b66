----------------------------- MODULE OwnedFiles -----------------------------
(***************************************************************************)
(* What UniqueFd promises its users: an open file has one owner until the  *)
(* owner lets go of it, and is closed at that moment.  A file is one       *)
(* successful open(); descriptor numbers, which the kernel uses again, do  *)
(* not show.                                                               *)
(***************************************************************************)
EXTENDS Naturals

CONSTANTS Handle,   \* the objects that own files
          NoFile    \* an owner of nothing

VARIABLES
  opened,  \* how many files were opened; a file is known by its number
  open,    \* the files that are open, those of other owners included
  held     \* the file each handle owns

vars == <<opened, open, held>>

Owned == {held[h] : h \in Handle} \ {NoFile}

Init == opened = 0 /\ open = {} /\ held = [h \in Handle |-> NoFile]

\* h opens a file; whoever is not a handle opens one.
Open(h) ==
  /\ held[h] = NoFile
  /\ held' = [held EXCEPT ![h] = opened']
  /\ opened' = opened + 1 /\ open' = open \cup {opened'}

OtherOpen ==
  /\ opened' = opened + 1 /\ open' = open \cup {opened'}
  /\ UNCHANGED held

\* h lets go of its file; whoever is not a handle closes one of its own.
Release(h) ==
  /\ open' = open \ {held[h]}
  /\ held' = [held EXCEPT ![h] = NoFile]
  /\ UNCHANGED opened

OtherClose ==
  /\ \E f \in open \ Owned : open' = open \ {f}
  /\ UNCHANGED <<opened, held>>

\* The file of g becomes h's, and what h had is closed.
Move(h, g) ==
  /\ h # g
  /\ open' = open \ {held[h]}
  /\ held' = [held EXCEPT ![h] = held[g], ![g] = NoFile]
  /\ UNCHANGED opened

Next ==
  \/ OtherOpen \/ OtherClose
  \/ \E h \in Handle : Open(h) \/ Release(h)
  \/ \E h, g \in Handle : Move(h, g)

Spec == Init /\ [][Next]_vars
=============================================================================
