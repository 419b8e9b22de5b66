---------------------------- MODULE Descriptors -----------------------------
(***************************************************************************)
(* UniqueFd (sys_io/fs_fd.hpp) as FileReader::open makes it and the moves  *)
(* of FileReader and BlockReader pass it on, over the descriptor table of  *)
(* the process.  Every UniqueFd is used by one thread; threads and the     *)
(* parts of the program that own descriptors otherwise (directory and      *)
(* output streams) share the table, and step between any two system calls  *)
(* of each other.  A number that was closed is given out again at once.    *)
(***************************************************************************)
EXTENDS Naturals, Integers

CONSTANTS
  Handle,   \* the UniqueFd objects
  Fd,       \* the descriptor numbers the process may have
  MaxOpens  \* bound: successful calls of open(2)

ASSUME DescriptorAssumption == Fd \subseteq Nat /\ MaxOpens \in Nat

NoFd == -1
NoFile == 0

VARIABLES
  table,    \* the kernel's: the file each number stands for, or NoFile
  opened,   \* how many files were opened; a file is known by its number
  others,   \* the numbers whose owner is not a UniqueFd
  phase,    \* of each handle: "unborn" or destroyed, "alive", or inside
            \* reset, called by operator= ("assign") or ~UniqueFd ("destroy")
  fd,       \* fd_
  incoming  \* the argument of reset

vars == <<table, opened, others, phase, fd, incoming>>

\* The handle is not in the middle of an operation.
Alive(h) == phase[h] = "alive"

\* POSIX has open return the lowest number that is free.
Lowest(n) == table[n] = NoFile /\ \A m \in Fd : table[m] = NoFile => n <= m

OpenAs(n) ==
  /\ opened < MaxOpens /\ Lowest(n)
  /\ opened' = opened + 1
  /\ table' = [table EXCEPT ![n] = opened']

\* close(2), of NoFd too: it does nothing then.
Close(n) == table' = [m \in Fd |-> IF m = n THEN NoFile ELSE table[m]]

-----------------------------------------------------------------------------
(* The handles.                                                            *)

\* FileReader::open: the number goes into a UniqueFd, signals having the
\* call repeated.  When it fails there is no reader.
Open(h) ==
  /\ phase[h] = "unborn"
  /\ \E n \in Fd : OpenAs(n) /\ fd' = [fd EXCEPT ![h] = n]
  /\ phase' = [phase EXCEPT ![h] = "alive"]
  /\ UNCHANGED <<others, incoming>>

\* FileReader().
Default(h) ==
  /\ phase[h] = "unborn"
  /\ phase' = [phase EXCEPT ![h] = "alive"]
  /\ fd' = [fd EXCEPT ![h] = NoFd]
  /\ UNCHANGED <<table, opened, others, incoming>>

\* Mutant: the number is copied.
MoveConstructCopies(h, other) ==
  /\ phase[h] = "unborn" /\ Alive(other)
  /\ phase' = [phase EXCEPT ![h] = "alive"]
  /\ fd' = [fd EXCEPT ![h] = fd[other]]
  /\ UNCHANGED <<table, opened, others, incoming>>

\* UniqueFd(UniqueFd&&)
MoveConstruct(h, other) ==
  /\ phase[h] = "unborn" /\ Alive(other)
  /\ phase' = [phase EXCEPT ![h] = "alive"]
  /\ fd' = [fd EXCEPT ![h] = fd[other], ![other] = NoFd]
  /\ UNCHANGED <<table, opened, others, incoming>>

\* Mutant: reset forgets the descriptor it had.
MoveAssignKeeps(h, other) ==
  /\ h # other /\ Alive(h) /\ Alive(other)
  /\ phase' = [phase EXCEPT ![h] = "assign"]
  /\ incoming' = [incoming EXCEPT ![h] = fd[other]]
  /\ fd' = [fd EXCEPT ![other] = NoFd]
  /\ UNCHANGED <<table, opened, others>>

\* operator=(UniqueFd&&): the number is taken from other and reset begins
\* with it, by closing the one this handle has.
MoveAssign(h, other) ==
  /\ h # other /\ Alive(h) /\ Alive(other)
  /\ phase' = [phase EXCEPT ![h] = "assign"]
  /\ incoming' = [incoming EXCEPT ![h] = fd[other]]
  /\ fd' = [fd EXCEPT ![other] = NoFd]
  /\ Close(fd[h])
  /\ UNCHANGED <<opened, others>>

\* ~UniqueFd: reset()
Destroy(h) ==
  /\ Alive(h)
  /\ phase' = [phase EXCEPT ![h] = "destroy"]
  /\ incoming' = [incoming EXCEPT ![h] = NoFd]
  /\ Close(fd[h])
  /\ UNCHANGED <<opened, others, fd>>

\* Mutant: reset closes what it has just stored.
StoreThenClose(h) ==
  /\ phase[h] \in {"assign", "destroy"}
  /\ fd' = [fd EXCEPT ![h] = incoming[h]]
  /\ phase' = [phase EXCEPT ![h] =
                 IF phase[h] = "assign" THEN "alive" ELSE "unborn"]
  /\ Close(fd'[h])
  /\ UNCHANGED <<opened, others, incoming>>

\* Mutant: reset only closes.
StoreNothing(h) ==
  /\ phase[h] \in {"assign", "destroy"}
  /\ phase' = [phase EXCEPT ![h] =
                 IF phase[h] = "assign" THEN "alive" ELSE "unborn"]
  /\ UNCHANGED <<table, opened, others, fd, incoming>>

\* The end of reset: fd_ has the closed number until here.
Store(h) ==
  /\ phase[h] \in {"assign", "destroy"}
  /\ fd' = [fd EXCEPT ![h] = incoming[h]]
  /\ phase' = [phase EXCEPT ![h] =
                 IF phase[h] = "assign" THEN "alive" ELSE "unborn"]
  /\ UNCHANGED <<table, opened, others, incoming>>

-----------------------------------------------------------------------------
(* The rest of the process.                                                *)

OtherOpen ==
  /\ \E n \in Fd : OpenAs(n) /\ others' = others \cup {n}
  /\ UNCHANGED <<phase, fd, incoming>>

OtherClose ==
  /\ \E n \in others : Close(n) /\ others' = others \ {n}
  /\ UNCHANGED <<opened, phase, fd, incoming>>

-----------------------------------------------------------------------------
Init ==
  /\ table = [n \in Fd |-> NoFile] /\ opened = 0 /\ others = {}
  /\ phase = [h \in Handle |-> "unborn"]
  /\ fd = [h \in Handle |-> NoFd] /\ incoming = [h \in Handle |-> NoFd]

Next ==
  \/ OtherOpen \/ OtherClose
  \/ \E h \in Handle : Open(h) \/ Default(h) \/ Destroy(h) \/ Store(h)
  \/ \E h, other \in Handle : MoveConstruct(h, other) \/ MoveAssign(h, other)

Spec == Init /\ [][Next]_vars

-----------------------------------------------------------------------------
(* Properties.                                                             *)

Phases == {"unborn", "alive", "assign", "destroy"}

\* Types; a handle that is being destroyed is to get NoFd, and then has it.
TypeOK ==
  /\ table \in [Fd -> 0..MaxOpens] /\ opened \in 0..MaxOpens
  /\ others \subseteq Fd /\ phase \in [Handle -> Phases]
  /\ fd \in [Handle -> Fd \cup {NoFd}]
  /\ incoming \in [Handle -> Fd \cup {NoFd}]
  /\ \A h \in Handle : /\ phase[h] = "destroy" => incoming[h] = NoFd
                       /\ phase[h] = "unborn" => fd[h] = NoFd

\* The number a handle answers for: inside reset that is the argument, fd_
\* being closed already.
Holds(h) ==
  CASE phase[h] = "alive"  -> fd[h]
    [] phase[h] = "assign" -> incoming[h]
    [] OTHER               -> NoFd

\* Every number that is open is some handle's or some other owner's, so that
\* none is left open when the handles are gone ...
NoLeak == \A n \in Fd : table[n] # NoFile =>
            n \in others \/ \E h \in Handle : Holds(h) = n

\* ... and has one owner: no handle reads from, or closes, the file another
\* one has been given under a number it closed before.
OneOwner ==
  \A h \in Handle : Holds(h) # NoFd =>
    /\ table[Holds(h)] # NoFile /\ Holds(h) \notin others
    /\ \A g \in Handle : Holds(g) = Holds(h) => g = h

\* The files as OwnedFiles sees them.
Files == INSTANCE OwnedFiles WITH
  open <- {table[n] : n \in Fd} \ {NoFile},
  held <- [h \in Handle |->
             IF Holds(h) = NoFd THEN NoFile ELSE table[Holds(h)]]

\* Owners open, pass on and let go of files as the abstract handles do: a
\* file is closed when its owner lets go of it, and at no other time.
FilesAreOwned == Files!Spec
=============================================================================
