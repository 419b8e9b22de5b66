------------------------- MODULE DescriptorsProofs --------------------------
(* Theorems about Descriptors, for all values of its constants.            *)
EXTENDS Descriptors, TLAPS

-----------------------------------------------------------------------------
(* The inductive invariant: what is known of the table besides.            *)

\* Files are numbered as they were opened.
Numbered == \A n \in Fd : table[n] <= opened

\* No two numbers stand for one file.
Distinct == \A m, n \in Fd : table[m] = table[n] /\ table[m] # NoFile => m = n

\* The numbers of other owners are open.
OthersOpen == \A n \in others : table[n] # NoFile

IInv == TypeOK /\ Numbered /\ Distinct /\ OthersOpen /\ NoLeak /\ OneOwner

\* NoFd is not the number of a file.
LEMMA NoFdFree == NoFd \notin Fd
BY DescriptorAssumption DEF NoFd

\* The number a handle answers for, by cases, in one state and in the next.
LEMMA HoldsCases ==
  ASSUME NEW h \in Handle
  PROVE  /\ phase[h] = "alive" => Holds(h) = fd[h]
         /\ phase[h] = "assign" => Holds(h) = incoming[h]
         /\ phase[h] \in {"unborn", "destroy"} => Holds(h) = NoFd
         /\ phase'[h] = "alive" => Holds(h)' = fd'[h]
         /\ phase'[h] = "assign" => Holds(h)' = incoming'[h]
         /\ phase'[h] \in {"unborn", "destroy"} => Holds(h)' = NoFd
BY DEF Holds

\* It is a number, or none.
LEMMA HoldsType ==
  ASSUME TypeOK, NEW h \in Handle
  PROVE  Holds(h) \in Fd \cup {NoFd}
BY HoldsCases DEF TypeOK, Phases

-----------------------------------------------------------------------------
(* What each action does to the table and to the numbers handles hold.     *)

\* A number is given out: the table changes at one free place.
LEMMA OpenAsTable ==
  ASSUME TypeOK, NEW n \in Fd, OpenAs(n)
  PROVE  /\ table[n] = NoFile /\ opened' = opened + 1
         /\ opened' \in 0..MaxOpens /\ opened' # NoFile
         /\ table' \in [Fd -> 0..MaxOpens]
         /\ table'[n] = opened'
         /\ \A m \in Fd : m # n => table'[m] = table[m]
BY DescriptorAssumption DEF TypeOK, OpenAs, Lowest, NoFile

\* A number is taken back: the table changes at that place, if at all.
LEMMA CloseTable ==
  ASSUME TypeOK, NEW n \in Fd \cup {NoFd}, Close(n)
  PROVE  /\ table' \in [Fd -> 0..MaxOpens]
         /\ n \in Fd => table'[n] = NoFile
         /\ \A m \in Fd : m # n => table'[m] = table[m]
BY DescriptorAssumption DEF TypeOK, Close, NoFile

\* A handle that is made from a file holds the file's number.
LEMMA OpenHolds ==
  ASSUME TypeOK, NEW h \in Handle, Open(h)
  PROVE  \E n \in Fd :
           /\ OpenAs(n) /\ others' = others
           /\ Holds(h) = NoFd /\ Holds(h)' = n
           /\ \A g \in Handle : g # h => Holds(g)' = Holds(g)
<1>1. PICK n \in Fd : OpenAs(n) /\ fd' = [fd EXCEPT ![h] = n]
  BY DEF Open
<1>2. phase[h] = "unborn" /\ phase'[h] = "alive" /\ fd'[h] = n
  BY <1>1 DEF Open, TypeOK
<1>3. \A g \in Handle : g # h => Holds(g)' = Holds(g)
  BY <1>1 DEF Open, TypeOK, Holds
<1> QED BY <1>1, <1>2, <1>3, HoldsCases DEF Open

\* Making an empty handle, and the end of reset, change no one's number.
LEMMA QuietHolds ==
  ASSUME TypeOK, NEW h \in Handle, Default(h) \/ Store(h)
  PROVE  /\ UNCHANGED <<table, opened, others>>
         /\ \A g \in Handle : Holds(g)' = Holds(g)
<1>1. \A g \in Handle : g # h => Holds(g)' = Holds(g)
  BY DEF Default, Store, TypeOK, Holds
<1>2. CASE Default(h)
  <2>1. phase[h] = "unborn" /\ phase'[h] = "alive" /\ fd'[h] = NoFd
    BY <1>2 DEF Default, TypeOK
  <2> QED BY <2>1, <1>1, <1>2, HoldsCases DEF Default
<1>3. CASE Store(h)
  <2>1. CASE phase[h] = "assign"
    <3>1. phase'[h] = "alive" /\ fd'[h] = incoming[h]
      BY <1>3, <2>1 DEF Store, TypeOK
    <3> QED BY <2>1, <3>1, <1>1, <1>3, HoldsCases DEF Store
  <2>2. CASE phase[h] = "destroy"
    <3>1. phase'[h] = "unborn"
      BY <1>3, <2>2 DEF Store, TypeOK
    <3> QED BY <2>2, <3>1, <1>1, <1>3, HoldsCases DEF Store
  <2> QED BY <2>1, <2>2, <1>3 DEF Store
<1> QED BY <1>2, <1>3

\* Moving takes the number from one handle to another, and the number that
\* one had is closed.
LEMMA MoveHolds ==
  ASSUME TypeOK, NEW h \in Handle, NEW other \in Handle,
         MoveConstruct(h, other) \/ MoveAssign(h, other)
  PROVE  /\ h # other /\ Close(Holds(h)) /\ UNCHANGED <<opened, others>>
         /\ Holds(h)' = Holds(other) /\ Holds(other)' = NoFd
         /\ \A g \in Handle : g \notin {h, other} => Holds(g)' = Holds(g)
<1>1. CASE MoveConstruct(h, other)
  <2>1. /\ h # other /\ phase[h] = "unborn" /\ phase[other] = "alive"
        /\ phase'[h] = "alive" /\ phase'[other] = "alive"
        /\ fd'[h] = fd[other] /\ fd'[other] = NoFd
    BY <1>1 DEF MoveConstruct, Alive, TypeOK
  <2>2. \A g \in Handle : g \notin {h, other} => Holds(g)' = Holds(g)
    BY <1>1 DEF MoveConstruct, TypeOK, Holds
  <2>3. Close(NoFd)
    BY <1>1, NoFdFree DEF MoveConstruct, Close, TypeOK
  <2> QED BY <1>1, <2>1, <2>2, <2>3, HoldsCases DEF MoveConstruct
<1>2. CASE MoveAssign(h, other)
  <2>1. /\ h # other /\ phase[h] = "alive" /\ phase[other] = "alive"
        /\ phase'[h] = "assign" /\ phase'[other] = "alive"
        /\ incoming'[h] = fd[other] /\ fd'[other] = NoFd
    BY <1>2 DEF MoveAssign, Alive, TypeOK
  <2>2. \A g \in Handle : g \notin {h, other} => Holds(g)' = Holds(g)
    BY <1>2 DEF MoveAssign, TypeOK, Holds
  <2> QED BY <1>2, <2>1, <2>2, HoldsCases DEF MoveAssign
<1> QED BY <1>1, <1>2

\* A handle that is destroyed closes the number it has.
LEMMA DestroyHolds ==
  ASSUME TypeOK, NEW h \in Handle, Destroy(h)
  PROVE  /\ Close(Holds(h)) /\ UNCHANGED <<opened, others>>
         /\ Holds(h)' = NoFd
         /\ \A g \in Handle : g # h => Holds(g)' = Holds(g)
<1>1. phase[h] = "alive" /\ phase'[h] = "destroy"
  BY DEF Destroy, Alive, TypeOK
<1>2. \A g \in Handle : g # h => Holds(g)' = Holds(g)
  BY DEF Destroy, TypeOK, Holds
<1> QED BY <1>1, <1>2, HoldsCases DEF Destroy

\* The rest of the process leaves the handles alone.
LEMMA OtherHolds ==
  ASSUME OtherOpen \/ OtherClose \/ UNCHANGED vars, NEW h \in Handle
  PROVE  Holds(h)' = Holds(h)
BY DEF OtherOpen, OtherClose, vars, Holds

-----------------------------------------------------------------------------
(* Type correctness.                                                       *)

\* Before any call every variable has its type.
LEMMA InitTypeOK == Init => TypeOK
BY DescriptorAssumption DEF Init, TypeOK, Phases, NoFile

\* Every action keeps the types.
LEMMA NextTypeOK == TypeOK /\ [Next]_vars => TypeOK'
<1> SUFFICES ASSUME TypeOK, [Next]_vars PROVE TypeOK'
  OBVIOUS
<1>1. ASSUME NEW h \in Handle, Open(h) PROVE TypeOK'
  <2>1. PICK n \in Fd : OpenAs(n) /\ fd' = [fd EXCEPT ![h] = n]
    BY <1>1 DEF Open
  <2> QED BY <1>1, <2>1, OpenAsTable DEF Open, TypeOK, Phases
<1>2. ASSUME NEW h \in Handle, Default(h) \/ Store(h) PROVE TypeOK'
  <2>1. CASE Default(h)
    BY <2>1 DEF Default, TypeOK, Phases
  <2>2. CASE Store(h)
    <3>1. phase[h] = "destroy" => incoming[h] = NoFd
      BY DEF TypeOK
    <3> QED BY <3>1, <2>2 DEF Store, TypeOK, Phases
  <2> QED BY <1>2, <2>1, <2>2
<1>3. ASSUME NEW h \in Handle, NEW other \in Handle,
             MoveConstruct(h, other) \/ MoveAssign(h, other)
      PROVE  TypeOK'
  <2>1. table' \in [Fd -> 0..MaxOpens]
    BY <1>3, MoveHolds, HoldsType, CloseTable
  <2>2. CASE MoveConstruct(h, other)
    BY <2>2 DEF MoveConstruct, Alive, TypeOK, Phases
  <2>3. CASE MoveAssign(h, other)
    BY <2>1, <2>3 DEF MoveAssign, Alive, TypeOK, Phases
  <2> QED BY <1>3, <2>2, <2>3
<1>4. ASSUME NEW h \in Handle, Destroy(h) PROVE TypeOK'
  <2>1. table' \in [Fd -> 0..MaxOpens]
    BY <1>4, DestroyHolds, HoldsType, CloseTable
  <2> QED BY <1>4, <2>1 DEF Destroy, Alive, TypeOK, Phases
<1>5. CASE OtherOpen
  <2>1. PICK n \in Fd : OpenAs(n) /\ others' = others \cup {n}
    BY <1>5 DEF OtherOpen
  <2> QED BY <1>5, <2>1, OpenAsTable DEF OtherOpen, TypeOK
<1>6. CASE OtherClose
  <2>1. PICK n \in others : Close(n) /\ others' = others \ {n}
    BY <1>6 DEF OtherClose
  <2>2. n \in Fd
    BY <2>1 DEF TypeOK
  <2> QED BY <1>6, <2>1, <2>2, CloseTable DEF OtherClose, TypeOK
<1>7. CASE UNCHANGED vars
  BY <1>7 DEF vars, TypeOK
<1> QED BY <1>1, <1>2, <1>3, <1>4, <1>5, <1>6, <1>7 DEF Next

\* Every reachable state is well typed (TypeOK), a destroyed handle is empty.
THEOREM TypeCorrect == Spec => []TypeOK
BY InitTypeOK, NextTypeOK, PTL DEF Spec

-----------------------------------------------------------------------------
(* Descriptors have one owner each.                                        *)

\* At first nothing is open and no handle has a number.
LEMMA InitIInv == Init => IInv
<1> SUFFICES ASSUME Init PROVE IInv
  OBVIOUS
<1>1. \A h \in Handle : Holds(h) = NoFd
  BY DEF Init, Holds
<1>2. TypeOK
  BY InitTypeOK
<1> QED BY <1>1, <1>2, NoFdFree
     DEF Init, IInv, Numbered, Distinct, OthersOpen, NoLeak, OneOwner, NoFile

\* The number that is given out has no owner, and its new owner is alone.
LEMMA OpenKeeps ==
  ASSUME IInv, TypeOK', NEW h \in Handle, Open(h)
  PROVE  IInv'
<1> USE DEF IInv
<1>1. PICK n \in Fd :
        /\ OpenAs(n) /\ others' = others
        /\ Holds(h) = NoFd /\ Holds(h)' = n
        /\ \A g \in Handle : g # h => Holds(g)' = Holds(g)
  BY OpenHolds
<1>2. /\ table[n] = NoFile /\ table'[n] = opened' /\ opened' = opened + 1
      /\ opened' # NoFile
      /\ \A m \in Fd : m # n => table'[m] = table[m]
  BY <1>1, OpenAsTable
<1>3. /\ opened \in Nat /\ \A m \in Fd : table[m] \in Nat
      /\ others \subseteq Fd
  BY DescriptorAssumption DEF TypeOK
<1>4. \A g \in Handle : Holds(g) \in Fd \cup {NoFd}
  BY HoldsType
<1>5. Numbered' /\ Distinct'
  BY <1>2, <1>3 DEF Numbered, Distinct
<1>6. OthersOpen' /\ n \notin others
  BY <1>1, <1>2, <1>3 DEF OthersOpen
<1>7. NoLeak'
  <2> SUFFICES ASSUME NEW m \in Fd, table'[m] # NoFile
               PROVE  m \in others' \/ \E g \in Handle : Holds(g)' = m
    BY DEF NoLeak
  <2>1. CASE m = n
    BY <1>1, <2>1
  <2>2. CASE m # n
    <3>1. m \in others \/ \E g \in Handle : Holds(g) = m
      BY <1>2, <2>2 DEF NoLeak
    <3> QED BY <1>1, <3>1, NoFdFree
  <2> QED BY <2>1, <2>2
<1>8. \A g \in Handle : g # h => Holds(g) # n
  BY <1>2, NoFdFree DEF OneOwner
<1>9. OneOwner'
  BY <1>1, <1>2, <1>4, <1>6, <1>8 DEF OneOwner
<1> QED BY <1>5, <1>6, <1>7, <1>9

\* Making an empty handle and the end of reset: nothing to show but types.
LEMMA QuietKeeps ==
  ASSUME IInv, TypeOK', NEW h \in Handle, Default(h) \/ Store(h)
  PROVE  IInv'
BY QuietHolds DEF IInv, Numbered, Distinct, OthersOpen, NoLeak, OneOwner

\* A number is closed that one handle had, and perhaps another handle loses
\* its number to that one: what moves of all kinds and destruction share.
LEMMA ReleaseKeeps ==
  ASSUME IInv, TypeOK', NEW h \in Handle, NEW other \in Handle,
         Close(Holds(h)), UNCHANGED <<opened, others>>,
         \/ h = other /\ Holds(h)' = NoFd
         \/ h # other /\ Holds(h)' = Holds(other) /\ Holds(other)' = NoFd,
         \A g \in Handle : g \notin {h, other} => Holds(g)' = Holds(g)
  PROVE  IInv'
<1> USE DEF IInv
<1> DEFINE k == Holds(h)
<1>1. \A g \in Handle : Holds(g) \in Fd \cup {NoFd}
  BY HoldsType
<1>2. /\ k \in Fd => table'[k] = NoFile
      /\ \A m \in Fd : m # k => table'[m] = table[m]
  BY <1>1, CloseTable
<1>3. opened \in Nat /\ others \subseteq Fd /\ k \in Fd \cup {NoFd}
  BY <1>1, DescriptorAssumption DEF TypeOK
<1>4. k \notin others
  BY <1>3, NoFdFree DEF OneOwner
<1>5. Numbered' /\ Distinct'
  BY <1>2, <1>3 DEF Numbered, Distinct, NoFile
<1>6. OthersOpen'
  BY <1>2, <1>3, <1>4 DEF OthersOpen
<1>7. NoLeak'
  <2> SUFFICES ASSUME NEW m \in Fd, table'[m] # NoFile
               PROVE  m \in others' \/ \E g \in Handle : Holds(g)' = m
    BY DEF NoLeak
  <2>1. m # k /\ table[m] # NoFile
    BY <1>2
  <2>2. m \in others \/ \E g \in Handle : Holds(g) = m
    BY <2>1 DEF NoLeak
  <2>3. CASE m \in others
    BY <2>3
  <2>4. CASE \E g \in Handle : Holds(g) = m
    <3>1. PICK g \in Handle : Holds(g) = m
      BY <2>4
    <3>2. g # h
      BY <2>1, <3>1
    <3>3. CASE g = other
      BY <3>1, <3>2, <3>3
    <3>4. CASE g # other
      BY <3>1, <3>2, <3>4
    <3> QED BY <3>3, <3>4
  <2> QED BY <2>2, <2>3, <2>4
<1>8. ASSUME NEW g \in Handle, Holds(g)' # NoFd
      PROVE  \E f \in Handle :
               /\ Holds(g)' = Holds(f) /\ f # h
               /\ IF g = h THEN h # other /\ f = other ELSE f = g /\ g # other
  BY <1>8
<1>9. OneOwner'
  <2> SUFFICES ASSUME NEW g \in Handle, Holds(g)' # NoFd
               PROVE  /\ table'[Holds(g)'] # NoFile /\ Holds(g)' \notin others'
                      /\ \A e \in Handle : Holds(e)' = Holds(g)' => e = g
    BY DEF OneOwner
  <2>1. PICK f \in Handle :
          /\ Holds(g)' = Holds(f) /\ f # h
          /\ IF g = h THEN h # other /\ f = other ELSE f = g /\ g # other
    BY <1>8
  <2>2. Holds(f) # NoFd /\ Holds(f) \in Fd
    BY <1>1, <2>1
  <2>3. /\ table[Holds(f)] # NoFile /\ Holds(f) \notin others
        /\ \A e \in Handle : Holds(e) = Holds(f) => e = f
    BY <2>2 DEF OneOwner
  <2>4. Holds(f) # k
    BY <2>1, <2>3
  <2>5. table'[Holds(f)] = table[Holds(f)]
    BY <1>2, <2>2, <2>4
  <2>6. ASSUME NEW e \in Handle, Holds(e)' = Holds(g)' PROVE e = g
    <3>1. PICK d \in Handle :
            /\ Holds(e)' = Holds(d) /\ d # h
            /\ IF e = h THEN h # other /\ d = other ELSE d = e /\ e # other
      BY <1>8, <2>6
    <3>2. d = f
      BY <2>1, <2>3, <2>6, <3>1
    <3> QED BY <2>1, <3>1, <3>2
  <2> QED BY <2>1, <2>3, <2>5, <2>6
<1> QED BY <1>5, <1>6, <1>7, <1>9

\* The other owners get and close numbers of their own.
LEMMA OtherKeeps ==
  ASSUME IInv, TypeOK', OtherOpen \/ OtherClose
  PROVE  IInv'
<1> USE DEF IInv
<1>1. \A g \in Handle : Holds(g)' = Holds(g)
  BY OtherHolds
<1>2. /\ opened \in Nat /\ \A m \in Fd : table[m] \in Nat
      /\ others \subseteq Fd
      /\ \A g \in Handle : Holds(g) \in Fd \cup {NoFd}
  BY HoldsType, DescriptorAssumption DEF TypeOK
<1>3. CASE OtherOpen
  <2>1. PICK n \in Fd : OpenAs(n) /\ others' = others \cup {n}
    BY <1>3 DEF OtherOpen
  <2>2. /\ table[n] = NoFile /\ table'[n] = opened' /\ opened' = opened + 1
        /\ opened' # NoFile
        /\ \A m \in Fd : m # n => table'[m] = table[m]
    BY <2>1, OpenAsTable
  <2>3. Numbered' /\ Distinct'
    BY <1>2, <2>2 DEF Numbered, Distinct
  <2>4. OthersOpen' /\ NoLeak'
    BY <1>1, <1>2, <2>1, <2>2 DEF OthersOpen, NoLeak
  <2>5. \A g \in Handle : Holds(g) # n
    BY <2>2, NoFdFree DEF OneOwner
  <2>6. OneOwner'
    BY <1>1, <1>2, <2>1, <2>2, <2>5 DEF OneOwner
  <2> QED BY <2>3, <2>4, <2>6
<1>4. CASE OtherClose
  <2>1. PICK n \in others : Close(n) /\ others' = others \ {n}
    BY <1>4 DEF OtherClose
  <2>2. n \in Fd /\ opened' = opened
    BY <1>2, <1>4, <2>1 DEF OtherClose
  <2>3. /\ table'[n] = NoFile
        /\ \A m \in Fd : m # n => table'[m] = table[m]
    BY <2>1, <2>2, CloseTable
  <2>4. Numbered' /\ Distinct'
    BY <1>2, <2>2, <2>3 DEF Numbered, Distinct, NoFile
  <2>5. OthersOpen' /\ NoLeak'
    BY <1>1, <1>2, <2>1, <2>3 DEF OthersOpen, NoLeak
  <2>6. \A g \in Handle : Holds(g) # NoFd => Holds(g) # n
    BY <2>1 DEF OneOwner
  <2>7. OneOwner'
    BY <1>1, <1>2, <2>1, <2>3, <2>6 DEF OneOwner
  <2> QED BY <2>4, <2>5, <2>7
<1> QED BY <1>3, <1>4

\* IInv is inductive.
LEMMA NextIInv == IInv /\ [Next]_vars => IInv'
<1> SUFFICES ASSUME IInv, [Next]_vars PROVE IInv'
  OBVIOUS
<1>1. TypeOK /\ TypeOK'
  BY NextTypeOK DEF IInv
<1>2. ASSUME NEW h \in Handle, Open(h) PROVE IInv'
  BY <1>1, <1>2, OpenKeeps
<1>3. ASSUME NEW h \in Handle, Default(h) \/ Store(h) PROVE IInv'
  BY <1>1, <1>3, QuietKeeps
<1>4. ASSUME NEW h \in Handle, NEW other \in Handle,
             MoveConstruct(h, other) \/ MoveAssign(h, other)
      PROVE  IInv'
  BY <1>1, <1>4, MoveHolds, ReleaseKeeps
<1>5. ASSUME NEW h \in Handle, Destroy(h) PROVE IInv'
  BY <1>1, <1>5, DestroyHolds, ReleaseKeeps
<1>6. CASE OtherOpen \/ OtherClose
  BY <1>1, <1>6, OtherKeeps
<1>7. CASE UNCHANGED vars
  <2>1. \A h \in Handle : Holds(h)' = Holds(h)
    BY <1>7, OtherHolds
  <2> QED BY <1>1, <1>7, <2>1
       DEF vars, IInv, Numbered, Distinct, OthersOpen, NoLeak, OneOwner
<1> QED BY <1>2, <1>3, <1>4, <1>5, <1>6, <1>7 DEF Next

\* The invariant holds in every reachable state.
THEOREM Invariance == Spec => []IInv
BY InitIInv, NextIInv, PTL DEF Spec

\* No descriptor is left open without an owner (NoLeak): moves, resets and
\* destructors of UniqueFd close what they let go of.
THEOREM NothingLeaks == Spec => []NoLeak
BY Invariance, PTL DEF IInv

\* Every open descriptor has one owner (OneOwner), with any number of
\* handles, descriptors and other users of the table.
THEOREM SingleOwner == Spec => []OneOwner
BY Invariance, PTL DEF IInv

-----------------------------------------------------------------------------
(* The refinement: the handles own files.                                  *)

\* The refinement mapping, by names.
open == {table[n] : n \in Fd} \ {NoFile}
held == [h \in Handle |-> IF Holds(h) = NoFd THEN NoFile ELSE table[Holds(h)]]

\* Initial states map to initial states.
LEMMA InitRefines == Init => Files!Init
<1> SUFFICES ASSUME Init PROVE Files!Init
  OBVIOUS
<1>1. \A h \in Handle : Holds(h) = NoFd
  BY DEF Init, Holds
<1> QED BY <1>1 DEF Init, Files!Init

\* A file is opened.
LEMMA OpenRefines ==
  ASSUME IInv, NEW h \in Handle, Open(h)
  PROVE  Files!Open(h)
<1> USE DEF IInv
<1>1. PICK n \in Fd :
        /\ OpenAs(n) /\ others' = others
        /\ Holds(h) = NoFd /\ Holds(h)' = n
        /\ \A g \in Handle : g # h => Holds(g)' = Holds(g)
  BY OpenHolds
<1>2. /\ table[n] = NoFile /\ table'[n] = opened' /\ opened' = opened + 1
      /\ opened' # NoFile /\ n # NoFd
      /\ \A m \in Fd : m # n => table'[m] = table[m]
  BY <1>1, OpenAsTable, NoFdFree
<1>3. open' = open \cup {opened'}
  BY <1>2 DEF open
<1>4. held[h] = NoFile
  BY <1>1 DEF held
<1>5. ASSUME NEW g \in Handle, g # h PROVE held'[g] = held[g]
  <2>1. Holds(g)' = Holds(g) /\ Holds(g) \in Fd \cup {NoFd}
    BY <1>1, <1>5, HoldsType
  <2>2. Holds(g) # n
    BY <1>2 DEF OneOwner
  <2> QED BY <1>2, <2>1, <2>2 DEF held
<1>6. held' = [held EXCEPT ![h] = opened']
  BY <1>1, <1>2, <1>5 DEF held
<1> QED BY <1>2, <1>3, <1>4, <1>6 DEF Files!Open, open, held

\* Where no number and no table entry changes, no file does.
LEMMA QuietRefines ==
  ASSUME UNCHANGED <<table, opened>>,
         \A g \in Handle : Holds(g)' = Holds(g)
  PROVE  UNCHANGED Files!vars
BY DEF Files!vars

\* The number of h is closed: the file of h leaves the open ones.
LEMMA CloseRefines ==
  ASSUME IInv, NEW h \in Handle, Close(Holds(h))
  PROVE  /\ open' = open \ {held[h]}
         /\ \A g \in Handle : Holds(g) # NoFd /\ g # h
              => table'[Holds(g)] = table[Holds(g)]
<1> USE DEF IInv
<1> DEFINE k == Holds(h)
<1>1. k \in Fd \cup {NoFd}
  BY HoldsType
<1>2. /\ k \in Fd => table'[k] = NoFile
      /\ \A m \in Fd : m # k => table'[m] = table[m]
  BY <1>1, CloseTable
<1>3. open' = open \ {held[h]}
  <2>1. CASE k = NoFd
    BY <1>2, <2>1, NoFdFree DEF open, held
  <2>2. CASE k \in Fd
    <3>1. held[h] = table[k] /\ table[k] # NoFile
      BY <2>2, NoFdFree DEF held, OneOwner
    <3>2. \A m \in Fd : m # k => table[m] # table[k]
      BY <2>2, <3>1 DEF Distinct
    <3> QED BY <1>2, <2>2, <3>1, <3>2 DEF open
  <2> QED BY <1>1, <2>1, <2>2
<1>4. ASSUME NEW g \in Handle, Holds(g) # NoFd, g # h
      PROVE  table'[Holds(g)] = table[Holds(g)]
  <2>1. Holds(g) \in Fd /\ Holds(g) # k
    BY <1>4, HoldsType DEF OneOwner
  <2> QED BY <1>2, <2>1
<1> QED BY <1>3, <1>4

\* A file is passed on, and the one it replaces is closed.
LEMMA MoveRefines ==
  ASSUME IInv, NEW h \in Handle, NEW other \in Handle,
         MoveConstruct(h, other) \/ MoveAssign(h, other)
  PROVE  Files!Move(h, other)
<1> USE DEF IInv
<1>1. /\ h # other /\ Close(Holds(h)) /\ UNCHANGED <<opened, others>>
      /\ Holds(h)' = Holds(other) /\ Holds(other)' = NoFd
      /\ \A g \in Handle : g \notin {h, other} => Holds(g)' = Holds(g)
  BY MoveHolds
<1>2. /\ open' = open \ {held[h]}
      /\ \A g \in Handle : Holds(g) # NoFd /\ g # h
           => table'[Holds(g)] = table[Holds(g)]
  BY <1>1, CloseRefines
<1>3. held' = [held EXCEPT ![h] = held[other], ![other] = NoFile]
  BY <1>1, <1>2 DEF held
<1> QED BY <1>1, <1>2, <1>3 DEF Files!Move, open, held

\* A file is let go of, and closed.
LEMMA DestroyRefines ==
  ASSUME IInv, NEW h \in Handle, Destroy(h)
  PROVE  Files!Release(h)
<1> USE DEF IInv
<1>1. /\ Close(Holds(h)) /\ UNCHANGED <<opened, others>>
      /\ Holds(h)' = NoFd
      /\ \A g \in Handle : g # h => Holds(g)' = Holds(g)
  BY DestroyHolds
<1>2. /\ open' = open \ {held[h]}
      /\ \A g \in Handle : Holds(g) # NoFd /\ g # h
           => table'[Holds(g)] = table[Holds(g)]
  BY <1>1, CloseRefines
<1>3. held' = [held EXCEPT ![h] = NoFile]
  BY <1>1, <1>2 DEF held
<1> QED BY <1>1, <1>2, <1>3 DEF Files!Release, open, held

\* Other owners open files and close their own.
LEMMA OtherRefines ==
  ASSUME IInv, OtherOpen \/ OtherClose
  PROVE  Files!OtherOpen \/ Files!OtherClose
<1> USE DEF IInv
<1>1. \A g \in Handle : Holds(g)' = Holds(g) /\ Holds(g) \in Fd \cup {NoFd}
  BY OtherHolds, HoldsType
<1>2. CASE OtherOpen
  <2>1. PICK n \in Fd : OpenAs(n) /\ others' = others \cup {n}
    BY <1>2 DEF OtherOpen
  <2>2. /\ table[n] = NoFile /\ table'[n] = opened' /\ opened' = opened + 1
        /\ opened' # NoFile
        /\ \A m \in Fd : m # n => table'[m] = table[m]
    BY <2>1, OpenAsTable
  <2>3. open' = open \cup {opened'}
    BY <2>2 DEF open
  <2>4. \A g \in Handle : Holds(g) # NoFd => Holds(g) # n
    BY <2>2 DEF OneOwner
  <2>5. held' = held
    BY <1>1, <2>2, <2>4 DEF held
  <2> QED BY <2>2, <2>3, <2>5 DEF Files!OtherOpen, open, held
<1>3. CASE OtherClose
  <2>1. PICK n \in others : Close(n) /\ others' = others \ {n}
    BY <1>3 DEF OtherClose
  <2>2. n \in Fd /\ opened' = opened /\ table[n] # NoFile
    BY <1>3, <2>1 DEF OtherClose, TypeOK, OthersOpen
  <2>3. /\ table'[n] = NoFile
        /\ \A m \in Fd : m # n => table'[m] = table[m]
    BY <2>1, <2>2, CloseTable
  <2>4. \A m \in Fd : m # n => table[m] # table[n]
    BY <2>2 DEF Distinct
  <2>5. open' = open \ {table[n]}
    BY <2>2, <2>3, <2>4 DEF open
  <2>6. \A g \in Handle : Holds(g) # NoFd => Holds(g) # n
    BY <2>1 DEF OneOwner
  <2>7. held' = held
    BY <1>1, <2>3, <2>6 DEF held
  <2>8. \A g \in Handle : held[g] # table[n]
    BY <1>1, <2>2, <2>4, <2>6 DEF held
  <2>9. table[n] \in open \ ({held[g] : g \in Handle} \ {NoFile})
    BY <2>2, <2>8 DEF open
  <2> QED BY <2>2, <2>5, <2>7, <2>9 DEF Files!OtherClose, Files!Owned, open, held
<1> QED BY <1>2, <1>3

\* Every step maps to a step of the abstract handles, or to none.
LEMMA NextRefines == IInv /\ [Next]_vars => [Files!Next]_Files!vars
<1> SUFFICES ASSUME IInv, [Next]_vars PROVE [Files!Next]_Files!vars
  OBVIOUS
<1>1. ASSUME NEW h \in Handle, Open(h) PROVE Files!Next
  BY <1>1, OpenRefines DEF Files!Next
<1>2. ASSUME NEW h \in Handle, Default(h) \/ Store(h) PROVE UNCHANGED Files!vars
  <2>1. UNCHANGED <<table, opened>> /\ \A g \in Handle : Holds(g)' = Holds(g)
    BY <1>2, QuietHolds DEF IInv
  <2> QED BY <2>1, QuietRefines
<1>3. ASSUME NEW h \in Handle, NEW other \in Handle,
             MoveConstruct(h, other) \/ MoveAssign(h, other)
      PROVE  Files!Next
  BY <1>3, MoveRefines DEF Files!Next
<1>4. ASSUME NEW h \in Handle, Destroy(h) PROVE Files!Next
  BY <1>4, DestroyRefines DEF Files!Next
<1>5. CASE OtherOpen \/ OtherClose
  BY <1>5, OtherRefines DEF Files!Next
<1>6. CASE UNCHANGED vars
  <2>1. UNCHANGED <<table, opened>> /\ \A g \in Handle : Holds(g)' = Holds(g)
    BY <1>6, OtherHolds DEF vars
  <2> QED BY <2>1, QuietRefines
<1> QED BY <1>1, <1>2, <1>3, <1>4, <1>5, <1>6 DEF Next

\* Handles open, pass on and close files as OwnedFiles allows
\* (FilesAreOwned), although their numbers are used again at once.
THEOREM Refinement == Spec => FilesAreOwned
BY Invariance, InitRefines, NextRefines, PTL DEF Spec, FilesAreOwned, Files!Spec
=============================================================================
