----------------------- MODULE MonitorLifecycleProofs -----------------------
(* Theorems about MonitorLifecycle, for all values of its constants: any   *)
(* number of clients that make any calls, and callbacks that make any.     *)
EXTENDS MonitorLifecycle, FiniteSetTheorems, TLAPS

-----------------------------------------------------------------------------
(* The inductive invariant.                                                *)

\* std::terminate ends all threads or none.
AbortAll == \A t, u \in Thread : pc[t] = "aborted" => pc[u] = "aborted"

\* worker_ is the last worker or nobody; only that one can be running.
Slots ==
  /\ handle \in {Nobody, spawned}
  /\ \A w \in Worker : Live(w) => w = handle
  /\ \A w \in Worker : w > spawned =>
       pc[w] \in {"unborn", "aborted"} /\ ~stopped[w]

\* There is a worker left for every call of start in progress.
Starting == {u \in Thread : pc[u] = "start"}
Bounded == spawned + Cardinality(Starting) <= MaxWorkers

\* A worker ends, or gets into the later part of a stop of its own, only
\* when it was told to stop.
Told == \A w \in Worker :
          pc[w] \in {"done", "notify", "join", "joining"} => stopped[w]

\* What StopIsFinal says, of calls of start as well.
Final ==
  /\ \A t \in Thread : target[t] <= spawned
  /\ \A c \in Client : pc[c] \in {"idle", "toRead", "reading", "start"} =>
       \A w \in Worker : w <= target[c] => ~Live(w)

\* The destructor is alone, and after it nothing happens any more.
StopLocations == {"stop", "request", "notify", "join", "joining"}
Ended ==
  /\ life = "dying" =>
       /\ \A c \in Client : pc[c] \in StopLocations \cup {"idle", "aborted"}
       /\ \A c, d \in Client :
            pc[c] \in StopLocations /\ pc[d] \in StopLocations => c = d
  /\ life = "dead" =>
       /\ \A c \in Client : pc[c] \in {"idle", "aborted"}
       /\ \A w \in Worker : ~Live(w)

\* At most one thread is in join, and there is a thread for it to join.
Joins ==
  \A t \in Thread : pc[t] = "joining" =>
    handle # Nobody /\ \A u \in Thread : pc[u] = "joining" => u = t

IInv ==
  TypeOK /\ AbortAll /\ Slots /\ Bounded /\ Told /\ Final /\ Ended /\ Joins

-----------------------------------------------------------------------------
(* Threads.                                                                *)

\* Clients are not workers, and nobody is neither.
LEMMA Threads ==
  /\ Worker \subseteq Nat \ {Nobody} /\ Client \cap Worker = {}
  /\ Nobody \notin Client
  /\ IsFiniteSet(Thread)
<1>1. Worker \subseteq Nat \ {Nobody} /\ Client \cap Worker = {} /\ Nobody \notin Client
  BY LifecycleAssumption DEF Worker, Nobody
<1>2. IsFiniteSet(Worker)
  BY LifecycleAssumption, FS_Interval DEF Worker
<1> QED BY <1>1, <1>2, LifecycleAssumption, FS_Union DEF Thread

\* The locations a thread may be sent to are locations of its kind.
LEMMA Homes ==
  /\ \A c \in Client : Home(c) = "idle"
  /\ \A w \in Worker : Home(w) = "applied"
BY Threads DEF Home

\* The threads in start are finitely many.
LEMMA StartingFinite == IsFiniteSet(Starting) /\ Cardinality(Starting) \in Nat
BY Threads, FS_Subset, FS_CardinalityType DEF Starting

\* There is a worker for a thread in start to spawn.
LEMMA StartFits ==
  ASSUME TypeOK, Bounded, NEW t \in Thread, pc[t] = "start"
  PROVE  spawned + 1 \in Worker
<1>1. t \in Starting
  BY DEF Starting
<1>2. Cardinality(Starting) # 0
  BY <1>1, StartingFinite, FS_EmptySet
<1> QED BY <1>2, StartingFinite, LifecycleAssumption DEF Bounded, TypeOK, Worker

-----------------------------------------------------------------------------
(* What each action does to pc: the facts the invariants need.             *)

\* Steps that only move one thread from one place to another.
Walk(t, from, to) ==
  /\ pc[t] \in from
  /\ \E loc \in to : pc' = [pc EXCEPT ![t] = loc]
  /\ UNCHANGED <<handle, spawned, stopped, life, target>>

\* A worker's own steps, outside the calls.
WorkerStep(w) ==
  \/ CheckStop(w) \/ Sweep(w) \/ EnterCallback(w) \/ LeaveCallback(w)
  \/ Lock(w) \/ TestPredicate(w) \/ EnterWait(w) \/ Timeout(w) \/ LeaveWait(w)

WorkerPlaces == WorkerLocations \ (CallLocations \cup {"unborn", "done"})

\* They lead outside the calls again, and to "done" only if the worker was
\* told to stop; mutex_ is the worker's while it is at "pred" or "enter".
LEMMA WorkerWalks ==
  ASSUME TypeOK, NEW w \in Worker, WorkerStep(w)
  PROVE  /\ Walk(w, WorkerPlaces, WorkerPlaces \cup {"done"})
         /\ pc'[w] = "done" => stopped[w]
         /\ trackedMutex' \in Thread \cup {Nobody}
         /\ \/ mutex' = Nobody
            \/ mutex' = mutex /\ pc[w] \notin {"pred", "enter"}
            \/ mutex' = w /\ pc'[w] \in {"pred", "enter"}
            \/ mutex' = mutex /\ pc'[w] \in {"pred", "enter"}
<1> USE DEF Walk, WorkerPlaces, WorkerLocations, CallLocations
<1>0. w \in Thread
  BY DEF Thread
<1>1. CASE CheckStop(w)
  BY <1>0, <1>1 DEF CheckStop, Goto, OnlyPc, TypeOK
<1>2. CASE Sweep(w)
  BY <1>0, <1>2 DEF Sweep, Goto, OnlyPc, TypeOK
<1>3. CASE EnterCallback(w) \/ LeaveCallback(w)
  BY <1>0, <1>3 DEF EnterCallback, LeaveCallback, Goto, TypeOK
<1>4. CASE Lock(w)
  BY <1>0, <1>4 DEF Lock, Goto, TypeOK
<1>5. CASE TestPredicate(w)
  BY <1>0, <1>5 DEF TestPredicate, Goto, TypeOK
<1>6. CASE EnterWait(w)
  BY <1>0, <1>6 DEF EnterWait, Goto, TypeOK
<1>7. CASE Timeout(w)
  BY <1>0, <1>7 DEF Timeout, Goto, OnlyPc, TypeOK
<1>8. CASE LeaveWait(w)
  BY <1>0, <1>8 DEF LeaveWait, Goto, OnlyPc, TypeOK
<1> QED BY <1>1, <1>2, <1>3, <1>4, <1>5, <1>6, <1>7, <1>8 DEF WorkerStep

\* Steps of a call that concern its own thread only.
ClientStep(t) ==
  \/ CallStop(t)
  \/ Join(t) /\ ~CannotJoin(t)
  \/ Start(t) /\ handle # Nobody
  \/ t \in Client /\ (CallRead(t) \/ BeginRead(t) \/ EndRead(t))

\* From where to where they lead: new calls need a monitor that is alive.
LEMMA ClientWalks ==
  ASSUME TypeOK, NEW t \in Thread, ClientStep(t)
  PROVE  /\ \/ Walk(t, {"idle", "apply"}, {"stop"}) /\ life = "live"
            \/ Walk(t, {"join"}, {"joining"})
            \/ Walk(t, {"start"}, {Home(t)})
            \/ t \in Client /\ Walk(t, {"idle"}, {"toRead"}) /\ life = "live"
            \/ t \in Client /\ Walk(t, {"toRead"}, {"reading"})
            \/ t \in Client /\ Walk(t, {"reading"}, {"idle"})
         /\ trackedMutex' \in Thread \cup {Nobody} /\ mutex' = mutex
<1> USE DEF Walk, Goto, CanCall
<1>1. CASE CallStop(t)
  BY <1>1 DEF CallStop, TypeOK
<1>2. CASE Join(t) /\ ~CannotJoin(t)
  BY <1>2 DEF Join, TypeOK
<1>3. CASE Start(t) /\ handle # Nobody
  BY <1>3 DEF Start, TypeOK
<1>4. CASE t \in Client /\ CallRead(t)
  BY <1>4 DEF CallRead, TypeOK
<1>5. CASE t \in Client /\ (BeginRead(t) \/ EndRead(t))
  BY <1>5 DEF BeginRead, EndRead, TypeOK
<1> QED BY <1>1, <1>2, <1>3, <1>4, <1>5 DEF ClientStep

\* A join that throws; a start that spawns.
Abort(t) == Join(t) /\ CannotJoin(t)
Spawn(t) == Start(t) /\ handle = Nobody

\* Every step is of one of these kinds.
LEMMA NextKinds ==
  ASSUME Next
  PROVE  \/ \E w \in Worker : WorkerStep(w)
         \/ \E t \in Thread :
              \/ ClientStep(t) \/ CallStart(t) \/ Spawn(t) \/ StopCheck(t)
              \/ RequestStop(t) \/ NotifyAll(t) \/ Abort(t) \/ Joined(t)
         \/ \E c \in Client : CallDestructor(c)
<1>1. ASSUME NEW t \in Thread, Call(t) \/ Run(t) \/ Acquire(t)
      PROVE  \/ t \in Worker /\ WorkerStep(t)
             \/ ClientStep(t) \/ CallStart(t) \/ Spawn(t) \/ StopCheck(t)
             \/ RequestStop(t) \/ NotifyAll(t) \/ Abort(t) \/ Joined(t)
             \/ t \in Client /\ CallDestructor(t)
  BY <1>1 DEF Call, Run, Acquire, WorkerStep, ClientStep, Spawn, Abort
<1>2. ASSUME NEW w \in Worker, Timeout(w) PROVE WorkerStep(w)
  BY <1>2 DEF WorkerStep
<1> QED BY <1>1, <1>2 DEF Next

-----------------------------------------------------------------------------
(* The invariant holds at first, and every kind of step keeps it.          *)

\* At first every client is idle and there is no worker.
LEMMA InitIInv == Init => IInv
<1> SUFFICES ASSUME Init PROVE IInv
  OBVIOUS
<1> USE DEF Init
<1>1. \A c \in Client : pc[c] = "idle"
  BY DEF Thread
<1>2. \A w \in Worker : pc[w] = "unborn"
  BY Threads DEF Thread
<1>3. TypeOK
  BY <1>1, <1>2, LifecycleAssumption
     DEF TypeOK, Thread, Nobody, ClientLocations, WorkerLocations, CallLocations
<1>4. AbortAll /\ Joins
  BY <1>1, <1>2 DEF AbortAll, Joins, Thread
<1>5. Slots /\ Told /\ Ended
  BY <1>1, <1>2 DEF Slots, Told, Ended, Live, Nobody
<1>6. Bounded
  <2>1. Starting = {}
    BY <1>1, <1>2 DEF Starting, Thread
  <2> QED BY <2>1, FS_EmptySet, LifecycleAssumption DEF Bounded
<1>7. Final
  BY <1>1, <1>2 DEF Final, Live, Thread
<1> QED BY <1>3, <1>4, <1>5, <1>6, <1>7 DEF IInv

\* A worker that runs is the one worker_ stands for.
LEMMA Alone ==
  ASSUME IInv, NEW w \in Worker, Live(w)
  PROVE  handle = w /\ handle # Nobody /\ w <= spawned
BY Threads DEF IInv, TypeOK, Slots, Nobody

\* Where no thread gets into start and none is spawned there is room still.
LEMMA FewerStarts ==
  ASSUME TypeOK, Bounded, Starting' \subseteq Starting, spawned' = spawned
  PROVE  Bounded'
<1>1. Cardinality(Starting') <= Cardinality(Starting)
  BY StartingFinite, FS_Subset
<1>2. Cardinality(Starting') \in Nat
  BY StartingFinite, FS_Subset, FS_CardinalityType
<1> QED BY <1>1, <1>2, StartingFinite, LifecycleAssumption DEF Bounded, TypeOK

\* The worker's own steps.
LEMMA WorkerKeeps ==
  ASSUME IInv, NEW w \in Worker, WorkerStep(w)
  PROVE  IInv'
<1> USE DEF IInv
<1> DEFINE Places == WorkerPlaces \cup {"done"}
<1>1. PICK loc \in Places :
        /\ pc[w] \in WorkerPlaces /\ pc' = [pc EXCEPT ![w] = loc]
        /\ loc = "done" => stopped[w]
  BY WorkerWalks DEF Walk, TypeOK, Thread
<1>2. UNCHANGED <<handle, spawned, stopped, life, target>>
  BY WorkerWalks DEF Walk
<1>3. /\ w \in Thread /\ w \notin Client /\ w # Nobody /\ handle = w
      /\ Live(w) /\ w <= spawned
      /\ pc[w] \notin CallLocations \cup {"unborn", "done"}
      /\ loc \notin CallLocations \cup {"unborn"}
  BY <1>1, Threads, Alone DEF Live, WorkerPlaces, WorkerLocations,
     CallLocations, Thread
<1>4. /\ pc'[w] = loc /\ pc \in [Thread -> ClientLocations \cup WorkerLocations]
      /\ \A t \in Thread : t # w => pc'[t] = pc[t]
  BY <1>1, <1>3 DEF TypeOK
<1>5. \A v \in Worker : v # w => ~Live(v) /\ ~Live(v)'
  BY <1>3, <1>4 DEF Slots, Live, Thread
<1>6. TypeOK'
  <2>1. mutex' \in {v \in Worker : pc'[v] \in {"pred", "enter", "aborted"}}
                   \cup {Nobody}
    <3>1. CASE mutex' = Nobody
      BY <3>1
    <3>2. CASE mutex' = w /\ pc'[w] \in {"pred", "enter"}
      BY <3>2
    <3>3. CASE mutex' = mutex
      BY <1>3, <1>4, <3>3, WorkerWalks DEF TypeOK, CallLocations, Thread
    <3> QED BY <3>1, <3>2, <3>3, WorkerWalks
  <2>2. trackedMutex' \in Thread \cup {Nobody}
    BY WorkerWalks
  <2>3. loc \in WorkerLocations
    BY <1>1 DEF WorkerPlaces, WorkerLocations
  <2> QED BY <1>1, <1>2, <1>3, <2>1, <2>2, <2>3 DEF TypeOK
<1>7. AbortAll'
  BY <1>3, <1>4 DEF AbortAll, CallLocations
<1>8. Slots'
  BY <1>2, <1>3, <1>4, <1>5 DEF Slots, TypeOK, Thread
<1>9. Bounded'
  <2>1. Starting' \subseteq Starting
    BY <1>3, <1>4 DEF Starting, CallLocations
  <2> QED BY <2>1, <1>2, FewerStarts
<1>10. Told'
  BY <1>1, <1>2, <1>3, <1>4 DEF Told, CallLocations, Thread
<1>11. Final'
  <2>1. \A v \in Worker : Live(v)' => Live(v)
    BY <1>3, <1>5
  <2>2. \A c \in Client : pc'[c] = pc[c]
    BY <1>3, <1>4 DEF Thread
  <2> QED BY <1>2, <2>1, <2>2 DEF Final, Thread
<1>12. Ended'
  BY <1>2, <1>3, <1>4 DEF Ended, Thread
<1>13. Joins'
  BY <1>2, <1>3, <1>4 DEF Joins, CallLocations
<1> QED BY <1>6, <1>7, <1>8, <1>9, <1>10, <1>11, <1>12, <1>13

\* A call of stop, a join that waits, a start that finds a worker, a read.
LEMMA ClientKeeps ==
  ASSUME IInv, NEW t \in Thread, ClientStep(t)
  PROVE  IInv'
<1> USE DEF IInv
<1>1. /\ UNCHANGED <<handle, spawned, stopped, life, target, mutex>>
      /\ trackedMutex' \in Thread \cup {Nobody}
  BY ClientWalks DEF Walk
<1>2. PICK loc \in {"stop", "joining", "idle", "applied", "toRead", "reading"} :
        /\ pc' = [pc EXCEPT ![t] = loc]
        /\ \/ pc[t] \in {"idle", "apply"} /\ loc = "stop" /\ life = "live"
           \/ pc[t] = "join" /\ loc = "joining"
           \/ pc[t] = "start" /\ loc = Home(t)
           \/ t \in Client /\ pc[t] = "idle" /\ loc = "toRead" /\ life = "live"
           \/ t \in Client /\ pc[t] = "toRead" /\ loc = "reading"
           \/ t \in Client /\ pc[t] = "reading" /\ loc = "idle"
  BY ClientWalks, Homes DEF Walk, Thread
<1>3. /\ pc'[t] = loc /\ \A u \in Thread : u # t => pc'[u] = pc[u]
      /\ Client \subseteq Thread /\ Worker \subseteq Thread
      /\ loc = "applied" => t \in Worker
      /\ loc = "idle" => t \in Client
      /\ pc[t] = "start" => loc \in {"idle", "applied"}
  BY <1>2, Homes DEF TypeOK, Thread
<1>4. pc[t] \notin {"pred", "enter", "aborted", "unborn", "done"}
  BY <1>2
<1>5. \A w \in Worker : Live(w)' <=> Live(w)
  BY <1>2, <1>3 DEF Live
<1>6. TypeOK'
  <2>1. mutex' \in {v \in Worker : pc'[v] \in {"pred", "enter", "aborted"}}
                   \cup {Nobody}
    BY <1>1, <1>3, <1>4 DEF TypeOK
  <2>2. loc = "joining" \/ loc = "stop" => loc \in CallLocations
    BY DEF CallLocations
  <2>3. /\ t \in Client => loc \in ClientLocations
        /\ t \in Worker => loc \in WorkerLocations
    BY <1>2, <1>3, <2>2, Threads DEF ClientLocations, WorkerLocations
  <2> QED BY <1>1, <1>2, <2>1, <2>3 DEF TypeOK, Thread
<1>7. AbortAll'
  BY <1>2, <1>3 DEF AbortAll
<1>8. Slots'
  BY <1>1, <1>2, <1>3, <1>4, <1>5 DEF Slots
<1>9. Bounded'
  <2>1. Starting' \subseteq Starting
    BY <1>2, <1>3 DEF Starting
  <2> QED BY <2>1, <1>1, FewerStarts
<1>10. Told'
  BY <1>1, <1>2, <1>3 DEF Told
<1>11. Final'
  BY <1>1, <1>2, <1>3, <1>5 DEF Final
<1>12. Ended'
  <2>1. CASE life = "live"
    BY <1>1, <2>1 DEF Ended
  <2>2. CASE life = "dying"
    BY <1>1, <1>2, <1>3, <2>2 DEF Ended, StopLocations
  <2>3. CASE life = "dead"
    <3>1. t \in Client => FALSE
      BY <1>2, <2>3 DEF Ended
    <3>2. \A c \in Client : pc'[c] = pc[c]
      BY <1>3, <3>1
    <3> QED BY <1>1, <1>5, <2>3, <3>2 DEF Ended
  <2> QED BY <2>1, <2>2, <2>3 DEF TypeOK
<1>13. Joins'
  <2>1. CASE loc # "joining"
    BY <1>1, <1>3, <2>1 DEF Joins
  <2>2. CASE loc = "joining"
    <3>1. ~CannotJoin(t)
      BY <1>3, <2>2, Homes
         DEF ClientStep, CallStop, CallRead, BeginRead, EndRead, Start, Goto,
             TypeOK, Thread
    <3> QED BY <1>1, <1>3, <3>1 DEF Joins, CannotJoin
  <2> QED BY <2>1, <2>2
<1> QED BY <1>6, <1>7, <1>8, <1>9, <1>10, <1>11, <1>12, <1>13

\* start is called: its worker is set aside.
LEMMA CallStartKeeps ==
  ASSUME IInv, NEW t \in Thread, CallStart(t)
  PROVE  IInv'
<1> USE DEF IInv
<1>1. /\ UNCHANGED <<mutex, trackedMutex, handle, spawned, stopped, life, target>>
      /\ pc' = [pc EXCEPT ![t] = "start"] /\ life = "live"
      /\ pc[t] \in {"idle", "apply"}
      /\ t \in Client => pc[t] = "idle"
      /\ spawned + Cardinality(Starting) < MaxWorkers
  BY DEF CallStart, CanCall, Goto, Starting
<1>2. /\ pc'[t] = "start" /\ \A u \in Thread : u # t => pc'[u] = pc[u]
      /\ Client \subseteq Thread /\ Worker \subseteq Thread
  BY <1>1 DEF TypeOK, Thread
<1>3. \A w \in Worker : Live(w)' <=> Live(w)
  BY <1>1, <1>2 DEF Live
<1>4. TypeOK'
  BY <1>1, <1>2
     DEF TypeOK, Thread, ClientLocations, WorkerLocations, CallLocations
<1>5. AbortAll' /\ Slots'
  BY <1>1, <1>2, <1>3 DEF AbortAll, Slots
<1>6. Bounded'
  <2>1. Starting' = Starting \cup {t} /\ t \notin Starting
    BY <1>1, <1>2 DEF Starting
  <2>2. Cardinality(Starting') = Cardinality(Starting) + 1
    BY <2>1, StartingFinite, FS_AddElement
  <2> QED BY <1>1, <2>2, StartingFinite, LifecycleAssumption DEF Bounded, TypeOK
<1>7. Told' /\ Joins' /\ Ended'
  BY <1>1, <1>2 DEF Told, Joins, Ended
<1>8. Final'
  BY <1>1, <1>2, <1>3 DEF Final
<1> QED BY <1>4, <1>5, <1>6, <1>7, <1>8

\* start spawns a worker: it is alone.
LEMMA SpawnKeeps ==
  ASSUME IInv, NEW t \in Thread, Spawn(t)
  PROVE  IInv'
<1> USE DEF IInv
<1> DEFINE new == spawned + 1
<1>1. /\ handle = Nobody /\ handle' = new /\ spawned' = new /\ pc[t] = "start"
      /\ pc' = [pc EXCEPT ![t] = Home(t), ![new] = "check"]
      /\ UNCHANGED <<mutex, trackedMutex, stopped, life, target>>
  BY DEF Spawn, Start
<1>2. new \in Worker /\ spawned \in Nat /\ new \in Thread
  BY <1>1, StartFits, LifecycleAssumption DEF TypeOK, Thread
<1>3. \A w \in Worker : ~Live(w)
  BY <1>1, Threads DEF Slots
<1>4. t \in Client /\ Home(t) = "idle"
  BY <1>1, <1>3, Homes DEF Thread, Live
<1>5. t # new /\ pc[new] = "unborn" /\ ~stopped[new]
  BY <1>1, <1>2, <1>4, Threads DEF Slots, AbortAll, TypeOK
<1>6. /\ pc'[t] = "idle" /\ pc'[new] = "check"
      /\ \A u \in Thread : u # t /\ u # new => pc'[u] = pc[u]
      /\ Client \subseteq Thread /\ Worker \subseteq Thread /\ new \notin Client
  BY <1>1, <1>2, <1>4, <1>5, Threads DEF TypeOK, Thread
<1>7. \A w \in Worker : Live(w)' <=> w = new
  BY <1>2, <1>3, <1>4, <1>6, Threads DEF Live
<1>8. TypeOK'
  <2>1. mutex' = Nobody
    BY <1>1 DEF Spawn, Start
  <2>2. "idle" \in ClientLocations /\ "check" \in WorkerLocations
    BY DEF ClientLocations, WorkerLocations
  <2>3. new \in 0..MaxWorkers
    BY <1>2 DEF Worker
  <2> QED BY <1>1, <1>2, <1>4, <1>6, <2>1, <2>2, <2>3, Threads DEF TypeOK
<1>9. AbortAll' /\ Joins'
  <2>1. \A u \in Thread : pc[u] # "aborted" /\ pc[u] # "joining"
    BY <1>1 DEF AbortAll, Joins
  <2> QED BY <1>6, <2>1 DEF AbortAll, Joins
<1>10. Slots'
  <2>1. ASSUME NEW w \in Worker, w > new
        PROVE  pc'[w] \in {"unborn", "aborted"} /\ ~stopped'[w]
    <3>1. w > spawned /\ w # t /\ w # new
      BY <1>2, <1>4, <2>1, Threads
    <3> QED BY <1>1, <1>6, <3>1 DEF Slots
  <2> QED BY <1>1, <1>7, <2>1 DEF Slots
<1>11. Bounded'
  <2>1. Starting' \subseteq Starting \ {t} /\ t \in Starting
    BY <1>1, <1>6 DEF Starting
  <2>2. /\ IsFiniteSet(Starting \ {t})
        /\ Cardinality(Starting \ {t}) = Cardinality(Starting) - 1
    BY <2>1, StartingFinite, FS_RemoveElement
  <2>3. Cardinality(Starting') <= Cardinality(Starting \ {t})
    BY <2>1, <2>2, FS_Subset
  <2>4. Cardinality(Starting') \in Nat
    BY <2>1, <2>2, FS_Subset, FS_CardinalityType
  <2> QED BY <1>1, <1>2, <2>2, <2>3, <2>4, StartingFinite, LifecycleAssumption
          DEF Bounded
<1>12. Told'
  BY <1>1, <1>2, <1>4, <1>6, Threads DEF Told
<1>13. Final'
  BY <1>1, <1>2, <1>3, <1>4, <1>6, <1>7 DEF Final, TypeOK
<1>14. Ended'
  <2>1. life = "live"
    BY <1>1, <1>4 DEF Ended, TypeOK, StopLocations
  <2> QED BY <1>1, <2>1 DEF Ended
<1> QED BY <1>8, <1>9, <1>10, <1>11, <1>12, <1>13, <1>14

\* A client's call of stop or the destructor returns, and no worker runs:
\* what the end of StopCheck and Joined share.
LEMMA ReturnKeeps ==
  ASSUME IInv, NEW t \in Client,
         pc[t] = "joining" \/ (pc[t] = "stop" /\ handle = Nobody),
         handle' = Nobody, \A w \in Worker : ~Live(w), Return(t),
         UNCHANGED <<mutex, trackedMutex, spawned, stopped>>,
         \/ UNCHANGED target
         \/ target' = [target EXCEPT ![t] = spawned]
  PROVE  IInv'
<1> USE DEF IInv
<1>1. /\ pc' = [pc EXCEPT ![t] = "idle"]
      /\ life' = IF life = "dying" THEN "dead" ELSE life
  BY Homes DEF Return, Goto
<1>2. /\ pc'[t] = "idle" /\ \A u \in Thread : u # t => pc'[u] = pc[u]
      /\ Client \subseteq Thread /\ Worker \subseteq Thread /\ t \notin Worker
  BY <1>1, Threads DEF TypeOK, Thread
<1>3. \A w \in Worker : ~Live(w)'
  BY <1>2 DEF Live
<1>4. spawned \in 0..MaxWorkers /\ spawned \in Nat
  BY LifecycleAssumption DEF TypeOK
<1>5. TypeOK'
  <2>1. "idle" \in ClientLocations
    BY DEF ClientLocations
  <2>2. \A w \in Worker : pc'[w] = pc[w]
    BY <1>2
  <2> QED BY <1>1, <1>2, <1>4, <2>1, <2>2 DEF TypeOK
<1>6. AbortAll' /\ Joins'
  <2>1. \A u \in Thread : pc[u] # "aborted"
    BY <1>2 DEF AbortAll
  <2>2. \A u \in Thread : pc'[u] # "joining"
    <3>1. CASE pc[t] = "joining"
      BY <1>2, <3>1 DEF Joins
    <3>2. CASE pc[t] = "stop"
      BY <1>2, <3>2 DEF Joins
    <3> QED BY <3>1, <3>2
  <2> QED BY <1>2, <2>1, <2>2 DEF AbortAll, Joins
<1>7. Slots'
  BY <1>2, <1>3 DEF Slots
<1>8. Bounded'
  <2>1. Starting' \subseteq Starting
    BY <1>2 DEF Starting
  <2> QED BY <2>1, FewerStarts
<1>9. Told'
  BY <1>2 DEF Told
<1>10. Final'
  <2>1. \A u \in Thread : target'[u] <= spawned
    BY <1>4 DEF Final, TypeOK
  <2> QED BY <1>3, <2>1 DEF Final
<1>11. Ended'
  <2>1. CASE life = "live"
    BY <1>1, <2>1 DEF Ended
  <2>2. CASE life = "dying"
    <3>1. \A c \in Client : c # t => pc[c] \in {"idle", "aborted"}
      BY <2>2 DEF Ended, StopLocations
    <3> QED BY <1>1, <1>2, <1>3, <2>2, <3>1 DEF Ended
  <2>3. CASE life = "dead"
    BY <2>3 DEF Ended
  <2> QED BY <2>1, <2>2, <2>3 DEF TypeOK
<1> QED BY <1>5, <1>6, <1>7, <1>8, <1>9, <1>10, <1>11

\* stop looks at worker_; without a worker it returns.
LEMMA StopCheckKeeps ==
  ASSUME IInv, NEW t \in Thread, StopCheck(t)
  PROVE  IInv'
<1> USE DEF IInv
<1>1. /\ pc[t] = "stop" /\ target' = [target EXCEPT ![t] = spawned]
      /\ UNCHANGED <<mutex, trackedMutex, handle, spawned, stopped>>
      /\ \/ handle = Nobody /\ Return(t)
         \/ handle # Nobody /\ Goto(t, "request") /\ UNCHANGED life
  BY DEF StopCheck
<1>2. CASE handle = Nobody
  <2>1. \A w \in Worker : ~Live(w)
    BY <1>2, Threads DEF Slots
  <2>2. t \in Client
    BY <1>1, <2>1 DEF Thread, Live
  <2> QED BY <1>1, <1>2, <2>1, <2>2, ReturnKeeps
<1>3. CASE handle # Nobody
  <2>1. /\ pc' = [pc EXCEPT ![t] = "request"] /\ UNCHANGED life
        /\ Client \subseteq Thread /\ Worker \subseteq Thread
    BY <1>1, <1>3 DEF Goto, Thread
  <2>2. pc'[t] = "request" /\ \A u \in Thread : u # t => pc'[u] = pc[u]
    BY <2>1 DEF TypeOK
  <2>3. \A w \in Worker : Live(w)' <=> Live(w)
    BY <1>1, <2>1, <2>2 DEF Live
  <2>4. spawned \in 0..MaxWorkers /\ spawned \in Nat
    BY LifecycleAssumption DEF TypeOK
  <2>5. TypeOK'
    <3>1. "request" \in CallLocations
      BY DEF CallLocations
    <3> QED BY <1>1, <2>1, <2>2, <2>4, <3>1
         DEF TypeOK, ClientLocations, WorkerLocations
  <2>6. AbortAll' /\ Slots' /\ Told' /\ Joins'
    BY <1>1, <2>1, <2>2, <2>3 DEF AbortAll, Slots, Told, Joins
  <2>7. Bounded'
    <3>1. Starting' \subseteq Starting
      BY <2>2 DEF Starting
    <3> QED BY <1>1, <3>1, FewerStarts
  <2>8. Final'
    <3>1. \A u \in Thread : target'[u] <= spawned
      BY <1>1, <2>4 DEF Final, TypeOK
    <3>2. \A c \in Client : c # t => target'[c] = target[c] /\ pc'[c] = pc[c]
      BY <1>1, <2>1, <2>2 DEF TypeOK
    <3> QED BY <1>1, <2>2, <2>3, <3>1, <3>2 DEF Final
  <2>9. Ended'
    BY <1>1, <2>1, <2>2, <2>3 DEF Ended, StopLocations
  <2> QED BY <2>5, <2>6, <2>7, <2>8, <2>9
<1> QED BY <1>2, <1>3

\* request_stop sets the token of the worker worker_ stands for, if any.
LEMMA RequestStopKeeps ==
  ASSUME IInv, NEW t \in Thread, RequestStop(t)
  PROVE  IInv'
<1> USE DEF IInv
<1>1. /\ pc[t] = "request" /\ pc' = [pc EXCEPT ![t] = "notify"]
      /\ stopped' = [w \in Worker |-> stopped[w] \/ w = handle]
      /\ UNCHANGED <<mutex, trackedMutex, handle, spawned, life, target>>
  BY DEF RequestStop, Goto
<1>2. /\ pc'[t] = "notify" /\ \A u \in Thread : u # t => pc'[u] = pc[u]
      /\ Client \subseteq Thread /\ Worker \subseteq Thread
  BY <1>1 DEF TypeOK, Thread
<1>3. \A w \in Worker : Live(w)' <=> Live(w)
  BY <1>1, <1>2 DEF Live
<1>4. \A w \in Worker : (stopped[w] => stopped'[w]) /\ stopped'[w] \in BOOLEAN
  BY <1>1 DEF TypeOK
<1>5. TypeOK'
  <2>1. "notify" \in CallLocations
    BY DEF CallLocations
  <2> QED BY <1>1, <1>2, <2>1 DEF TypeOK, ClientLocations, WorkerLocations
<1>6. AbortAll' /\ Joins'
  BY <1>1, <1>2 DEF AbortAll, Joins
<1>7. Slots'
  <2>1. \A w \in Worker : w > spawned => w # handle
    BY Threads, LifecycleAssumption DEF Slots, TypeOK
  <2>2. \A w \in Worker : w > spawned => ~stopped'[w]
    BY <1>1, <2>1 DEF Slots
  <2> QED BY <1>1, <1>2, <1>3, <2>2 DEF Slots
<1>8. Bounded'
  <2>1. Starting' \subseteq Starting
    BY <1>2 DEF Starting
  <2> QED BY <1>1, <2>1, FewerStarts
<1>9. Told'
  <2>1. ASSUME t \in Worker PROVE stopped'[t]
    <3>1. handle = t
      BY <1>1, <2>1, Alone DEF Live
    <3> QED BY <1>1, <2>1, <3>1
  <2> QED BY <1>2, <1>4, <2>1 DEF Told
<1>10. Final' /\ Ended'
  BY <1>1, <1>2, <1>3 DEF Final, Ended, StopLocations
<1> QED BY <1>5, <1>6, <1>7, <1>8, <1>9, <1>10

\* notify_all wakes whoever sleeps.
LEMMA NotifyKeeps ==
  ASSUME IInv, NEW t \in Thread, NotifyAll(t)
  PROVE  IInv'
<1> USE DEF IInv
<1>1. /\ pc[t] = "notify"
      /\ pc' = [u \in Thread |-> IF u = t THEN "join"
                                 ELSE IF pc[u] = "waiting" THEN "woken"
                                 ELSE pc[u]]
      /\ UNCHANGED <<mutex, trackedMutex, handle, spawned, stopped, life, target>>
  BY DEF NotifyAll
<1>2. /\ Client \subseteq Thread /\ Worker \subseteq Thread
      /\ pc'[t] = "join"
      /\ \A u \in Thread : u # t =>
           \/ pc'[u] = pc[u]
           \/ pc[u] = "waiting" /\ pc'[u] = "woken" /\ u \in Worker
  BY <1>1 DEF TypeOK, Thread, ClientLocations, CallLocations
<1>3. \A w \in Worker : Live(w)' <=> Live(w)
  BY <1>1, <1>2 DEF Live
<1>4. TypeOK'
  <2>1. "join" \in CallLocations /\ "woken" \in WorkerLocations
    BY DEF CallLocations, WorkerLocations
  <2>2. \A c \in Client : pc'[c] \in ClientLocations
    BY <1>2, <2>1, Threads DEF TypeOK, ClientLocations
  <2>3. \A w \in Worker : pc'[w] \in WorkerLocations
    BY <1>2, <2>1 DEF TypeOK, WorkerLocations
  <2>4. pc' \in [Thread -> ClientLocations \cup WorkerLocations]
    BY <1>1, <2>2, <2>3 DEF Thread
  <2>5. \A w \in Worker : pc[w] \in {"pred", "enter", "aborted"} => pc'[w] = pc[w]
    BY <1>1, <1>2
  <2> QED BY <1>1, <2>2, <2>3, <2>4, <2>5 DEF TypeOK
<1>5. AbortAll' /\ Slots' /\ Told' /\ Joins'
  BY <1>1, <1>2, <1>3 DEF AbortAll, Slots, Told, Joins
<1>6. Bounded'
  <2>1. Starting' \subseteq Starting
    BY <1>2 DEF Starting
  <2> QED BY <1>1, <2>1, FewerStarts
<1>7. Final' /\ Ended'
  <2>1. \A c \in Client : c # t => pc'[c] = pc[c]
    BY <1>2, Threads
  <2> QED BY <1>1, <1>2, <1>3, <2>1 DEF Final, Ended, StopLocations
<1> QED BY <1>4, <1>5, <1>6, <1>7

\* A join that throws ends the program.
LEMMA AbortKeeps ==
  ASSUME IInv, NEW t \in Thread, Abort(t)
  PROVE  IInv'
<1> USE DEF IInv
<1>1. /\ pc[t] = "join"
      /\ UNCHANGED <<mutex, trackedMutex, handle, spawned, stopped, life, target>>
      /\ pc' = [u \in Thread |-> "aborted"]
  BY DEF Abort, Join
<1>2. /\ Client \subseteq Thread /\ Worker \subseteq Thread
      /\ \A u \in Thread : pc'[u] = "aborted"
      /\ \A w \in Worker : ~Live(w)'
  BY <1>1 DEF Thread, Live
<1>3. TypeOK'
  BY <1>1, <1>2
     DEF TypeOK, ClientLocations, WorkerLocations, CallLocations
<1>4. AbortAll' /\ Slots' /\ Told' /\ Joins'
  BY <1>1, <1>2 DEF AbortAll, Slots, Told, Joins
<1>5. Bounded'
  <2>1. Starting' \subseteq Starting
    BY <1>2 DEF Starting
  <2> QED BY <1>1, <2>1, FewerStarts
<1>6. Final' /\ Ended'
  BY <1>1, <1>2 DEF Final, Ended, StopLocations
<1> QED BY <1>3, <1>4, <1>5, <1>6

\* The worker has ended, and stop returns.
LEMMA JoinedKeeps ==
  ASSUME IInv, NEW t \in Thread, Joined(t)
  PROVE  IInv'
<1> USE DEF IInv
<1>1. /\ pc[t] = "joining" /\ pc[handle] = "done" /\ handle' = Nobody
      /\ Return(t) /\ UNCHANGED <<mutex, trackedMutex, spawned, stopped, target>>
  BY DEF Joined
<1>2. \A w \in Worker : ~Live(w)
  BY <1>1 DEF Slots, Live
<1>3. t \in Client
  BY <1>1, <1>2 DEF Live, Thread
<1> QED BY <1>1, <1>2, <1>3, ReturnKeeps

\* The destructor is called by a client that is alone.
LEMMA DestructorKeeps ==
  ASSUME IInv, NEW c \in Client, CallDestructor(c)
  PROVE  IInv'
<1> USE DEF IInv
<1>1. /\ pc[c] = "idle" /\ pc' = [pc EXCEPT ![c] = "stop"]
      /\ \A d \in Client \ {c} : pc[d] = "idle"
      /\ life = "live" /\ life' = "dying"
      /\ UNCHANGED <<mutex, trackedMutex, handle, spawned, stopped, target>>
  BY DEF CallDestructor, CanCall, Goto
<1>2. /\ Client \subseteq Thread /\ Worker \subseteq Thread /\ c \notin Worker
      /\ pc'[c] = "stop" /\ \A u \in Thread : u # c => pc'[u] = pc[u]
  BY <1>1, Threads DEF TypeOK, Thread
<1>3. \A w \in Worker : Live(w)' <=> Live(w)
  BY <1>2 DEF Live
<1>4. TypeOK'
  <2>1. "stop" \in ClientLocations
    BY DEF ClientLocations, CallLocations
  <2> QED BY <1>1, <1>2, <2>1 DEF TypeOK
<1>5. AbortAll' /\ Slots' /\ Told' /\ Joins'
  BY <1>1, <1>2, <1>3 DEF AbortAll, Slots, Told, Joins
<1>6. Bounded'
  <2>1. Starting' \subseteq Starting
    BY <1>2 DEF Starting
  <2> QED BY <1>1, <2>1, FewerStarts
<1>7. Final' /\ Ended'
  BY <1>1, <1>2, <1>3 DEF Final, Ended, StopLocations
<1> QED BY <1>4, <1>5, <1>6, <1>7

\* A stuttering step.
LEMMA StutterKeeps == IInv /\ UNCHANGED vars => IInv'
BY DEF vars, IInv, TypeOK, AbortAll, Slots, Bounded, Starting, Told, Final,
       Ended, Joins, Live

\* IInv is inductive.
LEMMA NextIInv == IInv /\ [Next]_vars => IInv'
<1> SUFFICES ASSUME IInv, Next PROVE IInv'
  BY StutterKeeps
<1>1. ASSUME NEW w \in Worker, WorkerStep(w) PROVE IInv'
  BY <1>1, WorkerKeeps
<1>2. ASSUME NEW t \in Thread,
             \/ ClientStep(t) \/ CallStart(t) \/ Spawn(t) \/ StopCheck(t)
             \/ RequestStop(t) \/ NotifyAll(t) \/ Abort(t) \/ Joined(t)
      PROVE  IInv'
  BY <1>2, ClientKeeps, CallStartKeeps, SpawnKeeps, StopCheckKeeps,
     RequestStopKeeps, NotifyKeeps, AbortKeeps, JoinedKeeps
<1>3. ASSUME NEW c \in Client, CallDestructor(c) PROVE IInv'
  BY <1>3, DestructorKeeps
<1> QED BY <1>1, <1>2, <1>3, NextKinds

\* The invariant holds in every reachable state.
THEOREM Invariance == Spec => []IInv
BY InitIInv, NextIInv, PTL DEF Spec

\* Every reachable state is well typed (TypeOK): mutex_ is held only by a
\* worker inside wait_for, and start never runs out of workers.
THEOREM TypeCorrect == Spec => []TypeOK
BY Invariance, PTL DEF IInv

\* Whatever clients and callbacks call at the same time, at most one worker
\* runs (OneWorker).
THEOREM AtMostOne == Spec => []OneWorker
<1>1. IInv => OneWorker
  BY DEF IInv, Slots, OneWorker
<1> QED BY <1>1, Invariance, PTL

\* After stop has returned the workers it found are gone, and after the
\* destructor all are (StopIsFinal), even if several threads stop, as long as
\* the program was not ended by that.
THEOREM StopEnds == Spec => []StopIsFinal
<1>1. IInv => StopIsFinal
  <2> SUFFICES ASSUME IInv PROVE StopIsFinal
    OBVIOUS
  <2>1. ASSUME NEW c \in Client, pc[c] \in {"idle", "toRead", "reading"},
               NEW w \in 1..target[c]
        PROVE  ~Live(w)
    <3>1. target[c] \in 0..MaxWorkers
      BY DEF IInv, TypeOK, Thread
    <3>2. w \in Worker /\ w <= target[c]
      BY <3>1, LifecycleAssumption DEF Worker
    <3> QED BY <2>1, <3>2 DEF IInv, Final
  <2> QED BY <2>1 DEF IInv, Ended, StopIsFinal
<1> QED BY <1>1, Invariance, PTL

-----------------------------------------------------------------------------
(* Programs in which one client at most makes the calls that stop.         *)

Stops(c) == ClientOps[c] \cap {"stop", "destroy"} # {}
OneStopper == \A c, d \in Client : Stops(c) /\ Stops(d) => c = d

\* A client inside stop is one that may be, worker_ stands for a thread from
\* the check on, and from request_stop on that thread was told to stop.
Stopping ==
  /\ \A c \in Client : pc[c] \in StopLocations => Stops(c)
  /\ \A w \in Worker : pc[w] \in StopLocations => "stop" \in CallbackOps
  /\ \A c \in Client :
       pc[c] \in {"request", "notify", "join", "joining"} => handle # Nobody
  /\ \A c \in Client :
       pc[c] \in {"notify", "join", "joining"} => stopped[handle]
  /\ \A w \in Worker : w <= spawned => pc[w] # "unborn"

\* The steps that start and end no worker.
Quiet(t) ==
  \/ ClientStep(t) \/ CallStart(t) \/ StopCheck(t) \/ RequestStop(t)
  \/ NotifyAll(t) \/ Joined(t)
  \/ t \in Client /\ CallDestructor(t)

\* They move one thread, or wake sleeping workers.
LEMMA QuietMoves ==
  ASSUME IInv, NEW t \in Thread, Quiet(t)
  PROVE  /\ spawned' = spawned
         /\ \A w \in Worker : Live(w)' <=> Live(w)
         /\ \A u \in Thread : u # t =>
              \/ pc'[u] = pc[u]
              \/ pc[u] = "waiting" /\ pc'[u] = "woken" /\ u \in Worker
         /\ pc[t] # "unborn" /\ pc'[t] \notin {"unborn", "aborted"}
<1> USE DEF IInv
<1>1. /\ Client \subseteq Thread /\ Worker \subseteq Thread
      /\ Home(t) \in {"idle", "applied"}
      /\ t \in Worker => Home(t) = "applied"
  BY Homes DEF Thread
<1>2. CASE ClientStep(t)
  BY <1>1, <1>2, ClientWalks, Threads DEF Walk, Live, TypeOK
<1>3. CASE CallStart(t)
  BY <1>1, <1>3 DEF CallStart, CanCall, Goto, Live, TypeOK
<1>4. CASE StopCheck(t)
  BY <1>1, <1>4 DEF StopCheck, Return, Goto, Live, TypeOK
<1>5. CASE RequestStop(t)
  BY <1>1, <1>5 DEF RequestStop, Goto, Live, TypeOK
<1>6. CASE NotifyAll(t)
  <2>1. /\ pc[t] = "notify" /\ spawned' = spawned
        /\ pc' = [u \in Thread |-> IF u = t THEN "join"
                                   ELSE IF pc[u] = "waiting" THEN "woken"
                                   ELSE pc[u]]
    BY <1>6 DEF NotifyAll
  <2>2. \A u \in Thread : u # t =>
          \/ pc'[u] = pc[u]
          \/ pc[u] = "waiting" /\ pc'[u] = "woken" /\ u \in Worker
    BY <2>1 DEF TypeOK, Thread, ClientLocations, CallLocations
  <2> QED BY <1>1, <2>1, <2>2 DEF Live
<1>7. CASE Joined(t)
  BY <1>1, <1>7 DEF Joined, Return, Goto, Live, TypeOK
<1>8. CASE t \in Client /\ CallDestructor(t)
  BY <1>1, <1>8 DEF CallDestructor, CanCall, Goto, Live, TypeOK
<1> QED BY <1>2, <1>3, <1>4, <1>5, <1>6, <1>7, <1>8 DEF Quiet

\* Where a client is inside stop after a quiet step, and why.
LEMMA StopMoves ==
  ASSUME IInv, Stopping, NEW t \in Thread, Quiet(t), t \in Client
  PROVE  /\ pc'[t] \in StopLocations => Stops(t)
         /\ pc'[t] \in {"request", "notify", "join", "joining"} =>
              handle' = handle /\ handle # Nobody
         /\ pc'[t] \in {"notify", "join", "joining"} => stopped'[handle]
<1> USE DEF IInv, Stopping, StopLocations
<1>0. /\ Home(t) = "idle" /\ t \in Thread
      /\ handle # Nobody => handle \in Worker
  BY Homes DEF TypeOK
<1>1. CASE ClientStep(t)
  <2>1. CASE CallStop(t)
    BY <1>0, <2>1 DEF CallStop, CanCall, Goto, Stops, TypeOK
  <2>2. CASE Join(t) /\ ~CannotJoin(t)
    BY <1>0, <2>2 DEF Join, Goto, TypeOK
  <2>3. CASE Start(t) /\ handle # Nobody
    BY <1>0, <2>3 DEF Start, Goto, TypeOK
  <2>4. CASE CallRead(t) \/ BeginRead(t) \/ EndRead(t)
    BY <1>0, <2>4 DEF CallRead, BeginRead, EndRead, Goto, TypeOK
  <2> QED BY <1>1, <2>1, <2>2, <2>3, <2>4 DEF ClientStep
<1>2. CASE CallStart(t)
  BY <1>0, <1>2 DEF CallStart, Goto, TypeOK
<1>3. CASE StopCheck(t)
  BY <1>0, <1>3 DEF StopCheck, Return, Goto, TypeOK
<1>4. CASE RequestStop(t)
  BY <1>0, <1>4 DEF RequestStop, Goto, TypeOK
<1>5. CASE NotifyAll(t)
  BY <1>0, <1>5 DEF NotifyAll, TypeOK
<1>6. CASE Joined(t)
  BY <1>0, <1>6 DEF Joined, Return, Goto, TypeOK
<1>7. CASE CallDestructor(t)
  BY <1>0, <1>7 DEF CallDestructor, CanCall, Goto, Stops, TypeOK
<1> QED BY <1>1, <1>2, <1>3, <1>4, <1>5, <1>6, <1>7 DEF Quiet

\* At first no one is inside stop.
LEMMA InitStopping == Init => Stopping
BY Threads, LifecycleAssumption
   DEF Init, Stopping, StopLocations, Thread, Worker, Nobody

\* What worker_ stands for and the tokens, after a quiet step.
LEMMA QuietSlot ==
  ASSUME IInv, NEW t \in Thread, Quiet(t)
  PROVE  /\ \A w \in Worker : stopped[w] => stopped'[w]
         /\ \/ handle' = handle
            \/ pc[t] = "joining" /\ t \in Client
<1> USE DEF IInv
<1>1. CASE ClientStep(t)
  BY <1>1, ClientWalks DEF Walk
<1>2. CASE CallStart(t) \/ StopCheck(t) \/ NotifyAll(t) \/ (t \in Client /\ CallDestructor(t))
  BY <1>2 DEF CallStart, StopCheck, NotifyAll, CallDestructor
<1>3. CASE RequestStop(t)
  BY <1>3 DEF RequestStop, TypeOK
<1>4. CASE Joined(t)
  <2>1. /\ pc[t] = "joining" /\ pc[handle] = "done" /\ UNCHANGED stopped
    BY <1>4 DEF Joined
  <2>2. t \notin Worker
    BY <2>1, Alone DEF Live
  <2> QED BY <2>1, <2>2 DEF Thread
<1> QED BY <1>1, <1>2, <1>3, <1>4 DEF Quiet

\* A worker gets into stop only where callbacks may call it.
LEMMA StopMovesWorker ==
  ASSUME IInv, Stopping, NEW t \in Worker, Quiet(t), pc'[t] \in StopLocations
  PROVE  "stop" \in CallbackOps
<1> USE DEF IInv, Stopping, StopLocations
<1>0. Home(t) = "applied" /\ t \in Thread /\ t \notin Client
  BY Homes, Threads DEF Thread
<1>1. CASE ClientStep(t)
  <2>1. CASE CallStop(t)
    BY <1>0, <2>1 DEF CallStop, CanCall
  <2>2. CASE Join(t) /\ ~CannotJoin(t)
    BY <1>0, <2>2 DEF Join
  <2>3. CASE Start(t) /\ handle # Nobody
    BY <1>0, <2>3 DEF Start, Goto, TypeOK
  <2> QED BY <1>0, <1>1, <2>1, <2>2, <2>3 DEF ClientStep
<1>2. CASE CallStart(t)
  BY <1>0, <1>2 DEF CallStart, Goto, TypeOK
<1>3. CASE StopCheck(t) \/ RequestStop(t) \/ NotifyAll(t) \/ Joined(t)
  BY <1>0, <1>3 DEF StopCheck, RequestStop, NotifyAll, Joined
<1> QED BY <1>0, <1>1, <1>2, <1>3 DEF Quiet

\* With one stopper, Stopping is inductive relative to IInv.
LEMMA NextStopping ==
  ASSUME OneStopper, IInv, Stopping, [Next]_vars
  PROVE  Stopping'
<1> USE DEF IInv
<1>0. Client \subseteq Thread /\ Worker \subseteq Thread /\ Client \cap Worker = {}
  BY Threads DEF Thread
<1>1. ASSUME NEW w \in Worker, WorkerStep(w) PROVE Stopping'
  <2>1. PICK loc \in WorkerPlaces \cup {"done"} : pc' = [pc EXCEPT ![w] = loc]
    BY <1>1, WorkerWalks DEF Walk
  <2>2. loc \notin CallLocations \cup {"unborn"}
    BY DEF WorkerPlaces, CallLocations
  <2>3. UNCHANGED <<handle, spawned, stopped>>
    BY <1>1, WorkerWalks DEF Walk
  <2>4. pc'[w] = loc /\ \A u \in Thread : u # w => pc'[u] = pc[u]
    BY <1>0, <2>1 DEF TypeOK
  <2>5. \A c \in Client : pc'[c] = pc[c]
    BY <1>0, <2>4
  <2>6. \A v \in Worker :
          \/ pc'[v] = pc[v]
          \/ pc'[v] \notin StopLocations /\ pc'[v] # "unborn"
    BY <1>0, <2>2, <2>4 DEF CallLocations, StopLocations
  <2> QED BY <2>3, <2>5, <2>6 DEF Stopping
<1>2. ASSUME NEW t \in Thread, Quiet(t) PROVE Stopping'
  <2>1. /\ spawned' = spawned
        /\ \A u \in Thread : u # t =>
             \/ pc'[u] = pc[u]
             \/ pc[u] = "waiting" /\ pc'[u] = "woken" /\ u \in Worker
        /\ pc[t] # "unborn" /\ pc'[t] # "unborn"
    BY <1>2, QuietMoves
  <2>2. /\ \A w \in Worker : stopped[w] => stopped'[w]
        /\ handle' = handle \/ (pc[t] = "joining" /\ t \in Client)
    BY <1>2, QuietSlot
  <2>3. handle # Nobody => handle \in Worker
    BY DEF TypeOK
  <2>4. ASSUME NEW c \in Client
        PROVE  /\ pc'[c] \in StopLocations => Stops(c)
               /\ pc'[c] \in {"request", "notify", "join", "joining"} =>
                    handle' # Nobody
               /\ pc'[c] \in {"notify", "join", "joining"} => stopped'[handle']
    <3>1. CASE c = t
      BY <1>2, <2>1, <3>1, StopMoves DEF StopLocations
    <3>2. CASE c # t
      <4>1. pc'[c] = pc[c]
        BY <1>0, <2>1, <3>2
      <4>2. pc[c] \in StopLocations => handle' = handle
        BY <2>2, <3>2 DEF OneStopper, Stopping, StopLocations
      <4> QED BY <2>2, <2>3, <4>1, <4>2 DEF Stopping, StopLocations
    <3> QED BY <3>1, <3>2
  <2>5. ASSUME NEW w \in Worker
        PROVE  /\ pc'[w] \in StopLocations => "stop" \in CallbackOps
               /\ w <= spawned' => pc'[w] # "unborn"
    <3>1. CASE w = t
      BY <1>2, <2>1, <3>1, StopMovesWorker
    <3>2. CASE w # t
      BY <1>0, <2>1, <3>2 DEF Stopping, StopLocations
    <3> QED BY <3>1, <3>2
  <2> QED BY <2>4, <2>5 DEF Stopping
<1>3. ASSUME NEW t \in Thread, Spawn(t) PROVE Stopping'
  <2> DEFINE new == spawned + 1
  <2>1. /\ handle = Nobody /\ handle' = new /\ spawned' = new
        /\ pc' = [pc EXCEPT ![t] = Home(t), ![new] = "check"]
        /\ UNCHANGED stopped
    BY <1>3 DEF Spawn, Start
  <2>2. new \in Worker /\ spawned \in Nat
    BY <1>3, StartFits, LifecycleAssumption DEF Spawn, Start, TypeOK
  <2>3. Home(t) \in {"idle", "applied"}
    BY Homes DEF Thread
  <2>4. \A u \in Thread :
          \/ pc'[u] = pc[u] /\ u # new
          \/ pc'[u] \in {"idle", "applied", "check"}
    BY <1>0, <2>1, <2>2, <2>3 DEF TypeOK
  <2>5. \A c \in Client : pc'[c] \in StopLocations => pc'[c] = "stop" /\ pc[c] = "stop"
    BY <1>0, <2>1, <2>4 DEF Stopping, StopLocations
  <2>6. \A w \in Worker : w <= new => w <= spawned \/ w = new
    BY <2>2, Threads
  <2>7. \A w \in Worker : /\ pc'[w] \in StopLocations => "stop" \in CallbackOps
                          /\ w <= new => pc'[w] # "unborn"
    BY <1>0, <2>4, <2>6 DEF Stopping, StopLocations
  <2> QED BY <2>1, <2>5, <2>7 DEF Stopping, StopLocations
<1>4. ASSUME NEW t \in Thread, Abort(t) PROVE Stopping'
  <2>1. \A u \in Thread : pc'[u] = "aborted"
    BY <1>4 DEF Abort, Join
  <2> QED BY <1>0, <2>1 DEF Stopping, StopLocations
<1>5. CASE UNCHANGED vars
  BY <1>5 DEF vars, Stopping
<1> QED BY <1>0, <1>1, <1>2, <1>3, <1>4, <1>5, NextKinds DEF Quiet

\* A client that stops finds a worker to join, and no one else joining.
LEMMA NoThrow ==
  ASSUME OneStopper, "stop" \notin CallbackOps, IInv, Stopping,
         NEW t \in Thread, pc[t] = "join"
  PROVE  ~CannotJoin(t)
<1>1. t \in Client
  BY DEF Stopping, StopLocations, Thread
<1>2. handle # Nobody /\ handle \in Worker /\ t # handle
  BY <1>1, Threads DEF Stopping, IInv, TypeOK
<1>3. ASSUME NEW u \in Thread, pc[u] = "joining" PROVE u = t
  BY <1>1, <1>3 DEF Stopping, StopLocations, OneStopper, Thread
<1> QED BY <1>2, <1>3 DEF CannotJoin

\* If one client at most calls stop or destroys the monitor, and the callback
\* does not call stop, no call ends the program (NoAbort): these are the
\* conditions the class has and does not mention.
THEOREM NoOneAborts ==
  ASSUME OneStopper, "stop" \notin CallbackOps
  PROVE  Spec => []NoAbort
<1>1. Init => NoAbort
  BY DEF Init, NoAbort
<1>2. ASSUME IInv, Stopping, NoAbort, [Next]_vars PROVE NoAbort'
  <2>1. ASSUME NEW w \in Worker, WorkerStep(w) PROVE NoAbort'
    <3>1. PICK loc \in WorkerPlaces \cup {"done"} : pc' = [pc EXCEPT ![w] = loc]
      BY <1>2, <2>1, WorkerWalks DEF IInv, Walk
    <3>2. loc # "aborted"
      BY DEF WorkerPlaces, CallLocations
    <3> QED BY <1>2, <3>1, <3>2 DEF NoAbort, IInv, TypeOK
  <2>2. ASSUME NEW t \in Thread, Quiet(t) PROVE NoAbort'
    BY <1>2, <2>2, QuietMoves DEF NoAbort
  <2>3. ASSUME NEW t \in Thread, Spawn(t) PROVE NoAbort'
    <3>1. /\ pc' = [pc EXCEPT ![t] = Home(t), ![spawned + 1] = "check"]
          /\ Home(t) # "aborted"
      BY <2>3, Homes DEF Spawn, Start, Thread
    <3> QED BY <1>2, <3>1 DEF NoAbort, IInv, TypeOK
  <2>4. ASSUME NEW t \in Thread, Abort(t) PROVE FALSE
    BY <1>2, <2>4, NoThrow DEF Abort, Join
  <2>5. CASE UNCHANGED vars
    BY <1>2, <2>5 DEF vars, NoAbort
  <2> QED BY <1>2, <2>1, <2>2, <2>3, <2>4, <2>5, NextKinds DEF Quiet, Thread
<1>3. IInv /\ Stopping /\ [Next]_vars => Stopping'
  BY NextStopping
<1> QED BY <1>1, <1>2, <1>3, Invariance, InitStopping, PTL DEF Spec

-----------------------------------------------------------------------------
(* The refinement of WorkerSlot.                                           *)

\* The refinement mapping, by names.
slotStop == spawned > 0 /\ stopped[spawned]
slotRunning == spawned > 0 /\ Live(spawned)

\* The last worker, if there was one.
LEMMA LastWorker ==
  ASSUME TypeOK
  PROVE  spawned \in Nat /\ (spawned > 0 => spawned \in Worker)
BY LifecycleAssumption DEF TypeOK, Worker

\* A step that neither starts nor ends the last worker leaves the slot alone,
\* or tells the worker that is in it to stop.
LEMMA QuietRefines ==
  ASSUME IInv, Stopping, NEW t \in Thread, Quiet(t)
  PROVE  [Slot!Next]_Slot!vars
<1> USE DEF IInv
<1>1. /\ spawned' = spawned
      /\ \A w \in Worker : Live(w)' <=> Live(w)
  BY QuietMoves
<1>2. spawned \in Nat /\ (spawned > 0 => spawned \in Worker)
  BY LastWorker
<1>3. slotRunning' = slotRunning
  BY <1>1, <1>2 DEF slotRunning, Live
<1>4. CASE stopped' = stopped
  <2>1. slotStop' = slotStop
    BY <1>1, <1>4 DEF slotStop
  <2> QED BY <1>1, <1>3, <2>1 DEF Slot!vars, slotStop, slotRunning
<1>5. CASE stopped' # stopped
  <2>1. RequestStop(t)
    BY <1>5, ClientWalks
       DEF Quiet, Walk, CallStart, StopCheck, NotifyAll, Joined, CallDestructor
  <2>2. /\ pc[t] = "request"
        /\ stopped' = [w \in Worker |-> stopped[w] \/ w = handle]
    BY <2>1 DEF RequestStop
  <2>3. CASE slotRunning
    <3>1. handle = spawned /\ spawned > 0
      BY <1>2, <2>3 DEF slotRunning, Slots
    <3>2. slotStop'
      BY <1>1, <1>2, <2>2, <3>1 DEF slotStop
    <3> QED BY <1>1, <1>3, <2>3, <3>2
         DEF Slot!Next, Slot!RequestStop, slotStop, slotRunning
  <2>4. CASE ~slotRunning
    <3>1. spawned > 0 => pc[spawned] = "done"
      <4> SUFFICES ASSUME spawned > 0 PROVE pc[spawned] = "done"
        OBVIOUS
      <4>1. pc[spawned] \in {"unborn", "done", "aborted"}
        BY <2>4 DEF slotRunning, Live
      <4>2. pc[spawned] # "unborn"
        BY <1>2 DEF Stopping
      <4>3. pc[spawned] # "aborted"
        BY <1>2, <2>2 DEF AbortAll, Thread
      <4> QED BY <4>1, <4>2, <4>3
    <3>2. spawned > 0 => stopped[spawned] /\ stopped'[spawned]
      BY <1>2, <2>2, <3>1 DEF Told
    <3>3. slotStop' = slotStop
      BY <1>1, <3>2 DEF slotStop
    <3> QED BY <1>1, <1>3, <3>3 DEF Slot!vars, slotStop, slotRunning
  <2> QED BY <2>3, <2>4
<1> QED BY <1>4, <1>5

\* A worker ends after it was told to stop.
LEMMA WorkerRefines ==
  ASSUME IInv, NEW w \in Worker, WorkerStep(w)
  PROVE  [Slot!Next]_Slot!vars
<1> USE DEF IInv
<1>1. PICK loc \in WorkerPlaces \cup {"done"} :
        /\ pc[w] \in WorkerPlaces /\ pc' = [pc EXCEPT ![w] = loc]
        /\ loc = "done" => stopped[w]
  BY WorkerWalks DEF Walk, TypeOK, Thread
<1>2. UNCHANGED <<spawned, stopped>>
  BY WorkerWalks DEF Walk
<1>3. Live(w) /\ w = spawned /\ spawned > 0 /\ pc'[w] = loc
  BY <1>1, Alone, Threads
     DEF WorkerPlaces, CallLocations, Live, TypeOK, Thread, Slots, Nobody
<1>4. slotRunning /\ (slotRunning' <=> loc # "done")
  BY <1>1, <1>2, <1>3 DEF slotRunning, Live, WorkerPlaces, CallLocations
<1>5. slotStop' = slotStop
  BY <1>2 DEF slotStop
<1>6. CASE loc = "done"
  <2>1. slotStop
    BY <1>1, <1>3, <1>6 DEF slotStop
  <2> QED BY <1>2, <1>4, <1>5, <1>6, <2>1
       DEF Slot!Next, Slot!Exit, slotStop, slotRunning
<1>7. CASE loc # "done"
  <2>1. slotRunning' = slotRunning
    BY <1>2, <1>3, <1>4, <1>7 DEF slotRunning
  <2> QED BY <1>2, <1>5, <2>1 DEF Slot!vars, slotStop, slotRunning
<1> QED BY <1>6, <1>7

\* A worker is put into the empty slot, with a token that is not set.
LEMMA SpawnRefines ==
  ASSUME IInv, NEW t \in Thread, Spawn(t)
  PROVE  Slot!Next
<1> USE DEF IInv
<1> DEFINE new == spawned + 1
<1>1. /\ handle = Nobody /\ spawned' = new /\ UNCHANGED stopped
      /\ pc' = [pc EXCEPT ![t] = Home(t), ![new] = "check"]
  BY DEF Spawn, Start
<1>2. new \in Worker /\ new \in Thread /\ spawned \in Nat
  BY StartFits, LastWorker DEF Spawn, Start, Thread
<1>3. pc'[new] = "check" /\ ~stopped[new]
  BY <1>1, <1>2 DEF TypeOK, Slots
<1>4. ~slotRunning
  BY <1>1, LastWorker, Threads DEF slotRunning, Slots
<1>5. slotRunning' /\ ~slotStop'
  BY <1>1, <1>2, <1>3 DEF slotRunning, slotStop, Live
<1>6. slotStop' = FALSE /\ slotRunning' = TRUE
  BY <1>5 DEF slotRunning, slotStop
<1> QED BY <1>1, <1>4, <1>6 DEF Slot!Next, Slot!Start, slotStop, slotRunning

\* If the program ends in a join, the worker had been told to stop.
LEMMA AbortRefines ==
  ASSUME IInv, Stopping, NEW t \in Thread, Abort(t)
  PROVE  [Slot!Next]_Slot!vars
<1> USE DEF IInv
<1>1. /\ pc[t] = "join" /\ UNCHANGED <<spawned, stopped>>
      /\ pc' = [u \in Thread |-> "aborted"]
  BY DEF Abort, Join
<1>2. spawned \in Nat /\ (spawned > 0 => spawned \in Worker /\ spawned \in Thread)
  BY LastWorker DEF Thread
<1>3. slotRunning' = FALSE
  BY <1>1, <1>2 DEF slotRunning, Live
<1>4. slotStop' = slotStop
  BY <1>1 DEF slotStop
<1>5. CASE slotRunning
  <2>1. handle = spawned /\ spawned > 0
    BY <1>2, <1>5 DEF slotRunning, Slots
  <2>2. t \in Worker => handle = t
    BY <1>1, Alone DEF Live
  <2>3. stopped[handle]
    BY <1>1, <2>2 DEF Told, Stopping, Thread
  <2>4. slotStop
    BY <2>1, <2>3 DEF slotStop
  <2> QED BY <1>1, <1>3, <1>4, <1>5, <2>4
       DEF Slot!Next, Slot!Exit, slotStop, slotRunning
<1>6. CASE ~slotRunning
  <2>1. slotRunning' = slotRunning
    BY <1>3, <1>6 DEF slotRunning
  <2> QED BY <1>1, <1>4, <2>1 DEF Slot!vars, slotStop, slotRunning
<1> QED BY <1>5, <1>6

\* If one client at most calls stop or destroys the monitor, workers take
\* turns (WorkersTakeTurns): ProcessMonitor's picture of start and stop, a
\* counter and a flag, is right.  The callback may call anything.
THEOREM Refinement == OneStopper => (Spec => WorkersTakeTurns)
<1> SUFFICES ASSUME OneStopper PROVE Spec => WorkersTakeTurns
  OBVIOUS
<1>1. Init => Slot!Init
  BY DEF Init, Slot!Init
<1>2. ASSUME IInv, Stopping, [Next]_vars PROVE [Slot!Next]_Slot!vars
  <2>1. ASSUME NEW t \in Thread, Spawn(t) PROVE [Slot!Next]_Slot!vars
    BY <1>2, <2>1, SpawnRefines
  <2>2. CASE UNCHANGED vars
    BY <2>2 DEF vars, Slot!vars, Live
  <2>3. ASSUME NEW t \in Thread, Quiet(t) PROVE [Slot!Next]_Slot!vars
    BY <1>2, <2>3, QuietRefines
  <2>4. ASSUME NEW w \in Worker, WorkerStep(w) PROVE [Slot!Next]_Slot!vars
    BY <1>2, <2>4, WorkerRefines
  <2>5. ASSUME NEW t \in Thread, Abort(t) PROVE [Slot!Next]_Slot!vars
    BY <1>2, <2>5, AbortRefines
  <2> QED BY <1>2, <2>1, <2>2, <2>3, <2>4, <2>5, NextKinds DEF Quiet, Thread
<1>3. IInv /\ Stopping /\ [Next]_vars => Stopping'
  BY NextStopping
<1> QED BY <1>1, <1>2, <1>3, Invariance, InitStopping, PTL
     DEF Spec, WorkersTakeTurns, Slot!Spec
=============================================================================
