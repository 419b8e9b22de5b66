-------------------------- MODULE MonitorLifecycle --------------------------
(***************************************************************************)
(* The life cycle of ProcessMonitor (process/process_monitor.cpp): clients *)
(* call start, stop and the destructor, the worker that start spawns       *)
(* sweeps, runs the client's callback and sleeps on cv_.  The callback     *)
(* takes a mutex of the client's, tracked_mutex in main.cpp, which the     *)
(* client also takes to read its list.  What a sweep does is in            *)
(* ProcessMonitor, and so is update_filter, which touches neither a lock   *)
(* nor cv_; here a sweep only has events to deliver or not.                *)
(*                                                                         *)
(* A critical section in which nothing can block is one step, enabled when *)
(* its mutex is free.                                                      *)
(***************************************************************************)
EXTENDS Naturals, FiniteSets

CONSTANTS
  Client,       \* threads that use the monitor
  ClientOps,    \* the calls each client makes
  CallbackOps,  \* the calls made from inside the callback
  MaxWorkers    \* bound: workers ever spawned

Ops == {"start", "stop", "destroy", "read"}

Nobody == 0
Worker == 1..MaxWorkers   \* the k-th worker that start spawns
Thread == Client \cup Worker

ASSUME LifecycleAssumption ==
  /\ MaxWorkers \in Nat \ {0}
  /\ IsFiniteSet(Client) /\ Client \cap Nat = {}
  /\ ClientOps \in [Client -> SUBSET Ops]
  /\ CallbackOps \subseteq {"start", "stop"}

VARIABLES
  mutex,        \* the holder of mutex_
  trackedMutex, \* the holder of the client's mutex
  handle,       \* the thread worker_ stands for, Nobody when not joinable
  spawned,      \* the number of workers spawned so far
  stopped,      \* the stop token of each worker
  life,         \* "live", "dying" in the destructor, "dead" after it
  pc,           \* where each thread is
  target        \* history: the workers a thread's last stop had to end

vars == <<mutex, trackedMutex, handle, spawned, stopped, life, pc,
          target>>

\* std::terminate puts every thread in "aborted".
CallLocations ==
  {"start", "stop", "request", "notify", "join", "joining", "aborted"}
ClientLocations == CallLocations \cup {"idle", "toRead", "reading"}
WorkerLocations == CallLocations \cup
  {"unborn", "check", "sweep", "callback", "apply", "applied", "lock",
   "pred", "enter", "waiting", "woken", "timedout", "done"}

Goto(t, loc) == pc' = [pc EXCEPT ![t] = loc]

\* Where a call returns to: the callback, if that made it.
Home(t) == IF t \in Client THEN "idle" ELSE "applied"

Live(w) == pc[w] \notin {"unborn", "done", "aborted"}

-----------------------------------------------------------------------------
(* Calls.                                                                  *)

\* Bound: a callback makes one call at most.
CanCall(t, op) ==
  /\ life = "live"
  /\ IF t \in Client THEN pc[t] = "idle" /\ op \in ClientOps[t]
                     ELSE pc[t] = "apply" /\ op \in CallbackOps

\* Bound: no more calls in progress than workers left to spawn.
CallStart(t) ==
  /\ CanCall(t, "start") /\ Goto(t, "start")
  /\ spawned + Cardinality({u \in Thread : pc[u] = "start"}) < MaxWorkers
  /\ UNCHANGED <<mutex, trackedMutex, handle, spawned, stopped, life,
                 target>>

CallStop(t) ==
  /\ CanCall(t, "stop") /\ Goto(t, "stop")
  /\ UNCHANGED <<mutex, trackedMutex, handle, spawned, stopped, life,
                 target>>

\* The owner destroys the monitor when no other client is using it.
CallDestructor(c) ==
  /\ CanCall(c, "destroy") /\ Goto(c, "stop")
  /\ \A d \in Client \ {c} : pc[d] = "idle"
  /\ life' = "dying"
  /\ UNCHANGED <<mutex, trackedMutex, handle, spawned, stopped, target>>

\* Mutant: a worker that was told to stop does not count as active.
StartOverStopping(t) ==
  /\ pc[t] = "start" /\ mutex = Nobody
  /\ IF handle = Nobody \/ stopped[handle]
     THEN /\ handle' = spawned + 1 /\ spawned' = spawned + 1
          /\ pc' = [pc EXCEPT ![t] = Home(t), ![spawned + 1] = "check"]
     ELSE Goto(t, Home(t)) /\ UNCHANGED <<handle, spawned>>
  /\ UNCHANGED <<mutex, trackedMutex, stopped, life, target>>

\* start: a worker is spawned if there is none to join.
Start(t) ==
  /\ pc[t] = "start" /\ mutex = Nobody
  /\ \/ /\ handle = Nobody
        /\ handle' = spawned + 1 /\ spawned' = spawned + 1
        /\ pc' = [pc EXCEPT ![t] = Home(t), ![spawned + 1] = "check"]
     \/ /\ handle # Nobody
        /\ Goto(t, Home(t)) /\ UNCHANGED <<handle, spawned>>
  /\ UNCHANGED <<mutex, trackedMutex, stopped, life, target>>

\* Control goes back to the caller; the destructor then destroys worker_,
\* which is no longer joinable.
Return(t) ==
  /\ Goto(t, Home(t))
  /\ life' = IF life = "dying" THEN "dead" ELSE life

\* Mutant: the early return is missing.
StopUnchecked(t) ==
  /\ pc[t] = "stop" /\ mutex = Nobody
  /\ target' = [target EXCEPT ![t] = spawned]
  /\ Goto(t, "request")
  /\ UNCHANGED <<mutex, trackedMutex, handle, spawned, stopped, life>>

\* stop: the check under mutex_; the rest is done without it.
StopCheck(t) ==
  /\ pc[t] = "stop" /\ mutex = Nobody
  /\ target' = [target EXCEPT ![t] = spawned]
  /\ \/ handle = Nobody /\ Return(t)
     \/ handle # Nobody /\ Goto(t, "request") /\ UNCHANGED life
  /\ UNCHANGED <<mutex, trackedMutex, handle, spawned, stopped>>

RequestStop(t) ==
  /\ pc[t] = "request" /\ Goto(t, "notify")
  /\ stopped' = [w \in Worker |-> stopped[w] \/ w = handle]
  /\ UNCHANGED <<mutex, trackedMutex, handle, spawned, life, target>>

\* cv_.notify_all(), and the notification that the stop callback of wait_for
\* makes from request_stop.
NotifyAll(t) ==
  /\ pc[t] = "notify"
  /\ pc' = [u \in Thread |-> IF u = t THEN "join"
                             ELSE IF pc[u] = "waiting" THEN "woken"
                             ELSE pc[u]]
  /\ UNCHANGED <<mutex, trackedMutex, handle, spawned, stopped, life,
                 target>>

\* worker_.join() throws when there is nothing to join, when a thread joins
\* itself and when it is being joined already; stop is noexcept.
CannotJoin(t) ==
  \/ handle \in {Nobody, t}
  \/ \E u \in Thread \ {t} : pc[u] = "joining"

Join(t) ==
  /\ pc[t] = "join"
  /\ \/ CannotJoin(t) /\ pc' = [u \in Thread |-> "aborted"]
     \/ ~CannotJoin(t) /\ Goto(t, "joining")
  /\ UNCHANGED <<mutex, trackedMutex, handle, spawned, stopped, life,
                 target>>

\* Mutant: the worker is left to itself once it has been told to stop.
Detach(t) ==
  /\ pc[t] = "joining"
  /\ handle' = Nobody
  /\ Return(t)
  /\ UNCHANGED <<mutex, trackedMutex, spawned, stopped, target>>

Joined(t) ==
  /\ pc[t] = "joining" /\ pc[handle] = "done"
  /\ handle' = Nobody
  /\ Return(t)
  /\ UNCHANGED <<mutex, trackedMutex, spawned, stopped, target>>

\* The client reads its list under its mutex.
CallRead(c) ==
  /\ CanCall(c, "read") /\ Goto(c, "toRead")
  /\ UNCHANGED <<mutex, trackedMutex, handle, spawned, stopped, life,
                 target>>

BeginRead(c) ==
  /\ pc[c] = "toRead" /\ trackedMutex = Nobody
  /\ trackedMutex' = c /\ Goto(c, "reading")
  /\ UNCHANGED <<mutex, handle, spawned, stopped, life, target>>

EndRead(c) ==
  /\ pc[c] = "reading"
  /\ trackedMutex' = Nobody /\ Goto(c, "idle")
  /\ UNCHANGED <<mutex, handle, spawned, stopped, life, target>>

-----------------------------------------------------------------------------
(* The worker.                                                             *)

OnlyPc == UNCHANGED <<mutex, trackedMutex, handle, spawned, stopped, life,
                      target>>

CheckStop(w) ==
  /\ pc[w] = "check"
  /\ Goto(w, IF stopped[w] THEN "done" ELSE "sweep")
  /\ OnlyPc

\* The sweep ends with events for the callback, or without.
Sweep(w) ==
  /\ pc[w] = "sweep"
  /\ Goto(w, "callback") \/ Goto(w, "lock")
  /\ OnlyPc

EnterCallback(w) ==
  /\ pc[w] = "callback" /\ trackedMutex = Nobody
  /\ trackedMutex' = w /\ Goto(w, "apply")
  /\ UNCHANGED <<mutex, handle, spawned, stopped, life, target>>

LeaveCallback(w) ==
  /\ pc[w] \in {"apply", "applied"}
  /\ trackedMutex' = Nobody /\ Goto(w, "lock")
  /\ UNCHANGED <<mutex, handle, spawned, stopped, life, target>>

\* std::unique_lock lock(mutex_), and its reacquisition inside wait_for.
Lock(w) ==
  /\ pc[w] \in {"lock", "woken"} /\ mutex = Nobody
  /\ mutex' = w /\ Goto(w, "pred")
  /\ UNCHANGED <<trackedMutex, handle, spawned, stopped, life, target>>

\* Mutant: mutex_ is not released when wait_for returns.
TestPredicateHolding(w) ==
  /\ pc[w] = "pred"
  /\ Goto(w, IF stopped[w] THEN "check" ELSE "enter")
  /\ OnlyPc

\* wait_for tests the predicate holding mutex_ ...
TestPredicate(w) ==
  /\ pc[w] = "pred"
  /\ \/ stopped[w] /\ mutex' = Nobody /\ Goto(w, "check")
     \/ ~stopped[w] /\ UNCHANGED mutex /\ Goto(w, "enter")
  /\ UNCHANGED <<trackedMutex, handle, spawned, stopped, life, target>>

\* Mutant: a wait_for without the stop token: a request made after the
\* predicate was tested and before the thread sleeps is lost.
EnterWaitBlindly(w) ==
  /\ pc[w] = "enter" /\ mutex' = Nobody
  /\ Goto(w, "waiting")
  /\ UNCHANGED <<trackedMutex, handle, spawned, stopped, life, target>>

\* ... and the stop token again under the lock that notify_all takes, so
\* that the thread sleeps before it can miss the notification.
EnterWait(w) ==
  /\ pc[w] = "enter" /\ mutex' = Nobody
  /\ Goto(w, IF stopped[w] THEN "check" ELSE "waiting")
  /\ UNCHANGED <<trackedMutex, handle, spawned, stopped, life, target>>

\* The interval passes; or the thread wakes for no reason.
Timeout(w) ==
  /\ pc[w] = "waiting"
  /\ Goto(w, "timedout") \/ Goto(w, "woken")
  /\ OnlyPc

\* Mutant: the worker takes a wait that timed out for a request to stop.
LeaveWaitForever(w) ==
  /\ pc[w] = "timedout" /\ mutex = Nobody
  /\ Goto(w, "done")
  /\ OnlyPc

\* After a timeout wait_for reacquires mutex_ and returns.
LeaveWait(w) ==
  /\ pc[w] = "timedout" /\ mutex = Nobody
  /\ Goto(w, "check")
  /\ OnlyPc

-----------------------------------------------------------------------------
Init ==
  /\ mutex = Nobody /\ trackedMutex = Nobody /\ handle = Nobody
  /\ spawned = 0 /\ stopped = [w \in Worker |-> FALSE]
  /\ life = "live"
  /\ pc = [t \in Thread |-> IF t \in Client THEN "idle" ELSE "unborn"]
  /\ target = [t \in Thread |-> 0]

\* A client may make its next call, or never make another.
Call(t) ==
  \/ CallStart(t) \/ CallStop(t)
  \/ t \in Client /\ (CallDestructor(t) \/ CallRead(t))

\* Steps that go on without waiting for a lock.
Run(t) ==
  \/ RequestStop(t) \/ NotifyAll(t) \/ Join(t) \/ Joined(t)
  \/ t \in Client /\ EndRead(t)
  \/ t \in Worker /\ (\/ CheckStop(t) \/ Sweep(t) \/ LeaveCallback(t)
                      \/ TestPredicate(t) \/ EnterWait(t))

\* Steps that acquire a mutex.
Acquire(t) ==
  \/ Start(t) \/ StopCheck(t)
  \/ t \in Client /\ BeginRead(t)
  \/ t \in Worker /\ (EnterCallback(t) \/ Lock(t) \/ LeaveWait(t))

Next ==
  \/ \E t \in Thread : Call(t) \/ Run(t) \/ Acquire(t)
  \/ \E w \in Worker : Timeout(w)

Spec == Init /\ [][Next]_vars

\* Every thread is scheduled, and gets a mutex that becomes free again and
\* again.  Nothing is assumed of the clients, nor of the interval passing.
Fairness ==
  \A t \in Thread : WF_vars(Run(t)) /\ SF_vars(Acquire(t))

FairSpec == Spec /\ Fairness

-----------------------------------------------------------------------------
(* Properties.                                                             *)

TypeOK ==
  /\ mutex \in {w \in Worker : pc[w] \in {"pred", "enter", "aborted"}}
               \cup {Nobody}
  /\ trackedMutex \in Thread \cup {Nobody}
  /\ handle \in Worker \cup {Nobody} /\ spawned \in 0..MaxWorkers
  /\ stopped \in [Worker -> BOOLEAN]
  /\ life \in {"live", "dying", "dead"}
  /\ pc \in [Thread -> ClientLocations \cup WorkerLocations]
  /\ \A c \in Client : pc[c] \in ClientLocations
  /\ \A w \in Worker : pc[w] \in WorkerLocations
  /\ target \in [Thread -> 0..MaxWorkers]

\* Two workers never run at a time, so that two of them never call the
\* callback or scan with two caches.
OneWorker == \A v, w \in Worker : Live(v) /\ Live(w) => v = w

\* When stop has returned, every worker that was there when it was called is
\* gone for good: the callback will not be called by it any more.  The same
\* after the destructor.
StopIsFinal ==
  /\ \A c \in Client : pc[c] \in {"idle", "toRead", "reading"} =>
       \A w \in 1..target[c] : ~Live(w)
  /\ life = "dead" => \A w \in Worker : ~Live(w)

\* No call of stop ends the program.
NoAbort == \A t \in Thread : pc[t] # "aborted"

\* Clients and workers together keep the promise ProcessMonitor relies on:
\* workers come one after the other, none with a stop token that is set, and
\* none ends that was not told to.
Slot == INSTANCE WorkerSlot WITH
  run <- spawned,
  stop <- spawned > 0 /\ stopped[spawned],
  running <- spawned > 0 /\ Live(spawned)

WorkersTakeTurns == Slot!Spec

\* Every call returns: no deadlock between stop, the worker and the callback,
\* and no stop that waits for the interval to pass.
CallsReturn == \A c \in Client : pc[c] # "idle" ~> pc[c] = "idle"
=============================================================================
