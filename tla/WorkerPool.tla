----------------------------- MODULE WorkerPool -----------------------------
(***************************************************************************)
(* ignition::common::WorkerPool (src/WorkerPool.cc): a fixed set of worker *)
(* threads, a FIFO of work orders, one mutex and two condition variables.  *)
(*                                                                         *)
(* Every critical section of queueMtx is one action.  A wait on a          *)
(* condition variable splits its critical section in two: the thread       *)
(* falls asleep in one action and, once notified (or, as the C++ standard  *)
(* allows, for no reason), takes the mutex again in a later one.  Anything *)
(* may happen between the two.                                             *)
(***************************************************************************)
EXTENDS Integers, Sequences, FiniteSets

CONSTANTS Workers,          \* the threads the constructor spawns
          Clients,          \* threads that call WaitForResults and AddWork
          Orders,           \* work orders; each is submitted at most once
          NoOrder,          \* a worker's default-constructed WorkOrder
          SpuriousWakeups   \* may a wait return with no notification?

ASSUME PoolAssumption == /\ Workers # {}
                         /\ IsFiniteSet(Workers)
                         /\ NoOrder \notin Orders
                         /\ SpuriousWakeups \in BOOLEAN

VARIABLES workOrders,    \* the queue
          activeOrders,  \* the counter of orders being worked on
          done,          \* the pool is being shut down
          wpc,           \* where each worker is in Worker()
          order,         \* each worker's local variable of that name
          cpc,           \* where each client is in WaitForResults()
          timed,         \* the client's call has a non-zero timeout
          result,        \* what the client's last call returned
          owner,         \* how far the thread that destroys the pool has got
          submitted,     \* history: orders in the order of AddWork
          started,       \* history: orders in the order they were taken
          finished,      \* history: orders whose callback has returned
          awaited        \* history: submitted when the client made its call

poolVars   == <<workOrders, activeOrders, done>>
workerVars == <<wpc, order>>
clientVars == <<cpc, timed, result, awaited>>
history    == <<submitted, started, finished>>
vars == <<poolVars, workerVars, clientVars, owner, history>>

Elements(s) == {s[i] : i \in DOMAIN s}

WorkerPCs == {"lock", "asleep", "work", "callback", "finish", "exited"}
Busy      == {w \in Workers : wpc[w] \in {"work", "callback", "finish"}}
ClientPCs == {"idle", "entering", "blocked", "woken", "expired"}
OwnerPCs  == {"alive", "shutdown", "joining", "joined", "destroyed"}
Results   == {"none", "true", "false", "undefined"}

TypeOK == /\ workOrders \in Seq(Orders)
          /\ activeOrders \in 0 .. Cardinality(Workers)
          /\ done \in BOOLEAN
          /\ wpc \in [Workers -> WorkerPCs]
          /\ order \in [Workers -> Orders \cup {NoOrder}]
          /\ cpc \in [Clients -> ClientPCs]
          /\ timed \in [Clients -> BOOLEAN]
          /\ result \in [Clients -> Results]
          /\ owner \in OwnerPCs
          /\ submitted \in Seq(Orders)
          /\ started \in Seq(Orders)
          /\ finished \in SUBSET Orders
          /\ awaited \in [Clients -> SUBSET Orders]

Init == /\ workOrders = <<>>
        /\ activeOrders = 0
        /\ done = FALSE
        /\ wpc = [w \in Workers |-> "lock"]
        /\ order = [w \in Workers |-> NoOrder]
        /\ cpc = [c \in Clients |-> "idle"]
        /\ timed = [c \in Clients |-> FALSE]
        /\ result = [c \in Clients |-> "none"]
        /\ owner = "alive"
        /\ submitted = <<>>
        /\ started = <<>>
        /\ finished = {}
        /\ awaited = [c \in Clients |-> {}]

-----------------------------------------------------------------------------
(* Condition variables.                                                    *)

\* Faulty variant: AddWork forgets to notify.
NotifyNobody == UNCHANGED wpc

\* signalNewWork.notify_one()
NotifyNewWork ==
  IF \E w \in Workers : wpc[w] = "asleep"
  THEN \E w \in Workers : /\ wpc[w] = "asleep"
                          /\ wpc' = [wpc EXCEPT ![w] = "lock"]
  ELSE UNCHANGED wpc

\* Faulty variant: the destructor wakes one worker only.
NotifyOneOfAll == NotifyNewWork

\* signalNewWork.notify_all()
NotifyAllNewWork ==
  wpc' = [w \in Workers |-> IF wpc[w] = "asleep" THEN "lock" ELSE wpc[w]]

\* signalWorkDone.notify_all()
NotifyWorkDone ==
  cpc' = [c \in Clients |-> IF cpc[c] = "blocked" THEN "woken" ELSE cpc[c]]

\* Faulty variant: orders already taken off the queue are forgotten.
HaveResultsOfQueueOnly == done \/ workOrders = <<>>

\* The lambda haveResults of WaitForResults, evaluated with queueMtx held.
HaveResults == done \/ (workOrders = <<>> /\ activeOrders = 0)

\* Faulty variants: any worker that finds the queue empty signals; a worker
\* tests the counter before it decrements it.
QueueEmpty(active) == workOrders = <<>>
AllDoneTooEarly(active) == workOrders = <<>> /\ active < 0

\* What Worker() tests before it signals, once the counter is decremented.
AllDone(active) == workOrders = <<>> /\ active <= 0

-----------------------------------------------------------------------------
(* Worker threads: WorkerPoolPrivate::Worker().                            *)

Sleep(w) == /\ wpc[w] = "lock"
            /\ ~done /\ workOrders = <<>>
            /\ wpc' = [wpc EXCEPT ![w] = "asleep"]
            /\ UNCHANGED <<poolVars, order, clientVars, owner, history>>

Exit(w) == /\ wpc[w] = "lock"
           /\ done
           /\ wpc' = [wpc EXCEPT ![w] = "exited"]
           /\ UNCHANGED <<poolVars, order, clientVars, owner, history>>

\* Faulty variant: the queue is drained before the shutdown is noticed.
CanTakeDuringShutdown == workOrders # <<>>

CanTake == ~done /\ workOrders # <<>>

Take(w) == /\ wpc[w] = "lock"
           /\ CanTake
           /\ activeOrders' = activeOrders + 1
           /\ order' = [order EXCEPT ![w] = Head(workOrders)]
           /\ workOrders' = Tail(workOrders)
           /\ wpc' = [wpc EXCEPT ![w] = "work"]
           /\ started' = Append(started, Head(workOrders))
           /\ UNCHANGED <<done, clientVars, owner, submitted, finished>>

\* Faulty variant: a worker whose order is over goes for the next one without
\* signing off.
DoWorkAndLoop(w) == /\ wpc[w] = "work"
                    /\ wpc' = [wpc EXCEPT ![w] = "lock"]
                    /\ UNCHANGED <<poolVars, order, clientVars, owner, history>>

\* order.work() returns
DoWork(w) == /\ wpc[w] = "work"
             /\ wpc' = [wpc EXCEPT ![w] = "callback"]
             /\ UNCHANGED <<poolVars, order, clientVars, owner, history>>

\* order.callback() returns
DoCallback(w) == /\ wpc[w] = "callback"
                 /\ wpc' = [wpc EXCEPT ![w] = "finish"]
                 /\ finished' = finished \cup {order[w]}
                 /\ UNCHANGED <<poolVars, order, clientVars, owner,
                                submitted, started>>

Finish(w) == /\ wpc[w] = "finish"
             /\ activeOrders' = activeOrders - 1
             /\ wpc' = [wpc EXCEPT ![w] = "lock"]
             /\ IF AllDone(activeOrders - 1) THEN NotifyWorkDone
                                             ELSE UNCHANGED cpc
             /\ UNCHANGED <<workOrders, done, order, timed, result, awaited,
                            owner, history>>

-----------------------------------------------------------------------------
(* Callers.  AddWork is called by a client, or by the work or the callback *)
(* of an order from inside a worker thread.                                *)

MayAddWork == \/ owner = "alive" /\ \E c \in Clients : cpc[c] = "idle"
              \/ \E w \in Workers : wpc[w] \in {"work", "callback"}

AddWork(o) == /\ MayAddWork
              /\ o \notin Elements(submitted)
              /\ workOrders' = Append(workOrders, o)
              /\ NotifyNewWork
              /\ submitted' = Append(submitted, o)
              /\ UNCHANGED <<activeOrders, done, order, clientVars, owner,
                             started, finished>>

Return(c, value) == /\ cpc' = [cpc EXCEPT ![c] = "idle"]
                    /\ result' = [result EXCEPT ![c] = value]

Bool(b) == IF b THEN "true" ELSE "false"

\* WaitForResults is called; the thread has yet to get queueMtx.
Call(c, t) == /\ owner = "alive"
              /\ cpc[c] = "idle"
              /\ cpc' = [cpc EXCEPT ![c] = "entering"]
              /\ timed' = [timed EXCEPT ![c] = t]
              /\ result' = [result EXCEPT ![c] = "none"]
              /\ awaited' = [awaited EXCEPT ![c] = Elements(submitted)]
              /\ UNCHANGED <<poolVars, workerVars, owner, history>>

Enter(c) == /\ cpc[c] = "entering"
            /\ owner # "destroyed"
            /\ IF HaveResults
               THEN Return(c, Bool(~done))
               ELSE cpc' = [cpc EXCEPT ![c] = "blocked"] /\ UNCHANGED result
            /\ UNCHANGED <<poolVars, workerVars, timed, awaited, owner, history>>

\* The untimed wait has no predicate: it returns whatever woke it.
Resume(c) == /\ cpc[c] = "woken"
             /\ owner # "destroyed"
             /\ IF timed[c] /\ ~HaveResults
                THEN cpc' = [cpc EXCEPT ![c] = "blocked"] /\ UNCHANGED result
                ELSE Return(c, Bool(~done))
             /\ UNCHANGED <<poolVars, workerVars, timed, awaited, owner, history>>

\* wait_for gives up ...
Expire(c) == /\ cpc[c] = "blocked"
             /\ timed[c]
             /\ cpc' = [cpc EXCEPT ![c] = "expired"]
             /\ UNCHANGED <<poolVars, workerVars, timed, result, awaited, owner,
                            history>>

\* ... and evaluates its predicate a last time, with the mutex held.
ResumeExpired(c) ==
  /\ cpc[c] = "expired"
  /\ owner # "destroyed"
  /\ Return(c, Bool(HaveResults /\ ~done))
  /\ UNCHANGED <<poolVars, workerVars, timed, awaited, owner, history>>

\* A caller still inside WaitForResults locks a mutex and reads a flag that
\* are gone: no outcome is excluded.
ResumeAfterFree(c) ==
  /\ cpc[c] \in {"entering", "woken", "expired"}
  /\ owner = "destroyed"
  /\ Return(c, "undefined")
  /\ UNCHANGED <<poolVars, workerVars, timed, awaited, owner, history>>

SpuriousWake ==
  /\ SpuriousWakeups
  /\ \/ \E w \in Workers : /\ wpc[w] = "asleep"
                           /\ wpc' = [wpc EXCEPT ![w] = "lock"]
                           /\ UNCHANGED cpc
     \/ \E c \in Clients : /\ cpc[c] = "blocked"
                           /\ cpc' = [cpc EXCEPT ![c] = "woken"]
                           /\ UNCHANGED wpc
  /\ UNCHANGED <<poolVars, order, timed, result, awaited, owner, history>>

-----------------------------------------------------------------------------
(* ~WorkerPool(), run by the thread that owns the pool.                    *)

SetDone == /\ owner = "alive"
           /\ owner' = "shutdown"
           /\ done' = TRUE
           /\ UNCHANGED <<workOrders, activeOrders, workerVars, clientVars,
                          history>>

WakeWorkers == /\ owner = "shutdown"
               /\ owner' = "joining"
               /\ NotifyAllNewWork
               /\ UNCHANGED <<poolVars, order, clientVars, history>>

Join == /\ owner = "joining"
        /\ \A w \in Workers : wpc[w] = "exited"
        /\ owner' = "joined"
        /\ UNCHANGED <<poolVars, workerVars, clientVars, history>>

\* The last notify_all; the members are destroyed right after it.
WakeWaiters == /\ owner = "joined"
               /\ owner' = "destroyed"
               /\ NotifyWorkDone
               /\ UNCHANGED <<poolVars, workerVars, timed, result, awaited,
                              history>>

\* Nothing is left to happen to a destroyed pool nobody uses.
Stopped == /\ owner = "destroyed"
           /\ \A c \in Clients : cpc[c] = "idle"
           /\ UNCHANGED vars

-----------------------------------------------------------------------------
WorkerStep(w) == \/ Sleep(w) \/ Exit(w) \/ Take(w)
                 \/ DoWork(w) \/ DoCallback(w) \/ Finish(w)

\* The client moves on as soon as it gets the mutex; no timer is involved.
ClientStep(c) == \/ Enter(c) \/ Resume(c)
                 \/ ResumeExpired(c) \/ ResumeAfterFree(c)

OwnerStep == WakeWorkers \/ Join \/ WakeWaiters

Next == \/ \E w \in Workers : WorkerStep(w)
        \/ \E o \in Orders : AddWork(o)
        \/ \E c \in Clients : \/ \E t \in BOOLEAN : Call(c, t)
                              \/ ClientStep(c)
                              \/ Expire(c)
        \/ SpuriousWake
        \/ SetDone
        \/ OwnerStep
        \/ Stopped

Spec == Init /\ [][Next]_vars

\* Every thread that can run is scheduled, and work returns (AddWork demands
\* it).  Nobody is forced to call AddWork, WaitForResults or the destructor,
\* and no timer is relied upon.
Fairness == /\ \A w \in Workers : WF_vars(WorkerStep(w))
            /\ \A c \in Clients : WF_vars(ClientStep(c))
            /\ WF_vars(OwnerStep)
-----------------------------------------------------------------------------
(* Properties.                                                             *)

\* The counter the waiters trust is the number of workers between taking an
\* order and signing off (Worker() increments and decrements it in two
\* separate critical sections).
ActiveCount == activeOrders = Cardinality(Busy)

Running == {w \in Workers : wpc[w] \in {"work", "callback"}}

\* No order is lost, duplicated or overtaken between AddWork, the queue, the
\* worker that moved it out and its callback: orders leave the queue in the
\* order of AddWork, and each one taken is finished or held by one worker.
OrdersConserved ==
  /\ submitted = started \o workOrders
  /\ \A w \in Running : order[w] \in Elements(started) \ finished
  /\ \A o \in Elements(started) \ finished : \E w \in Running : order[w] = o
  /\ \A v, w \in Running : order[v] = order[w] => v = w

\* notify_one under the lock is enough: while the pool is open and there is
\* work in the queue, the workers are never all asleep.
NoLostWakeup ==
  ~done /\ workOrders # <<>> => \E w \in Workers : wpc[w] # "asleep"

\* A client sleeps in WaitForResults only while some order is queued or being
\* worked on, so whoever finishes the last one, or the destructor, wakes it.
NoStrandedWaiter ==
  \A c \in Clients : cpc[c] = "blocked" =>
    /\ workOrders # <<>> \/ activeOrders > 0
    /\ owner # "destroyed"

\* A call with a timeout that returns true has seen the work and callback of
\* every order submitted before the call to their end.
TimedWaitCorrect ==
  \A c \in Clients : timed[c] /\ result[c] = "true" => awaited[c] \subseteq finished

\* The same of every call, as WorkerPool.hh documents WaitForResults: "Waits
\* until all work is done ... returns true if all work was finished".
WaitCorrect ==
  \A c \in Clients : result[c] = "true" => awaited[c] \subseteq finished

\* WorkerPool.hh lets the pool be destructed under a waiting call, which then
\* returns false: a call that slept in WaitForResults has its mutex back and
\* has read done before the members it reads are destroyed.
WaitersLeaveFirst ==
  owner = "destroyed" => \A c \in Clients : cpc[c] \notin {"woken", "expired"}

\* Every order is worked on and called back, unless the pool is shut down
\* first: no schedule loses the notification that would run it.
EveryOrderRuns ==
  \A o \in Orders : o \in Elements(submitted) ~> (o \in finished \/ done)

\* Every call of WaitForResults returns, with a timeout or without.
WaitReturns == \A c \in Clients : cpc[c] # "idle" ~> cpc[c] = "idle"

\* The destructor returns: every worker, asleep or busy, gets to its exit.
DestructorReturns == done ~> owner = "destroyed"

\* The pool implements the abstract service: an order runs from Take until
\* its callback returns.
Service == INSTANCE WorkService
             WITH Capacity <- Cardinality(Workers),
                  pending  <- workOrders,
                  running  <- {order[w] : w \in Running},
                  open     <- ~done

ImplementsService == Service!Spec

\* Every call of WaitForResults returns, with a timeout or without, and so does
\* the destructor: no caller is left asleep (WorkerPool.cc).
CallersReturn == WaitReturns /\ DestructorReturns
=============================================================================
