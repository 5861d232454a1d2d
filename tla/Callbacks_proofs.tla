-------------------------- MODULE Callbacks_proofs --------------------------
(***************************************************************************)
(* Proofs about WorkerPool and EventT:  the pool is the service its        *)
(* clients see, with and without spurious wakeups, and an event is a       *)
(* multicast whose loops survive what their callbacks do.                  *)
(***************************************************************************)
EXTENDS WorkerPool, Event, FiniteSetTheorems, WellFoundedInduction, TLAPS

(***************************************************************************)
(* WorkerPool, for any finite set of workers and any sets of clients and   *)
(* orders.                                                                 *)
(***************************************************************************)

\* The part of TypeOK that is inductive by itself (the bounds of the counter
\* need ActiveCount), and that a busy worker holds an order to finish.
BaseType == /\ workOrders \in Seq(Orders)
            /\ activeOrders \in Int
            /\ done \in BOOLEAN
            /\ wpc \in [Workers -> WorkerPCs]
            /\ order \in [Workers -> Orders \cup {NoOrder}]
            /\ cpc \in [Clients -> ClientPCs]
            /\ timed \in [Clients -> BOOLEAN]
            /\ result \in [Clients -> Results]
            /\ owner \in OwnerPCs
            /\ submitted \in Seq(Orders)
            /\ started \in Seq(Orders)
            /\ finished \in SUBSET Orders
            /\ awaited \in [Clients -> SUBSET Orders]
            /\ \A w \in Busy : order[w] \in Orders

\* The elements of a sequence of orders are orders.
LEMMA ElementsType == \A s \in Seq(Orders) : Elements(s) \in SUBSET Orders
  BY DEF Elements

\* Every step of a pool whose variables have their types keeps them so.
LEMMA TypingStep == BaseType /\ [Next]_vars => BaseType'
<1> SUFFICES ASSUME BaseType, [Next]_vars PROVE BaseType'
  OBVIOUS
<1> USE DEF BaseType, poolVars, workerVars, clientVars, history,
            WorkerPCs, ClientPCs, OwnerPCs, Results, Busy
<1>1. ASSUME NEW w \in Workers, Sleep(w) PROVE BaseType'
  BY <1>1 DEF Sleep
<1>2. ASSUME NEW w \in Workers, Exit(w) PROVE BaseType'
  <2>1. wpc' = [wpc EXCEPT ![w] = "exited"]
    BY <1>2 DEF Exit
  <2>2. wpc' \in [Workers -> WorkerPCs]
    BY <2>1
  <2>3. UNCHANGED <<poolVars, order, clientVars, owner, history>>
    BY <1>2 DEF Exit
  <2>4. done' \in BOOLEAN
    BY <2>3
  <2>5. \A v \in Busy' : order'[v] \in Orders
    BY <2>1, <2>3
  <2> QED
    BY <2>2, <2>3, <2>4, <2>5, Zenon
<1>3. ASSUME NEW w \in Workers, Take(w) PROVE BaseType'
  BY <1>3 DEF Take, CanTake
<1>4. ASSUME NEW w \in Workers, DoWork(w) PROVE BaseType'
  BY <1>4 DEF DoWork
<1>5. ASSUME NEW w \in Workers, DoCallback(w) PROVE BaseType'
  BY <1>5 DEF DoCallback
<1>6. ASSUME NEW w \in Workers, Finish(w) PROVE BaseType'
  BY <1>6 DEF Finish, NotifyWorkDone
<1>7. ASSUME NEW o \in Orders, AddWork(o) PROVE BaseType'
  <2>1. \/ UNCHANGED wpc
        \/ \E w \in Workers : wpc' = [wpc EXCEPT ![w] = "lock"]
    BY <1>7 DEF AddWork, NotifyNewWork
  <2>2. /\ wpc' \in [Workers -> WorkerPCs]
        /\ \A v \in Busy' : order'[v] \in Orders
    BY <1>7, <2>1 DEF AddWork
  <2> QED
    BY <1>7, <2>2 DEF AddWork
<1>8. ASSUME NEW c \in Clients, NEW t \in BOOLEAN, Call(c, t) PROVE BaseType'
  BY <1>8, ElementsType DEF Call
<1>9. ASSUME NEW c \in Clients, ClientStep(c) PROVE BaseType'
  BY <1>9 DEF ClientStep, Enter, Resume, ResumeExpired, ResumeAfterFree,
              Return, Bool
<1>10. ASSUME NEW c \in Clients, Expire(c) PROVE BaseType'
  BY <1>10 DEF Expire
<1>11. CASE SpuriousWake
  BY <1>11 DEF SpuriousWake
<1>12. CASE SetDone
  BY <1>12 DEF SetDone
<1>13. CASE OwnerStep
  BY <1>13 DEF OwnerStep, WakeWorkers, Join, WakeWaiters,
               NotifyAllNewWork, NotifyWorkDone
<1>14. CASE Stopped \/ UNCHANGED vars
  BY <1>14 DEF Stopped, vars
<1> QED
  BY <1>1, <1>2, <1>3, <1>4, <1>5, <1>6, <1>7, <1>8, <1>9, <1>10, <1>11,
     <1>12, <1>13, <1>14 DEF Next, WorkerStep

\* Every variable of the pool always has its type.
LEMMA Typing == Spec => []BaseType
<1>1. Init => BaseType
  <2> SUFFICES ASSUME Init PROVE BaseType
    OBVIOUS
  <2> USE DEF Init
  <2>1. /\ workOrders \in Seq(Orders)
        /\ submitted \in Seq(Orders)
        /\ started \in Seq(Orders)
    OBVIOUS
  <2>2. /\ activeOrders \in Int
        /\ finished \in SUBSET Orders
    OBVIOUS
  <2>3. done \in BOOLEAN
    OBVIOUS
  <2>4. wpc \in [Workers -> WorkerPCs]
    BY DEF WorkerPCs
  <2>5. order \in [Workers -> Orders \cup {NoOrder}]
    OBVIOUS
  <2>6. cpc \in [Clients -> ClientPCs] /\ timed \in [Clients -> BOOLEAN]
    BY DEF ClientPCs
  <2>7. result \in [Clients -> Results] /\ awaited \in [Clients -> SUBSET Orders]
    BY DEF Results
  <2>8. owner \in OwnerPCs
    BY DEF OwnerPCs
  <2>9. Busy = {}
    BY DEF Busy
  <2> QED
    BY <2>1, <2>2, <2>3, <2>4, <2>5, <2>6, <2>7, <2>8, <2>9 DEF BaseType
<1> QED
  BY <1>1, TypingStep, PTL DEF Spec
-----------------------------------------------------------------------------
\* There are finitely many busy workers, at most as many as there are.
LEMMA BusyFinite == /\ IsFiniteSet(Busy)
                    /\ Cardinality(Busy) \in 0 .. Cardinality(Workers)
<1>1. Busy \subseteq Workers
  BY DEF Busy
<1>2. /\ IsFiniteSet(Busy)
      /\ Cardinality(Busy) <= Cardinality(Workers)
  BY <1>1, FS_Subset, PoolAssumption
<1>3. Cardinality(Busy) \in Nat /\ Cardinality(Workers) \in Nat
  BY <1>2, FS_CardinalityType, PoolAssumption
<1> QED
  BY <1>2, <1>3

\* The set of busy workers gains one by Take, loses one by Finish, and is the
\* same after every other step.
LEMMA BusyStep ==
  ASSUME BaseType, [Next]_vars
  PROVE  \/ \E w \in Workers \ Busy : /\ Busy' = Busy \cup {w}
                                      /\ activeOrders' = activeOrders + 1
         \/ \E w \in Busy : /\ Busy' = Busy \ {w}
                            /\ activeOrders' = activeOrders - 1
         \/ Busy' = Busy /\ activeOrders' = activeOrders
<1> USE DEF BaseType, poolVars, workerVars, clientVars, history, WorkerPCs, Busy
<1>1. ASSUME NEW w \in Workers, Take(w)
      PROVE  /\ w \notin Busy /\ Busy' = Busy \cup {w}
             /\ activeOrders' = activeOrders + 1
  BY <1>1 DEF Take
<1>2. ASSUME NEW w \in Workers, Finish(w)
      PROVE  /\ w \in Busy /\ Busy' = Busy \ {w}
             /\ activeOrders' = activeOrders - 1
  BY <1>2 DEF Finish
<1>3. ASSUME NEW w \in Workers,
             Sleep(w) \/ Exit(w) \/ DoWork(w) \/ DoCallback(w)
      PROVE  Busy' = Busy /\ activeOrders' = activeOrders
  BY <1>3 DEF Sleep, Exit, DoWork, DoCallback
<1>4. ASSUME NEW o \in Orders, AddWork(o)
      PROVE  Busy' = Busy /\ activeOrders' = activeOrders
  BY <1>4 DEF AddWork, NotifyNewWork
<1>5. ASSUME NEW c \in Clients,
             (\E t \in BOOLEAN : Call(c, t)) \/ ClientStep(c) \/ Expire(c)
      PROVE  Busy' = Busy /\ activeOrders' = activeOrders
  BY <1>5 DEF Call, ClientStep, Enter, Resume, ResumeExpired, ResumeAfterFree,
              Expire
<1>6. ASSUME \/ SpuriousWake \/ SetDone \/ OwnerStep \/ Stopped
             \/ UNCHANGED vars
      PROVE  Busy' = Busy /\ activeOrders' = activeOrders
  BY <1>6 DEF SpuriousWake, SetDone, OwnerStep, WakeWorkers, Join, WakeWaiters,
              NotifyAllNewWork, Stopped, vars
<1> QED
  BY <1>1, <1>2, <1>3, <1>4, <1>5, <1>6 DEF Next, WorkerStep

\* The counter always equals the number of workers between taking an order
\* and signing off.
THEOREM CounterIsExact == Spec => []ActiveCount
<1>1. Init => ActiveCount
  <2> SUFFICES ASSUME Init PROVE ActiveCount
    OBVIOUS
  <2>1. Busy = {}
    BY DEF Init, Busy
  <2> QED
    BY <2>1, FS_EmptySet DEF Init, ActiveCount
<1>2. BaseType /\ ActiveCount /\ [Next]_vars => ActiveCount'
  <2> SUFFICES ASSUME BaseType, ActiveCount, [Next]_vars PROVE ActiveCount'
    OBVIOUS
  <2>1. CASE \E w \in Workers \ Busy : /\ Busy' = Busy \cup {w}
                                       /\ activeOrders' = activeOrders + 1
    BY <2>1, BusyFinite, FS_AddElement DEF ActiveCount
  <2>2. CASE \E w \in Busy : /\ Busy' = Busy \ {w}
                             /\ activeOrders' = activeOrders - 1
    BY <2>2, BusyFinite, FS_RemoveElement DEF ActiveCount
  <2>3. CASE Busy' = Busy /\ activeOrders' = activeOrders
    BY <2>3 DEF ActiveCount
  <2> QED
    BY <2>1, <2>2, <2>3, BusyStep
<1> QED
  BY <1>1, <1>2, Typing, PTL DEF Spec

\* The type invariant, with the counter within the number of workers.
THEOREM TypeCorrect == Spec => []TypeOK
<1>1. BaseType /\ ActiveCount => TypeOK
  BY BusyFinite DEF BaseType, ActiveCount, TypeOK
<1> QED
  BY <1>1, Typing, CounterIsExact, PTL
-----------------------------------------------------------------------------
\* While the pool is open and orders are queued, some worker is awake: the
\* notify_one of AddWork suffices, whatever the number of workers.
THEOREM WakeupsAreNotLost == Spec => []NoLostWakeup
<1>1. Init => NoLostWakeup
  BY DEF Init, NoLostWakeup
<1>2. BaseType /\ NoLostWakeup /\ [Next]_vars => NoLostWakeup'
  <2> SUFFICES ASSUME BaseType, NoLostWakeup, [Next]_vars PROVE NoLostWakeup'
    OBVIOUS
  <2> USE DEF BaseType, NoLostWakeup, poolVars, workerVars, clientVars, history
  <2>1. ASSUME NEW w \in Workers, Sleep(w) PROVE NoLostWakeup'
    BY <2>1 DEF Sleep
  <2>2. ASSUME NEW w \in Workers, Exit(w) PROVE NoLostWakeup'
    BY <2>2 DEF Exit
  <2>3. ASSUME NEW w \in Workers,
               Take(w) \/ DoWork(w) \/ DoCallback(w) \/ Finish(w)
        PROVE  NoLostWakeup'
    <3>1. wpc'[w] # "asleep"
      BY <2>3 DEF Take, DoWork, DoCallback, Finish
    <3> QED
      BY <3>1
  <2>4. ASSUME NEW o \in Orders, AddWork(o) PROVE NoLostWakeup'
    <3>1. NotifyNewWork
      BY <2>4 DEF AddWork
    <3>2. CASE \E w \in Workers : wpc[w] = "asleep"
      <4>1. PICK w \in Workers : wpc' = [wpc EXCEPT ![w] = "lock"]
        BY <3>1, <3>2 DEF NotifyNewWork
      <4>2. wpc'[w] # "asleep"
        BY <4>1
      <4> QED
        BY <4>2
    <3>3. CASE \A w \in Workers : wpc[w] # "asleep"
      <4>1. UNCHANGED wpc
        BY <3>1, <3>3 DEF NotifyNewWork
      <4> QED
        BY <3>3, <4>1, PoolAssumption
    <3> QED
      BY <3>2, <3>3
  <2>5. ASSUME NEW c \in Clients,
               (\E t \in BOOLEAN : Call(c, t)) \/ ClientStep(c) \/ Expire(c)
        PROVE  NoLostWakeup'
    BY <2>5 DEF Call, ClientStep, Enter, Resume, ResumeExpired,
                ResumeAfterFree, Expire
  <2>6. CASE SpuriousWake
    BY <2>6 DEF SpuriousWake
  <2>7. CASE SetDone
    BY <2>7 DEF SetDone
  <2>8. CASE OwnerStep
    BY <2>8 DEF OwnerStep, WakeWorkers, Join, WakeWaiters, NotifyAllNewWork
  <2>9. CASE Stopped \/ UNCHANGED vars
    BY <2>9 DEF Stopped, vars
  <2> QED
    BY <2>1, <2>2, <2>3, <2>4, <2>5, <2>6, <2>7, <2>8, <2>9
       DEF Next, WorkerStep
<1> QED
  BY <1>1, <1>2, Typing, PTL DEF Spec

\* Nobody sleeps in WaitForResults once the last order has been signed off,
\* nor beyond the destructor's last notification.
THEOREM WaitersAreNotStranded == Spec => []NoStrandedWaiter
<1>1. Init => NoStrandedWaiter
  BY DEF Init, NoStrandedWaiter
<1>2. BaseType /\ ActiveCount /\ NoStrandedWaiter /\ [Next]_vars
        => NoStrandedWaiter'
  <2> SUFFICES ASSUME BaseType, ActiveCount, NoStrandedWaiter, [Next]_vars
               PROVE  NoStrandedWaiter'
    OBVIOUS
  <2>a. activeOrders \in Nat
    BY BusyFinite DEF ActiveCount
  <2> USE DEF BaseType, NoStrandedWaiter, poolVars, workerVars, clientVars,
              history, ClientPCs
  <2>1. ASSUME NEW w \in Workers,
               Sleep(w) \/ Exit(w) \/ DoWork(w) \/ DoCallback(w)
        PROVE  NoStrandedWaiter'
    BY <2>1 DEF Sleep, Exit, DoWork, DoCallback
  <2>2. ASSUME NEW w \in Workers, Take(w) PROVE NoStrandedWaiter'
    BY <2>2, <2>a DEF Take
  <2>3. ASSUME NEW w \in Workers, Finish(w) PROVE NoStrandedWaiter'
    BY <2>3, <2>a DEF Finish, AllDone, NotifyWorkDone
  <2>4. ASSUME NEW o \in Orders, AddWork(o) PROVE NoStrandedWaiter'
    BY <2>4 DEF AddWork
  <2>5. ASSUME NEW c \in Clients, NEW t \in BOOLEAN, Call(c, t)
        PROVE  NoStrandedWaiter'
    BY <2>5 DEF Call
  <2>6. ASSUME NEW c \in Clients, Enter(c) \/ Resume(c)
        PROVE  NoStrandedWaiter'
    BY <2>6, <2>a DEF Enter, Resume, HaveResults, Return
  <2>7. ASSUME NEW c \in Clients,
               ResumeExpired(c) \/ ResumeAfterFree(c) \/ Expire(c)
        PROVE  NoStrandedWaiter'
    BY <2>7 DEF ResumeExpired, ResumeAfterFree, Expire, Return
  <2>8. CASE SpuriousWake
    BY <2>8 DEF SpuriousWake
  <2>9. CASE SetDone
    BY <2>9 DEF SetDone
  <2>10. CASE OwnerStep
    BY <2>10 DEF OwnerStep, WakeWorkers, Join, WakeWaiters, NotifyWorkDone
  <2>11. CASE Stopped \/ UNCHANGED vars
    BY <2>11 DEF Stopped, vars
  <2> QED
    BY <2>1, <2>2, <2>3, <2>4, <2>5, <2>6, <2>7, <2>8, <2>9, <2>10, <2>11
       DEF Next, WorkerStep, ClientStep
<1> QED
  BY <1>1, <1>2, Typing, CounterIsExact, PTL DEF Spec
-----------------------------------------------------------------------------
\* OrdersConserved is inductive together with two facts about the history:
\* an order is submitted once, and only what was started is finished.
OrdersInv == /\ OrdersConserved
             /\ finished \subseteq Elements(started)
             /\ \A i, j \in DOMAIN submitted : submitted[i] = submitted[j] => i = j

\* Moving the head of the queue to the end of what came before it changes
\* nothing in the whole.
LEMMA MoveHead ==
  ASSUME NEW s \in Seq(Orders), NEW q \in Seq(Orders), q # <<>>
  PROVE  s \o q = Append(s, Head(q)) \o Tail(q)
  OBVIOUS

\* Appending to the second half appends to the whole.
LEMMA AppendLast ==
  ASSUME NEW s \in Seq(Orders), NEW q \in Seq(Orders), NEW o \in Orders
  PROVE  Append(s \o q, o) = s \o Append(q, o)
  OBVIOUS

\* A sequence without duplicates has none after a new element is appended.
LEMMA AppendNew ==
  ASSUME NEW s \in Seq(Orders), NEW o \in Orders, o \notin Elements(s),
         \A i, j \in DOMAIN s : s[i] = s[j] => i = j
  PROVE  \A i, j \in DOMAIN Append(s, o) :
           Append(s, o)[i] = Append(s, o)[j] => i = j
<1> DEFINE a == Append(s, o)
<1>1. /\ DOMAIN a = 1 .. Len(s) + 1
      /\ a[Len(s) + 1] = o
      /\ \A i \in DOMAIN s : a[i] = s[i]
      /\ DOMAIN s = 1 .. Len(s)
      /\ Len(s) \in Nat
  OBVIOUS
<1>2. \A i \in DOMAIN s : a[i] # o
  BY <1>1 DEF Elements
<1>3. SUFFICES ASSUME NEW i \in DOMAIN a, NEW j \in DOMAIN a, a[i] = a[j]
               PROVE  i = j
  OBVIOUS
<1> HIDE DEF a
<1>4. CASE i \in DOMAIN s /\ j \in DOMAIN s
  BY <1>1, <1>3, <1>4
<1>5. CASE i \notin DOMAIN s \/ j \notin DOMAIN s
  BY <1>1, <1>2, <1>3, <1>5
<1> QED
  BY <1>4, <1>5

\* Appending adds one element.
LEMMA AppendElements ==
  ASSUME NEW s \in Seq(Orders), NEW o \in Orders
  PROVE  Elements(Append(s, o)) = Elements(s) \cup {o}
<1>1. Elements(Append(s, o)) \subseteq Elements(s) \cup {o}
  BY DEF Elements
<1>2. Elements(s) \subseteq Elements(Append(s, o))
  <2> SUFFICES ASSUME NEW i \in DOMAIN s PROVE s[i] \in Elements(Append(s, o))
    BY DEF Elements
  <2>1. i \in DOMAIN Append(s, o) /\ Append(s, o)[i] = s[i]
    OBVIOUS
  <2> QED
    BY <2>1 DEF Elements
<1>3. o \in Elements(Append(s, o))
  <2>1. Len(s) + 1 \in DOMAIN Append(s, o) /\ Append(s, o)[Len(s) + 1] = o
    OBVIOUS
  <2> QED
    BY <2>1 DEF Elements
<1> QED
  BY <1>1, <1>2, <1>3

\* No order is lost, duplicated or overtaken.
THEOREM OrdersAreConserved == Spec => []OrdersInv
<1>1. Init => OrdersInv
  BY DEF Init, OrdersInv, OrdersConserved, Running, Elements
<1>2. BaseType /\ OrdersInv /\ [Next]_vars => OrdersInv'
  <2> SUFFICES ASSUME BaseType, OrdersInv, [Next]_vars PROVE OrdersInv'
    OBVIOUS
  <2> USE DEF BaseType, OrdersInv, OrdersConserved, poolVars, workerVars,
              clientVars, history
  <2>1. ASSUME UNCHANGED <<workOrders, order, history, Running>>
        PROVE  OrdersInv'
    BY <2>1 DEF Elements
  <2>2. ASSUME NEW w \in Workers,
               Sleep(w) \/ Exit(w) \/ DoWork(w) \/ Finish(w)
        PROVE  UNCHANGED <<workOrders, order, history, Running>>
    BY <2>2 DEF Sleep, Exit, DoWork, Finish, Running
  <2>3. ASSUME NEW w \in Workers, Take(w) PROVE OrdersInv'
    <3> DEFINE o == Head(workOrders)
    <3>1. /\ workOrders # <<>>
          /\ workOrders' = Tail(workOrders)
          /\ started' = Append(started, o)
          /\ order' = [order EXCEPT ![w] = o]
          /\ UNCHANGED <<submitted, finished>>
      BY <2>3 DEF Take, CanTake
    <3>2. w \notin Running /\ Running' = Running \cup {w}
      BY <2>3 DEF Take, Running
    <3>3. o \in Orders
      BY <3>1
    <3>4. o \notin Elements(started)
      <4> SUFFICES ASSUME NEW i \in DOMAIN started, started[i] = o PROVE FALSE
        BY DEF Elements
      <4>1. /\ i \in DOMAIN submitted
            /\ Len(started) + 1 \in DOMAIN submitted
            /\ submitted[i] = started[i]
            /\ submitted[Len(started) + 1] = o
        BY <3>1
      <4>2. i # Len(started) + 1
        OBVIOUS
      <4>3. submitted[i] = submitted[Len(started) + 1]
        BY <4>1
      <4> QED
        BY <4>1, <4>2, <4>3 DEF OrdersInv
    <3>5. Elements(started') = Elements(started) \cup {o}
      BY <3>1, <3>3, AppendElements
    <3>6. submitted' = started' \o workOrders'
      BY <3>1, MoveHead
    <3>7. \A v \in Running' : order'[v] \in Elements(started') \ finished'
      BY <3>1, <3>2, <3>4, <3>5
    <3>8. \A p \in Elements(started') \ finished' :
            \E v \in Running' : order'[v] = p
      <4>1. w \in Running' /\ order'[w] = o
        BY <3>1, <3>2 DEF Running
      <4>2. \A v \in Running : v \in Running' /\ order'[v] = order[v]
        BY <3>1, <3>2 DEF Running
      <4> SUFFICES ASSUME NEW p \in Elements(started') \ finished'
                   PROVE  \E v \in Running' : order'[v] = p
        OBVIOUS
      <4>3. CASE p = o
        BY <4>1, <4>3
      <4>4. CASE p # o
        <5>1. p \in Elements(started) \ finished
          BY <3>1, <3>5, <4>4
        <5> QED
          BY <4>2, <5>1
      <4> QED
        BY <4>3, <4>4
    <3>9. \A u, v \in Running' : order'[u] = order'[v] => u = v
      BY <3>1, <3>2, <3>4 DEF Running
    <3> QED
      BY <3>1, <3>5, <3>6, <3>7, <3>8, <3>9
  <2>4. ASSUME NEW w \in Workers, DoCallback(w) PROVE OrdersInv'
    <3>1. /\ finished' = finished \cup {order[w]}
          /\ UNCHANGED <<workOrders, order, submitted, started>>
      BY <2>4 DEF DoCallback
    <3>2. w \in Running /\ Running' = Running \ {w}
      BY <2>4 DEF DoCallback, Running
    <3>3. order[w] \in Elements(started)
      BY <3>2
    <3>4. Elements(started') = Elements(started)
      BY <3>1 DEF Elements
    <3> QED
      BY <3>1, <3>2, <3>3, <3>4
  <2>5. ASSUME NEW o \in Orders, AddWork(o) PROVE OrdersInv'
    <3>1. /\ o \notin Elements(submitted)
          /\ workOrders' = Append(workOrders, o)
          /\ submitted' = Append(submitted, o)
          /\ UNCHANGED <<order, started, finished>>
      BY <2>5 DEF AddWork
    <3>2. UNCHANGED Running
      BY <2>5 DEF AddWork, NotifyNewWork, Running
    <3>3. UNCHANGED Elements(started)
      BY <3>1 DEF Elements
    <3>4. PICK s \in Seq(Orders), q \in Seq(Orders), a \in Seq(Orders) :
            s = started /\ q = workOrders /\ a = submitted
      OBVIOUS
    <3>5. /\ a = s \o q /\ o \notin Elements(a)
          /\ \A i, j \in DOMAIN a : a[i] = a[j] => i = j
      BY <3>1, <3>4
    <3>6. Append(s \o q, o) = s \o Append(q, o)
      BY AppendLast
    <3>7. \A i, j \in DOMAIN Append(a, o) : Append(a, o)[i] = Append(a, o)[j] => i = j
      BY <3>5, AppendNew, Zenon
    <3>8. submitted' = Append(a, o) /\ started' = s /\ workOrders' = Append(q, o)
      BY <3>1, <3>4
    <3>9. submitted' = started' \o workOrders'
      BY <3>5, <3>6, <3>8
    <3>10. \A i, j \in DOMAIN submitted' : submitted'[i] = submitted'[j] => i = j
      BY <3>7, <3>8, Zenon
    <3> QED
      BY <3>1, <3>2, <3>3, <3>9, <3>10
  <2>6. ASSUME NEW c \in Clients,
               (\E t \in BOOLEAN : Call(c, t)) \/ ClientStep(c) \/ Expire(c)
        PROVE  UNCHANGED <<workOrders, order, history, Running>>
    BY <2>6 DEF Call, ClientStep, Enter, Resume, ResumeExpired,
                ResumeAfterFree, Expire, Running
  <2>7. ASSUME \/ SpuriousWake \/ SetDone \/ OwnerStep \/ Stopped
               \/ UNCHANGED vars
        PROVE  UNCHANGED <<workOrders, order, history, Running>>
    BY <2>7 DEF SpuriousWake, SetDone, OwnerStep, WakeWorkers, Join,
                WakeWaiters, NotifyAllNewWork, Stopped, vars, Running
  <2> QED
    BY <2>1, <2>2, <2>3, <2>4, <2>5, <2>6, <2>7 DEF Next, WorkerStep
<1> QED
  BY <1>1, <1>2, Typing, PTL DEF Spec

\* For any threads and orders: AddWork's orders leave the queue first come
\* first served, and each one taken is finished or held by exactly one worker.
THEOREM OrdersConservedAlways == Spec => []OrdersConserved
  BY OrdersAreConserved, PTL DEF OrdersInv
-----------------------------------------------------------------------------
\* What a call awaits has been submitted; a timed call that returned true
\* leaves nothing of it unfinished.
TimedWaitInv == /\ TimedWaitCorrect
                /\ \A c \in Clients : awaited[c] \subseteq Elements(submitted)

\* With the queue and the counter both at zero every order submitted is
\* finished: the lambda haveResults tests the right thing.
LEMMA NothingLeft ==
  ASSUME BaseType, ActiveCount, OrdersInv, workOrders = <<>>, activeOrders = 0
  PROVE  Elements(submitted) \subseteq finished
<1>1. Busy = {}
  BY BusyFinite, FS_EmptySet DEF ActiveCount
<1>2. Running = {}
  BY <1>1 DEF Busy, Running
<1>3. submitted = started
  BY DEF BaseType, OrdersInv, OrdersConserved
<1> QED
  BY <1>2, <1>3 DEF OrdersInv, OrdersConserved

\* A timed WaitForResults never reports unfinished work as done.
THEOREM TimedWaitsAreCorrect == Spec => []TimedWaitInv
<1>1. Init => TimedWaitInv
  BY DEF Init, TimedWaitInv, TimedWaitCorrect
<1>2. BaseType /\ ActiveCount /\ OrdersInv /\ TimedWaitInv /\ [Next]_vars
        => TimedWaitInv'
  <2> SUFFICES ASSUME BaseType, ActiveCount, OrdersInv, TimedWaitInv,
                      [Next]_vars
               PROVE  TimedWaitInv'
    OBVIOUS
  <2> USE DEF TimedWaitInv, TimedWaitCorrect, poolVars, workerVars,
              clientVars, history
  <2>1. ASSUME UNCHANGED <<timed, result, awaited, history>> PROVE TimedWaitInv'
    BY <2>1 DEF Elements
  <2>2. ASSUME NEW w \in Workers, Sleep(w) \/ Exit(w) \/ DoWork(w) \/ Finish(w)
        PROVE  UNCHANGED <<timed, result, awaited, history>>
    BY <2>2 DEF Sleep, Exit, DoWork, Finish
  <2>3. ASSUME NEW w \in Workers, Take(w) \/ DoCallback(w) PROVE TimedWaitInv'
    <3>1. /\ UNCHANGED <<timed, result, awaited, submitted>>
          /\ finished \subseteq finished'
      BY <2>3 DEF Take, DoCallback
    <3> QED
      BY <3>1 DEF Elements
  <2>4. ASSUME NEW o \in Orders, AddWork(o) PROVE TimedWaitInv'
    <3>1. /\ UNCHANGED <<timed, result, awaited, finished>>
          /\ submitted' = Append(submitted, o)
      BY <2>4 DEF AddWork
    <3>2. Elements(submitted') = Elements(submitted) \cup {o}
      BY <3>1, AppendElements DEF BaseType
    <3> QED
      BY <3>1, <3>2
  <2>5. ASSUME NEW c \in Clients, NEW t \in BOOLEAN, Call(c, t)
        PROVE  TimedWaitInv'
    <3>1. Elements(submitted') = Elements(submitted)
      BY <2>5 DEF Call, Elements
    <3> QED
      BY <2>5, <3>1 DEF Call, BaseType
  <2>6. ASSUME NEW c \in Clients, Expire(c) PROVE TimedWaitInv'
    <3>1. UNCHANGED <<timed, result, awaited, history>>
      BY <2>6 DEF Expire
    <3> QED
      BY <2>1, <3>1
  <2>7. ASSUME NEW c \in Clients, ClientStep(c) PROVE TimedWaitInv'
    <3>1. /\ UNCHANGED <<timed, awaited, history>>
          /\ \A d \in Clients \ {c} : result'[d] = result[d]
      BY <2>7 DEF ClientStep, Enter, Resume, ResumeExpired, ResumeAfterFree,
                  Return, BaseType
    <3>2. UNCHANGED Elements(submitted)
      BY <3>1 DEF Elements
    <3>3. ASSUME timed[c], result'[c] = "true"
          PROVE  result[c] = "true" \/ (HaveResults /\ ~done)
      BY <2>7, <3>3 DEF ClientStep, Enter, Resume, ResumeExpired,
                        ResumeAfterFree, Return, Bool, BaseType
    <3>4. ASSUME timed[c], result'[c] = "true" PROVE awaited[c] \subseteq finished
      BY <3>3, <3>4, NothingLeft DEF HaveResults
    <3> QED
      BY <3>1, <3>2, <3>4
  <2>8. ASSUME \/ SpuriousWake \/ SetDone \/ OwnerStep \/ Stopped
               \/ UNCHANGED vars
        PROVE  UNCHANGED <<timed, result, awaited, history>>
    BY <2>8 DEF SpuriousWake, SetDone, OwnerStep, WakeWorkers, Join,
                WakeWaiters, Stopped, vars
  <2> QED
    BY <2>1, <2>2, <2>3, <2>4, <2>5, <2>6, <2>7, <2>8 DEF Next, WorkerStep
<1> QED
  BY <1>1, <1>2, Typing, CounterIsExact, OrdersAreConserved, PTL DEF Spec

\* WaitForResults with a timeout, whose wait has the predicate the untimed
\* one lacks, returns true only when every order submitted before the call
\* has run to its end.
THEOREM TimedWaitCorrectAlways == Spec => []TimedWaitCorrect
  BY TimedWaitsAreCorrect, PTL DEF TimedWaitInv
-----------------------------------------------------------------------------
\* What the refinement needs to know of the destructor: the flag is set by its
\* first step, so that SetDone closes a pool that was open.
OpenInv == owner = "alive" => ~done

\* The flag is down for as long as nobody destroys the pool.
LEMMA OpenUntilDestroyed == Spec => []OpenInv
<1>1. Init => OpenInv
  BY DEF Init, OpenInv
<1>2. OpenInv /\ [Next]_vars => OpenInv'
  <2> SUFFICES ASSUME OpenInv, [Next]_vars PROVE OpenInv'
    OBVIOUS
  <2> USE DEF OpenInv, poolVars, workerVars, clientVars, history
  <2>1. ASSUME NEW w \in Workers, WorkerStep(w) PROVE UNCHANGED <<owner, done>>
    BY <2>1 DEF WorkerStep, Sleep, Exit, Take, DoWork, DoCallback, Finish
  <2>2. ASSUME NEW o \in Orders, AddWork(o) PROVE UNCHANGED <<owner, done>>
    BY <2>2 DEF AddWork
  <2>3. ASSUME NEW c \in Clients,
               (\E t \in BOOLEAN : Call(c, t)) \/ ClientStep(c) \/ Expire(c)
        PROVE  UNCHANGED <<owner, done>>
    BY <2>3 DEF Call, ClientStep, Enter, Resume, ResumeExpired,
                ResumeAfterFree, Expire
  <2>4. CASE SpuriousWake \/ Stopped \/ UNCHANGED vars
    BY <2>4 DEF SpuriousWake, Stopped, vars
  <2>5. CASE SetDone \/ OwnerStep
    BY <2>5 DEF SetDone, OwnerStep, WakeWorkers, Join, WakeWaiters
  <2> QED
    BY <2>1, <2>2, <2>3, <2>4, <2>5 DEF Next
<1> QED
  BY <1>1, <1>2, PTL DEF Spec

\* While a worker goes for an order, fewer orders run than there are workers.
LEMMA RoomForOneMore ==
  ASSUME NEW w \in Workers, w \notin Running
  PROVE  Cardinality({order[v] : v \in Running}) < Cardinality(Workers)
<1> DEFINE S == Workers \ {w}
           image == [v \in Running |-> order[v]]
           T == {order[v] : v \in Running}
<1>1. /\ IsFiniteSet(S)
      /\ Cardinality(S) = Cardinality(Workers) - 1
      /\ Cardinality(Workers) \in Nat
  BY PoolAssumption, FS_RemoveElement, FS_CardinalityType
<1>2. Running \in SUBSET S
  BY DEF Running
<1>3. IsFiniteSet(Running) /\ Cardinality(Running) <= Cardinality(S)
  BY <1>1, <1>2, FS_Subset
<1>4. image \in Surjection(Running, T)
  BY DEF Surjection
<1>5. Cardinality(T) <= Cardinality(Running)
  BY <1>3, <1>4, FS_Surjection
<1>6. Cardinality(Running) \in Nat /\ Cardinality(T) \in Nat
  BY <1>3, <1>4, FS_Surjection, FS_CardinalityType
<1> HIDE DEF S, T
<1>7. Cardinality(T) < Cardinality(Workers)
  BY <1>1, <1>3, <1>5, <1>6
<1> QED
  BY <1>7 DEF T

\* A step that leaves the queue, the orders at work and the flag alone is no
\* step of the service.
LEMMA ServiceStutters ==
  ASSUME UNCHANGED <<workOrders, finished, done, order, Running>>
  PROVE  UNCHANGED Service!vars
  BY DEF Service!vars

\* Every step of the pool is a step of the service it implements, or none.
LEMMA ServiceStep ==
  ASSUME BaseType, OrdersInv, OpenInv, [Next]_vars
  PROVE  [Service!Next]_(Service!vars)
<1> USE DEF BaseType, poolVars, workerVars, clientVars, history
<1>1. ASSUME NEW w \in Workers, Take(w) PROVE Service!Start
  <2>1. /\ ~done /\ workOrders # <<>>
        /\ workOrders' = Tail(workOrders)
        /\ order' = [order EXCEPT ![w] = Head(workOrders)]
        /\ UNCHANGED <<finished, done>>
    BY <1>1 DEF Take, CanTake
  <2>2. w \notin Running /\ Running' = Running \cup {w}
    BY <1>1 DEF Take, Running
  <2>3. \A v \in Running : order'[v] = order[v]
    BY <2>1, <2>2 DEF Running
  <2>4. order'[w] = Head(workOrders)
    BY <2>1
  <2>5. {order'[v] : v \in Running'} =
          {order[v] : v \in Running} \cup {Head(workOrders)}
    BY <2>2, <2>3, <2>4
  <2>6. Cardinality({order[v] : v \in Running}) < Cardinality(Workers)
    BY <2>2, RoomForOneMore
  <2>7. Service!Cardinality({order[v] : v \in Running}) < Cardinality(Workers)
    BY <2>6 DEF Cardinality, Service!Cardinality
  <2> HIDE DEF BaseType
  <2> QED
    BY <2>1, <2>5, <2>7, Zenon DEF Service!Start
<1>2. ASSUME NEW w \in Workers, DoCallback(w)
      PROVE  \E o \in Orders : Service!Complete(o)
  <2>1. /\ finished' = finished \cup {order[w]}
        /\ UNCHANGED <<workOrders, order, done>>
    BY <1>2 DEF DoCallback
  <2>2. w \in Running /\ Running' = Running \ {w}
    BY <1>2 DEF DoCallback, Running
  <2>3. order[w] \in Orders
    BY <2>2 DEF Running, Busy
  <2>4. \A v \in Running : order[v] = order[w] => v = w
    BY <2>2 DEF OrdersInv, OrdersConserved
  <2>5. {order'[v] : v \in Running'} = {order[v] : v \in Running} \ {order[w]}
    BY <2>1, <2>2, <2>4
  <2>6. order[w] \in {order[v] : v \in Running}
    BY <2>2
  <2>7. PICK o \in Orders : o = order[w]
    BY <2>3
  <2> HIDE DEF BaseType
  <2>8. Service!Complete(o)
    BY <2>1, <2>5, <2>6, <2>7 DEF Service!Complete
  <2> QED
    BY <2>8
<1>3. ASSUME NEW o \in Orders, AddWork(o) PROVE Service!Submit(o)
  <2>1. /\ o \notin Elements(submitted)
        /\ workOrders' = Append(workOrders, o)
        /\ UNCHANGED <<order, finished, started, done>>
    BY <1>3 DEF AddWork
  <2>2. UNCHANGED Running
    BY <1>3 DEF AddWork, NotifyNewWork, Running
  <2>3. Elements(workOrders) \subseteq Elements(submitted)
    <3>1. submitted = started \o workOrders
      BY DEF OrdersInv, OrdersConserved
    <3>2. \A i \in DOMAIN workOrders :
             /\ Len(started) + i \in DOMAIN submitted
             /\ submitted[Len(started) + i] = workOrders[i]
      BY <3>1
    <3> QED
      BY <3>2 DEF Elements
  <2>4. Elements(started) \subseteq Elements(submitted)
    <3>1. submitted = started \o workOrders
      BY DEF OrdersInv, OrdersConserved
    <3>2. \A i \in DOMAIN started :
             i \in DOMAIN submitted /\ submitted[i] = started[i]
      BY <3>1
    <3> QED
      BY <3>2 DEF Elements
  <2>5. {order[v] : v \in Running} \cup finished \subseteq Elements(started)
    BY DEF OrdersInv, OrdersConserved
  <2>6. o \notin Service!Known
    BY <2>1, <2>3, <2>4, <2>5 DEF Service!Known, Elements
  <2> QED
    BY <2>1, <2>2, <2>6 DEF Service!Submit
<1>4. CASE SetDone
  <2>1. ~done /\ done' = TRUE /\ UNCHANGED <<workOrders, finished, order, wpc>>
    BY <1>4 DEF SetDone, OpenInv
  <2>2. UNCHANGED Running
    BY <2>1 DEF Running
  <2> QED
    BY <2>1, <2>2 DEF Service!Close, Service!Next
<1>5. ASSUME NEW w \in Workers, Sleep(w) \/ Exit(w) \/ DoWork(w) \/ Finish(w)
      PROVE  UNCHANGED <<workOrders, finished, done, order, Running>>
  BY <1>5 DEF Sleep, Exit, DoWork, Finish, Running
<1>6. ASSUME NEW c \in Clients,
             (\E t \in BOOLEAN : Call(c, t)) \/ ClientStep(c) \/ Expire(c)
      PROVE  UNCHANGED <<workOrders, finished, done, order, Running>>
  BY <1>6 DEF Call, ClientStep, Enter, Resume, ResumeExpired,
              ResumeAfterFree, Expire, Running
<1>7. ASSUME SpuriousWake \/ OwnerStep \/ Stopped \/ UNCHANGED vars
      PROVE  UNCHANGED <<workOrders, finished, done, order, Running>>
  BY <1>7 DEF SpuriousWake, OwnerStep, WakeWorkers, Join, WakeWaiters,
              NotifyAllNewWork, Stopped, vars, Running
<1> HIDE DEF BaseType, poolVars, workerVars, clientVars, history
<1>8. ASSUME NEW w \in Workers, WorkerStep(w)
      PROVE  [Service!Next]_(Service!vars)
  <2>1. CASE Take(w)
    BY <1>1, <2>1 DEF Service!Next
  <2>2. CASE DoCallback(w)
    BY <1>2, <2>2 DEF Service!Next
  <2>3. CASE Sleep(w) \/ Exit(w) \/ DoWork(w) \/ Finish(w)
    BY <1>5, <2>3, ServiceStutters
  <2> QED
    BY <1>8, <2>1, <2>2, <2>3 DEF WorkerStep
<1>9. ASSUME NEW o \in Orders, AddWork(o) PROVE Service!Next
  BY <1>3, <1>9 DEF Service!Next
<1>10. ASSUME NEW c \in Clients,
             (\E t \in BOOLEAN : Call(c, t)) \/ ClientStep(c) \/ Expire(c)
      PROVE  UNCHANGED Service!vars
  BY <1>6, <1>10, ServiceStutters
<1>11. ASSUME SpuriousWake \/ OwnerStep \/ Stopped \/ UNCHANGED vars
      PROVE  UNCHANGED Service!vars
  BY <1>7, <1>11, ServiceStutters
<1> QED
  BY <1>4, <1>8, <1>9, <1>10, <1>11 DEF Next

\* The pool implements the service its header promises: orders start in the
\* order of AddWork, no more at a time than there are workers, each is
\* finished once, and none starts once the destructor has begun.
THEOREM PoolImplementsService == Spec => ImplementsService
<1>1. Init => Service!Init
  BY DEF Init, Service!Init, Running
<1>2. BaseType /\ OrdersInv /\ OpenInv /\ [Next]_vars
        => [Service!Next]_(Service!vars)
  BY ServiceStep
<1> QED
  BY <1>1, <1>2, Typing, OrdersAreConserved, OpenUntilDestroyed, PTL
     DEF Spec, Service!Spec, ImplementsService

-----------------------------------------------------------------------------
(***************************************************************************)
(* EventT, for any number of subscribers and any depth of nested signals:  *)
(* its loops survive what their callbacks do, and to its subscribers it is *)
(* Multicast.  Both hold for clients that do not drop a connection twice   *)
(* and do not signal an event from a callback whose own connection has     *)
(* been dropped, which the code leaves to them.                            *)
(***************************************************************************)

\* What a client must keep to.
Careful == ~DropsTwice /\ ~CarelessNesting

-----------------------------------------------------------------------------
(* Sets of ids and sequences of them.                                      *)

\* A set of natural numbers has a least one,
LEMMA LeastId ==
  ASSUME NEW S \in SUBSET Nat, S # {}
  PROVE  Min(S) \in S /\ \A y \in S : Min(S) <= y
<1>1. PICK x \in S : \A y \in S : <<y, x>> \notin OpToRel(<, Nat)
  BY NatLessThanWellFounded, WFMin, Zenon
<1>2. \A y \in S : x <= y
  <2> SUFFICES ASSUME NEW y \in S, y < x PROVE FALSE
    OBVIOUS
  <2>1. <<y, x>> \in OpToRel(<, Nat)
    BY DEF OpToRel
  <2> QED
    BY <1>1, <2>1
<1> QED
  BY <1>1, <1>2 DEF Min

\* and if it is bounded a largest one, which is the least of its bounds.
LEMMA LargestId ==
  ASSUME NEW S \in SUBSET Nat, S # {}, NEW b \in Nat, \A y \in S : y <= b
  PROVE  Max(S) \in S /\ \A y \in S : y <= Max(S)
<1> DEFINE Bounds == {c \in Nat : \A y \in S : y <= c}
<1>1. Bounds \in SUBSET Nat /\ b \in Bounds
  OBVIOUS
<1>2. PICK m \in Bounds : \A c \in Bounds : m <= c
  BY <1>1, LeastId
<1>3. m \in S
  <2> SUFFICES ASSUME m \notin S PROVE FALSE
    OBVIOUS
  <2>1. \A y \in S : y \in Nat /\ y # m /\ y <= m
    BY <1>2
  <2>2. PICK y \in S : TRUE
    OBVIOUS
  <2>3. m \in Nat /\ m - 1 \in Nat /\ ~(m <= m - 1)
    BY <2>1, <2>2
  <2>4. \A z \in S : z <= m - 1
    BY <2>1, <2>3
  <2>5. m - 1 \in Bounds
    BY <2>3, <2>4
  <2> HIDE DEF Bounds
  <2> QED
    BY <1>2, <2>3, <2>5
<1> QED
  BY <1>2, <1>3 DEF Max

\* The elements of a sequence without repetition are as many as it is long.
Distinct(q) == \A j, k \in DOMAIN q : q[j] = q[k] => j = k

LEMMA DistinctAreCounted ==
  ASSUME NEW q \in Seq(Nat), Distinct(q)
  PROVE  Cardinality(Listed(q)) = Len(q)
<1>1. q \in Bijection(1 .. Len(q), Listed(q))
  BY DEF Distinct, Listed, Bijection, Injection, Surjection, IsInjective
<1>2. ExistsBijection(1 .. Len(q), Listed(q))
  BY <1>1, Zenon DEF ExistsBijection
<1>3. Len(q) \in Nat
  OBVIOUS
<1> QED
  BY <1>2, <1>3, FS_CountingElements

LEMMA AppendedElements ==
  ASSUME NEW q \in Seq(Nat), NEW i \in Nat
  PROVE  /\ Append(q, i) \in Seq(Nat) /\ Listed(Append(q, i)) = Listed(q) \cup {i}
         /\ Distinct(q) /\ i \notin Listed(q) => Distinct(Append(q, i))
<1> DEFINE r == Append(q, i)
<1>1. /\ r \in Seq(Nat) /\ Len(q) \in Nat /\ DOMAIN q = 1 .. Len(q)
      /\ DOMAIN r = DOMAIN q \cup {Len(q) + 1} /\ r[Len(q) + 1] = i
      /\ \A k \in DOMAIN q : r[k] = q[k]
  OBVIOUS
<1> HIDE DEF r
<1>2. Listed(r) = Listed(q) \cup {i}
  BY <1>1 DEF Listed
<1>3. ASSUME Distinct(q), i \notin Listed(q) PROVE Distinct(r)
  BY <1>1, <1>3 DEF Distinct, Listed
<1> QED
  BY <1>1, <1>2, <1>3 DEF r

-----------------------------------------------------------------------------
(* The map, the iterators and the handles.                                 *)

\* There is a largest id.
IdsInv == \E b \in Nat : \A i \in DOMAIN connections : i \in Nat /\ i <= b

\* The entries on are those of the subscribers, each under the id in its handle.
MapInv ==
  /\ \A i \in DOMAIN connections : connections[i] \in Entry
  /\ DOMAIN wants = Subscribers /\ DOMAIN handle = Subscribers
  /\ \A s \in Subscribers : wants[s] =>
       /\ handle[s] \in DOMAIN connections
       /\ connections[handle[s]] = [on |-> TRUE, callback |-> s]
  /\ \A i \in DOMAIN connections : connections[i].on =>
       wants[connections[i].callback] /\ handle[connections[i].callback] = i

\* The entries off are those to be removed, each once.
RemovalsInv ==
  /\ connectionsToRemove \in Seq(Nat) /\ Distinct(connectionsToRemove)
  /\ Listed(connectionsToRemove) = {i \in DOMAIN connections : ~connections[i].on}

\* Loops stand on entries.
LoopsInv ==
  /\ frames \in Seq(Nat) /\ \A k \in DOMAIN frames : frames[k] \in DOMAIN connections
  /\ ~broken

EventInv == IdsInv /\ MapInv /\ RemovalsInv /\ LoopsInv
-----------------------------------------------------------------------------
(* The steps.                                                              *)

\* The new id is larger than all in use.
LEMMA NewIdIsNew ==
  ASSUME IdsInv
  PROVE  NewId \in Nat /\ \A i \in DOMAIN connections : i \in Nat /\ i < NewId
<1> PICK D : D = DOMAIN connections
  OBVIOUS
<1>1. PICK b \in Nat : \A i \in D : i \in Nat /\ i <= b
  BY DEF IdsInv
<1>2. CASE D = {}
  BY <1>2 DEF NewId
<1>3. CASE D # {}
  <2>1. D \in SUBSET Nat /\ \A i \in D : i <= b
    BY <1>1
  <2>2. Max(D) \in D /\ \A i \in D : i <= Max(D)
    BY <1>3, <2>1, LargestId
  <2>3. NewId = Max(D) + 1
    BY <1>3 DEF NewId
  <2> QED
    BY <2>1, <2>2, <2>3
<1> QED
  BY <1>2, <1>3

\* What Connect does.
Connected(s, id) ==
  /\ id \in Nat /\ \A i \in DOMAIN connections : i \in Nat /\ i < id
  /\ DOMAIN connections' = DOMAIN connections \cup {id}
  /\ connections'[id] = [on |-> TRUE, callback |-> s]
  /\ \A i \in DOMAIN connections : connections'[i] = connections[i]
  /\ ~wants[s] /\ wants' = [wants EXCEPT ![s] = TRUE]

LEMMA ConnectStep ==
  ASSUME EventInv, NEW s \in Subscribers, Connect(s)
  PROVE  EventInv' /\ Connected(s, NewId)
<1> PICK id : id = NewId
  OBVIOUS
<1>1. id \in Nat /\ \A i \in DOMAIN connections : i \in Nat /\ i < id
  BY NewIdIsNew DEF EventInv
<1>2. id \notin DOMAIN connections
  BY <1>1
<1>3. /\ DOMAIN connections' = DOMAIN connections \cup {id}
      /\ connections'[id] = [on |-> TRUE, callback |-> s]
      /\ \A i \in DOMAIN connections : connections'[i] = connections[i]
  BY <1>2 DEF Connect
<1>4. /\ handle[s] = NoHandle /\ handle' = [handle EXCEPT ![s] = id]
      /\ wants' = [wants EXCEPT ![s] = TRUE]
      /\ connectionsToRemove' = connectionsToRemove /\ frames' = frames /\ broken' = broken
  BY DEF Connect
<1>5. ~wants[s]
  <2>1. NoHandle \notin DOMAIN connections
    BY <1>1 DEF NoHandle
  <2> QED
    BY <1>4, <2>1 DEF EventInv, MapInv
<1>6. IdsInv'
  BY <1>1, <1>3 DEF IdsInv
<1>7. MapInv'
  <2>1. DOMAIN wants = Subscribers /\ DOMAIN handle = Subscribers
    BY DEF EventInv, MapInv
  <2>2. \A i \in DOMAIN connections' : connections'[i] \in Entry
    <3>1. \A i \in DOMAIN connections : connections[i] \in Entry
      BY DEF EventInv, MapInv
    <3>2. [on |-> TRUE, callback |-> s] \in Entry
      BY DEF Entry
    <3> QED
      BY <1>3, <3>1, <3>2
  <2>3. ASSUME NEW t \in Subscribers, wants'[t]
        PROVE  /\ handle'[t] \in DOMAIN connections'
               /\ connections'[handle'[t]] = [on |-> TRUE, callback |-> t]
    <3>1. CASE t = s
      BY <1>3, <1>4, <2>1, <3>1
    <3>2. CASE t # s
      <4>1. wants[t] /\ handle'[t] = handle[t]
        BY <1>4, <2>1, <2>3, <3>2
      <4>2. handle[t] \in DOMAIN connections /\ connections[handle[t]] = [on |-> TRUE, callback |-> t]
        BY <4>1 DEF EventInv, MapInv
      <4> QED
        BY <1>3, <4>1, <4>2
    <3> QED
      BY <3>1, <3>2
  <2>4. ASSUME NEW i \in DOMAIN connections', connections'[i].on
        PROVE  wants'[connections'[i].callback] /\ handle'[connections'[i].callback] = i
    <3>1. CASE i = id
      BY <1>3, <1>4, <2>1, <3>1
    <3>2. CASE i \in DOMAIN connections
      <4>1. PICK c : c = connections[i].callback
        OBVIOUS
      <4>2. connections[i].on /\ connections[i] \in Entry /\ connections'[i] = connections[i]
        BY <1>3, <2>4, <3>2 DEF EventInv, MapInv
      <4>3. c \in Subscribers /\ wants[c] /\ handle[c] = i
        BY <3>2, <4>1, <4>2 DEF EventInv, MapInv, Entry
      <4>4. c # s
        BY <1>5, <4>3
      <4> QED
        BY <1>4, <2>1, <4>1, <4>2, <4>3, <4>4
    <3> QED
      BY <1>3, <3>1, <3>2
  <2> QED
    BY <1>4, <2>1, <2>2, <2>3, <2>4 DEF MapInv
<1>8. RemovalsInv'
  <2>1. {i \in DOMAIN connections' : ~connections'[i].on} = {i \in DOMAIN connections : ~connections[i].on}
    BY <1>2, <1>3
  <2> QED
    BY <1>4, <2>1 DEF EventInv, RemovalsInv
<1>9. LoopsInv'
  BY <1>3, <1>4 DEF EventInv, LoopsInv
<1> QED
  BY <1>1, <1>3, <1>4, <1>5, <1>6, <1>7, <1>8, <1>9 DEF EventInv, Connected

\* What it does to drop a handle or to disconnect by its id.
Disconnected(s, id) ==
  /\ id \in DOMAIN connections /\ connections[id] = [on |-> TRUE, callback |-> s]
  /\ DOMAIN connections' = DOMAIN connections
  /\ connections'[id] = [on |-> FALSE, callback |-> s]
  /\ \A i \in DOMAIN connections \ {id} : connections'[i] = connections[i]
  /\ wants[s] /\ wants' = [wants EXCEPT ![s] = FALSE]

LEMMA DisconnectStep ==
  ASSUME Careful, EventInv, NEW s \in Subscribers, MayUse(s), Disconnect(handle[s]),
         wants' = [wants EXCEPT ![s] = FALSE],
         handle' = handle \/ handle' = [handle EXCEPT ![s] = NoHandle],
         UNCHANGED <<frames, broken>>
  PROVE  EventInv' /\ Disconnected(s, handle[s])
<1> PICK id : id = handle[s]
  OBVIOUS
<1>1. wants[s] /\ id \in DOMAIN connections /\ connections[id] = [on |-> TRUE, callback |-> s]
  BY DEF Careful, MayUse, EventInv, MapInv
<1>2. /\ connections' = [connections EXCEPT ![id].on = FALSE]
      /\ connectionsToRemove' = Append(connectionsToRemove, id)
  BY <1>1 DEF Disconnect
<1>3. /\ DOMAIN connections' = DOMAIN connections
      /\ connections'[id] = [on |-> FALSE, callback |-> s]
      /\ \A i \in DOMAIN connections \ {id} : connections'[i] = connections[i]
  <2>1. DOMAIN connections' = DOMAIN connections
    BY <1>2
  <2>2. connections'[id] = [connections[id] EXCEPT !.on = FALSE]
    BY <1>1, <1>2
  <2>3. \A i \in DOMAIN connections \ {id} : connections'[i] = connections[i]
    BY <1>2
  <2>4. connections'[id] = [[on |-> TRUE, callback |-> s] EXCEPT !.on = FALSE]
    BY <1>1, <2>2, Zenon
  <2>5. connections'[id] = [on |-> FALSE, callback |-> s]
    BY <2>4
  <2> QED
    BY <2>1, <2>3, <2>5
<1>4. IdsInv'
  BY <1>3 DEF EventInv, IdsInv
<1>5. DOMAIN wants = Subscribers /\ DOMAIN handle = Subscribers
  BY DEF EventInv, MapInv
<1>6. \A t \in Subscribers \ {s} : wants'[t] = wants[t] /\ handle'[t] = handle[t]
  BY <1>5
<1>7. MapInv'
  <2>1. \A i \in DOMAIN connections' : connections'[i] \in Entry
    <3>1. \A i \in DOMAIN connections : connections[i] \in Entry
      BY DEF EventInv, MapInv
    <3>2. [on |-> FALSE, callback |-> s] \in Entry
      BY DEF Entry
    <3> QED
      BY <1>3, <3>1, <3>2
  <2>2. ASSUME NEW t \in Subscribers, wants'[t]
        PROVE  /\ handle'[t] \in DOMAIN connections'
               /\ connections'[handle'[t]] = [on |-> TRUE, callback |-> t]
    <3>1. t # s
      BY <1>5, <2>2
    <3>2. wants[t] /\ handle'[t] = handle[t]
      BY <1>6, <2>2, <3>1
    <3>3. handle[t] \in DOMAIN connections /\ connections[handle[t]] = [on |-> TRUE, callback |-> t]
      BY <3>2 DEF EventInv, MapInv
    <3>4. handle[t] # id
      BY <1>1, <3>1, <3>3
    <3> QED
      BY <1>3, <3>2, <3>3, <3>4
  <2>3. ASSUME NEW i \in DOMAIN connections', connections'[i].on
        PROVE  wants'[connections'[i].callback] /\ handle'[connections'[i].callback] = i
    <3>1. i # id
      BY <1>3, <2>3
    <3>2. PICK c : c = connections[i].callback
      OBVIOUS
    <3>3. connections[i].on /\ connections[i] \in Entry /\ connections'[i] = connections[i]
      BY <1>3, <2>3, <3>1 DEF EventInv, MapInv
    <3>4. c \in Subscribers /\ wants[c] /\ handle[c] = i
      BY <1>3, <3>2, <3>3 DEF EventInv, MapInv, Entry
    <3>5. c # s
      BY <3>1, <3>4
    <3> QED
      BY <1>6, <3>2, <3>3, <3>4, <3>5
  <2> QED
    BY <1>5, <2>1, <2>2, <2>3 DEF MapInv
<1>8. RemovalsInv'
  <2>1. id \in Nat /\ id \notin Listed(connectionsToRemove)
    BY <1>1 DEF EventInv, IdsInv, RemovalsInv
  <2>2. /\ connectionsToRemove' \in Seq(Nat) /\ Distinct(connectionsToRemove')
        /\ Listed(connectionsToRemove') = Listed(connectionsToRemove) \cup {id}
    BY <1>2, <2>1, AppendedElements DEF EventInv, RemovalsInv
  <2>3. {i \in DOMAIN connections' : ~connections'[i].on}
           = {i \in DOMAIN connections : ~connections[i].on} \cup {id}
    BY <1>1, <1>3
  <2> QED
    BY <2>2, <2>3 DEF EventInv, RemovalsInv
<1>9. LoopsInv'
  BY <1>3 DEF EventInv, LoopsInv
<1> QED
  BY <1>1, <1>3, <1>4, <1>7, <1>8, <1>9 DEF EventInv, Disconnected

LEMMA NeverErasesTwice ==
  ASSUME RemovalsInv
  PROVE  ~ErasesTwice
<1>1. connectionsToRemove \in Seq(Nat) /\ Distinct(connectionsToRemove)
  BY DEF RemovalsInv
<1>2. Len(connectionsToRemove) \in Nat
  BY <1>1
<1>3. PICK q \in Seq(Nat) : q = connectionsToRemove
  BY <1>1
<1>4. Cardinality(Listed(q)) = Len(q)
  <2>1. Distinct(q)
    BY <1>1, <1>3 DEF Distinct
  <2> QED
    BY <2>1, DistinctAreCounted, Zenon
<1> QED
  BY <1>2, <1>3, <1>4 DEF ErasesTwice, Listed

\* What Signal does: what is off goes, and the first of what is left is called.
Signalled(kept) ==
  /\ kept = {i \in DOMAIN connections : connections[i].on}
  /\ DOMAIN connections' = kept /\ \A i \in kept : connections'[i] = connections[i]
  /\ wants' = wants /\ \A k \in DOMAIN frames : frames[k] \in kept
  /\ \/ kept = {} /\ frames' = frames
     \/ kept # {} /\ frames' = Append(frames, Min(kept)) /\ Min(kept) \in kept
        /\ \A i \in kept : Min(kept) <= i

LEMMA SignalStep ==
  ASSUME Careful, EventInv, Signal
  PROVE  EventInv' /\ \E kept : Signalled(kept)
<1>1. PICK off : off = Listed(connectionsToRemove) /\ off = {i \in DOMAIN connections : ~connections[i].on}
  BY DEF EventInv, RemovalsInv
<1>2. ~ErasesTwice
  BY NeverErasesTwice DEF EventInv
<1>3. ~ErasesActive
  BY DEF Signal, Careful
<1>4. PICK kept : kept = {i \in DOMAIN connections : connections[i].on}
  OBVIOUS
<1>5. DOMAIN connections \ off = kept
  BY <1>1, <1>4
<1>6. PICK left : left = [i \in kept |-> connections[i]]
  OBVIOUS
<1>7. \A i \in DOMAIN connections : i \in Nat
  BY DEF EventInv, IdsInv
<1>8. OnAfter(left, -1) = kept
  BY <1>4, <1>6, <1>7 DEF OnAfter
<1>9. /\ connections' = left /\ connectionsToRemove' = <<>>
      /\ frames' = (IF kept = {} THEN frames ELSE Append(frames, Min(kept)))
      /\ broken' = broken /\ handle' = handle /\ wants' = wants
  BY <1>1, <1>2, <1>3, <1>5, <1>6, <1>8, Zenon DEF Signal, ClearedIterators
<1>10. DOMAIN connections' = kept /\ \A i \in kept : connections'[i] = connections[i]
  BY <1>6, <1>9
<1>11. \A k \in DOMAIN frames : frames[k] \in kept
  <2>1. off \cap Listed(frames) = {}
    BY <1>1, <1>3 DEF ErasesActive
  <2> QED
    BY <1>5, <2>1 DEF EventInv, LoopsInv, Listed
<1>12. kept # {} => Min(kept) \in kept /\ \A i \in kept : Min(kept) <= i
  <2>1. kept \in SUBSET Nat
    BY <1>4, <1>7
  <2> QED
    BY <2>1, LeastId
<1>13. Signalled(kept)
  BY <1>4, <1>9, <1>10, <1>11, <1>12 DEF Signalled
<1>14. IdsInv'
  BY <1>4, <1>10 DEF EventInv, IdsInv
<1>15. MapInv'
  <2>1. \A i \in kept : i \in DOMAIN connections /\ connections[i].on
    BY <1>4
  <2>2. ASSUME NEW t \in Subscribers, wants[t]
        PROVE  handle[t] \in kept /\ connections[handle[t]] = [on |-> TRUE, callback |-> t]
    <3>1. handle[t] \in DOMAIN connections /\ connections[handle[t]] = [on |-> TRUE, callback |-> t]
      BY <2>2 DEF EventInv, MapInv
    <3> QED
      BY <1>4, <3>1
  <2> QED
    BY <1>9, <1>10, <2>1, <2>2 DEF EventInv, MapInv
<1>16. RemovalsInv'
  <2>1. connectionsToRemove' \in Seq(Nat) /\ DOMAIN connectionsToRemove' = {}
    BY <1>9
  <2>2. Listed(connectionsToRemove') = {} /\ Distinct(connectionsToRemove')
    BY <2>1 DEF Listed, Distinct
  <2> QED
    BY <1>4, <1>10, <2>1, <2>2 DEF RemovalsInv
<1>17. LoopsInv'
  <2>1. frames \in Seq(Nat) /\ ~broken
    BY DEF EventInv, LoopsInv
  <2>2. CASE kept = {}
    BY <1>9, <1>10, <1>11, <2>1, <2>2 DEF LoopsInv
  <2>3. CASE kept # {}
    <3>1. PICK first \in kept : first = Min(kept)
      BY <1>12, <2>3
    <3>2. first \in Nat /\ frames' = Append(frames, first)
      BY <1>4, <1>7, <1>9, <2>3, <3>1
    <3>3. frames' \in Seq(Nat) /\ \A k \in DOMAIN frames' : frames'[k] \in kept
      BY <1>11, <2>1, <3>1, <3>2
    <3> QED
      BY <1>9, <1>10, <2>1, <3>3 DEF LoopsInv
  <2> QED
    BY <2>2, <2>3
<1> QED
  BY <1>13, <1>14, <1>15, <1>16, <1>17 DEF EventInv

\* What the end of a callback does: the next entry on is called, if there is one.
Returned(due) ==
  /\ frames # <<>> /\ Len(frames) \in Nat /\ Top \in DOMAIN connections
  /\ due = {i \in DOMAIN connections : i > Top /\ connections[i].on}
  /\ \/ due = {} /\ frames' = SubSeq(frames, 1, Len(frames) - 1)
     \/ due # {} /\ frames' = [frames EXCEPT ![Len(frames)] = Min(due)] /\ Min(due) \in due
        /\ \A i \in due : Min(due) <= i

LEMMA ReturnStep ==
  ASSUME EventInv, CallbackReturns
  PROVE  EventInv' /\ \E due : Returned(due)
<1>1. frames \in Seq(Nat) /\ frames # <<>> /\ ~broken
  BY DEF EventInv, LoopsInv, CallbackReturns
<1>2. Len(frames) \in DOMAIN frames /\ Len(frames) \in Nat
  BY <1>1
<1>3. Top \in DOMAIN connections
  BY <1>2 DEF Top, EventInv, LoopsInv
<1>4. PICK due : due = OnAfter(connections, Top)
  OBVIOUS
<1>5. due = {i \in DOMAIN connections : i > Top /\ connections[i].on}
  BY <1>4 DEF OnAfter
<1>6. due # {} => Min(due) \in due /\ \A i \in due : Min(due) <= i
  <2>1. due \in SUBSET Nat
    BY <1>5 DEF EventInv, IdsInv
  <2> QED
    BY <2>1, LeastId
<1>7. /\ frames' = (IF due = {} THEN SubSeq(frames, 1, Len(frames) - 1)
                    ELSE [frames EXCEPT ![Len(frames)] = Min(due)])
      /\ UNCHANGED <<connections, connectionsToRemove, handle, wants, broken>>
  BY <1>4 DEF CallbackReturns
<1>8. Returned(due)
  BY <1>1, <1>2, <1>3, <1>5, <1>6, <1>7 DEF Returned
<1>9. frames' \in Seq(Nat) /\ \A k \in DOMAIN frames' : frames'[k] \in DOMAIN connections
  <2>1. \A k \in DOMAIN frames : frames[k] \in DOMAIN connections
    BY DEF EventInv, LoopsInv
  <2>2. CASE due = {}
    <3>1. frames' = SubSeq(frames, 1, Len(frames) - 1)
      BY <1>7, <2>2
    <3> QED
      BY <1>1, <1>2, <2>1, <3>1
  <2>3. CASE due # {}
    <3>1. PICK n \in due : n = Min(due)
      BY <1>6, <2>3
    <3>2. n \in Nat /\ n \in DOMAIN connections
      BY <1>5, <3>1 DEF EventInv, IdsInv
    <3>3. frames' = [frames EXCEPT ![Len(frames)] = n]
      BY <1>7, <2>3, <3>1
    <3> QED
      BY <1>1, <1>2, <2>1, <3>2, <3>3
  <2> QED
    BY <2>2, <2>3
<1>10. UNCHANGED <<connections, connectionsToRemove, handle, wants, broken>>
  BY <1>7
<1>11. IdsInv'
  BY <1>10 DEF EventInv, IdsInv
<1>12. RemovalsInv'
  BY <1>10 DEF EventInv, RemovalsInv
<1>13. LoopsInv'
  BY <1>9, <1>10 DEF EventInv, LoopsInv
<1>14. MapInv'
  BY <1>10 DEF EventInv, MapInv, Listed
<1> QED
  BY <1>8, <1>11, <1>12, <1>13, <1>14 DEF EventInv

LEMMA EventStep ==
  ASSUME Careful, EventInv, [EventNext]_eventVars
  PROVE  EventInv'
<1>1. ASSUME NEW s \in Subscribers, Connect(s) PROVE EventInv'
  BY <1>1, ConnectStep
<1>2. ASSUME NEW s \in Subscribers, DropHandle(s) PROVE EventInv'
  BY <1>2, DisconnectStep DEF DropHandle
<1>3. ASSUME NEW s \in Subscribers, DisconnectById(s) PROVE EventInv'
  BY <1>3, DisconnectStep DEF DisconnectById
<1>4. CASE Signal
  BY <1>4, SignalStep
<1>5. CASE CallbackReturns
  BY <1>5, ReturnStep
<1>6. CASE UNCHANGED eventVars
  BY <1>6 DEF eventVars, EventInv, IdsInv, MapInv, RemovalsInv, LoopsInv, Listed
<1> QED
  BY <1>1, <1>2, <1>3, <1>4, <1>5, <1>6 DEF EventNext
-----------------------------------------------------------------------------
LEMMA EventStart ==
  ASSUME EventInit
  PROVE  EventInv
<1>1. /\ DOMAIN connections = {} /\ connectionsToRemove = <<>> /\ frames = <<>> /\ ~broken
      /\ DOMAIN wants = Subscribers /\ \A s \in Subscribers : ~wants[s]
      /\ DOMAIN handle = Subscribers
  BY DEF EventInit
<1>2. IdsInv
  <2>1. 0 \in Nat
    OBVIOUS
  <2> QED
    BY <1>1, <2>1 DEF IdsInv
<1>3. MapInv
  BY <1>1 DEF MapInv
<1>4. /\ connectionsToRemove \in Seq(Nat) /\ DOMAIN connectionsToRemove = {}
      /\ frames \in Seq(Nat) /\ DOMAIN frames = {}
  BY <1>1
<1>5. RemovalsInv /\ LoopsInv
  BY <1>1, <1>4 DEF RemovalsInv, LoopsInv, Distinct, Listed
<1> QED
  BY <1>2, <1>3, <1>5 DEF EventInv

LEMMA EventInvariant == Careful /\ EventSpec => []EventInv
<1>1. EventInit => EventInv
  BY EventStart
<1>2. SUFFICES ASSUME Careful PROVE EventSpec => []EventInv
  OBVIOUS
<1>3. EventInv /\ [EventNext]_eventVars => EventInv'
  BY <1>2, EventStep
<1> QED
  BY <1>1, <1>3, PTL DEF EventSpec

\* Whatever callbacks connect, drop and signal, however deep: the loops of
\* Signal stand on entries that are there, Cleanup erases exactly what is off,
\* once, and nobody but a subscriber takes its entry away (EventT::Signal,
\* EventT::Cleanup, EventT::Disconnect).
THEOREM LoopsAlwaysSurviveCallbacks == Careful /\ EventSpec => []LoopsSurviveCallbacks
<1>1. EventInv => LoopsSurviveCallbacks
  <2> SUFFICES ASSUME EventInv PROVE LoopsSurviveCallbacks
    OBVIOUS
  <2>1. IteratorsValid
    BY DEF EventInv, LoopsInv, IteratorsValid
  <2>2. RemovalsPending
    BY NeverErasesTwice DEF EventInv, RemovalsInv, RemovalsPending
  <2>3. SubscriptionsHonoured
    BY DEF EventInv, MapInv, SubscriptionsHonoured
  <2> QED
    BY <2>1, <2>2, <2>3 DEF LoopsSurviveCallbacks
<1> QED
  BY <1>1, EventInvariant, PTL
-----------------------------------------------------------------------------
(* To its subscribers, the event is Multicast.                             *)

\* The ids in a map that are on and come no later than the one at, and what a
\* loop that stands there is to Multicast.
OnUpTo(conns, at) == {j \in DOMAIN conns : j <= at /\ conns[j].on}

Round(conns, at) ==
  [running |-> conns[at].callback, called |-> {conns[i].callback : i \in OnUpTo(conns, at)}]

Subscribed == {s \in Subscribers : wants[s]}
Rounds == [k \in DOMAIN frames |-> Round(connections, frames[k])]

\* In a map, all callbacks are those of subscribers, and no two on are the same.
Whole(conns) ==
  /\ \A i \in DOMAIN conns : i \in Nat /\ conns[i].callback \in Subscribers
  /\ \A i, j \in DOMAIN conns :
       conns[i].on /\ conns[j].on /\ conns[i].callback = conns[j].callback => i = j

LEMMA MapIsWhole ==
  ASSUME EventInv
  PROVE  Whole(connections)
<1>1. \A i \in DOMAIN connections : i \in Nat /\ connections[i].callback \in Subscribers
  BY DEF EventInv, IdsInv, MapInv, Entry
<1>2. ASSUME NEW i \in DOMAIN connections, NEW j \in DOMAIN connections,
             connections[i].on, connections[j].on, connections[i].callback = connections[j].callback
      PROVE  i = j
  <2>1. PICK s \in Subscribers : s = connections[i].callback
    BY <1>1
  <2>2. handle[s] = i /\ handle[s] = j
    BY <1>2, <2>1 DEF EventInv, MapInv
  <2> QED
    BY <2>2
<1> QED
  BY <1>1, <1>2 DEF Whole

LEMMA RoundsAre ==
  ASSUME EventInv
  PROVE  /\ Rounds \in Seq([running : Subscribers, called : SUBSET Subscribers])
         /\ Len(Rounds) = Len(frames) /\ Len(frames) \in Nat
         /\ \A k \in 1 .. Len(frames) : Rounds[k] = Round(connections, frames[k])
<1> DEFINE S == [running : Subscribers, called : SUBSET Subscribers]
<1>1. frames \in Seq(Nat) /\ Len(frames) \in Nat /\ DOMAIN frames = 1 .. Len(frames)
  BY DEF EventInv, LoopsInv
<1>2. ASSUME NEW k \in 1 .. Len(frames) PROVE Round(connections, frames[k]) \in S
  <2>1. frames[k] \in DOMAIN connections
    BY <1>1 DEF EventInv, LoopsInv
  <2>2. connections[frames[k]].callback \in Subscribers
        /\ \A i \in OnUpTo(connections, frames[k]) : connections[i].callback \in Subscribers
    BY <2>1, MapIsWhole DEF Whole, OnUpTo
  <2> QED
    BY <2>2 DEF Round
<1> HIDE DEF S
<1>3. PICK r : r = Rounds
  OBVIOUS
<1>4. r = [k \in 1 .. Len(frames) |-> Round(connections, frames[k])]
  BY <1>1, <1>3, Zenon DEF Rounds
<1>5. \A k \in 1 .. Len(frames) : r[k] = Round(connections, frames[k]) /\ r[k] \in S
  BY <1>2, <1>4
<1>6. r \in [1 .. Len(frames) -> S]
  BY <1>4, <1>5
<1>7. r \in Seq(S) /\ Len(r) = Len(frames)
  BY <1>1, <1>6
<1> QED
  BY <1>1, <1>3, <1>5, <1>7 DEF S

\* A loop that stands where it did is the same to Multicast, if the entries on
\* up to there are, with their callbacks.
LEMMA SameRound ==
  ASSUME NEW c, NEW d, NEW at, d[at].callback = c[at].callback,
         \A i : i \in OnUpTo(d, at) <=> i \in OnUpTo(c, at),
         \A i \in OnUpTo(c, at) : d[i].callback = c[i].callback
  PROVE  Round(d, at) = Round(c, at)
<1>1. OnUpTo(d, at) = OnUpTo(c, at)
  OBVIOUS
<1>2. {d[i].callback : i \in OnUpTo(d, at)} = {c[i].callback : i \in OnUpTo(c, at)}
  BY <1>1
<1> QED
  BY <1>2 DEF Round

Without(round, s) == [round EXCEPT !.called = @ \ {s}]

LEMMA NotCalled ==
  ASSUME NEW x, NEW C, NEW s
  PROVE  Without([running |-> x, called |-> C], s) = [running |-> x, called |-> C \ {s}]
  BY DEF Without

\* A connection that is switched off is called no more, as far as Multicast
\* is concerned.
LEMMA OffRound ==
  ASSUME NEW c, Whole(c), NEW d, NEW s, NEW id \in DOMAIN c, NEW at \in DOMAIN c,
         c[id] = [on |-> TRUE, callback |-> s], d[id] = [on |-> FALSE, callback |-> s],
         DOMAIN d = DOMAIN c, \A i \in DOMAIN c \ {id} : d[i] = c[i]
  PROVE  Round(d, at) = Without(Round(c, at), s)
<1>1. \A i : i \in OnUpTo(d, at) <=> i \in OnUpTo(c, at) /\ i # id
  BY DEF OnUpTo
<1>2. \A i \in OnUpTo(c, at) : c[i].callback = s <=> i = id
  BY DEF OnUpTo, Whole
<1>3. \A i \in OnUpTo(d, at) : d[i].callback = c[i].callback /\ i \in DOMAIN c
  BY <1>1 DEF OnUpTo
<1>4. {d[i].callback : i \in OnUpTo(d, at)} = {c[i].callback : i \in OnUpTo(c, at)} \ {s}
  <2>1. PICK U : U = OnUpTo(c, at)
    OBVIOUS
  <2>2. OnUpTo(d, at) = U \ {id}
    BY <1>1, <2>1
  <2>3. {d[i].callback : i \in U \ {id}} = {c[i].callback : i \in U \ {id}}
    BY <1>3, <2>2
  <2>4. \A i \in U : c[i].callback = s <=> i = id
    BY <1>2, <2>1
  <2>5. {c[i].callback : i \in U \ {id}} = {c[i].callback : i \in U} \ {s}
    BY <2>4
  <2> QED
    BY <2>1, <2>2, <2>3, <2>5
<1>5. d[at].callback = c[at].callback
  OBVIOUS
<1> PICK C : C = {c[i].callback : i \in OnUpTo(c, at)}
  OBVIOUS
<1> PICK x : x = c[at].callback
  OBVIOUS
<1>6. Round(c, at) = [running |-> x, called |-> C]
  BY DEF Round
<1>7. Round(d, at) = [running |-> x, called |-> C \ {s}]
  BY <1>4, <1>5 DEF Round
<1>8. Without([running |-> x, called |-> C], s) = [running |-> x, called |-> C \ {s}]
  BY NotCalled
<1> QED
  BY <1>6, <1>7, <1>8, Zenon

\* When a loop goes on to the next entry on, one more is called.
LEMMA NextRound ==
  ASSUME NEW c, Whole(c), NEW at \in DOMAIN c, NEW next \in DOMAIN c, c[next].on, at < next,
         \A i \in DOMAIN c : i > at /\ c[i].on => next <= i
  PROVE  Round(c, next) = [running |-> c[next].callback,
                           called |-> Round(c, at).called \cup {c[next].callback}]
         /\ c[next].callback \notin Round(c, at).called
<1>1. \A i \in DOMAIN c : i \in Nat
  BY DEF Whole
<1>2. \A i : i \in OnUpTo(c, next) <=> i \in OnUpTo(c, at) \/ i = next
  BY <1>1 DEF OnUpTo
<1>3. {c[i].callback : i \in OnUpTo(c, next)}
        = {c[i].callback : i \in OnUpTo(c, at)} \cup {c[next].callback}
  BY <1>2
<1>4. c[next].callback \notin {c[i].callback : i \in OnUpTo(c, at)}
  <2>1. \A i \in OnUpTo(c, at) : i \in DOMAIN c /\ c[i].on /\ i # next
    BY <1>1 DEF OnUpTo
  <2> QED
    BY <2>1 DEF Whole
<1> QED
  BY <1>3, <1>4 DEF Round

\* What the steps are to Multicast.
LEMMA ConnectSubscribes ==
  ASSUME EventInv, NEW s \in Subscribers, Connect(s)
  PROVE  s \notin Subscribed /\ Subscribed' = Subscribed \cup {s} /\ Rounds' = Rounds
<1> PICK id : id = NewId
  OBVIOUS
<1> PICK c : c = connections
  OBVIOUS
<1> PICK d : d = connections'
  OBVIOUS
<1>1. /\ id \in Nat /\ \A i \in DOMAIN c : i \in Nat /\ i < id
      /\ DOMAIN d = DOMAIN c \cup {id} /\ d[id] = [on |-> TRUE, callback |-> s]
      /\ \A i \in DOMAIN c : d[i] = c[i]
      /\ ~wants[s] /\ wants' = [wants EXCEPT ![s] = TRUE]
  BY ConnectStep DEF Connected
<1>2. DOMAIN wants = Subscribers /\ \A k \in DOMAIN frames : frames[k] \in DOMAIN c
  BY DEF EventInv, MapInv, LoopsInv
<1>3. frames' = frames
  BY DEF Connect
<1>4. ASSUME NEW at \in DOMAIN c PROVE Round(d, at) = Round(c, at)
  <2>1. \A i : i \in OnUpTo(d, at) <=> i \in OnUpTo(c, at)
    BY <1>1 DEF OnUpTo
  <2>2. \A i \in OnUpTo(c, at) : d[i].callback = c[i].callback
    BY <1>1 DEF OnUpTo
  <2>3. d[at].callback = c[at].callback
    BY <1>1
  <2> QED
    BY <2>1, <2>2, <2>3, SameRound
<1>5. Rounds' = [k \in DOMAIN frames |-> Round(d, frames[k])]
  BY <1>3 DEF Rounds
<1>6. Rounds = [k \in DOMAIN frames |-> Round(c, frames[k])]
  BY DEF Rounds
<1>7. Rounds' = Rounds
  BY <1>2, <1>4, <1>5, <1>6
<1>8. s \notin Subscribed /\ Subscribed' = Subscribed \cup {s}
  BY <1>1, <1>2 DEF Subscribed
<1> QED
  BY <1>7, <1>8

LEMMA DisconnectUnsubscribes ==
  ASSUME EventInv, NEW s \in Subscribers, NEW id, Disconnected(s, id), frames' = frames
  PROVE  /\ s \in Subscribed /\ Subscribed' = Subscribed \ {s}
         /\ Rounds' = [k \in DOMAIN Rounds |-> Without(Rounds[k], s)]
<1> PICK c : c = connections
  OBVIOUS
<1> PICK d : d = connections'
  OBVIOUS
<1>1. /\ id \in DOMAIN c /\ c[id] = [on |-> TRUE, callback |-> s]
      /\ DOMAIN d = DOMAIN c /\ d[id] = [on |-> FALSE, callback |-> s]
      /\ \A i \in DOMAIN c \ {id} : d[i] = c[i]
      /\ wants[s] /\ wants' = [wants EXCEPT ![s] = FALSE]
  BY DEF Disconnected
<1>2. DOMAIN wants = Subscribers /\ \A k \in DOMAIN frames : frames[k] \in DOMAIN c
  BY DEF EventInv, MapInv, LoopsInv
<1>3. Whole(c)
  BY MapIsWhole DEF Whole
<1>4. ASSUME NEW at \in DOMAIN c PROVE Round(d, at) = Without(Round(c, at), s)
  BY <1>1, <1>3, OffRound
<1>5. Rounds' = [k \in DOMAIN frames |-> Round(d, frames[k])]
  BY DEF Rounds
<1>6. Rounds = [k \in DOMAIN frames |-> Round(c, frames[k])]
  BY DEF Rounds
<1>7. DOMAIN Rounds = DOMAIN frames /\ \A k \in DOMAIN frames : Rounds[k] = Round(c, frames[k])
  BY <1>6
<1>8. Rounds' = [k \in DOMAIN Rounds |-> Without(Rounds[k], s)]
  BY <1>2, <1>4, <1>5, <1>7
<1>9. s \in Subscribed /\ Subscribed' = Subscribed \ {s}
  BY <1>1, <1>2 DEF Subscribed
<1> QED
  BY <1>8, <1>9

LEMMA SignalBegins ==
  ASSUME EventInv, NEW kept, Signalled(kept)
  PROVE  /\ Subscribed' = Subscribed
         /\ \/ Rounds' = Rounds
            \/ \E s \in Subscribed : Rounds' = Append(Rounds, [running |-> s, called |-> {s}])
<1> PICK c : c = connections
  OBVIOUS
<1> PICK d : d = connections'
  OBVIOUS
<1>1. /\ kept = {i \in DOMAIN c : c[i].on}
      /\ DOMAIN d = kept /\ \A i \in kept : d[i] = c[i]
      /\ \A k \in DOMAIN frames : frames[k] \in kept
  BY DEF Signalled
<1>2. Subscribed' = Subscribed
  BY DEF Signalled, Subscribed
<1>3. ASSUME NEW at \in kept PROVE Round(d, at) = Round(c, at)
  <2>1. \A i : i \in OnUpTo(d, at) <=> i \in OnUpTo(c, at)
    BY <1>1 DEF OnUpTo
  <2>2. \A i \in OnUpTo(c, at) : d[i].callback = c[i].callback
    BY <1>1 DEF OnUpTo
  <2>3. d[at].callback = c[at].callback
    BY <1>1
  <2> QED
    BY <2>1, <2>2, <2>3, SameRound
<1>4. Rounds' = [k \in DOMAIN frames' |-> Round(d, frames'[k])]
  BY DEF Rounds
<1>5. Rounds = [k \in DOMAIN frames |-> Round(c, frames[k])]
  BY DEF Rounds
<1>6. CASE kept = {} /\ frames' = frames
  BY <1>1, <1>2, <1>3, <1>4, <1>5, <1>6
<1>7. CASE /\ kept # {} /\ frames' = Append(frames, Min(kept)) /\ Min(kept) \in kept
           /\ \A i \in kept : Min(kept) <= i
  <2>1. PICK first \in kept : first = Min(kept)
    BY <1>7
  <2>2. /\ frames \in Seq(Nat) /\ Len(frames) \in Nat /\ DOMAIN frames = 1 .. Len(frames)
        /\ \A i \in kept : i \in Nat
    BY <1>1 DEF EventInv, LoopsInv, IdsInv
  <2>3. /\ DOMAIN frames' = 1 .. Len(frames) + 1 /\ frames'[Len(frames) + 1] = first
        /\ \A k \in 1 .. Len(frames) : frames'[k] = frames[k]
    BY <1>7, <2>1, <2>2
  <2>4. PICK s \in Subscribed : s = c[first].callback
    <3>1. first \in DOMAIN c /\ c[first].on
      BY <1>1, <2>1
    <3>2. c[first].callback \in Subscribers
      BY <3>1, MapIsWhole DEF Whole
    <3>3. wants[c[first].callback]
      BY <3>1 DEF EventInv, MapInv
    <3> QED
      BY <3>2, <3>3 DEF Subscribed
  <2>5. Round(d, first) = [running |-> s, called |-> {s}]
    <3>1. \A i : i \in OnUpTo(d, first) <=> i = first
      <4>1. \A i \in kept : first <= i /\ i \in Nat /\ c[i].on /\ d[i].on
        BY <1>1, <1>7, <2>1, <2>2
      <4>2. \A i \in kept : i <= first <=> i = first
        BY <4>1
      <4> QED
        BY <1>1, <4>1, <4>2 DEF OnUpTo
    <3>2. {d[i].callback : i \in OnUpTo(d, first)} = {d[first].callback}
      BY <3>1
    <3>3. d[first].callback = s
      BY <1>1, <2>1, <2>4
    <3> QED
      BY <3>2, <3>3 DEF Round
  <2> PICK new : new = [running |-> s, called |-> {s}]
    OBVIOUS
  <2> PICK r : r = Rounds
    OBVIOUS
  <2>6. /\ r \in Seq([running : Subscribers, called : SUBSET Subscribers])
        /\ Len(r) = Len(frames)
        /\ \A k \in 1 .. Len(frames) : r[k] = Round(c, frames[k])
    BY RoundsAre
  <2>7. Append(r, new) = [k \in 1 .. Len(frames) + 1 |-> IF k = Len(frames) + 1 THEN new ELSE r[k]]
    BY <2>2, <2>6
  <2>8. Rounds' = [k \in 1 .. Len(frames) + 1 |-> Round(d, frames'[k])]
    BY <1>4, <2>3
  <2>9. ASSUME NEW k \in 1 .. Len(frames) + 1
        PROVE  Round(d, frames'[k]) = IF k = Len(frames) + 1 THEN new ELSE r[k]
    <3>1. CASE k = Len(frames) + 1
      BY <2>3, <2>5, <3>1
    <3>2. CASE k # Len(frames) + 1
      <4>1. k \in 1 .. Len(frames)
        BY <2>2, <3>2
      <4>2. frames'[k] = frames[k] /\ frames[k] \in kept
        BY <1>1, <2>2, <2>3, <4>1
      <4> QED
        BY <1>3, <2>6, <3>2, <4>1, <4>2
    <3> QED
      BY <3>1, <3>2
  <2>10. Rounds' = Append(r, new)
    BY <2>7, <2>8, <2>9
  <2> QED
    BY <1>2, <2>10
<1> QED
  BY <1>6, <1>7 DEF Signalled

LEMMA ReturnGoesOn ==
  ASSUME EventInv, NEW due, Returned(due), UNCHANGED <<connections, wants>>
  PROVE  /\ Subscribed' = Subscribed /\ Rounds # <<>>
         /\ \/ /\ Subscribed \subseteq Rounds[Len(Rounds)].called
               /\ Rounds' = SubSeq(Rounds, 1, Len(Rounds) - 1)
            \/ \E s \in Subscribed \ Rounds[Len(Rounds)].called :
                 Rounds' = [Rounds EXCEPT ![Len(Rounds)] =
                              [running |-> s, called |-> @.called \cup {s}]]
<1> PICK c : c = connections
  OBVIOUS
<1> PICK n : n = Len(frames)
  OBVIOUS
<1> PICK top : top = Top
  OBVIOUS
<1>1. /\ frames # <<>> /\ n \in Nat /\ top \in DOMAIN c
      /\ due = {i \in DOMAIN c : i > top /\ c[i].on}
  BY DEF Returned
<1>2. /\ frames \in Seq(Nat) /\ DOMAIN frames = 1 .. n /\ n \in 1 .. n /\ frames[n] = top
  BY <1>1 DEF EventInv, LoopsInv, Top
<1>3. Subscribed' = Subscribed
  BY DEF Subscribed
<1>4. Whole(c) /\ \A i \in DOMAIN c : i \in Nat
  BY MapIsWhole DEF Whole
<1>5. Rounds' = [k \in DOMAIN frames' |-> Round(c, frames'[k])]
  BY DEF Rounds
<1> PICK r : r = Rounds
  OBVIOUS
<1> PICK S : S = [running : Subscribers, called : SUBSET Subscribers]
  OBVIOUS
<1>6. r \in Seq(S) /\ Len(r) = n /\ \A k \in 1 .. n : r[k] = Round(c, frames[k])
  BY RoundsAre
<1>7. r # <<>> /\ DOMAIN r = 1 .. n /\ r[n] = Round(c, top)
  BY <1>1, <1>2, <1>6
\* Every subscriber's entry is there and on.
<1>8. ASSUME NEW s \in Subscribed
      PROVE  \E i \in DOMAIN c : c[i].on /\ c[i].callback = s
  <2>1. s \in Subscribers /\ wants[s]
    BY DEF Subscribed
  <2>2. handle[s] \in DOMAIN c /\ c[handle[s]] = [on |-> TRUE, callback |-> s]
    BY <2>1 DEF EventInv, MapInv
  <2> QED
    BY <2>2
<1>9. CASE due = {} /\ frames' = SubSeq(frames, 1, Len(frames) - 1)
  <2>1. Subscribed \subseteq r[n].called
    <3> SUFFICES ASSUME NEW s \in Subscribed PROVE s \in r[n].called
      OBVIOUS
    <3>1. PICK i \in DOMAIN c : c[i].on /\ c[i].callback = s
      BY <1>8
    <3>2. i \in OnUpTo(c, top)
      BY <1>1, <1>4, <1>9, <3>1 DEF OnUpTo
    <3> QED
      BY <1>7, <3>1, <3>2 DEF Round
  <2>2. DOMAIN frames' = 1 .. n - 1 /\ \A k \in 1 .. n - 1 : frames'[k] = frames[k]
    BY <1>1, <1>2, <1>9
  <2>3. Rounds' = [k \in 1 .. n - 1 |-> Round(c, frames'[k])]
    BY <1>5, <2>2
  <2>4. SubSeq(r, 1, n - 1) = [k \in 1 .. n - 1 |-> r[k]]
    BY <1>1, <1>2, <1>6
  <2>5. \A k \in 1 .. n - 1 : Round(c, frames'[k]) = r[k]
    <3>1. \A k \in 1 .. n - 1 : k \in 1 .. n
      BY <1>1
    <3> QED
      BY <1>6, <2>2, <3>1
  <2>6. Rounds' = SubSeq(r, 1, n - 1)
    BY <2>3, <2>4, <2>5
  <2> QED
    BY <1>3, <1>6, <1>7, <2>1, <2>6
<1>10. CASE /\ due # {} /\ frames' = [frames EXCEPT ![Len(frames)] = Min(due)]
            /\ Min(due) \in due /\ \A i \in due : Min(due) <= i
  <2>1. PICK next \in due : next = Min(due)
    BY <1>10
  <2>2. next \in DOMAIN c /\ c[next].on /\ top < next
    BY <1>1, <1>4, <2>1
  <2>3. \A i \in DOMAIN c : i > top /\ c[i].on => next <= i
    BY <1>1, <1>10, <2>1
  <2>4. PICK s \in Subscribed : s = c[next].callback
    <3>1. c[next].callback \in Subscribers /\ wants[c[next].callback]
      BY <2>2, <1>4 DEF Whole, EventInv, MapInv
    <3> QED
      BY <3>1 DEF Subscribed
  <2> PICK new : new = [running |-> s, called |-> r[n].called \cup {s}]
    OBVIOUS
  <2>5. Round(c, next) = new /\ s \notin r[n].called
    BY <1>1, <1>4, <1>7, <2>2, <2>3, <2>4, NextRound
  <2>6. DOMAIN frames' = 1 .. n /\ frames'[n] = next
        /\ \A k \in 1 .. n : k # n => frames'[k] = frames[k]
    BY <1>2, <1>10, <2>1
  <2>7. Rounds' = [k \in 1 .. n |-> Round(c, frames'[k])]
    BY <1>5, <2>6
  <2>8. [r EXCEPT ![n] = new] = [k \in 1 .. n |-> IF k = n THEN new ELSE r[k]]
    BY <1>7
  <2>9. \A k \in 1 .. n : Round(c, frames'[k]) = IF k = n THEN new ELSE r[k]
    BY <1>6, <2>5, <2>6
  <2>10. Rounds' = [r EXCEPT ![n] = new]
    <3>1. [k \in 1 .. n |-> Round(c, frames'[k])] = [k \in 1 .. n |-> IF k = n THEN new ELSE r[k]]
      BY <2>9, Zenon
    <3> QED
      BY <2>7, <2>8, <3>1, Zenon
  <2>11. Rounds' = [r EXCEPT ![n] = [running |-> s, called |-> r[n].called \cup {s}]]
    BY <2>10
  <2> QED
    BY <1>3, <1>6, <1>7, <2>5, <2>11
<1> QED
  BY <1>9, <1>10 DEF Returned

\* Every step is one of Multicast, or none.
LEMMA MulticastStep ==
  ASSUME Careful, EventInv, [EventNext]_eventVars
  PROVE  [Promise!Next]_(Promise!vars)
<1>1. ASSUME NEW s \in Subscribers, Connect(s) PROVE Promise!Subscribe(s)
  BY <1>1, ConnectSubscribes
     DEF Promise!Subscribe, Subscribed, Rounds, Round, OnUpTo, Callback
<1>2. ASSUME NEW s \in Subscribers, DropHandle(s) \/ DisconnectById(s)
      PROVE  Promise!Unsubscribe(s)
  <2>1. /\ MayUse(s) /\ Disconnect(handle[s]) /\ UNCHANGED <<frames, broken>>
        /\ wants' = [wants EXCEPT ![s] = FALSE]
        /\ handle' = handle \/ handle' = [handle EXCEPT ![s] = NoHandle]
    BY <1>2 DEF DropHandle, DisconnectById
  <2>2. Disconnected(s, handle[s]) /\ frames' = frames
    BY <2>1, DisconnectStep
  <2>3. /\ s \in Subscribed /\ Subscribed' = Subscribed \ {s}
        /\ Rounds' = [k \in DOMAIN Rounds |-> Without(Rounds[k], s)]
    BY <2>2, DisconnectUnsubscribes
  <2> QED
    BY <2>3, Zenon DEF Promise!Unsubscribe, Subscribed, Rounds, Round, OnUpTo, Callback, Without
<1>3. CASE Signal
  <2>1. PICK kept : Signalled(kept)
    BY <1>3, SignalStep
  <2>2. /\ Subscribed' = Subscribed
        /\ \/ Rounds' = Rounds
           \/ \E s \in Subscribed : Rounds' = Append(Rounds, [running |-> s, called |-> {s}])
    BY <2>1, SignalBegins
  <2>3. CASE Rounds' = Rounds
    BY <2>2, <2>3, Zenon DEF Promise!vars, Subscribed, Rounds, Round, OnUpTo, Callback
  <2>4. ASSUME NEW s \in Subscribed, Rounds' = Append(Rounds, [running |-> s, called |-> {s}])
        PROVE  Promise!Begin(s) /\ s \in Subscribers
    BY <2>2, <2>4, Zenon DEF Promise!Begin, Subscribed, Rounds, Round, OnUpTo, Callback
  <2> QED
    BY <2>2, <2>3, <2>4 DEF Promise!Next
<1>4. CASE CallbackReturns
  <2>1. PICK due : Returned(due)
    BY <1>4, ReturnStep
  <2>2. UNCHANGED <<connections, wants>>
    BY <1>4 DEF CallbackReturns
  <2>3. /\ Subscribed' = Subscribed /\ Rounds # <<>>
        /\ \/ /\ Subscribed \subseteq Rounds[Len(Rounds)].called
              /\ Rounds' = SubSeq(Rounds, 1, Len(Rounds) - 1)
           \/ \E s \in Subscribed \ Rounds[Len(Rounds)].called :
                Rounds' = [Rounds EXCEPT ![Len(Rounds)] =
                             [running |-> s, called |-> @.called \cup {s}]]
    BY <2>1, <2>2, ReturnGoesOn
  <2>4. CASE /\ Subscribed \subseteq Rounds[Len(Rounds)].called
             /\ Rounds' = SubSeq(Rounds, 1, Len(Rounds) - 1)
    <3>1. Promise!End
      BY <2>3, <2>4, Zenon DEF Promise!End, Subscribed, Rounds, Round, OnUpTo, Callback
    <3> QED
      BY <3>1 DEF Promise!Next
  <2>5. ASSUME NEW s \in Subscribed \ Rounds[Len(Rounds)].called,
               Rounds' = [Rounds EXCEPT ![Len(Rounds)] =
                            [running |-> s, called |-> @.called \cup {s}]]
        PROVE  Promise!Continue(s) /\ s \in Subscribers
    BY <2>3, <2>5, Zenon DEF Promise!Continue, Subscribed, Rounds, Round, OnUpTo, Callback
  <2> QED
    BY <2>3, <2>4, <2>5 DEF Promise!Next
<1>5. CASE UNCHANGED eventVars
  BY <1>5 DEF eventVars, Promise!vars, Callback
<1> QED
  BY <1>1, <1>2, <1>3, <1>4, <1>5 DEF EventNext, Promise!Next

\* To its subscribers the event is Multicast: every signal calls everybody
\* subscribed once, and nobody after unsubscribing, whatever its callbacks do
\* (EventT::Connect, Disconnect, Signal).
THEOREM EventImplementsMulticast == Careful /\ EventSpec => ImplementsMulticast
<1>1. EventInit => Promise!Init
  BY DEF EventInit, Promise!Init
<1>2. SUFFICES ASSUME Careful PROVE EventSpec => ImplementsMulticast
  OBVIOUS
<1>3. EventInv /\ [EventNext]_eventVars => [Promise!Next]_(Promise!vars)
  BY <1>2, MulticastStep
<1>4. EventSpec => []EventInv
  BY <1>2, EventInvariant
<1> QED
  BY <1>1, <1>3, <1>4, PTL DEF EventSpec, ImplementsMulticast, Promise!Spec
=============================================================================
