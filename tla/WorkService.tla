---------------------------- MODULE WorkService ----------------------------
(***************************************************************************)
(* What a pool of worker threads promises to the callers of AddWork        *)
(* (include/ignition/common/WorkerPool.hh), with no thread, lock or        *)
(* condition variable in sight: orders start one at a time in the order    *)
(* they were submitted, at most Capacity of them run together, an order    *)
(* that started is finished once, and nothing starts after the pool has    *)
(* been closed.                                                            *)
(***************************************************************************)
EXTENDS Naturals, Sequences, FiniteSets

CONSTANTS Orders,      \* the work orders callers may submit
          Capacity     \* how many may run at the same time

VARIABLES pending,     \* submitted and not started, oldest first
          running,     \* started and not finished
          finished,    \* work and callback both over
          open         \* FALSE once the pool is being destroyed

vars == <<pending, running, finished, open>>

Known == {pending[i] : i \in DOMAIN pending} \cup running \cup finished

Init == /\ pending = <<>>
        /\ running = {}
        /\ finished = {}
        /\ open = TRUE

Submit(o) == /\ o \notin Known
             /\ pending' = Append(pending, o)
             /\ UNCHANGED <<running, finished, open>>

Start == /\ open
         /\ pending # <<>>
         /\ Cardinality(running) < Capacity
         /\ running' = running \cup {Head(pending)}
         /\ pending' = Tail(pending)
         /\ UNCHANGED <<finished, open>>

Complete(o) == /\ o \in running
               /\ running' = running \ {o}
               /\ finished' = finished \cup {o}
               /\ UNCHANGED <<pending, open>>

Close == /\ open
         /\ open' = FALSE
         /\ UNCHANGED <<pending, running, finished>>

Next == \/ \E o \in Orders : Submit(o) \/ Complete(o)
        \/ Start
        \/ Close

Spec == Init /\ [][Next]_vars
=============================================================================
