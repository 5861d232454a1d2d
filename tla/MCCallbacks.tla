---------------------------- MODULE MCCallbacks -----------------------------
(* The pool of workers and an event: each behaviour is about one of them,    *)
(* which it chooses at the beginning.                                        *)
EXTENDS WorkerPool, Event, TLC

VARIABLE subject  \* what the behaviour is about

MCInit == subject \in {"pool", "event"} /\ Init /\ EventInit

MCNext ==
  /\ UNCHANGED subject
  /\ \/ subject = "pool" /\ Next /\ UNCHANGED eventVars
     \/ subject = "event" /\ EventNext /\ UNCHANGED vars

MCSpec == MCInit /\ [][MCNext]_<<subject, vars, eventVars>>

\* Threads and orders are interchangeable; the subscribers are the same model
\* values as the orders, and interchangeable with them.
Symmetry == Permutations(Workers) \cup Permutations(Clients) \cup Permutations(Orders)
=============================================================================
