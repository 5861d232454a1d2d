----------------------------- MODULE MCThreads ------------------------------
(* What is promised to threads that wait: the pool of workers and the        *)
(* handlers of signals, under fair scheduling.  Each behaviour is about one  *)
(* of them, which it chooses at the beginning.                               *)
EXTENDS SignalHandler

CONSTANTS Workers, Clients, Orders, NoOrder, SpuriousWakeups

VARIABLES subject,  \* what the behaviour is about
          workOrders, activeOrders, done, wpc, order, cpc, timed, result,
          owner, submitted, started, finished, awaited

Pool == INSTANCE WorkerPool

poolVars == <<workOrders, activeOrders, done, wpc, order, cpc, timed, result,
              owner, submitted, started, finished, awaited>>

MCInit == subject \in {"pool", "signals"} /\ Init /\ Pool!Init

MCNext ==
  /\ UNCHANGED subject
  /\ \/ subject = "pool" /\ Pool!Next /\ UNCHANGED vars
     \/ subject = "signals" /\ Next /\ UNCHANGED poolVars

MCSpec == /\ MCInit /\ [][MCNext]_<<subject, vars, poolVars>>
          /\ (subject = "pool" => Pool!Fairness) /\ (subject = "signals" => Fairness)
-----------------------------------------------------------------------------
\* Every order is worked on unless the pool is shut down first, and no caller
\* of WaitForResults or of the destructor is left asleep (WorkerPool.cc).
EveryOrderRuns == Pool!EveryOrderRuns
CallersReturn == Pool!CallersReturn
=============================================================================
