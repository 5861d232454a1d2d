----------------------------- MODULE MCRemotery -----------------------------
(* The parts of Remotery that threads share, side by side: the queue of        *)
(* messages, the samples of a thread with their free list, and the names.      *)
EXTENDS MessageQueue

CONSTANTS c1, c2, none

VARIABLES
  subject,
  link, kids, up, name, calls, depth, firstFree, nbFree, nbInUse, current, queue,
  begun, owner, server, life,
  first, next, local, at, cache, names, sampled

treeVars == <<link, kids, up, name, calls, depth, firstFree, nbFree, nbInUse, current, queue,
              begun, owner, server, life>>
nameVars == <<first, next, local, at, cache, names, sampled>>

CallPlace(h, n, c) == [hash |-> h, length |-> n, cached |-> c]

Trees == INSTANCE SampleTree WITH
  MaxSamples <- 4, Names <- {1, 2}, Flags <- {"none", "aggregate", "recursive"}, Capacity <- 1
Labels == INSTANCE SampleNames WITH
  FirstSlots <- 4, Granularity <- 4, Callers <- {c1, c2},
  Places <- {CallPlace(3, 1, TRUE), CallPlace(7, 2, TRUE), CallPlace(4, 3, FALSE), CallPlace(3, 2, FALSE)}

MCInit == Init /\ Trees!Init /\ Labels!Init /\ subject \in {"queue", "trees", "names"}
MCNext ==
  /\ UNCHANGED subject
  /\ \/ subject = "queue" /\ Next /\ UNCHANGED <<treeVars, nameVars>>
     \/ subject = "trees" /\ Trees!Next /\ UNCHANGED <<vars, nameVars>>
     \/ subject = "names" /\ Labels!Next /\ UNCHANGED <<vars, treeVars>>
MCSpec == MCInit /\ [][MCNext]_<<subject, vars, treeVars, nameVars>>

\* Bounds: every thread of the queue is prompt, and few calls make a tree.
Bounded == Prompt /\ begun <= 3

\* A queued tree counts every call it is made of, no sampler is lost by two
\* threads that make theirs at once, and the server can name every sample
\* (SampleTree, rmtNameTable); the free list ends and holds nothing that is in
\* a tree, and nothing is in use when the allocator goes (ObjectAllocator).
SamplesAreAccountedFor ==
  /\ Trees!CallsAreCounted /\ Labels!SamplersAreListed /\ Labels!SamplesHaveNames
  /\ Trees!FreeListIsSound /\ Trees!NothingInUse
=============================================================================
