----------------------------- MODULE SampleTree -----------------------------
(***************************************************************************)
(* The samples of one thread in Remotery.c: a tree grown by BeginCPUSample *)
(* and EndCPUSample from a free list without locks.  A finished tree is    *)
(* queued; the server thread reads it, flattens it into a chain and pushes *)
(* the chain back to the free list, while the owner, the only one to take  *)
(* from the list, goes on.  At shutdown the server thread returns what is  *)
(* left.  Samples are numbered as they are allocated; the root is 1.       *)
(***************************************************************************)
EXTENDS Integers, Sequences, SequencesExt, FiniteSetsExt

CONSTANTS
  MaxSamples,   \* bound: samples allocated
  Names,        \* hashes of names, positive integers
  Flags,        \* subset of {"none", "aggregate", "recursive"}
  Capacity      \* trees the message queue holds

VARIABLES
  link,         \* sample -> Link.next
  kids,         \* sample -> its children in order (first_child, next_sibling)
  up, name,     \* sample -> its parent, the hash of its name
  calls, depth, \* sample -> call_count, recurse_depth
  firstFree, nbFree, nbInUse,
  current,      \* current_parent
  queue,        \* trees queued: their top sample and the calls they are made of
  begun,        \* calls of BeginCPUSample since the last tree was finished
  owner, server,  \* where the two threads are in the allocator's loops
  life          \* "running", "exiting" or "joined"

tree == <<kids, up, name, calls, depth, current, begun>>
vars == <<link, tree, firstFree, nbFree, nbInUse, queue, owner, server, life>>

root == 1
null == 0
Samples == DOMAIN link

\* at: "idle", "push", "linked", "pop" or "taken"; a range start..end of count
\* samples to push; the sample and its successor read from the list; the name
\* of the sample to begin, or 0.
Rest == [at |-> "idle", start |-> 0, end |-> 0, count |-> 0, old |-> 0, next |-> 0, name |-> 0]

\* SampleTree_Constructor: the root is allocated, and taken from the list.
Init ==
  /\ link = <<null>> /\ kids = << << >> >> /\ up = <<null>> /\ name = <<0>>
  /\ calls = <<1>> /\ depth = <<0>>
  /\ firstFree = null /\ nbFree = 0 /\ nbInUse = 1
  /\ current = root /\ begun = 0 /\ queue = << >>
  /\ owner = Rest /\ server = Rest /\ life = "running"

\* The samples of the tree under n, parents first.
Preorder(n) ==
  LET order[m \in Samples] == <<m>> \o FlattenSeq([k \in DOMAIN kids[m] |-> order[kids[m][k]]])
  IN order[n]

\* For the mutants: one level of the tree.
Children(n) == <<n>> \o kids[n]

\* FlattenSampleTree: the samples under n in one chain.
Flattened(n) == Preorder(n)
Chain(links, order) ==
  [s \in DOMAIN links |->
     IF \E k \in DOMAIN order : order[k] = s
     THEN LET k == CHOOSE k \in DOMAIN order : order[k] = s
          IN IF k = Len(order) THEN null ELSE order[k + 1]
     ELSE links[s]]
Returning(order) == [Rest EXCEPT !.at = "push", !.start = order[1], !.end = Last(order),
                              !.count = Len(order)]
-----------------------------------------------------------------------------
(* ObjectAllocator_Push by a thread p: the end is linked to the list that    *)
(* was, and the start put first if that is still the list.                   *)
Linked(p) ==
  /\ p.at = "push"
  /\ link' = [link EXCEPT ![p.end] = firstFree]

PushedBy(p) == p.at = "linked" /\ firstFree = p.old

\* For the mutants: a push that lost the race swaps again without linking again.
SwapAgain(p) == [p EXCEPT !.old = firstFree]

\* What a push that lost the race goes on with.
Retry(p) == [p EXCEPT !.at = "push"]

OwnerLinks ==
  /\ Linked(owner) /\ owner' = [owner EXCEPT !.at = "linked", !.old = firstFree]
  /\ UNCHANGED <<tree, firstFree, nbFree, nbInUse, queue, server, life>>

\* A new sample counts as free; a tree the queue had no room for is returned.
OwnerPushes ==
  /\ owner.at = "linked"
  /\ IF PushedBy(owner)
     THEN /\ firstFree' = owner.start /\ nbFree' = nbFree + owner.count
          /\ nbInUse' = IF owner.name # 0 THEN nbInUse ELSE nbInUse - owner.count
          /\ owner' = IF owner.name # 0 THEN [Rest EXCEPT !.at = "pop", !.name = owner.name] ELSE Rest
     ELSE owner' = Retry(owner) /\ UNCHANGED <<firstFree, nbFree, nbInUse>>
  /\ UNCHANGED <<link, tree, queue, server, life>>

\* ObjectAllocator_Pop: the first sample and its successor are read.
OwnerReads ==
  /\ owner.at = "pop"
  /\ owner' = [owner EXCEPT !.at = "taken", !.old = firstFree, !.next = link[firstFree]]
  /\ UNCHANGED <<link, tree, firstFree, nbFree, nbInUse, queue, server, life>>

\* Sample_Prepare, and the sample added under the current one.
Prepare(s, n) ==
  /\ up' = [up EXCEPT ![s] = current] /\ name' = [name EXCEPT ![s] = n]
  /\ kids' = [kids EXCEPT ![s] = << >>, ![current] = Append(@, s)]
  /\ calls' = [calls EXCEPT ![s] = 1] /\ depth' = [depth EXCEPT ![s] = 0]
  /\ current' = s

OwnerPops ==
  /\ owner.at = "taken"
  /\ IF firstFree = owner.old
     THEN /\ firstFree' = owner.next /\ nbFree' = nbFree - 1 /\ nbInUse' = nbInUse + 1
          /\ link' = [link EXCEPT ![owner.old] = null]
          /\ Prepare(owner.old, owner.name) /\ begun' = begun + 1 /\ owner' = Rest
     ELSE /\ owner' = [owner EXCEPT !.at = "pop"]
          /\ UNCHANGED <<link, tree, firstFree, nbFree, nbInUse>>
  /\ UNCHANGED <<queue, server, life>>
-----------------------------------------------------------------------------
(* BeginCPUSample and EndCPUSample.                                          *)
Sibling(n) == { s \in ToSet(kids[current]) : name[s] = n }

\* For the mutants: a call that is merged is not counted.
CountOnce(s) == UNCHANGED calls

\* A call is added to a sample that has some.
Recount(s) == calls' = [calls EXCEPT ![s] = @ + 1]

\* A sibling of the same name is entered again.
BeginAgain(n, flag) ==
  /\ flag = "aggregate" /\ Sibling(n) # {}
  /\ current' = CHOOSE s \in Sibling(n) : TRUE
  /\ Recount(current') /\ begun' = begun + 1
  /\ UNCHANGED <<link, kids, up, name, depth, firstFree, nbFree, nbInUse, owner>>

\* The call is one level deeper in the same sample.
BeginDeeper(n, flag) ==
  /\ flag = "recursive" /\ name[current] = n
  /\ depth' = [depth EXCEPT ![current] = @ + 1]
  /\ Recount(current) /\ begun' = begun + 1
  /\ UNCHANGED <<link, kids, up, name, current, firstFree, nbFree, nbInUse, owner>>

\* ObjectAllocator_Alloc: a new sample is made and pushed if the list is empty.
BeginNew(n, flag) ==
  /\ ~(flag = "aggregate" /\ Sibling(n) # {}) /\ ~(flag = "recursive" /\ name[current] = n)
  /\ IF firstFree # null
     THEN /\ owner' = [Rest EXCEPT !.at = "pop", !.name = n]
          /\ UNCHANGED <<link, tree>>
     ELSE LET s == Len(link) + 1
          IN /\ s <= MaxSamples
             /\ link' = Append(link, null) /\ kids' = Append(kids, << >>)
             /\ up' = Append(up, null) /\ name' = Append(name, 0)
             /\ calls' = Append(calls, 0) /\ depth' = Append(depth, 0)
             /\ owner' = [Returning(<<s>>) EXCEPT !.name = n]
             /\ UNCHANGED <<current, begun>>
  /\ UNCHANGED <<firstFree, nbFree, nbInUse>>

BeginCPUSample(n, flag) ==
  /\ life = "running" /\ owner.at = "idle"
  /\ BeginAgain(n, flag) \/ BeginDeeper(n, flag) \/ BeginNew(n, flag)
  /\ UNCHANGED <<queue, server, life>>

\* ThreadSampler_Pop: a tree that is complete is taken off the root and queued,
\* or given back at once when the queue is full.
EndCPUSample ==
  /\ life = "running" /\ owner.at = "idle" /\ current # root
  /\ IF depth[current] > 0
     THEN /\ depth' = [depth EXCEPT ![current] = @ - 1]
          /\ UNCHANGED <<link, kids, current, begun, queue, owner>>
     ELSE /\ current' = up[current]
          /\ IF up[current] # root THEN UNCHANGED <<link, kids, begun, queue, owner>>
             ELSE /\ begun' = 0
                  /\ IF Len(queue) < Capacity
                     THEN /\ kids' = [kids EXCEPT ![root] = << >>]
                          /\ queue' = Append(queue, [top |-> current, begun |-> begun])
                          /\ UNCHANGED <<link, owner>>
                     ELSE /\ kids' = [s \in Samples |-> IF s \in ToSet(Flattened(current)) \cup {root}
                                                        THEN << >> ELSE kids[s]]
                          /\ link' = Chain(link, Flattened(current))
                          /\ owner' = Returning(Flattened(current))
                          /\ UNCHANGED queue
          /\ UNCHANGED depth
  /\ UNCHANGED <<up, name, calls, firstFree, nbFree, nbInUse, server, life>>
-----------------------------------------------------------------------------
(* The server thread.  A viewer may be connected or not: without one nothing *)
(* is taken from the queue until the end (FlushMessageQueue).                *)
TakeTree ==
  /\ life \in {"running", "exiting"} /\ server.at = "idle" /\ queue # << >>
  /\ LET order == Flattened(queue[1].top)
     IN /\ link' = Chain(link, order)
        /\ kids' = [s \in Samples |-> IF s \in ToSet(order) THEN << >> ELSE kids[s]]
        /\ server' = Returning(order)
  /\ UNCHANGED <<up, name, calls, depth, current, begun, firstFree, nbFree, nbInUse, queue, owner, life>>

ServerLinks ==
  /\ Linked(server) /\ server' = [server EXCEPT !.at = "linked", !.old = firstFree]
  /\ UNCHANGED <<tree, firstFree, nbFree, nbInUse, queue, owner, life>>

\* The message is consumed when its tree has been returned.
ServerPushes ==
  /\ server.at = "linked"
  /\ IF PushedBy(server)
     THEN /\ firstFree' = server.start
          /\ nbFree' = nbFree + server.count /\ nbInUse' = nbInUse - server.count
          /\ server' = Rest /\ queue' = Tail(queue)
     ELSE server' = Retry(server) /\ UNCHANGED <<firstFree, nbFree, nbInUse, queue>>
  /\ UNCHANGED <<link, tree, owner, life>>

\* Remotery_Destructor, called when every sample was ended: the thread is asked
\* to exit, returns what is queued and is joined; then the allocator is destroyed.
RequestExit ==
  /\ life = "running" /\ owner.at = "idle" /\ current = root /\ life' = "exiting"
  /\ UNCHANGED <<link, tree, firstFree, nbFree, nbInUse, queue, owner, server>>
Join ==
  /\ life = "exiting" /\ server.at = "idle" /\ queue = << >> /\ life' = "joined"
  /\ UNCHANGED <<link, tree, firstFree, nbFree, nbInUse, queue, owner, server>>

OwnerStep == OwnerLinks \/ OwnerPushes \/ OwnerReads \/ OwnerPops
ServerStep == ServerLinks \/ ServerPushes

Next ==
  \/ \E n \in Names, flag \in Flags : BeginCPUSample(n, flag)
  \/ EndCPUSample \/ OwnerStep
  \/ TakeTree \/ ServerStep
  \/ RequestExit \/ Join

Spec == Init /\ [][Next]_vars
-----------------------------------------------------------------------------
\* The samples on the free list, at most as many as there are.
FreeList ==
  LET after[k \in 0..Len(link)] ==
        IF k = 0 THEN firstFree
        ELSE IF after[k - 1] = null THEN null ELSE link[after[k - 1]]
  IN [k \in 1..(Len(link) + 1) |-> after[k - 1]]
Free == ToSet(FreeList) \ {null}
InTrees == ToSet(Preorder(root)) \cup UNION { ToSet(Preorder(queue[q].top)) : q \in DOMAIN queue }

\* The free list ends, whichever pushes and pops overlap, and no sample on it
\* is in a tree: in the one that grows, or in one that was queued.
FreeListIsSound == Last(FreeList) = null /\ Free \cap InTrees = {}

\* A tree in the queue counts every call it is made of, however those were
\* merged or nested.
CallsAreCounted ==
  \A q \in DOMAIN queue :
    (q = 1 => server.at = "idle") =>
      MapThenSumSet(LAMBDA s : calls[s], ToSet(Preorder(queue[q].top))) = queue[q].begun

\* ObjectAllocator_Destructor asserts that nothing is in use: when the thread
\* is joined every sample but the root is back on the list, and so counted.
NothingInUse ==
  life = "joined" => /\ nbInUse = 1 /\ nbFree = Len(link) - 1
                     /\ Free = Samples \ {root}
=============================================================================
