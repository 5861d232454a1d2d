---------------------------- MODULE SampleNames -----------------------------
(***************************************************************************)
(* The thread samplers of Remotery.c and the names of their samples.  A    *)
(* thread makes its sampler when it first samples and puts it before the   *)
(* others in a list without locks.  The name of a sample is hashed once    *)
(* for each place of a call, in a static variable all threads share, and   *)
(* the thread that hashes it stores it in its own table; the server thread *)
(* looks for the name of a hash in the tables of all.  Tables are taken to *)
(* change at once: the server reads them without a lock.                   *)
(*                                                                         *)
(* StringTable: the hash table keeps its slots in one array, searched from *)
(* the key's place onward, and is made larger when more than two thirds of *)
(* it are used; names lie one after another in a buffer that grows, and the *)
(* value of a slot is where its name starts.  Memory is taken to be there: *)
(* a failure to grow is reported by Insert and passed over by              *)
(* StringTable_Insert.                                                     *)
(***************************************************************************)
EXTENDS Integers, Sequences, FiniteSetsExt, Folds

CONSTANTS
  FirstSlots,   \* slots of a new table: 1024 in the code
  Granularity   \* the buffer grows by multiples of this: 8192 in the code

Free == [key |-> 0, value |-> 0]
Slots(n) == [i \in 0..(n - 1) |-> Free]

\* The buffer: the names by their offsets, the bytes used and allocated.
NewTable == [max |-> FirstSlots, nb |-> 0, slots |-> Slots(FirstSlots),
             text |-> << >>, used |-> 0, allocated |-> 0]

\* Buffer_Grow and Buffer_Write of a name with its final zero.
Grown(t, length) ==
  IF t.used + length <= t.allocated THEN t.allocated
  ELSE LET least == t.allocated + length
       IN least + (Granularity - 1) - ((least - 1) % Granularity)
Written(t, name) ==
  [t EXCEPT !.text = Append(@, [at |-> t.used, name |-> name]),
            !.used = @ + name.length + 1, !.allocated = Grown(t, name.length + 1)]

\* The k-th slot searched for a key.
Place(n, key, k) == (key + k) % n

\* The first slot from the key's place that is free or holds the key.
Found(slots, n, key) ==
  LET stops == { k \in 0..(n - 1) : slots[Place(n, key, k)].key \in {0, key} }
  IN Place(n, key, Min(stops))

\* rmtHashTable_Insert without its resizing.
Put(t, key, value) ==
  LET i == Found(t.slots, t.max, key)
  IN [t EXCEPT !.slots[i] = [key |-> key, value |-> value],
               !.nb = IF t.slots[i].key = key THEN @ ELSE @ + 1]

\* For the mutants: the slots stay where they were.
Widened(t) ==
  LET n == t.max * (IF t.max < 8192 * 4 THEN 4 ELSE 2)
  IN [t EXCEPT !.max = n, !.slots = [i \in 0..(n - 1) |-> IF i < t.max THEN t.slots[i] ELSE Free]]

\* rmtHashTable_Resize: four times the slots (twice, when there are many), and
\* every pair put again, in the order of the old slots.
Resized(t) ==
  LET n == t.max * (IF t.max < 8192 * 4 THEN 4 ELSE 2)
      again[i \in 0..t.max] ==
        IF i = 0 THEN [t EXCEPT !.max = n, !.nb = 0, !.slots = Slots(n)]
        ELSE IF t.slots[i - 1].key = 0 THEN again[i - 1]
        ELSE Put(again[i - 1], t.slots[i - 1].key, t.slots[i - 1].value)
  IN again[t.max]

HashInsert(t, key, value) ==
  LET put == Put(t, key, value)
  IN IF put.nb > (put.max * 2) \div 3 THEN Resized(put) ELSE put

\* rmtHashTable_Find and StringTable_Find: the name at the offset, or none.
HashFind(t, key) ==
  LET s == t.slots[Found(t.slots, t.max, key)]
  IN IF s.key = key THEN <<s.value>> ELSE << >>
Names(t, hash) ==
  LET offset == HashFind(t, hash)
  IN { e.name : e \in { t.text[k] : k \in { j \in DOMAIN t.text : offset = <<t.text[j].at>> } } }

\* StringTable_Insert: a hash that is known keeps its first name.
Insert(t, hash, name) ==
  IF HashFind(t, hash) # << >> THEN t
  ELSE HashInsert(Written(t, name), hash, t.used)
-----------------------------------------------------------------------------
CONSTANTS
  Callers,    \* the threads that sample
  Places,     \* the places of calls: records of a hash, a length, and whether
              \* the place has a variable for the hash
  none        \* the end of the list

VARIABLES
  first,      \* first_thread_sampler
  next,       \* caller -> the next of its sampler
  local,      \* caller -> its own sampler has been set (tlsSet)
  at,         \* caller -> where it is: the step, its place, the list it read
  cache,      \* place -> the hash cached there, or 0
  names,      \* caller -> its table of names
  sampled     \* the hashes samples were pushed with

vars == <<first, next, local, at, cache, names, sampled>>

Away == [step |-> "away", place |-> none, old |-> none]

Init ==
  /\ first = none /\ next = [c \in Callers |-> none] /\ local = [c \in Callers |-> FALSE]
  /\ at = [c \in Callers |-> Away] /\ cache = [p \in Places |-> 0]
  /\ names = [c \in Callers |-> NewTable] /\ sampled = {}

Go(c, step) == at' = [at EXCEPT ![c].step = step]

\* Begin of a sample at a place.  A caller without a sampler makes one, and reads
\* what the list starts with.
Begin(c, p) ==
  /\ at[c].step = "away"
  /\ IF local[c] THEN /\ at' = [at EXCEPT ![c] = [step |-> "hashing", place |-> p, old |-> none]]
                      /\ UNCHANGED next
     ELSE /\ at' = [at EXCEPT ![c] = [step |-> "linking", place |-> p, old |-> first]]
          /\ next' = [next EXCEPT ![c] = first]
  /\ UNCHANGED <<first, local, cache, names, sampled>>

\* For the mutants: the list is set without looking whether it changed.
Blind(c) == TRUE

\* The compare and swap of the list's start.
Unchanged(c) == first = at[c].old

Link(c) ==
  /\ at[c].step = "linking"
  /\ IF Unchanged(c)
     THEN first' = c /\ local' = [local EXCEPT ![c] = TRUE] /\ Go(c, "hashing") /\ UNCHANGED next
     ELSE /\ next' = [next EXCEPT ![c] = first] /\ at' = [at EXCEPT ![c].old = first]
          /\ UNCHANGED <<first, local>>
  /\ UNCHANGED <<cache, names, sampled>>

\* ThreadSampler_GetNameHash: a hash that is cached is used as it is; otherwise it
\* is cached, for all to see, before its name is stored.
Hash(c) ==
  LET p == at[c].place
  IN /\ at[c].step = "hashing"
     /\ cache' = IF p.cached THEN [cache EXCEPT ![p] = p.hash] ELSE cache
     /\ Go(c, IF p.cached /\ cache[p] # 0 THEN "pushing" ELSE "storing")
     /\ UNCHANGED <<first, next, local, names, sampled>>

Store(c) ==
  /\ at[c].step = "storing"
  /\ names' = [names EXCEPT ![c] = Insert(@, at[c].place.hash, at[c].place)]
  /\ Go(c, "pushing")
  /\ UNCHANGED <<first, next, local, cache, sampled>>

\* The sample is pushed (see SampleTree).
Push(c) ==
  /\ at[c].step = "pushing"
  /\ sampled' = sampled \cup {at[c].place.hash}
  /\ at' = [at EXCEPT ![c] = Away]
  /\ UNCHANGED <<first, next, local, cache, names>>

Next == \E c \in Callers : (\E p \in Places : Begin(c, p)) \/ Link(c) \/ Hash(c) \/ Store(c) \/ Push(c)

Spec == Init /\ [][Next]_vars
-----------------------------------------------------------------------------
\* The samplers the server thread comes by.
Listed ==
  LET chain[k \in 0..Cardinality(Callers)] ==
        IF k = 0 THEN {first} ELSE chain[k - 1] \cup { next[c] : c \in chain[k - 1] \ {none} }
  IN chain[Cardinality(Callers)] \ {none}

\* No sampler is lost, whichever threads make theirs at the same time.
SamplersAreListed == Listed = { c \in Callers : local[c] }

\* The server can name what a sample is called: some table it comes by has a name
\* of that hash, of one of the places that hash to it, but for the time between
\* another thread's hashing and storing it; however often the table was made
\* larger, searches end in it and its names lie in memory.
SamplesHaveNames ==
  /\ \A h \in sampled :
       \/ \E c \in Callers : at[c].step = "storing" /\ at[c].place.hash = h
       \/ \E c \in Listed : \E p \in Names(names[c], h) : p.hash = h
  /\ \A c \in Callers :
       LET t == names[c]
           used == { i \in DOMAIN t.slots : t.slots[i].key # 0 }
       IN Cardinality(used) = t.nb /\ 3 * t.nb <= 2 * t.max /\ t.used <= t.allocated
=============================================================================
