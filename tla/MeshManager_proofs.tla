------------------------- MODULE MeshManager_proofs -------------------------
(***************************************************************************)
(* A proof that MeshManager keeps one mesh under a name, for any number of *)
(* threads that load and any names, however their lookups, their waits for *)
(* the mutex and their loaders interleave with the client that makes       *)
(* meshes and changes them.  What the meshes are made of plays no part: a  *)
(* mesh is known by the place it has among all that were made.             *)
(***************************************************************************)
EXTENDS MeshManager, SequenceTheorems, TLAPS

-----------------------------------------------------------------------------
(* The inductive invariant.                                                *)

\* The meshes that were made, as a sequence of whatever they are.
Made == content \in Seq(ToSet(content)) /\ Len(content) <= MaxMeshes

\* Every name has a mesh that was made, and no two have the same one.
Kept ==
  /\ DOMAIN meshes \subseteq Names
  /\ \A n \in DOMAIN meshes : meshes[n] \in 1..Len(content)
  /\ \A n, o \in DOMAIN meshes : meshes[n] = meshes[o] => n = o

\* Where the threads are: one that waits for the mutex has asked for a file, and
\* one that loads has the mutex and loads a file no mesh is kept under.
Loading ==
  /\ owner \in Threads \cup {"none"}
  /\ pc \in [Threads -> {"idle", "lock", "loading"}]
  /\ asked \in [Threads -> Names \cup {""}]
  /\ \A t \in Threads :
       /\ pc[t] = "lock" => asked[t] \in MeshFiles
       /\ pc[t] = "loading" => /\ owner = t
                               /\ asked[t] \in MeshFiles /\ asked[t] \notin DOMAIN meshes

\* Whoever got a mesh asked for a file, and got the mesh that is kept.
Answered ==
  /\ answers \subseteq Names \X (0..Len(content))
  /\ \A a \in answers : a[2] # null => /\ a[1] \in MeshFiles \cap DOMAIN meshes
                                 /\ meshes[a[1]] = a[2]

ManagerInv == Made /\ Kept /\ Loading /\ Answered /\ crashed \in BOOLEAN

-----------------------------------------------------------------------------
(* What a step does to the meshes.                                         *)

\* A sequence is one of its own elements.
LEMMA OfItsElements ==
  ASSUME NEW S, NEW s \in Seq(S) PROVE s \in Seq(ToSet(s)) /\ Len(s) \in Nat /\ DOMAIN s = 1..Len(s)
<1>1. /\ Len(s) \in Nat /\ DOMAIN s = 1..Len(s)
      /\ s \in [1..Len(s) -> S]
  BY LenProperties
<1>2. \A i \in 1..Len(s) : s[i] \in ToSet(s)
  BY <1>1 DEF ToSet
<1>3. s \in [1..Len(s) -> ToSet(s)]
  BY <1>1, <1>2
<1> QED
  BY <1>1, <1>3, SeqDef

\* What a new mesh does to those there were.
LEMMA OneMore ==
  ASSUME NEW m, Made, Make(m)
  PROVE  Made' /\ Len(content) \in Nat /\ Len(content') = Len(content) + 1
<1>1. Len(content) \in Nat /\ DOMAIN content = 1..Len(content)
  BY OfItsElements DEF Made
<1>2. content \in Seq(ToSet(content) \cup {m})
  BY <1>1, SeqDef DEF Made, ToSet
<1>3. /\ content' \in Seq(ToSet(content) \cup {m})
      /\ Len(content') = Len(content) + 1
  BY <1>2, AppendProperties DEF Make
<1>4. content' \in Seq(ToSet(content'))
  BY <1>3, OfItsElements
<1>5. Len(content) < MaxMeshes
  BY DEF Make
<1>6. PICK n \in Nat : n = Len(content)
  BY <1>1
<1>7. Len(content') <= MaxMeshes
  <2>1. MaxMeshes \in Nat
    BY NamesAssumption
  <2>2. n < MaxMeshes /\ Len(content') = n + 1
    BY <1>3, <1>5, <1>6
  <2>3. n + 1 <= MaxMeshes
    BY <2>1, <2>2
  <2> QED
    BY <2>2, <2>3
<1> QED
  BY <1>1, <1>3, <1>4, <1>7 DEF Made

\* A mesh that is changed stays where it is.
LEMMA ChangedKeepsPlaces ==
  ASSUME NEW m, NEW new, Made, content' = [content EXCEPT ![m] = new]
  PROVE  Made' /\ Len(content') = Len(content)
<1>1. Len(content) \in Nat /\ DOMAIN content = 1..Len(content)
  BY OfItsElements DEF Made
<1>2. content \in [1..Len(content) -> ToSet(content)]
  BY <1>1, LenProperties DEF Made
<1>3. content' \in [1..Len(content) -> ToSet(content) \cup {new}]
  BY <1>2
<1>4. content' \in Seq(ToSet(content) \cup {new})
  <2> DEFINE All == ToSet(content) \cup {new}
  <2>1. PICK n \in Nat : n = Len(content)
    BY <1>1
  <2>2. content' \in [1..n -> All]
    BY <1>3, <2>1
  <2> HIDE DEF All
  <2>3. Seq(All) = UNION {[1..k -> All] : k \in Nat}
    BY SeqDef
  <2>4. content' \in Seq(All)
    BY <2>2, <2>3
  <2> QED
    BY <2>4 DEF All
<1>5. Len(content') = Len(content)
  BY <1>1, <1>3, <1>4, LenProperties
<1> QED
  BY <1>1, <1>4, <1>5, OfItsElements DEF Made

\* A new mesh kept under a name that had none.
LEMMA KeptUnder ==
  ASSUME NEW name \in Names, Kept, name \notin DOMAIN meshes,
         Len(content) \in Nat, Len(content') = Len(content) + 1,
         meshes' = [n \in DOMAIN meshes \cup {name} |->
                      IF n = name THEN Len(content) + 1 ELSE meshes[n]]
  PROVE  /\ Kept' /\ name \in DOMAIN meshes' /\ meshes'[name] = Len(content')
         /\ \A n \in DOMAIN meshes : n \in DOMAIN meshes' /\ meshes'[n] = meshes[n]
         /\ DOMAIN meshes' = DOMAIN meshes \cup {name}
<1>1. \A n \in DOMAIN meshes : n # name /\ meshes[n] \in 1..Len(content)
  BY DEF Kept
<1>2. DOMAIN meshes' = DOMAIN meshes \cup {name} /\ meshes'[name] = Len(content) + 1
  OBVIOUS
<1>3. \A n \in DOMAIN meshes : meshes'[n] = meshes[n]
  BY <1>1, <1>2
<1>4. \A n \in DOMAIN meshes' : meshes'[n] \in 1..Len(content')
  BY <1>1, <1>2, <1>3
<1>5. \A n, o \in DOMAIN meshes' : meshes'[n] = meshes'[o] => n = o
  <2> SUFFICES ASSUME NEW n \in DOMAIN meshes', NEW o \in DOMAIN meshes', meshes'[n] = meshes'[o]
               PROVE  n = o
    OBVIOUS
  <2>1. CASE n = name /\ o # name
    BY <1>1, <1>2, <1>3, <2>1
  <2>2. CASE n # name /\ o = name
    BY <1>1, <1>2, <1>3, <2>2
  <2>3. CASE n # name /\ o # name
    BY <1>2, <1>3, <2>3 DEF Kept
  <2> QED
    BY <2>1, <2>2, <2>3
<1> QED
  BY <1>2, <1>3, <1>4, <1>5 DEF Kept

\* Insert leaves a name that has a mesh alone.
LEMMA Inserted ==
  ASSUME NEW name \in Names, Kept,
         Len(content) \in Nat, Len(content') = Len(content) + 1,
         meshes' = Insert(name, Len(content) + 1)
  PROVE  /\ Kept'
         /\ \A n \in DOMAIN meshes : n \in DOMAIN meshes' /\ meshes'[n] = meshes[n]
         /\ DOMAIN meshes' \subseteq DOMAIN meshes \cup {name}
         /\ name \notin DOMAIN meshes => name \in DOMAIN meshes' /\ meshes'[name] = Len(content')
<1>1. CASE name \in DOMAIN meshes
  BY <1>1 DEF Insert, Kept
<1>2. CASE name \notin DOMAIN meshes
  BY <1>2, KeptUnder DEF Insert
<1> QED
  BY <1>1, <1>2

-----------------------------------------------------------------------------
(* The steps.                                                              *)

\* A step of the client keeps what threads were told and what they are at.
LEMMA OfTheClient ==
  ASSUME Kept, Loading, Answered, UNCHANGED threads,
         Len(content) \in Nat, Len(content') \in Nat, Len(content) <= Len(content'),
         \A n \in DOMAIN meshes : n \in MeshFiles => n \in DOMAIN meshes' /\ meshes'[n] = meshes[n],
         \A n \in MeshFiles : n \in DOMAIN meshes' => n \in DOMAIN meshes
  PROVE  Loading' /\ Answered'
<1>1. Loading'
  BY DEF Loading, threads
<1>2. answers' = answers /\ 0..Len(content) \subseteq 0..Len(content')
  BY DEF threads
<1>3. Answered'
  BY <1>2 DEF Answered
<1> QED
  BY <1>1, <1>3

LEMMA LookUpKeeps ==
  ASSUME NEW t \in Threads, NEW name \in Names, ManagerInv, LookUp(t, name)
  PROVE  ManagerInv'
<1>1. UNCHANGED <<meshes, content, owner, crashed>>
  BY DEF LookUp
<1>2. Made' /\ Kept' /\ crashed' \in BOOLEAN
  BY <1>1 DEF ManagerInv, Made, Kept
<1>3. asked' = [asked EXCEPT ![t] = name] /\ pc[t] = "idle"
  BY DEF LookUp
<1>4. \/ name \in MeshFiles /\ pc' = [pc EXCEPT ![t] = "lock"] /\ UNCHANGED answers
      \/ /\ pc' = pc
         /\ answers' = answers \cup {<<name, IF name \in MeshFiles THEN MeshByName(name) ELSE null>>}
  BY DEF LookUp
<1>5. Loading'
  <2>1. pc' \in [Threads -> {"idle", "lock", "loading"}] /\ asked' \in [Threads -> Names \cup {""}]
    BY <1>3, <1>4 DEF ManagerInv, Loading
  <2>2. ASSUME NEW u \in Threads, u # t PROVE pc'[u] = pc[u] /\ asked'[u] = asked[u]
    BY <1>3, <1>4, <2>2 DEF ManagerInv, Loading
  <2>3. pc'[t] \in {"idle", "lock"} /\ asked'[t] = name /\ (pc'[t] = "lock" => name \in MeshFiles)
    BY <1>3, <1>4 DEF ManagerInv, Loading
  <2> QED
    BY <1>1, <2>1, <2>2, <2>3 DEF ManagerInv, Loading
<1>6. Answered'
  <2>1. CASE answers' = answers
    BY <1>1, <2>1 DEF ManagerInv, Answered
  <2>2. CASE answers' = answers \cup {<<name, IF name \in MeshFiles THEN MeshByName(name) ELSE null>>}
    <3>1. PICK m : m = IF name \in MeshFiles THEN MeshByName(name) ELSE null
      OBVIOUS
    <3>2. Len(content) \in Nat
      BY OfItsElements DEF ManagerInv, Made
    <3>3. m \in 0..Len(content) /\ (m # null => name \in MeshFiles \cap DOMAIN meshes /\ meshes[name] = m)
      BY <3>1, <3>2 DEF ManagerInv, Kept, MeshByName, null
    <3> QED
      BY <1>1, <2>2, <3>1, <3>3 DEF ManagerInv, Answered
  <2> QED
    BY <1>4, <2>1, <2>2
<1> QED
  BY <1>2, <1>5, <1>6 DEF ManagerInv

LEMMA LoadLockedKeeps ==
  ASSUME NEW t \in Threads, ManagerInv, LoadLocked(t)
  PROVE  ManagerInv'
<1>1. UNCHANGED <<meshes, content, asked, crashed>> /\ pc[t] = "lock" /\ owner = "none"
  BY DEF LoadLocked
<1>2. Made' /\ Kept' /\ crashed' \in BOOLEAN
  BY <1>1 DEF ManagerInv, Made, Kept
<1>3. asked[t] \in MeshFiles /\ asked[t] \in Names
  BY <1>1 DEF ManagerInv, Loading, Names
<1>4. \A u \in Threads : pc[u] # "loading"
  BY <1>1, NamesAssumption DEF ManagerInv, Loading
<1>5. CASE HasMesh(asked[t])
  <2>1. /\ pc' = [pc EXCEPT ![t] = "idle"] /\ owner' = owner
        /\ answers' = answers \cup {<<asked[t], meshes[asked[t]]>>}
    BY <1>5 DEF LoadLocked, Answer
  <2>2. Loading'
    BY <1>1, <1>4, <2>1 DEF ManagerInv, Loading
  <2>3. PICK m : m = meshes[asked[t]]
    OBVIOUS
  <2>4. m \in 0..Len(content) /\ asked[t] \in DOMAIN meshes
    <3>1. Len(content) \in Nat
      BY OfItsElements DEF ManagerInv, Made
    <3>2. asked[t] \in DOMAIN meshes
      BY <1>5 DEF HasMesh
    <3>3. m \in 1..Len(content)
      BY <2>3, <3>2 DEF ManagerInv, Kept
    <3> QED
      BY <3>1, <3>2, <3>3
  <2>5. Answered'
    BY <1>1, <1>3, <2>1, <2>3, <2>4 DEF ManagerInv, Answered
  <2> QED
    BY <1>2, <2>2, <2>5 DEF ManagerInv
<1>6. CASE ~HasMesh(asked[t])
  <2>1. /\ pc' = [pc EXCEPT ![t] = "loading"] /\ owner' = t /\ answers' = answers
    BY <1>6 DEF LoadLocked
  <2>2. asked[t] \notin DOMAIN meshes
    BY <1>3, <1>6, NamesAssumption DEF HasMesh
  <2>3. Loading'
    BY <1>1, <1>3, <1>4, <2>1, <2>2 DEF ManagerInv, Loading
  <2>4. Answered'
    BY <1>1, <2>1 DEF ManagerInv, Answered
  <2> QED
    BY <1>2, <2>3, <2>4 DEF ManagerInv
<1> QED
  BY <1>5, <1>6

LEMMA LoadReturnsKeeps ==
  ASSUME NEW t \in Threads, ManagerInv, LoadReturns(t)
  PROVE  ManagerInv'
<1>1. /\ pc[t] = "loading" /\ owner' = "none" /\ pc' = [pc EXCEPT ![t] = "idle"]
      /\ asked' = asked /\ crashed' = crashed
  BY DEF LoadReturns
<1>2. asked[t] \in MeshFiles /\ asked[t] \in Names /\ asked[t] \notin DOMAIN meshes /\ owner = t
  BY <1>1 DEF ManagerInv, Loading, Names
<1>3. Loading'
  <2>1. \A u \in Threads : pc'[u] # "loading" /\ (pc'[u] = "lock" => pc[u] = "lock")
    BY <1>1, <1>2 DEF ManagerInv, Loading
  <2> QED
    BY <1>1, <2>1 DEF ManagerInv, Loading
<1>4. Len(content) \in Nat
  BY OfItsElements DEF ManagerInv, Made
<1>5. ASSUME NEW m \in Loadable, Make(m),
             meshes' = Insert(asked[t], Len(content) + 1), Answer(t, Len(content) + 1)
      PROVE  ManagerInv'
  <2>1. Made' /\ Len(content') = Len(content) + 1
    BY <1>5, OneMore DEF ManagerInv
  <2>2. /\ Kept' /\ asked[t] \in DOMAIN meshes' /\ meshes'[asked[t]] = Len(content')
        /\ \A n \in DOMAIN meshes : n \in DOMAIN meshes' /\ meshes'[n] = meshes[n]
    BY <1>2, <1>4, <1>5, <2>1, Inserted DEF ManagerInv
  <2>3. answers' = answers \cup {<<asked[t], Len(content')>>}
    BY <1>5, <2>1 DEF Answer
  <2>4. Answered'
    <3>1. \A n \in 0..Len(content) : n \in 0..Len(content')
      BY <1>4, <2>1
    <3>2. Len(content') \in 0..Len(content')
      BY <1>4, <2>1
    <3>3. answers' \subseteq Names \X (0..Len(content'))
      BY <1>2, <2>3, <3>1, <3>2 DEF ManagerInv, Answered
    <3> QED
      BY <1>2, <2>2, <2>3, <3>3 DEF ManagerInv, Answered
  <2> QED
    BY <1>1, <1>3, <2>1, <2>2, <2>4 DEF ManagerInv
<1>6. CASE Answer(t, null) /\ UNCHANGED <<meshes, content>>
  <2>1. answers' = answers \cup {<<asked[t], null>>}
    BY <1>6 DEF Answer
  <2>2. Answered'
    BY <1>2, <1>4, <1>6, <2>1 DEF ManagerInv, Answered, null
  <2> QED
    BY <1>1, <1>3, <1>6, <2>2 DEF ManagerInv, Made, Kept
<1> QED
  BY <1>5, <1>6 DEF LoadReturns

\* A new mesh of the client's, under a name that is no file's.
LEMMA MakingKeeps ==
  ASSUME NEW name \in Others, NEW m, ManagerInv, Make(m), UNCHANGED threads, crashed' \in BOOLEAN,
         Kept', \A n \in DOMAIN meshes : n # name => n \in DOMAIN meshes' /\ meshes'[n] = meshes[n],
         DOMAIN meshes' \subseteq DOMAIN meshes \cup {name}
  PROVE  ManagerInv'
<1>1. Made' /\ Len(content) \in Nat /\ Len(content') = Len(content) + 1
  BY OneMore DEF ManagerInv
<1>2. name \notin MeshFiles
  BY NamesAssumption
<1>3. PICK n \in Nat : n = Len(content)
  BY <1>1
<1>4. Len(content') \in Nat /\ Len(content) <= Len(content')
  BY <1>1, <1>3
<1>5. \A o \in DOMAIN meshes : o \in MeshFiles => o \in DOMAIN meshes' /\ meshes'[o] = meshes[o]
  BY <1>2
<1>6. \A o \in MeshFiles : o \in DOMAIN meshes' => o \in DOMAIN meshes
  BY <1>2
<1>7. Loading' /\ Answered'
  BY <1>1, <1>4, <1>5, <1>6, OfTheClient DEF ManagerInv
<1> QED
  BY <1>1, <1>7 DEF ManagerInv

LEMMA CreateKeeps ==
  ASSUME NEW name \in Others, NEW m, ManagerInv, Make(m), UNCHANGED threads, crashed' \in BOOLEAN,
         meshes' = Insert(name, Len(content) + 1)
  PROVE  ManagerInv'
<1>1. Len(content) \in Nat /\ Len(content') = Len(content) + 1
  BY OneMore DEF ManagerInv
<1>2. name \in Names
  BY DEF Names
<1>3. /\ Kept' /\ \A n \in DOMAIN meshes : n \in DOMAIN meshes' /\ meshes'[n] = meshes[n]
      /\ DOMAIN meshes' \subseteq DOMAIN meshes \cup {name}
  BY <1>1, <1>2, Inserted DEF ManagerInv
<1> QED
  BY <1>3, MakingKeeps

\* A mesh without a name takes the place of the one before.
LEMMA AddMeshKeeps ==
  ASSUME NEW name \in Others, NEW m, ManagerInv, AddMesh(name, m)
  PROVE  ManagerInv'
<1>1. Make(m) /\ UNCHANGED threads /\ crashed' \in BOOLEAN
  BY DEF AddMesh, ManagerInv
<1>2. Len(content) \in Nat /\ Len(content') = Len(content) + 1 /\ name \in Names
  BY <1>1, OneMore DEF ManagerInv, Names
<1>3. CASE HasMesh(name)
  <2>1. meshes' = meshes
    BY <1>3 DEF AddMesh
  <2>2. Kept'
    BY <1>2, <2>1 DEF ManagerInv, Kept
  <2> QED
    BY <1>1, <2>1, <2>2, MakingKeeps
<1>4. CASE ~HasMesh(name)
  <2>1. meshes' = [n \in DOMAIN meshes \cup {name} |->
                     IF n = name THEN Len(content) + 1 ELSE meshes[n]]
    BY <1>4 DEF AddMesh
  <2>2. /\ DOMAIN meshes' = DOMAIN meshes \cup {name}
        /\ meshes'[name] = Len(content) + 1
        /\ \A n \in DOMAIN meshes : n # name => meshes'[n] = meshes[n]
    BY <2>1
  <2>3. \A n \in DOMAIN meshes : meshes[n] \in 1..Len(content)
    BY DEF ManagerInv, Kept
  <2>4. Kept'
    <3>1. \A n \in DOMAIN meshes' : meshes'[n] \in 1..Len(content')
      BY <1>2, <2>2, <2>3
    <3>2. ASSUME NEW n \in DOMAIN meshes', NEW o \in DOMAIN meshes', meshes'[n] = meshes'[o]
          PROVE  n = o
      <4>1. CASE n = name /\ o # name
        BY <1>2, <2>2, <2>3, <3>2, <4>1
      <4>2. CASE n # name /\ o = name
        BY <1>2, <2>2, <2>3, <3>2, <4>2
      <4>3. CASE n # name /\ o # name
        BY <2>2, <3>2, <4>3 DEF ManagerInv, Kept
      <4> QED
        BY <4>1, <4>2, <4>3
    <3> QED
      BY <1>2, <2>2, <3>1, <3>2 DEF ManagerInv, Kept
  <2> QED
    BY <1>1, <2>2, <2>4, MakingKeeps
<1> QED
  BY <1>3, <1>4

LEMMA CreateBooleanKeeps ==
  ASSUME NEW name \in Others, NEW a, NEW b, NEW o, ManagerInv, CreateBoolean(name, a, b, o)
  PROVE  ManagerInv'
<1>1. CASE \E solid \in Solids : Make(<<solid>>) /\ meshes' = Insert(name, Len(content) + 1)
                                 /\ UNCHANGED <<threads, crashed>>
  BY <1>1, CreateKeeps DEF ManagerInv
<1>2. CASE crashed' = TRUE /\ UNCHANGED <<meshes, content, threads>>
  BY <1>2 DEF ManagerInv, Made, Kept, Loading, Answered, threads
<1> QED
  BY <1>1, <1>2 DEF CreateBoolean

\* A mesh that is changed stays the one it is.
LEMMA ChangingKeeps ==
  ASSUME NEW m, NEW new, ManagerInv, content' = [content EXCEPT ![m] = new],
         UNCHANGED <<meshes, threads, crashed>>
  PROVE  ManagerInv'
<1>1. Made' /\ Len(content') = Len(content)
  BY ChangedKeepsPlaces DEF ManagerInv
<1> QED
  BY <1>1 DEF ManagerInv, Kept, Loading, Answered, threads

-----------------------------------------------------------------------------
(* The theorems.                                                           *)

LEMMA ManagerStep ==
  ManagerInv /\ [ManagerNext]_managerVars => ManagerInv'
<1> SUFFICES ASSUME ManagerInv, [ManagerNext]_managerVars PROVE ManagerInv'
  OBVIOUS
<1>1. ASSUME NEW t \in Threads, NEW n \in Names, LookUp(t, n) PROVE ManagerInv'
  BY <1>1, LookUpKeeps
<1>2. ASSUME NEW t \in Threads, LoadLocked(t) PROVE ManagerInv'
  BY <1>2, LoadLockedKeeps
<1>3. ASSUME NEW t \in Threads, LoadReturns(t) PROVE ManagerInv'
  BY <1>3, LoadReturnsKeeps
<1>4. ASSUME NEW n \in Others, NEW shape \in Makeable, Create(n, shape) PROVE ManagerInv'
  BY <1>4, CreateKeeps DEF Create, ManagerInv
<1>5. ASSUME NEW n \in Others, NEW m \in Loadable, AddMesh(n, m) PROVE ManagerInv'
  BY <1>5, AddMeshKeeps
<1>6. ASSUME NEW n \in Others, NEW a \in DOMAIN content, NEW b \in DOMAIN content, NEW o \in Offsets,
             CreateBoolean(n, a, b, o)
      PROVE  ManagerInv'
  BY <1>6, CreateBooleanKeeps
<1>7. ASSUME NEW n \in Names, Textured(n) PROVE ManagerInv'
  BY <1>7, ChangingKeeps DEF Textured
<1>8. ASSUME NEW m \in DOMAIN content, NEW as, Changed(m, as) PROVE ManagerInv'
  BY <1>8, ChangingKeeps DEF Changed
<1>9. CASE UNCHANGED managerVars
  BY <1>9 DEF managerVars, ManagerInv, Made, Kept, Loading, Answered
<1>10. ASSUME NEW m \in DOMAIN content,
              (\E o \in Offsets : Moves(m, o)) \/ Mirrors(m) \/ Recalculates(m)
       PROVE  ManagerInv'
  BY <1>8, <1>10 DEF Moves, Mirrors, Recalculates
<1> QED
  BY <1>1, <1>2, <1>3, <1>4, <1>5, <1>6, <1>7, <1>9, <1>10 DEF ManagerNext

\* Whatever the threads that load and the client do (MeshManager::Load,
\* AddMesh, CreateBoolean and the other Create functions), only one thread at a
\* time loads a file, no mesh is kept under two names, and whoever got a mesh
\* for a name got the one that is kept.
THEOREM ManagerAlwaysSound == ManagerSpec => []ManagerInv
<1>1. ManagerInit => ManagerInv
  <2> SUFFICES ASSUME ManagerInit PROVE ManagerInv
    OBVIOUS
  <2>1. Made
    <3>1. << >> \in Seq(ToSet(content)) /\ Len(<< >>) = 0
      BY EmptySeq
    <3>2. MaxMeshes \in Nat
      BY NamesAssumption
    <3>3. 0 <= MaxMeshes
      BY <3>2
    <3> QED
      BY <3>1, <3>3 DEF ManagerInit, Made
  <2>2. Kept
    <3>1. meshes \in Seq({}) /\ Len(meshes) = 0
      BY EmptySeq DEF ManagerInit
    <3>2. DOMAIN meshes = {}
      BY <3>1, OfItsElements
    <3> QED
      BY <3>2 DEF Kept
  <2>3. Loading
    BY DEF ManagerInit, Loading
  <2>4. Answered /\ crashed \in BOOLEAN
    BY DEF ManagerInit, Answered
  <2> QED
    BY <2>1, <2>2, <2>3, <2>4 DEF ManagerInv
<1> QED
  BY <1>1, ManagerStep, PTL DEF ManagerSpec

\* A name stands for one mesh, whatever threads asked for it and when
\* (MeshManager::Load, AddMesh and the Create functions).
THEOREM OneMeshAlwaysPerName == ManagerSpec => []OneMeshPerName
<1>1. ManagerInv => OneMeshPerName
  <2> SUFFICES ASSUME ManagerInv PROVE OneMeshPerName
    OBVIOUS
  <2>1. Len(content) \in Nat /\ DOMAIN content = 1..Len(content)
    BY OfItsElements DEF ManagerInv, Made
  <2>2. ManagerTypeOK
    BY <2>1 DEF ManagerInv, Made, Kept, Loading, Answered, ManagerTypeOK
  <2>3. \A a \in answers : a[2] # null => MeshByName(a[1]) = a[2]
    BY DEF ManagerInv, Answered, MeshByName
  <2>4. IsInjective(meshes)
    BY DEF ManagerInv, Kept, IsInjective
  <2> QED
    BY <2>2, <2>3, <2>4 DEF OneMeshPerName
<1> QED
  BY <1>1, ManagerAlwaysSound, PTL
=============================================================================
