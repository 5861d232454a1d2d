------------------------ MODULE SignalHandler_proofs ------------------------
(***************************************************************************)
(* The map of handlers is exact, no callback runs for a handler that is    *)
(* gone, and a signal reaches every callback it has to: for any threads,   *)
(* handlers and signals, nested or not.                                    *)
(***************************************************************************)
EXTENDS SignalHandler, SequenceTheorems, WellFoundedInduction, TLAPS

\* The least of some indices.
LEMMA LeastOf ==
  ASSUME NEW S \in SUBSET Nat, S # {}
  PROVE  Min(S) \in S /\ \A i \in S : Min(S) <= i
<1>1. PICK m \in S : \A i \in S : <<i, m>> \notin OpToRel(<, Nat)
  BY NatLessThanWellFounded, WFMin, Zenon
<1>2. ASSUME NEW i \in S, i < m PROVE FALSE
  <2>1. <<i, m>> \in OpToRel(<, Nat)
    BY <1>2 DEF OpToRel
  <2> QED
    BY <1>1, <2>1
<1>3. \A i \in S : m <= i
  BY <1>2
<1> QED
  BY <1>3 DEF Min

-----------------------------------------------------------------------------
(* The strengthening.                                                        *)

SigFrame == [op : Ops, pc : {"lock", "in", "wrapper"},
             handler : Handlers \cup {None}, at : Int, k : Nat,
             due : SUBSET (Handlers \X (Nat \ {0})), called : SUBSET (Handlers \X Nat)]

ShapeInv ==
  /\ stack \in [Threads -> Seq(SigFrame)]
  /\ life \in [Handlers -> {"new", "constructing", "alive", "destroying", "dead"}]
  /\ initialized \in [Handlers -> BOOLEAN]
  /\ wrapperIndex \in [Handlers -> Int]
  /\ callbacks \in [Handlers -> Nat]
  /\ counter \in Nat
  /\ gOnSignalWrappers \in [DOMAIN gOnSignalWrappers -> Handlers]
  /\ DOMAIN gOnSignalWrappers \subseteq 0 .. counter - 1

\* What an operation in progress knows of its handler.
OwnerOf(f) ==
  /\ f.op # "signal" => f.handler \in Handlers
  /\ f.op = "construct" => life[f.handler] = "constructing"
  /\ f.op = "destroy" => life[f.handler] = "destroying"

\* Where the loops of a signal are.
LoopOf(f) ==
  /\ f.pc = "wrapper" => /\ f.op = "signal"
                         /\ f.at \in DOMAIN gOnSignalWrappers
                         /\ f.handler = gOnSignalWrappers[f.at]
  /\ f.op = "signal" /\ f.pc = "lock" => f.at = -1

\* A callback a signal still has to call is that of a handler it comes to, or
\* a later one of the handler it is at.
Ahead(f, c) ==
  \E i \in DOMAIN gOnSignalWrappers :
    /\ gOnSignalWrappers[i] = c[1]
    /\ f.at < i \/ (f.at = i /\ f.pc = "wrapper" /\ f.k < c[2])
DueOf(f) ==
  f.op = "signal" =>
    \A c \in f.due : /\ c[2] <= callbacks[c[1]]
                     /\ life[c[1]] \notin {"new", "constructing"}
                     /\ life[c[1]] = "alive" => c \in f.called \/ Ahead(f, c)

FramesInv == \A t \in Threads : \A n \in DOMAIN stack[t] :
               /\ OwnerOf(stack[t][n]) /\ LoopOf(stack[t][n]) /\ DueOf(stack[t][n])

\* The global mutex is held by the one frame that is past its lock.
Holds(f) == f.op # "add" /\ f.pc # "lock"
LockInv ==
  \A t \in Threads : \A n \in DOMAIN stack[t] : Holds(stack[t][n]) =>
    /\ gWrapperMutex = t
    /\ \A m \in DOMAIN stack[t] : Holds(stack[t][m]) => m = n

\* Indices are given once, to handlers that are there.
RegInv ==
  /\ \A i \in DOMAIN gOnSignalWrappers :
       LET h == gOnSignalWrappers[i]
       IN life[h] \in {"alive", "destroying"} /\ wrapperIndex[h] = i
  /\ \A h \in Handlers :
       /\ wrapperIndex[h] < counter
       /\ initialized[h] /\ life[h] \in {"alive", "destroying"} => Registered(h)
       /\ life[h] \in {"new", "constructing"} => ~initialized[h] /\ wrapperIndex[h] = -1
       /\ \A g \in Handlers : wrapperIndex[g] = wrapperIndex[h] /\ wrapperIndex[h] # -1 => g = h

\* A handler is constructed or destroyed by one operation at a time.
Owns(f) == f.op \in {"construct", "destroy"}
OneOwnerInv ==
  \A t, u \in Threads : \A n \in DOMAIN stack[t] : \A m \in DOMAIN stack[u] :
    /\ Owns(stack[t][n]) /\ Owns(stack[u][m])
    /\ stack[t][n].handler = stack[u][m].handler
    => t = u /\ n = m

SigInv == ShapeInv /\ FramesInv /\ OneOwnerInv /\ LockInv /\ RegInv
-----------------------------------------------------------------------------
(* Stacks.                                                                   *)

\* A frame that stays as it is.
Kept(u, n) == n \in DOMAIN stack[u] /\ stack'[u][n] = stack[u][n]

\* The frame on top of a stack.
LEMMA TopIsFrame ==
  ASSUME ShapeInv, NEW t \in Threads, stack[t] # <<>>
  PROVE  Len(stack[t]) \in DOMAIN stack[t] /\ Top(t) \in SigFrame
BY DEF ShapeInv, Top

LEMMA Pushed ==
  ASSUME ShapeInv, NEW t \in Threads, NEW f \in SigFrame, Push(t, f)
  PROVE  /\ stack' \in [Threads -> Seq(SigFrame)]
         /\ \A u \in Threads : \A n \in DOMAIN stack'[u] :
              Kept(u, n) \/ (u = t /\ stack'[u][n] = f /\ n = Len(stack[t]) + 1)
<1>1. stack \in [Threads -> Seq(SigFrame)]
  BY DEF ShapeInv
<1>2. stack' = [stack EXCEPT ![t] = Append(stack[t], f)]
  BY DEF Push
<1>3. /\ Append(stack[t], f) \in Seq(SigFrame)
      /\ Len(Append(stack[t], f)) = Len(stack[t]) + 1
      /\ \A n \in 1 .. Len(stack[t]) : Append(stack[t], f)[n] = stack[t][n]
      /\ Append(stack[t], f)[Len(stack[t]) + 1] = f
  BY <1>1
<1>4. stack' \in [Threads -> Seq(SigFrame)]
  BY <1>1, <1>2, <1>3
<1>5. ASSUME NEW u \in Threads, NEW n \in DOMAIN stack'[u]
      PROVE  Kept(u, n) \/ (u = t /\ stack'[u][n] = f /\ n = Len(stack[t]) + 1)
  <2>1. CASE u # t
    BY <1>1, <1>2, <2>1 DEF Kept
  <2>2. CASE u = t
    <3>1. stack'[u] = Append(stack[t], f)
      BY <1>1, <1>2, <2>2
    <3>2. n \in 1 .. Len(stack[t]) + 1 /\ Len(stack[t]) \in Nat
      BY <1>1, <1>3, <3>1
    <3> QED
      BY <1>1, <1>3, <2>2, <3>1, <3>2 DEF Kept
  <2> QED
    BY <2>1, <2>2
<1> QED
  BY <1>4, <1>5

LEMMA Popped ==
  ASSUME ShapeInv, NEW t \in Threads, stack[t] # <<>>, Pop(t)
  PROVE  /\ stack' \in [Threads -> Seq(SigFrame)]
         /\ \A u \in Threads : \A n \in DOMAIN stack'[u] :
              Kept(u, n) /\ (u = t => n # Len(stack[t]))
<1>1. stack \in [Threads -> Seq(SigFrame)]
  BY DEF ShapeInv
<1>2. stack' = [stack EXCEPT ![t] = SubSeq(stack[t], 1, Len(stack[t]) - 1)]
  BY DEF Pop
<1>0. stack[t] \in Seq(SigFrame) /\ Len(stack[t]) \in Nat \ {0}
  BY <1>1, EmptySeq
<1>3. /\ SubSeq(stack[t], 1, Len(stack[t]) - 1) \in Seq(SigFrame)
      /\ Len(SubSeq(stack[t], 1, Len(stack[t]) - 1)) = Len(stack[t]) - 1
      /\ \A n \in 1 .. Len(stack[t]) - 1 :
           SubSeq(stack[t], 1, Len(stack[t]) - 1)[n] = stack[t][n]
  BY <1>0
<1>4. stack' \in [Threads -> Seq(SigFrame)]
  BY <1>1, <1>2, <1>3
<1>5. ASSUME NEW u \in Threads, NEW n \in DOMAIN stack'[u]
      PROVE  Kept(u, n) /\ (u = t => n # Len(stack[t]))
  <2>1. CASE u # t
    BY <1>1, <1>2, <2>1 DEF Kept
  <2>2. CASE u = t
    <3>1. stack'[u] = SubSeq(stack[t], 1, Len(stack[t]) - 1)
      BY <1>1, <1>2, <2>2
    <3>2. n \in 1 .. Len(stack[t]) - 1 /\ Len(stack[t]) \in Nat
      BY <1>1, <1>3, <3>1
    <3> QED
      BY <1>1, <1>3, <2>2, <3>1, <3>2 DEF Kept
  <2> QED
    BY <2>1, <2>2
<1> QED
  BY <1>4, <1>5

LEMMA Changed ==
  ASSUME ShapeInv, NEW t \in Threads, stack[t] # <<>>, NEW f \in SigFrame, SetTop(t, f)
  PROVE  /\ stack' \in [Threads -> Seq(SigFrame)]
         /\ \A u \in Threads : \A n \in DOMAIN stack'[u] :
              \/ Kept(u, n) /\ (u = t => n # Len(stack[t]))
              \/ u = t /\ n = Len(stack[t]) /\ stack'[u][n] = f
<1>1. stack \in [Threads -> Seq(SigFrame)]
  BY DEF ShapeInv
<1>2. stack' = [stack EXCEPT ![t] = [stack[t] EXCEPT ![Len(stack[t])] = f]]
  BY DEF SetTop
<1>3. /\ [stack[t] EXCEPT ![Len(stack[t])] = f] \in Seq(SigFrame)
      /\ Len([stack[t] EXCEPT ![Len(stack[t])] = f]) = Len(stack[t])
  BY <1>1
<1> QED
  BY <1>1, <1>2, <1>3 DEF Kept

LEMMA InitHoldsInv == Init => SigInv
BY DEF Init, SigInv, ShapeInv, FramesInv, OneOwnerInv, LockInv, RegInv, Registered

-----------------------------------------------------------------------------
(* A new operation: the handlers, the map and the mutexes stay as they are,  *)
(* but for the life of the handler it is about.                              *)

LEMMA CallIsFrame ==
  ASSUME NEW op \in Ops, NEW h \in Handlers \cup {None}
  PROVE  Call(op, h) \in SigFrame
BY DEF Call, SigFrame

\* What a frame knows stays true when the life of its handler stays the same,
\* the map stays while it goes through it, and callbacks stay and no handler
\* but a destroyed one leaves the map.
LEMMA FrameStays ==
  ASSUME ShapeInv, ShapeInv', NEW f \in SigFrame, OwnerOf(f), LoopOf(f), DueOf(f),
         f.op \in {"construct", "destroy"} => life'[f.handler] = life[f.handler],
         f.pc = "wrapper" => gOnSignalWrappers' = gOnSignalWrappers,
         \A h \in Handlers : callbacks[h] <= callbacks'[h],
         \A h \in Handlers : life[h] \notin {"new", "constructing"} =>
           /\ life'[h] \notin {"new", "constructing"}
           /\ life'[h] = "alive" => life[h] = "alive",
         \A i \in DOMAIN gOnSignalWrappers : life'[gOnSignalWrappers[i]] = "alive" =>
           i \in DOMAIN gOnSignalWrappers' /\ gOnSignalWrappers'[i] = gOnSignalWrappers[i]
  PROVE  OwnerOf(f)' /\ LoopOf(f)' /\ DueOf(f)'
<1>1. OwnerOf(f)' /\ LoopOf(f)'
  BY DEF OwnerOf, LoopOf, SigFrame, Ops
<1>2. ASSUME f.op = "signal", NEW c \in f.due
      PROVE  /\ c[2] <= callbacks'[c[1]]
             /\ life'[c[1]] \notin {"new", "constructing"}
             /\ life'[c[1]] = "alive" => c \in f.called \/ Ahead(f, c)'
  <2>1. c[1] \in Handlers /\ c[2] \in Nat
    BY DEF SigFrame
  <2>2. /\ c[2] <= callbacks[c[1]] /\ life[c[1]] \notin {"new", "constructing"}
        /\ life[c[1]] = "alive" => c \in f.called \/ Ahead(f, c)
    BY <1>2 DEF DueOf
  <2>3. callbacks[c[1]] \in Nat /\ callbacks'[c[1]] \in Nat
    BY <2>1 DEF ShapeInv
  <2>4. ASSUME life'[c[1]] = "alive", Ahead(f, c) PROVE Ahead(f, c)'
    <3>1. PICK i \in DOMAIN gOnSignalWrappers :
            /\ gOnSignalWrappers[i] = c[1]
            /\ f.at < i \/ (f.at = i /\ f.pc = "wrapper" /\ f.k < c[2])
      BY <2>4 DEF Ahead
    <3>2. i \in DOMAIN gOnSignalWrappers' /\ gOnSignalWrappers'[i] = c[1]
      BY <2>4, <3>1
    <3> QED
      BY <3>1, <3>2 DEF Ahead
  <2>5. c[2] <= callbacks'[c[1]]
    BY <2>1, <2>2, <2>3
  <2> QED
    BY <2>1, <2>2, <2>4, <2>5
<1>3. DueOf(f)'
  BY <1>2 DEF DueOf
<1> QED
  BY <1>1, <1>3

LEMMA FrameKnows ==
  ASSUME ShapeInv, FramesInv, NEW u \in Threads, NEW n \in DOMAIN stack[u], NEW e, e = stack[u][n]
  PROVE  e \in SigFrame /\ OwnerOf(e) /\ LoopOf(e) /\ DueOf(e)
<1>1. e \in SigFrame
  BY DEF ShapeInv
<1>2. OwnerOf(e) /\ LoopOf(e) /\ DueOf(e)
  BY DEF FramesInv, OwnerOf, LoopOf, DueOf, Ahead
<1> QED
  BY <1>1, <1>2

LEMMA FramesFollow ==
  ASSUME \A u \in Threads : \A n \in DOMAIN stack'[u] : \E e \in SigFrame :
           e = stack'[u][n] /\ OwnerOf(e)' /\ LoopOf(e)' /\ DueOf(e)'
  PROVE  FramesInv'
BY DEF FramesInv, OwnerOf, LoopOf, DueOf, Ahead

\* Whatever is begun, in whatever life of its handler.
LEMMA BegunKeepsInv ==
  ASSUME SigInv, NEW t \in Threads, NEW f \in SigFrame, Push(t, f), f.pc = "lock",
         Owns(f) => life[f.handler] \in {"new", "alive"},
         life' \in [Handlers -> {"new", "constructing", "alive", "destroying", "dead"}],
         \A h \in Handlers : \/ life'[h] = life[h]
                             \/ life[h] = "new" /\ life'[h] = "constructing"
                             \/ life[h] = "alive" /\ life'[h] = "destroying",
         OwnerOf(f)', LoopOf(f)', DueOf(f)',
         UNCHANGED <<gOnSignalWrappers, gWrapperMutex, counter, initialized, wrapperIndex, callbacks>>
  PROVE  SigInv'
<1>1. ShapeInv /\ FramesInv /\ OneOwnerInv /\ LockInv /\ RegInv
  BY DEF SigInv
<1>2. /\ stack' \in [Threads -> Seq(SigFrame)]
      /\ \A u \in Threads : \A n \in DOMAIN stack'[u] :
           Kept(u, n) \/ (u = t /\ stack'[u][n] = f /\ n = Len(stack[t]) + 1)
  BY <1>1, Pushed
<1>3. ShapeInv'
  BY <1>1, <1>2 DEF ShapeInv
<1>5. ASSUME NEW e \in SigFrame, OwnerOf(e), LoopOf(e), DueOf(e)
      PROVE  OwnerOf(e)' /\ LoopOf(e)' /\ DueOf(e)'
  <2>1. e.op \in {"construct", "destroy"} => life'[e.handler] = life[e.handler]
    BY <1>5 DEF OwnerOf
  <2>2. \A h \in Handlers : callbacks[h] <= callbacks'[h]
    BY <1>1 DEF ShapeInv
  <2>3. \A h \in Handlers : life[h] \notin {"new", "constructing"} =>
          /\ life'[h] \notin {"new", "constructing"}
          /\ life'[h] = "alive" => life[h] = "alive"
    OBVIOUS
  <2> QED
    BY <1>1, <1>3, <1>5, <2>1, <2>2, <2>3, FrameStays
<1>6. FramesInv'
  <2>1. ASSUME NEW u \in Threads, NEW n \in DOMAIN stack'[u]
        PROVE  \E e \in SigFrame : e = stack'[u][n] /\ OwnerOf(e)' /\ LoopOf(e)' /\ DueOf(e)'
    <3>1. CASE stack'[u][n] = f
      BY <3>1
    <3>2. CASE Kept(u, n)
      <4>1. PICK e : e = stack[u][n]
        OBVIOUS
      <4>2. e \in SigFrame /\ OwnerOf(e) /\ LoopOf(e) /\ DueOf(e)
        BY <1>1, <3>2, <4>1, FrameKnows DEF Kept
      <4> QED
        BY <1>5, <3>2, <4>1, <4>2 DEF Kept
    <3> QED
      BY <1>2, <3>1, <3>2
  <2> QED
    BY <2>1, FramesFollow
<1>7. LockInv'
  BY <1>1, <1>2 DEF LockInv, Kept, Holds
<1>8. RegInv'
  BY <1>1 DEF ShapeInv, RegInv, Registered
<1>9. OneOwnerInv'
  <2>1. ASSUME NEW u \in Threads, NEW n \in DOMAIN stack'[u], Kept(u, n), Owns(f),
               Owns(stack[u][n])
        PROVE  stack[u][n].handler # f.handler
    <3>1. PICK e : e = stack[u][n]
      OBVIOUS
    <3>2. OwnerOf(e)
      BY <1>1, <2>1, <3>1, FrameKnows DEF Kept
    <3> QED
      BY <2>1, <3>1, <3>2 DEF OwnerOf, Owns
  <2> QED
    BY <1>1, <1>2, <2>1 DEF OneOwnerInv, Kept, Owns
<1> QED
  BY <1>3, <1>6, <1>7, <1>8, <1>9 DEF SigInv

LEMMA BeginConstructKeepsInv ==
  ASSUME SigInv, NEW t \in Threads, NEW h \in Handlers, BeginConstruct(t, h)
  PROVE  SigInv'
<1> PICK f \in SigFrame : f = Call("construct", h)
  BY CallIsFrame DEF Ops
<1>1. /\ ShapeInv /\ Push(t, f)
      /\ life[h] = "new" /\ life' = [life EXCEPT ![h] = "constructing"]
      /\ f.op = "construct" /\ f.pc = "lock" /\ f.handler = h
      /\ UNCHANGED <<gOnSignalWrappers, gWrapperMutex, counter, initialized, wrapperIndex, callbacks>>
  BY DEF SigInv, BeginConstruct, Call, global
<1>2. OwnerOf(f)' /\ LoopOf(f)' /\ DueOf(f)'
  BY <1>1 DEF ShapeInv, OwnerOf, LoopOf, DueOf
<1> QED
  BY <1>1, <1>2, BegunKeepsInv DEF ShapeInv, Owns

LEMMA BeginDestroyKeepsInv ==
  ASSUME SigInv, NEW t \in Threads, NEW h \in Handlers, BeginDestroy(t, h)
  PROVE  SigInv'
<1> PICK f \in SigFrame : f = Call("destroy", h)
  BY CallIsFrame DEF Ops
<1>1. /\ ShapeInv /\ Push(t, f)
      /\ life[h] = "alive" /\ life' = [life EXCEPT ![h] = "destroying"]
      /\ f.op = "destroy" /\ f.pc = "lock" /\ f.handler = h
      /\ UNCHANGED <<gOnSignalWrappers, gWrapperMutex, counter, initialized, wrapperIndex, callbacks>>
  BY DEF SigInv, BeginDestroy, Call, global
<1>2. OwnerOf(f)' /\ LoopOf(f)' /\ DueOf(f)'
  BY <1>1 DEF ShapeInv, OwnerOf, LoopOf, DueOf
<1> QED
  BY <1>1, <1>2, BegunKeepsInv DEF ShapeInv, Owns

LEMMA BeginAddKeepsInv ==
  ASSUME SigInv, NEW t \in Threads, NEW h \in Handlers, BeginAdd(t, h)
  PROVE  SigInv'
<1> PICK f \in SigFrame : f = Call("add", h)
  BY CallIsFrame DEF Ops
<1>1. /\ ShapeInv /\ Push(t, f) /\ life' = life
      /\ f.op = "add" /\ f.pc = "lock" /\ f.handler = h
      /\ UNCHANGED <<gOnSignalWrappers, gWrapperMutex, counter, initialized, wrapperIndex, callbacks>>
  BY DEF SigInv, BeginAdd, Call, global, objects
<1>2. OwnerOf(f)' /\ LoopOf(f)' /\ DueOf(f)'
  BY <1>1 DEF ShapeInv, OwnerOf, LoopOf, DueOf
<1> QED
  BY <1>1, <1>2, BegunKeepsInv DEF ShapeInv, Owns

LEMMA DeliverKeepsInv ==
  ASSUME SigInv, NEW t \in Threads, Deliver(t)
  PROVE  SigInv'
<1>0. ShapeInv /\ RegInv
  BY DEF SigInv
<1>1. Due \in SUBSET (Handlers \X (Nat \ {0}))
  BY DEF Due, Calls
<1>2. PICK d \in SUBSET (Handlers \X (Nat \ {0})) : d = Due
  BY <1>1
<1>3. PICK f \in SigFrame : f = [Call("signal", None) EXCEPT !.due = d]
  <2>1. [Call("signal", None) EXCEPT !.due = d] \in SigFrame
    BY DEF Call, SigFrame, Ops
  <2> QED
    BY <2>1
<1>4. /\ Push(t, f) /\ life' = life
      /\ f.op = "signal" /\ f.pc = "lock" /\ f.at = -1 /\ f.due = d
      /\ UNCHANGED <<gOnSignalWrappers, gWrapperMutex, counter, initialized, wrapperIndex, callbacks>>
  BY <1>2, <1>3 DEF Deliver, Call, global, objects
<1>5. ASSUME NEW c \in d
      PROVE  /\ c[2] <= callbacks[c[1]] /\ life[c[1]] = "alive" /\ Ahead(f, c)
  <2>1. /\ c[2] <= callbacks[c[1]] /\ life[c[1]] = "alive" /\ Registered(c[1])
    BY <1>2, <1>5 DEF Due
  <2>2. PICK i \in DOMAIN gOnSignalWrappers : gOnSignalWrappers[i] = c[1]
    BY <2>1 DEF Registered
  <2>3. -1 < i
    BY <1>0, <2>2 DEF ShapeInv
  <2> QED
    BY <1>4, <2>1, <2>2, <2>3 DEF Ahead
<1>6. OwnerOf(f) /\ LoopOf(f) /\ DueOf(f)
  BY <1>4, <1>5 DEF OwnerOf, LoopOf, DueOf
<1>7. OwnerOf(f)' /\ LoopOf(f)' /\ DueOf(f)'
  BY <1>4, <1>6 DEF OwnerOf, LoopOf, DueOf, Ahead
<1> QED
  BY <1>0, <1>4, <1>7, BegunKeepsInv DEF ShapeInv, Owns

-----------------------------------------------------------------------------
(* A step of an operation that goes on: its frame changes, the map stays.    *)

LEMMA OnKeepsInv ==
  ASSUME SigInv, NEW t \in Threads, stack[t] # <<>>, NEW f \in SigFrame, SetTop(t, f),
         OwnerOf(f), LoopOf(f), DueOf(f),
         Owns(f) => Owns(Top(t)) /\ f.handler = Top(t).handler,
         \/ gWrapperMutex' = gWrapperMutex /\ (Holds(f) => Holds(Top(t)))
         \/ gWrapperMutex = None /\ gWrapperMutex' = t,
         UNCHANGED <<gOnSignalWrappers, counter, life, initialized, wrapperIndex, callbacks>>
  PROVE  SigInv'
<1>1. ShapeInv /\ FramesInv /\ OneOwnerInv /\ LockInv /\ RegInv
  BY DEF SigInv
<1>2. /\ stack' \in [Threads -> Seq(SigFrame)]
      /\ \A u \in Threads : \A n \in DOMAIN stack'[u] :
           \/ Kept(u, n) /\ (u = t => n # Len(stack[t]))
           \/ u = t /\ n = Len(stack[t]) /\ stack'[u][n] = f
  BY <1>1, Changed
<1>3. ShapeInv'
  BY <1>1, <1>2 DEF ShapeInv
<1>4. ASSUME NEW e \in SigFrame, OwnerOf(e), LoopOf(e), DueOf(e)
      PROVE  OwnerOf(e)' /\ LoopOf(e)' /\ DueOf(e)'
  BY <1>4 DEF OwnerOf, LoopOf, DueOf, Ahead
<1>5. FramesInv'
  <2>1. ASSUME NEW u \in Threads, NEW n \in DOMAIN stack'[u]
        PROVE  \E e \in SigFrame : e = stack'[u][n] /\ OwnerOf(e)' /\ LoopOf(e)' /\ DueOf(e)'
    <3>1. CASE stack'[u][n] = f
      BY <1>4, <3>1
    <3>2. CASE Kept(u, n)
      <4>1. PICK e : e = stack[u][n]
        OBVIOUS
      <4>2. e \in SigFrame /\ OwnerOf(e) /\ LoopOf(e) /\ DueOf(e)
        BY <1>1, <3>2, <4>1, FrameKnows DEF Kept
      <4> QED
        BY <1>4, <3>2, <4>1, <4>2 DEF Kept
    <3> QED
      BY <1>2, <3>1, <3>2
  <2> QED
    BY <2>1, FramesFollow
<1>6. Len(stack[t]) \in DOMAIN stack[t] /\ Top(t) = stack[t][Len(stack[t])]
  BY <1>1, TopIsFrame DEF Top
<1>7. None \notin Threads
  BY SignalAssumption
<1>8. LockInv'
  <2>1. CASE gWrapperMutex' = gWrapperMutex /\ (Holds(f) => Holds(Top(t)))
    <3>1. LockInv
      BY <1>1
    <3>2. ASSUME NEW u \in Threads, NEW n \in DOMAIN stack'[u], Holds(stack'[u][n])
          PROVE  n \in DOMAIN stack[u] /\ Holds(stack[u][n])
      <4>1. CASE Kept(u, n)
        BY <3>2, <4>1 DEF Kept
      <4>2. CASE u = t /\ n = Len(stack[t]) /\ stack'[u][n] = f
        BY <1>6, <2>1, <3>2, <4>2
      <4> QED
        BY <1>2, <4>1, <4>2
    <3> QED
      BY <2>1, <3>1, <3>2 DEF LockInv
  <2>2. CASE gWrapperMutex = None /\ gWrapperMutex' = t
    <3>1. \A u \in Threads : \A n \in DOMAIN stack[u] : ~Holds(stack[u][n])
      BY <1>1, <1>7, <2>2 DEF LockInv
    <3> QED
      BY <1>2, <2>2, <3>1 DEF LockInv, Kept
  <2> QED
    BY <2>1, <2>2
<1>9. RegInv'
  BY <1>1 DEF RegInv, Registered
<1>10. OneOwnerInv'
  BY <1>1, <1>2, <1>6 DEF OneOwnerInv, Kept, Owns
<1> QED
  BY <1>3, <1>5, <1>8, <1>9, <1>10 DEF SigInv

\* What is known of the frame on top.
LEMMA TopKnows ==
  ASSUME SigInv, NEW t \in Threads, stack[t] # <<>>, NEW e, e = Top(t)
  PROVE  e \in SigFrame /\ OwnerOf(e) /\ LoopOf(e) /\ DueOf(e)
<1>1. ShapeInv /\ FramesInv
  BY DEF SigInv
<1>2. Len(stack[t]) \in DOMAIN stack[t] /\ e = stack[t][Len(stack[t])]
  BY <1>1, TopIsFrame DEF Top
<1> QED
  BY <1>1, <1>2, FrameKnows

LEMMA LockGlobalKeepsInv ==
  ASSUME SigInv, NEW t \in Threads, NEW op \in Ops, LockGlobal(t, op)
  PROVE  SigInv'
<1> PICK e : e = Top(t)
  OBVIOUS
<1>1. stack[t] # <<>> /\ e.op = op /\ e.pc = "lock"
  BY DEF LockGlobal, At
<1>2. e \in SigFrame /\ OwnerOf(e) /\ LoopOf(e) /\ DueOf(e)
  BY <1>1, TopKnows
<1>3. PICK f \in SigFrame : f = [e EXCEPT !.pc = "in"]
  BY <1>2 DEF SigFrame
<1>4. SetTop(t, f)
  BY <1>3 DEF LockGlobal
<1>5. OwnerOf(f) /\ LoopOf(f) /\ DueOf(f)
  BY <1>1, <1>2, <1>3 DEF SigFrame, OwnerOf, LoopOf, DueOf, Ahead
<1>6. /\ gWrapperMutex = None /\ gWrapperMutex' = t
      /\ UNCHANGED <<gOnSignalWrappers, counter, life, initialized, wrapperIndex, callbacks>>
  BY DEF LockGlobal, objects
<1>7. Owns(f) => Owns(Top(t)) /\ f.handler = Top(t).handler
  BY <1>1, <1>2, <1>3 DEF SigFrame, Owns
<1> QED
  BY <1>1, <1>4, <1>5, <1>6, <1>7, OnKeepsInv

LEMMA LockAddKeepsInv ==
  ASSUME SigInv, NEW t \in Threads, LockAdd(t)
  PROVE  SigInv'
<1> PICK e : e = Top(t)
  OBVIOUS
<1>1. stack[t] # <<>> /\ e.op = "add" /\ e.pc = "lock"
  BY DEF LockAdd, At
<1>2. e \in SigFrame /\ OwnerOf(e) /\ LoopOf(e) /\ DueOf(e)
  BY <1>1, TopKnows
<1>3. PICK f \in SigFrame : f = [e EXCEPT !.pc = "in"]
  BY <1>2 DEF SigFrame
<1>4. SetTop(t, f)
  BY <1>3 DEF LockAdd
<1>5. OwnerOf(f) /\ LoopOf(f) /\ DueOf(f) /\ ~Holds(f)
  BY <1>1, <1>2, <1>3 DEF SigFrame, OwnerOf, LoopOf, DueOf, Ahead, Holds
<1>6. UNCHANGED <<gOnSignalWrappers, gWrapperMutex, counter, life, initialized, wrapperIndex, callbacks>>
  BY DEF LockAdd, global
<1>7. Owns(f) => Owns(Top(t)) /\ f.handler = Top(t).handler
  BY <1>1, <1>2, <1>3 DEF SigFrame, Owns
<1> QED
  BY <1>1, <1>4, <1>5, <1>6, <1>7, OnKeepsInv

\* The handler entered is that of the least index above the last, so that no
\* handler with callbacks to call is passed over.
LEMMA EnterWrapperKeepsInv ==
  ASSUME SigInv, NEW t \in Threads, EnterWrapper(t)
  PROVE  SigInv'
<1> PICK e : e = Top(t)
  OBVIOUS
<1>1. stack[t] # <<>> /\ e.op = "signal" /\ e.pc = "in" /\ Later(t) # {}
  BY DEF EnterWrapper, At, NoneLeft
<1>2. e \in SigFrame /\ OwnerOf(e) /\ LoopOf(e) /\ DueOf(e)
  BY <1>1, TopKnows
<1>3. Later(t) = {i \in DOMAIN gOnSignalWrappers : i > e.at} /\ Later(t) \in SUBSET Nat
  BY DEF SigInv, ShapeInv, Later
<1>4. PICK i : i = Min(Later(t))
  OBVIOUS
<1>5. /\ i \in DOMAIN gOnSignalWrappers /\ i \in Nat /\ i > e.at
      /\ \A j \in DOMAIN gOnSignalWrappers : j > e.at => i <= j
  BY <1>1, <1>3, <1>4, LeastOf
<1>6. gOnSignalWrappers[i] \in Handlers /\ DOMAIN gOnSignalWrappers \subseteq Nat
  BY <1>5 DEF SigInv, ShapeInv
<1>7. PICK f \in SigFrame : f = [e EXCEPT !.pc = "wrapper", !.handler = gOnSignalWrappers[i],
                                          !.at = i, !.k = 0]
  <2>1. PICK h \in Handlers : h = gOnSignalWrappers[i]
    BY <1>6
  <2>2. i \in Int /\ 0 \in Nat
    BY <1>5
  <2>3. [e EXCEPT !.pc = "wrapper", !.handler = h, !.at = i, !.k = 0] \in SigFrame
    BY <1>2, <2>2 DEF SigFrame
  <2> QED
    BY <2>1, <2>3
<1>8. SetTop(t, f)
  BY <1>4, <1>7 DEF EnterWrapper
<1>9. /\ f.op = "signal" /\ f.pc = "wrapper" /\ f.handler = gOnSignalWrappers[i]
      /\ f.at = i /\ f.k = 0 /\ f.due = e.due /\ f.called = e.called
  BY <1>1, <1>2, <1>7 DEF SigFrame
<1>10. DueOf(f)
  <2>1. ASSUME NEW c \in e.due
        PROVE  /\ c[2] <= callbacks[c[1]] /\ life[c[1]] \notin {"new", "constructing"}
               /\ life[c[1]] = "alive" => c \in f.called \/ Ahead(f, c)
    <3>1. /\ c[2] <= callbacks[c[1]] /\ life[c[1]] \notin {"new", "constructing"}
          /\ life[c[1]] = "alive" => c \in e.called \/ Ahead(e, c)
      BY <1>1, <1>2 DEF DueOf
    <3>2. c[2] \in Nat \ {0}
      BY <1>2 DEF SigFrame
    <3>3. ASSUME Ahead(e, c) PROVE Ahead(f, c)
      <4>1. PICK j \in DOMAIN gOnSignalWrappers : gOnSignalWrappers[j] = c[1] /\ e.at < j
        BY <1>1, <3>3 DEF Ahead
      <4>2. i <= j /\ j \in Nat
        BY <1>2, <1>5, <1>6, <4>1 DEF SigFrame
      <4>3. i < j \/ (i = j /\ 0 < c[2])
        BY <1>5, <3>2, <4>2
      <4> QED
        BY <1>9, <4>1, <4>3 DEF Ahead
    <3> QED
      BY <1>9, <3>1, <3>3
  <2> QED
    BY <1>9, <2>1 DEF DueOf
<1>11. OwnerOf(f) /\ LoopOf(f)
  BY <1>5, <1>9 DEF OwnerOf, LoopOf
<1>12. Holds(f) => Holds(Top(t))
  BY <1>1 DEF Holds
<1>13. UNCHANGED <<gOnSignalWrappers, gWrapperMutex, counter, life, initialized, wrapperIndex, callbacks>>
  BY DEF EnterWrapper, global
<1>14. ~Owns(f)
  BY <1>9 DEF Owns
<1> QED
  BY <1>1, <1>8, <1>10, <1>11, <1>12, <1>13, <1>14, OnKeepsInv

LEMMA RunCallbackKeepsInv ==
  ASSUME SigInv, NEW t \in Threads, RunCallback(t)
  PROVE  SigInv'
<1> PICK e : e = Top(t)
  OBVIOUS
<1>1. stack[t] # <<>> /\ e.op = "signal" /\ e.pc = "wrapper"
  BY DEF RunCallback, At
<1>2. e \in SigFrame /\ OwnerOf(e) /\ LoopOf(e) /\ DueOf(e)
  BY <1>1, TopKnows
<1>3. /\ e.at \in DOMAIN gOnSignalWrappers /\ e.handler = gOnSignalWrappers[e.at]
      /\ e.handler \in Handlers /\ DOMAIN gOnSignalWrappers \subseteq Nat
  BY <1>1, <1>2 DEF LoopOf, SigInv, ShapeInv
<1>4. PICK f \in SigFrame : f = [e EXCEPT !.k = e.k + 1,
                                          !.called = e.called \cup {<<e.handler, e.k + 1>>}]
  <2>1. /\ e.k + 1 \in Nat
        /\ e.called \cup {<<e.handler, e.k + 1>>} \in SUBSET (Handlers \X Nat)
    BY <1>2, <1>3 DEF SigFrame
  <2>2. [e EXCEPT !.k = e.k + 1, !.called = e.called \cup {<<e.handler, e.k + 1>>}] \in SigFrame
    BY <1>2, <2>1 DEF SigFrame
  <2> QED
    BY <2>2
<1>5. SetTop(t, f)
  BY <1>4 DEF RunCallback
<1>6. /\ f.op = "signal" /\ f.pc = "wrapper" /\ f.handler = e.handler
      /\ f.at = e.at /\ f.k = e.k + 1 /\ f.due = e.due
      /\ f.called = e.called \cup {<<e.handler, e.k + 1>>}
  BY <1>1, <1>2, <1>4 DEF SigFrame
<1>7. DueOf(f)
  <2>1. ASSUME NEW c \in e.due
        PROVE  /\ c[2] <= callbacks[c[1]] /\ life[c[1]] \notin {"new", "constructing"}
               /\ life[c[1]] = "alive" => c \in f.called \/ Ahead(f, c)
    <3>1. /\ c[2] <= callbacks[c[1]] /\ life[c[1]] \notin {"new", "constructing"}
          /\ life[c[1]] = "alive" => c \in e.called \/ Ahead(e, c)
      BY <1>1, <1>2 DEF DueOf
    <3>2. c[2] \in Nat \ {0} /\ c = <<c[1], c[2]>> /\ e.k \in Nat
      BY <1>2 DEF SigFrame
    <3>3. ASSUME Ahead(e, c) PROVE c \in f.called \/ Ahead(f, c)
      <4>1. PICK j \in DOMAIN gOnSignalWrappers :
              gOnSignalWrappers[j] = c[1] /\ (e.at < j \/ (e.at = j /\ e.k < c[2]))
        BY <3>3 DEF Ahead
      <4>2. CASE e.at < j
        BY <1>6, <4>1, <4>2 DEF Ahead
      <4>3. CASE e.at = j /\ e.k + 1 = c[2]
        BY <1>3, <1>6, <3>2, <4>1, <4>3
      <4>4. CASE e.at = j /\ e.k + 1 < c[2]
        BY <1>6, <4>1, <4>4 DEF Ahead
      <4> QED
        BY <3>2, <4>1, <4>2, <4>3, <4>4
    <3> QED
      BY <1>6, <3>1, <3>3
  <2> QED
    BY <1>6, <2>1 DEF DueOf
<1>8. OwnerOf(f) /\ LoopOf(f)
  BY <1>3, <1>6 DEF OwnerOf, LoopOf
<1>9. Holds(f) => Holds(Top(t))
  BY <1>1 DEF Holds
<1>10. UNCHANGED <<gOnSignalWrappers, gWrapperMutex, counter, life, initialized, wrapperIndex, callbacks>>
  BY DEF RunCallback, global, objects
<1>11. ~Owns(f)
  BY <1>6 DEF Owns
<1> QED
  BY <1>1, <1>5, <1>7, <1>8, <1>9, <1>10, <1>11, OnKeepsInv

LEMMA LeaveWrapperKeepsInv ==
  ASSUME SigInv, NEW t \in Threads, LeaveWrapper(t)
  PROVE  SigInv'
<1> PICK e : e = Top(t)
  OBVIOUS
<1>1. stack[t] # <<>> /\ e.op = "signal" /\ e.pc = "wrapper" /\ e.k = callbacks[e.handler]
  BY DEF LeaveWrapper, At
<1>2. e \in SigFrame /\ OwnerOf(e) /\ LoopOf(e) /\ DueOf(e)
  BY <1>1, TopKnows
<1>3. /\ e.handler = gOnSignalWrappers[e.at]
      /\ callbacks[e.handler] \in Nat
  BY <1>1, <1>2 DEF LoopOf, SigInv, ShapeInv
<1>4. PICK f \in SigFrame : f = [e EXCEPT !.pc = "in", !.handler = None, !.k = 0]
  BY <1>2 DEF SigFrame
<1>5. SetTop(t, f)
  BY <1>4 DEF LeaveWrapper
<1>6. /\ f.op = "signal" /\ f.pc = "in" /\ f.at = e.at
      /\ f.due = e.due /\ f.called = e.called
  BY <1>1, <1>2, <1>4 DEF SigFrame
<1>7. DueOf(f)
  <2>1. ASSUME NEW c \in e.due
        PROVE  /\ c[2] <= callbacks[c[1]] /\ life[c[1]] \notin {"new", "constructing"}
               /\ life[c[1]] = "alive" => c \in f.called \/ Ahead(f, c)
    <3>1. /\ c[2] <= callbacks[c[1]] /\ life[c[1]] \notin {"new", "constructing"}
          /\ life[c[1]] = "alive" => c \in e.called \/ Ahead(e, c)
      BY <1>1, <1>2 DEF DueOf
    <3>2. c[2] \in Nat
      BY <1>2 DEF SigFrame
    <3>3. ASSUME Ahead(e, c) PROVE Ahead(f, c)
      <4>1. PICK j \in DOMAIN gOnSignalWrappers :
              gOnSignalWrappers[j] = c[1] /\ (e.at < j \/ (e.at = j /\ e.k < c[2]))
        BY <3>3 DEF Ahead
      <4>2. e.at < j
        BY <1>1, <1>3, <3>1, <3>2, <4>1
      <4> QED
        BY <1>6, <4>1, <4>2 DEF Ahead
    <3> QED
      BY <1>6, <3>1, <3>3
  <2> QED
    BY <1>6, <2>1 DEF DueOf
<1>8. OwnerOf(f) /\ LoopOf(f)
  BY <1>6 DEF OwnerOf, LoopOf
<1>9. Holds(f) => Holds(Top(t))
  BY <1>1 DEF Holds
<1>10. UNCHANGED <<gOnSignalWrappers, gWrapperMutex, counter, life, initialized, wrapperIndex, callbacks>>
  BY DEF LeaveWrapper, global
<1>11. ~Owns(f)
  BY <1>6 DEF Owns
<1> QED
  BY <1>1, <1>5, <1>7, <1>8, <1>9, <1>10, <1>11, OnKeepsInv

-----------------------------------------------------------------------------
(* An operation returns.                                                     *)

\* Everything is of its type after the step.
TypesAfter ==
  /\ life' \in [Handlers -> {"new", "constructing", "alive", "destroying", "dead"}]
  /\ initialized' \in [Handlers -> BOOLEAN] /\ wrapperIndex' \in [Handlers -> Int]
  /\ callbacks' \in [Handlers -> Nat] /\ counter' \in Nat
  /\ gOnSignalWrappers' \in [DOMAIN gOnSignalWrappers' -> Handlers]
  /\ DOMAIN gOnSignalWrappers' \subseteq 0 .. counter' - 1

\* The lives that change are those of the operation's handler, towards its end;
\* the map changes with the global mutex held, which is given back.
Concludes(t) ==
  /\ \A h \in Handlers : life'[h] = life[h] \/ (Owns(Top(t)) /\ h = Top(t).handler)
  /\ gOnSignalWrappers' = gOnSignalWrappers \/ Holds(Top(t))
  /\ \A h \in Handlers : callbacks[h] <= callbacks'[h]
  /\ \A h \in Handlers : life[h] \notin {"new", "constructing"} =>
       /\ life'[h] \notin {"new", "constructing"}
       /\ life'[h] = "alive" => life[h] = "alive"
  /\ \A i \in DOMAIN gOnSignalWrappers : life'[gOnSignalWrappers[i]] = "alive" =>
       i \in DOMAIN gOnSignalWrappers' /\ gOnSignalWrappers'[i] = gOnSignalWrappers[i]
  /\ gWrapperMutex' = IF Holds(Top(t)) THEN None ELSE gWrapperMutex

LEMMA EndedKeepsInv ==
  ASSUME SigInv, NEW t \in Threads, stack[t] # <<>>, Pop(t), RegInv', TypesAfter, Concludes(t)
  PROVE  SigInv'
<1>1. ShapeInv /\ FramesInv /\ OneOwnerInv /\ LockInv /\ RegInv
  BY DEF SigInv
<1>2. /\ stack' \in [Threads -> Seq(SigFrame)]
      /\ \A u \in Threads : \A n \in DOMAIN stack'[u] :
           Kept(u, n) /\ (u = t => n # Len(stack[t]))
  BY <1>1, Popped
<1>3. ShapeInv'
  BY <1>2 DEF ShapeInv, TypesAfter
<1>4. Len(stack[t]) \in DOMAIN stack[t] /\ Top(t) = stack[t][Len(stack[t])]
  BY <1>1, TopIsFrame DEF Top
<1>5. FramesInv'
  <2>1. ASSUME NEW u \in Threads, NEW n \in DOMAIN stack'[u]
        PROVE  \E e \in SigFrame : e = stack'[u][n] /\ OwnerOf(e)' /\ LoopOf(e)' /\ DueOf(e)'
    <3>1. n \in DOMAIN stack[u] /\ stack'[u][n] = stack[u][n] /\ (u = t => n # Len(stack[t]))
      BY <1>2 DEF Kept
    <3>2. PICK e : e = stack[u][n]
      OBVIOUS
    <3>3. e \in SigFrame /\ OwnerOf(e) /\ LoopOf(e) /\ DueOf(e)
      BY <1>1, <3>1, <3>2, FrameKnows
    <3>4. Owns(e) => life'[e.handler] = life[e.handler]
      <4>1. ASSUME Owns(e) PROVE e.handler \in Handlers
        BY <3>3, <4>1 DEF OwnerOf, Owns
      <4>2. ASSUME Owns(e), Owns(Top(t)) PROVE e.handler # Top(t).handler
        BY <1>1, <1>4, <3>1, <3>2, <4>2 DEF OneOwnerInv, Owns
      <4> QED
        BY <4>1, <4>2 DEF Concludes
    <3>5. e.pc = "wrapper" => gOnSignalWrappers' = gOnSignalWrappers
      <4>1. ASSUME e.pc = "wrapper", Holds(Top(t)) PROVE FALSE
        <5>1. Holds(e)
          BY <3>3, <4>1 DEF LoopOf, Holds
        <5> QED
          BY <1>1, <1>4, <3>1, <3>2, <4>1, <5>1 DEF LockInv, Holds
      <4> QED
        BY <4>1 DEF Concludes
    <3>6. OwnerOf(e)' /\ LoopOf(e)' /\ DueOf(e)'
      BY <1>1, <1>3, <3>3, <3>4, <3>5, FrameStays DEF Owns, Concludes
    <3> QED
      BY <3>1, <3>2, <3>3, <3>6
  <2> QED
    BY <2>1, FramesFollow
<1>6. OneOwnerInv'
  BY <1>1, <1>2 DEF OneOwnerInv, Kept, Owns
<1>7. LockInv'
  <2>1. ASSUME NEW u \in Threads, NEW n \in DOMAIN stack[u], u = t => n # Len(stack[t]),
               Holds(Top(t))
        PROVE  ~Holds(stack[u][n])
    BY <1>1, <1>4, <2>1 DEF LockInv, Holds
  <2>2. gWrapperMutex' = IF Holds(Top(t)) THEN None ELSE gWrapperMutex
    BY DEF Concludes
  <2> QED
    BY <1>1, <1>2, <2>1, <2>2 DEF LockInv, Kept, Holds
<1> QED
  BY <1>3, <1>5, <1>6, <1>7 DEF SigInv

LEMMA ConstructKeepsInv ==
  ASSUME SigInv, NEW t \in Threads, Construct(t)
  PROVE  SigInv'
<1> PICK e : e = Top(t)
  OBVIOUS
<1>1. stack[t] # <<>> /\ e.op = "construct" /\ e.pc = "in" /\ Pop(t)
  BY DEF Construct, At
<1>2. ShapeInv /\ RegInv /\ OwnerOf(e)
  BY <1>1, TopKnows DEF SigInv
<1> PICK h \in Handlers : h = e.handler
  BY <1>1, <1>2 DEF OwnerOf
<1>3. life[h] = "constructing" /\ life' = [life EXCEPT ![h] = "alive"]
  BY <1>1, <1>2 DEF OwnerOf, Construct
<1>4. ~initialized[h] /\ wrapperIndex[h] = -1
  BY <1>2, <1>3 DEF RegInv
<1>5. Holds(Top(t)) /\ Owns(Top(t)) /\ gWrapperMutex' = None /\ callbacks' = callbacks
  BY <1>1 DEF Holds, Owns, Construct
<1>6. ASSUME NEW i \in DOMAIN gOnSignalWrappers
      PROVE  gOnSignalWrappers[i] # h /\ i # counter /\ gOnSignalWrappers[i] \in Handlers
  BY <1>2, <1>3 DEF ShapeInv, RegInv
<1>7. CASE /\ gOnSignalWrappers' = Register(h)
           /\ wrapperIndex' = [wrapperIndex EXCEPT ![h] = counter]
           /\ counter' = counter + 1
           /\ initialized' = [initialized EXCEPT ![h] = TRUE]
  <2>1. /\ DOMAIN gOnSignalWrappers' = DOMAIN gOnSignalWrappers \cup {counter}
        /\ gOnSignalWrappers'[counter] = h
        /\ \A i \in DOMAIN gOnSignalWrappers : gOnSignalWrappers'[i] = gOnSignalWrappers[i]
        /\ gOnSignalWrappers' \in [DOMAIN gOnSignalWrappers' -> Handlers]
    BY <1>6, <1>7 DEF Register, NewIndex
  <2>2. counter' \in Nat /\ DOMAIN gOnSignalWrappers' \subseteq 0 .. counter' - 1
    BY <1>2, <1>7, <2>1 DEF ShapeInv
  <2>3. ASSUME NEW i \in DOMAIN gOnSignalWrappers'
        PROVE  LET g == gOnSignalWrappers'[i]
               IN life'[g] \in {"alive", "destroying"} /\ wrapperIndex'[g] = i
    <3>1. CASE i = counter
      BY <1>2, <1>3, <1>7, <2>1, <3>1 DEF ShapeInv
    <3>2. CASE i \in DOMAIN gOnSignalWrappers
      BY <1>2, <1>3, <1>6, <1>7, <2>1, <3>2 DEF ShapeInv, RegInv
    <3> QED
      BY <2>1, <3>1, <3>2
  <2>4. ASSUME NEW g \in Handlers
        PROVE  /\ wrapperIndex'[g] < counter'
               /\ initialized'[g] /\ life'[g] \in {"alive", "destroying"} =>
                    \E i \in DOMAIN gOnSignalWrappers' : gOnSignalWrappers'[i] = g
               /\ life'[g] \in {"new", "constructing"} => ~initialized'[g] /\ wrapperIndex'[g] = -1
    <3>1. CASE g = h
      BY <1>2, <1>3, <1>7, <2>1, <3>1 DEF ShapeInv
    <3>2. CASE g # h
      BY <1>2, <1>3, <1>7, <2>1, <3>2 DEF ShapeInv, RegInv, Registered
    <3> QED
      BY <3>1, <3>2
  <2>5. \A g, k \in Handlers : wrapperIndex'[g] = wrapperIndex'[k] /\ wrapperIndex'[k] # -1 => g = k
    BY <1>2, <1>7 DEF ShapeInv, RegInv
  <2>6. RegInv'
    BY <2>3, <2>4, <2>5 DEF RegInv, Registered
  <2>7. TypesAfter
    BY <1>2, <1>3, <1>5, <1>7, <2>1, <2>2 DEF TypesAfter, ShapeInv
  <2>8. Concludes(t)
    BY <1>2, <1>3, <1>5, <2>1 DEF Concludes, ShapeInv
  <2> QED
    BY <1>1, <2>6, <2>7, <2>8, EndedKeepsInv
<1>8. CASE UNCHANGED <<gOnSignalWrappers, wrapperIndex, counter, initialized>>
  <2>1. RegInv'
    BY <1>2, <1>3, <1>4, <1>8 DEF ShapeInv, RegInv, Registered
  <2>2. TypesAfter
    BY <1>2, <1>3, <1>5, <1>8 DEF TypesAfter, ShapeInv
  <2>3. Concludes(t)
    BY <1>2, <1>3, <1>5, <1>8 DEF Concludes, ShapeInv
  <2> QED
    BY <1>1, <2>1, <2>2, <2>3, EndedKeepsInv
<1> QED
  BY <1>7, <1>8 DEF Construct, NewIndex

LEMMA DestroyKeepsInv ==
  ASSUME SigInv, NEW t \in Threads, Destroy(t)
  PROVE  SigInv'
<1> PICK e : e = Top(t)
  OBVIOUS
<1>1. stack[t] # <<>> /\ e.op = "destroy" /\ e.pc = "in" /\ Pop(t)
  BY DEF Destroy, At
<1>2. ShapeInv /\ RegInv /\ OwnerOf(e)
  BY <1>1, TopKnows DEF SigInv
<1> PICK h \in Handlers : h = e.handler
  BY <1>1, <1>2 DEF OwnerOf
<1>3. life[h] = "destroying" /\ life' = [life EXCEPT ![h] = "dead"]
  BY <1>1, <1>2 DEF OwnerOf, Destroy
<1>4. /\ Holds(Top(t)) /\ Owns(Top(t)) /\ gWrapperMutex' = None
      /\ UNCHANGED <<counter, initialized, wrapperIndex, callbacks>>
  BY <1>1 DEF Holds, Owns, Destroy
<1>5. gOnSignalWrappers' = [i \in DOMAIN gOnSignalWrappers \ {wrapperIndex[h]} |->
                              gOnSignalWrappers[i]]
  BY DEF Destroy
<1>6. /\ DOMAIN gOnSignalWrappers' = DOMAIN gOnSignalWrappers \ {wrapperIndex[h]}
      /\ \A i \in DOMAIN gOnSignalWrappers' : gOnSignalWrappers'[i] = gOnSignalWrappers[i]
      /\ gOnSignalWrappers' \in [DOMAIN gOnSignalWrappers' -> Handlers]
  BY <1>2, <1>5 DEF ShapeInv
<1>7. ASSUME NEW i \in DOMAIN gOnSignalWrappers, gOnSignalWrappers[i] # h
      PROVE  i \in DOMAIN gOnSignalWrappers'
  <2>1. wrapperIndex[gOnSignalWrappers[i]] = i /\ gOnSignalWrappers[i] \in Handlers /\ i # -1
    BY <1>2 DEF ShapeInv, RegInv
  <2>2. i # wrapperIndex[h]
    BY <1>2, <1>7, <2>1 DEF RegInv
  <2> QED
    BY <1>6, <2>2
<1>8. RegInv'
  <2>1. ASSUME NEW i \in DOMAIN gOnSignalWrappers'
        PROVE  LET g == gOnSignalWrappers'[i]
               IN life'[g] \in {"alive", "destroying"} /\ wrapperIndex'[g] = i
    <3> PICK g : g = gOnSignalWrappers'[i]
      OBVIOUS
    <3>1. i \in DOMAIN gOnSignalWrappers /\ i # wrapperIndex[h] /\ g = gOnSignalWrappers[i]
      BY <1>6
    <3>2. life[g] \in {"alive", "destroying"} /\ wrapperIndex[g] = i
      BY <1>2, <3>1 DEF RegInv
    <3> QED
      BY <1>2, <1>3, <1>4, <3>1, <3>2 DEF ShapeInv
  <2>2. ASSUME NEW g \in Handlers, initialized'[g], life'[g] \in {"alive", "destroying"}
        PROVE  \E i \in DOMAIN gOnSignalWrappers' : gOnSignalWrappers'[i] = g
    <3>1. g # h
      BY <1>2, <1>3, <2>2 DEF ShapeInv
    <3>2. Registered(g)
      BY <1>2, <1>3, <1>4, <2>2, <3>1 DEF ShapeInv, RegInv
    <3> QED
      BY <1>6, <1>7, <3>1, <3>2 DEF Registered
  <2>3. ASSUME NEW g \in Handlers
        PROVE  /\ wrapperIndex'[g] < counter'
               /\ life'[g] \in {"new", "constructing"} => ~initialized'[g] /\ wrapperIndex'[g] = -1
               /\ \A k \in Handlers : wrapperIndex'[k] = wrapperIndex'[g] /\ wrapperIndex'[g] # -1 => k = g
    BY <1>2, <1>3, <1>4 DEF ShapeInv, RegInv
  <2> QED
    BY <2>1, <2>2, <2>3 DEF RegInv, Registered
<1>9. DOMAIN gOnSignalWrappers' \subseteq 0 .. counter' - 1
  BY <1>2, <1>4, <1>6 DEF ShapeInv
<1>10. \A i \in DOMAIN gOnSignalWrappers : life'[gOnSignalWrappers[i]] = "alive" =>
         i \in DOMAIN gOnSignalWrappers' /\ gOnSignalWrappers'[i] = gOnSignalWrappers[i]
  BY <1>2, <1>3, <1>6, <1>7 DEF ShapeInv
<1>11. TypesAfter
  BY <1>2, <1>3, <1>4, <1>6, <1>9 DEF TypesAfter, ShapeInv
<1>12. Concludes(t)
  BY <1>2, <1>3, <1>4, <1>10 DEF Concludes, ShapeInv
<1> QED
  BY <1>1, <1>8, <1>11, <1>12, EndedKeepsInv

LEMMA AddKeepsInv ==
  ASSUME SigInv, NEW t \in Threads, Add(t)
  PROVE  SigInv'
<1> PICK e : e = Top(t)
  OBVIOUS
<1>1. stack[t] # <<>> /\ e.op = "add" /\ e.pc = "in" /\ Pop(t)
  BY DEF Add, At
<1>2. ShapeInv /\ RegInv /\ OwnerOf(e)
  BY <1>1, TopKnows DEF SigInv
<1> PICK h \in Handlers : h = e.handler
  BY <1>1, <1>2 DEF OwnerOf
<1>3. /\ ~Holds(Top(t)) /\ callbacks' = [callbacks EXCEPT ![h] = callbacks[h] + 1]
      /\ UNCHANGED <<gOnSignalWrappers, gWrapperMutex, counter, life, initialized, wrapperIndex>>
  BY <1>1 DEF Holds, Add, global
<1>4. RegInv'
  BY <1>2, <1>3 DEF RegInv, Registered
<1>5. TypesAfter
  BY <1>2, <1>3 DEF TypesAfter, ShapeInv
<1>6. Concludes(t)
  BY <1>2, <1>3 DEF Concludes, ShapeInv
<1> QED
  BY <1>1, <1>4, <1>5, <1>6, EndedKeepsInv

LEMMA SignalReturnsKeepsInv ==
  ASSUME SigInv, NEW t \in Threads, SignalReturns(t)
  PROVE  SigInv'
<1> PICK e : e = Top(t)
  OBVIOUS
<1>1. stack[t] # <<>> /\ e.op = "signal" /\ e.pc = "in" /\ Pop(t)
  BY DEF SignalReturns, At
<1>2. ShapeInv /\ RegInv
  BY DEF SigInv
<1>3. /\ Holds(Top(t)) /\ gWrapperMutex' = None
      /\ UNCHANGED <<gOnSignalWrappers, counter, life, initialized, wrapperIndex, callbacks>>
  BY <1>1 DEF Holds, SignalReturns, objects
<1>4. RegInv'
  BY <1>2, <1>3 DEF RegInv, Registered
<1>5. TypesAfter
  BY <1>2, <1>3 DEF TypesAfter, ShapeInv
<1>6. Concludes(t)
  BY <1>2, <1>3 DEF Concludes, ShapeInv
<1> QED
  BY <1>1, <1>4, <1>5, <1>6, EndedKeepsInv

\* Nothing but the flag of a handler changes.
LEMMA FlagKeepsInv ==
  ASSUME SigInv, UNCHANGED <<gOnSignalWrappers, gWrapperMutex, counter, life, wrapperIndex,
                             callbacks, stack>>,
         initialized' \in [Handlers -> BOOLEAN],
         \A h \in Handlers : initialized'[h] => initialized[h]
  PROVE  SigInv'
<1>1. ShapeInv' /\ OneOwnerInv' /\ LockInv'
  BY DEF SigInv, ShapeInv, OneOwnerInv, LockInv
<1>2. RegInv'
  BY DEF SigInv, RegInv, Registered
<1>3. FramesInv'
  BY DEF SigInv, FramesInv, OwnerOf, LoopOf, DueOf, Ahead
<1> QED
  BY <1>1, <1>2, <1>3 DEF SigInv
-----------------------------------------------------------------------------
LEMMA StepKeepsInv == SigInv /\ [Next]_vars => SigInv'
<1> SUFFICES ASSUME SigInv, [Next]_vars PROVE SigInv'
  OBVIOUS
<1>1. ASSUME NEW t \in Threads, Lock(t) PROVE SigInv'
  BY <1>1, LockGlobalKeepsInv, LockAddKeepsInv, EnterWrapperKeepsInv DEF Lock, LockDestroy, Ops
<1>2. ASSUME NEW t \in Threads, Work(t) PROVE SigInv'
  BY <1>2, ConstructKeepsInv, DestroyKeepsInv, AddKeepsInv, RunCallbackKeepsInv,
     LeaveWrapperKeepsInv, SignalReturnsKeepsInv DEF Work
<1>3. ASSUME NEW t \in Threads, Begin(t) PROVE SigInv'
  BY <1>3, BeginConstructKeepsInv, BeginDestroyKeepsInv, BeginAddKeepsInv, DeliverKeepsInv DEF Begin
<1>4. ASSUME NEW h \in Handlers, ClearInitialized(h) PROVE SigInv'
  <2>1. initialized \in [Handlers -> BOOLEAN]
    BY DEF SigInv, ShapeInv
  <2> QED
    BY <1>4, <2>1, FlagKeepsInv DEF ClearInitialized, global
<1>5. ASSUME UNCHANGED vars PROVE SigInv'
  <2>1. initialized \in [Handlers -> BOOLEAN]
    BY DEF SigInv, ShapeInv
  <2> QED
    BY <1>5, <2>1, FlagKeepsInv DEF vars, global, objects
<1> QED
  BY <1>1, <1>2, <1>3, <1>4, <1>5 DEF Next, Stopped

\* What the threads, the map and the signals in progress know of each other.
THEOREM SigInvariant == Spec => []SigInv
<1>1. Init => SigInv
  BY InitHoldsInv
<1>2. SigInv /\ [Next]_vars => SigInv'
  BY StepKeepsInv
<1> QED
  BY <1>1, <1>2, PTL DEF Spec

\* The map holds exactly the handlers there are, each under its own index, and
\* no callback runs for one that is gone, however signals and operations are
\* nested (SignalHandler's constructor and destructor, onSignal).
THEOREM CallsAreAlwaysOfHandlers == Spec => []CallsAreOfHandlers
<1>1. SigInv => RegistrationExact
  BY DEF SigInv, RegInv, RegistrationExact
<1>2. SigInv => NoCallAfterDestroy
  <2> SUFFICES ASSUME SigInv, NEW t \in Threads, NEW n \in DOMAIN stack[t],
                      stack[t][n].pc = "wrapper"
               PROVE  life[stack[t][n].handler] \in {"alive", "destroying"}
    BY DEF NoCallAfterDestroy
  <2> PICK e : e = stack[t][n]
    OBVIOUS
  <2>1. LoopOf(e)
    BY FrameKnows DEF SigInv
  <2> QED
    BY <2>1 DEF LoopOf, SigInv, RegInv
<1> QED
  BY <1>1, <1>2, SigInvariant, PTL DEF CallsAreOfHandlers

\* A signal that returns has called every callback added before it was
\* delivered, of every handler not destroyed since (onSignal, OnSignal).
THEOREM SignalsReachAll == Spec => SignalReachesAll
<1>1. SigInv /\ [Next]_vars =>
        [\A t \in Threads : SignalReturns(t) =>
           \A c \in Top(t).due : life[c[1]] = "alive" => c \in Top(t).called]_vars
  <2> SUFFICES ASSUME SigInv, NEW t \in Threads, SignalReturns(t),
                      NEW c \in Top(t).due, life[c[1]] = "alive"
               PROVE  c \in Top(t).called
    OBVIOUS
  <2> PICK e : e = Top(t)
    OBVIOUS
  <2>1. stack[t] # <<>> /\ e.op = "signal" /\ e.pc = "in" /\ Later(t) = {}
    BY DEF SignalReturns, At, NoneLeft
  <2>2. DueOf(e)
    BY <2>1, TopKnows
  <2>3. ~Ahead(e, c)
    BY <2>1 DEF Ahead, Later
  <2> QED
    BY <2>1, <2>2, <2>3 DEF DueOf
<1> QED
  BY <1>1, SigInvariant, PTL DEF Spec, SignalReachesAll

-----------------------------------------------------------------------------
(* Where a signal finds its thread idle and callbacks leave the handlers     *)
(* alone, a thread is in one operation at a time, and holds what it locked.  *)

Plainly == ~SignalsAnywhere /\ ~CallbacksUseApi

Idle(s) == s = <<>>
Busy(s) == s # <<>> /\ Len(s) = 1
HasGlobal(f) == f.op # "add" /\ f.pc # "lock"
HasOwn(f, h) == f.handler = h /\ (f.pc = "wrapper" \/ (f.op = "add" /\ f.pc = "in"))

HeldInv ==
  /\ cbMutex \in [Handlers -> Threads \cup {None}]
  /\ \A t \in Threads :
       /\ Idle(stack[t]) \/ Busy(stack[t])
       /\ gWrapperMutex = t => ~Idle(stack[t]) /\ HasGlobal(stack[t][1])
       /\ \A h \in Handlers : cbMutex[h] = t => ~Idle(stack[t]) /\ HasOwn(stack[t][1], h)

\* The stacks after a step, when there is one frame at most.
LEMMA OneFrame ==
  ASSUME ShapeInv, NEW t \in Threads, Idle(stack[t]) \/ Busy(stack[t])
  PROVE  /\ \A f \in SigFrame : Push(t, f) /\ Idle(stack[t]) =>
              stack' = [stack EXCEPT ![t] = <<f>>]
         /\ \A f \in SigFrame : SetTop(t, f) /\ Busy(stack[t]) =>
              stack' = [stack EXCEPT ![t] = <<f>>]
         /\ Pop(t) /\ Busy(stack[t]) => stack' = [stack EXCEPT ![t] = <<>>]
         /\ Busy(stack[t]) => Top(t) = stack[t][1]
<1>1. stack[t] \in Seq(SigFrame)
  BY DEF ShapeInv
<1>2. ASSUME NEW f \in SigFrame, Idle(stack[t]) PROVE Append(stack[t], f) = <<f>>
  BY <1>2 DEF Idle
<1>3. ASSUME NEW f \in SigFrame, Busy(stack[t])
      PROVE  [stack[t] EXCEPT ![Len(stack[t])] = f] = <<f>>
  BY <1>1, <1>3 DEF Busy
<1>4. ASSUME Busy(stack[t]) PROVE SubSeq(stack[t], 1, Len(stack[t]) - 1) = <<>>
  BY <1>1, <1>4 DEF Busy
<1> QED
  BY <1>2, <1>3, <1>4 DEF Push, SetTop, Pop, Top, Busy

\* One thread's stack changes, the others keep what they hold.
LEMMA HeldByOthers ==
  ASSUME ShapeInv, HeldInv, NEW t \in Threads, NEW s, stack' = [stack EXCEPT ![t] = s],
         gWrapperMutex' \in {gWrapperMutex, None, t},
         \A h \in Handlers : cbMutex'[h] \in {cbMutex[h], None, t}
  PROVE  /\ stack'[t] = s
         /\ \A u \in Threads : u # t =>
              /\ Idle(stack'[u]) \/ Busy(stack'[u])
              /\ gWrapperMutex' = u => ~Idle(stack'[u]) /\ HasGlobal(stack'[u][1])
              /\ \A h \in Handlers :
                   cbMutex'[h] = u => ~Idle(stack'[u]) /\ HasOwn(stack'[u][1], h)
<1>1. None \notin Threads
  BY SignalAssumption
<1>2. stack'[t] = s /\ \A u \in Threads : u # t => stack'[u] = stack[u]
  BY DEF ShapeInv
<1> QED
  BY <1>1, <1>2 DEF HeldInv, Idle, Busy, HasGlobal, HasOwn

\* A thread whose one operation goes on holds what its frame says.
LEMMA HeldByFrame ==
  ASSUME ShapeInv, HeldInv, NEW t \in Threads, NEW f,
         stack' = [stack EXCEPT ![t] = <<f>>],
         cbMutex' \in [Handlers -> Threads \cup {None}],
         gWrapperMutex' \in {gWrapperMutex, None, t},
         gWrapperMutex' = t => HasGlobal(f),
         \A h \in Handlers : cbMutex'[h] \in {cbMutex[h], None, t},
         \A h \in Handlers : cbMutex'[h] = t => HasOwn(f, h)
  PROVE  HeldInv'
<1>1. stack'[t] = <<f>>
  BY HeldByOthers
<1>2. Busy(stack'[t]) /\ ~Idle(stack'[t]) /\ stack'[t][1] = f
  BY <1>1 DEF Idle, Busy
<1>3. /\ gWrapperMutex' = t => HasGlobal(stack'[t][1])
      /\ \A h \in Handlers : cbMutex'[h] = t => HasOwn(stack'[t][1], h)
  BY <1>2 DEF HasGlobal, HasOwn
<1>4. \A u \in Threads : u # t =>
        /\ Idle(stack'[u]) \/ Busy(stack'[u])
        /\ gWrapperMutex' = u => ~Idle(stack'[u]) /\ HasGlobal(stack'[u][1])
        /\ \A h \in Handlers : cbMutex'[h] = u => ~Idle(stack'[u]) /\ HasOwn(stack'[u][1], h)
  BY HeldByOthers
<1> QED
  BY <1>2, <1>3, <1>4 DEF HeldInv, Idle, Busy, HasGlobal, HasOwn

\* A thread whose operation returns holds nothing.
LEMMA HeldByNone ==
  ASSUME ShapeInv, HeldInv, NEW t \in Threads,
         stack' = [stack EXCEPT ![t] = <<>>],
         cbMutex' \in [Handlers -> Threads \cup {None}],
         gWrapperMutex' \in {gWrapperMutex, None}, gWrapperMutex' # t,
         \A h \in Handlers : cbMutex'[h] \in {cbMutex[h], None},
         \A h \in Handlers : cbMutex'[h] # t
  PROVE  HeldInv'
<1>1. stack'[t] = <<>>
  BY HeldByOthers
<1>2. \A u \in Threads : u # t =>
        /\ Idle(stack'[u]) \/ Busy(stack'[u])
        /\ gWrapperMutex' = u => ~Idle(stack'[u]) /\ HasGlobal(stack'[u][1])
        /\ \A h \in Handlers : cbMutex'[h] = u => ~Idle(stack'[u]) /\ HasOwn(stack'[u][1], h)
  BY HeldByOthers
<1> QED
  BY <1>1, <1>2 DEF HeldInv, Idle, Busy, HasGlobal, HasOwn

LEMMA HeldStep == Plainly /\ SigInv /\ HeldInv /\ [Next]_vars => HeldInv'
<1> SUFFICES ASSUME Plainly, SigInv, HeldInv, [Next]_vars PROVE HeldInv'
  OBVIOUS
<1>0. ShapeInv /\ None \notin Threads
  BY SignalAssumption DEF SigInv
<1>1. ASSUME NEW t \in Threads, Begin(t) PROVE HeldInv'
  <2>1. Idle(stack[t])
    BY <1>1 DEF Begin, BeginConstruct, BeginDestroy, BeginAdd, Deliver, MayCall, Plainly, Idle
  <2>2. PICK f \in SigFrame : Push(t, f)
    <3>1. ASSUME NEW h \in Handlers, NEW op \in Ops, Push(t, Call(op, h))
          PROVE  \E f \in SigFrame : Push(t, f)
      BY <3>1, CallIsFrame
    <3>2. ASSUME Deliver(t) PROVE \E f \in SigFrame : Push(t, f)
      <4>1. Due \in SUBSET (Handlers \X (Nat \ {0}))
        BY DEF Due, Calls
      <4>2. [Call("signal", None) EXCEPT !.due = Due] \in SigFrame
        BY <4>1 DEF Call, SigFrame, Ops
      <4> QED
        BY <3>2, <4>2 DEF Deliver
    <3> QED
      BY <1>1, <3>1, <3>2 DEF Begin, BeginConstruct, BeginDestroy, BeginAdd, Ops
  <2>3. stack' = [stack EXCEPT ![t] = <<f>>]
    BY <1>0, <2>1, <2>2, OneFrame
  <2>4. UNCHANGED <<gWrapperMutex, cbMutex>>
    BY <1>1 DEF Begin, BeginConstruct, BeginDestroy, BeginAdd, Deliver, global, objects
  <2>5. gWrapperMutex # t /\ \A h \in Handlers : cbMutex[h] # t
    BY <2>1 DEF HeldInv
  <2>6. /\ cbMutex' \in [Handlers -> Threads \cup {None}]
        /\ gWrapperMutex' \in {gWrapperMutex, None, t} /\ gWrapperMutex' # t
    BY <2>4, <2>5 DEF HeldInv
  <2>7. \A h \in Handlers : cbMutex'[h] \in {cbMutex[h], None, t} /\ cbMutex'[h] # t
    BY <2>4, <2>5
  <2> QED
    BY <1>0, <2>3, <2>6, <2>7, HeldByFrame
<1>2. ASSUME NEW t \in Threads, stack[t] # <<>> 
      PROVE  /\ Busy(stack[t]) /\ Top(t) = stack[t][1] /\ Top(t) \in SigFrame
             /\ gWrapperMutex = t => HasGlobal(Top(t))
             /\ \A h \in Handlers : cbMutex[h] = t => HasOwn(Top(t), h)
  <2>1. Busy(stack[t])
    BY <1>2 DEF HeldInv, Idle
  <2>2. Top(t) = stack[t][1] /\ Top(t) \in SigFrame
    BY <1>0, <1>2, <2>1, OneFrame, TopIsFrame
  <2> QED
    BY <2>1, <2>2 DEF HeldInv, Idle, HasGlobal, HasOwn
<1>3. ASSUME NEW t \in Threads, NEW op \in {"construct", "destroy", "signal"}, LockGlobal(t, op)
      PROVE  HeldInv'
  <2> PICK e : e = Top(t)
    OBVIOUS
  <2>1. stack[t] # <<>> /\ e.op = op /\ e.pc = "lock" /\ e \in SigFrame
    BY <1>2, <1>3 DEF LockGlobal, At
  <2>2. PICK f \in SigFrame : f = [e EXCEPT !.pc = "in"]
    BY <2>1 DEF SigFrame
  <2>3. stack' = [stack EXCEPT ![t] = <<f>>]
    BY <1>0, <1>2, <1>3, <2>1, <2>2, OneFrame DEF LockGlobal
  <2>4. HasGlobal(f) /\ gWrapperMutex' = t /\ cbMutex' = cbMutex
    BY <1>3, <2>1, <2>2 DEF HasGlobal, LockGlobal, objects, SigFrame
  <2>5. \A h \in Handlers : cbMutex[h] # t
    BY <1>2, <2>1 DEF HasOwn
  <2>6. /\ cbMutex' \in [Handlers -> Threads \cup {None}]
        /\ \A h \in Handlers : cbMutex'[h] \in {cbMutex[h], None, t} /\ cbMutex'[h] # t
    BY <2>4, <2>5 DEF HeldInv
  <2> QED
    BY <1>0, <2>3, <2>4, <2>6, HeldByFrame
<1>4. ASSUME NEW t \in Threads, LockAdd(t) PROVE HeldInv'
  <2> PICK e : e = Top(t)
    OBVIOUS
  <2>1. stack[t] # <<>> /\ e.op = "add" /\ e.pc = "lock" /\ e \in SigFrame
    BY <1>2, <1>4 DEF LockAdd, At
  <2>2. PICK f \in SigFrame : f = [e EXCEPT !.pc = "in"]
    BY <2>1 DEF SigFrame
  <2>3. stack' = [stack EXCEPT ![t] = <<f>>]
    BY <1>0, <1>2, <1>4, <2>1, <2>2, OneFrame DEF LockAdd
  <2>4. /\ f.op = "add" /\ f.pc = "in" /\ f.handler = e.handler /\ gWrapperMutex' = gWrapperMutex
        /\ cbMutex' = [cbMutex EXCEPT ![e.handler] = t]
    BY <1>4, <2>1, <2>2 DEF LockAdd, global, SigFrame
  <2>5. gWrapperMutex # t /\ \A h \in Handlers : cbMutex[h] # t
    BY <1>2, <2>1 DEF HasOwn, HasGlobal
  <2>6. /\ cbMutex' \in [Handlers -> Threads \cup {None}]
        /\ \A h \in Handlers : cbMutex'[h] \in {cbMutex[h], None, t}
        /\ \A h \in Handlers : cbMutex'[h] = t => HasOwn(f, h)
    BY <2>4, <2>5 DEF HeldInv, HasOwn
  <2> QED
    BY <1>0, <2>3, <2>4, <2>5, <2>6, HeldByFrame
<1>5. ASSUME NEW t \in Threads, EnterWrapper(t) PROVE HeldInv'
  <2> PICK e : e = Top(t)
    OBVIOUS
  <2> PICK i : i = Min(Later(t))
    OBVIOUS
  <2> PICK h : h = gOnSignalWrappers[i]
    OBVIOUS
  <2>1. stack[t] # <<>> /\ e.op = "signal" /\ e.pc = "in" /\ e \in SigFrame /\ Later(t) # {}
    BY <1>2, <1>5 DEF EnterWrapper, At, NoneLeft
  <2>2. i \in Int /\ h \in Handlers
    <3>1. Later(t) \in SUBSET Nat /\ Later(t) \subseteq DOMAIN gOnSignalWrappers
      BY <1>0 DEF ShapeInv, Later
    <3>2. i \in Later(t)
      BY <2>1, <3>1, LeastOf
    <3> QED
      BY <1>0, <3>1, <3>2 DEF ShapeInv
  <2>3. PICK f \in SigFrame : f = [e EXCEPT !.pc = "wrapper", !.handler = h, !.at = i, !.k = 0]
    <3>1. [e EXCEPT !.pc = "wrapper", !.handler = h, !.at = i, !.k = 0] \in SigFrame
      BY <2>1, <2>2 DEF SigFrame
    <3> QED
      BY <3>1
  <2>4. SetTop(t, f) /\ cbMutex' = [cbMutex EXCEPT ![h] = t] /\ gWrapperMutex' = gWrapperMutex
    BY <1>5, <2>3 DEF EnterWrapper, global
  <2>5. stack' = [stack EXCEPT ![t] = <<f>>]
    BY <1>0, <1>2, <2>1, <2>4, OneFrame
  <2>6. f.op = "signal" /\ f.pc = "wrapper" /\ f.handler = h
    BY <2>1, <2>3 DEF SigFrame
  <2>7. \A g \in Handlers : cbMutex[g] # t
    BY <1>2, <2>1 DEF HasOwn
  <2>8. /\ cbMutex' \in [Handlers -> Threads \cup {None}]
        /\ \A g \in Handlers : cbMutex'[g] \in {cbMutex[g], None, t}
        /\ \A g \in Handlers : cbMutex'[g] = t => HasOwn(f, g)
    BY <2>2, <2>4, <2>6, <2>7 DEF HeldInv, HasOwn
  <2>9. HasGlobal(f)
    BY <2>6 DEF HasGlobal
  <2> QED
    BY <1>0, <2>4, <2>5, <2>8, <2>9, HeldByFrame
<1>6. ASSUME NEW t \in Threads, RunCallback(t) PROVE HeldInv'
  <2> PICK e : e = Top(t)
    OBVIOUS
  <2>1. stack[t] # <<>> /\ e.op = "signal" /\ e.pc = "wrapper" /\ e \in SigFrame /\ LoopOf(e)
    BY <1>2, <1>6, TopKnows DEF RunCallback, At
  <2>2. e.handler \in Handlers
    BY <1>0, <2>1 DEF LoopOf, ShapeInv
  <2>3. PICK f \in SigFrame : f = [e EXCEPT !.k = e.k + 1,
                                            !.called = e.called \cup {<<e.handler, e.k + 1>>}]
    <3>1. /\ e.k + 1 \in Nat
          /\ e.called \cup {<<e.handler, e.k + 1>>} \in SUBSET (Handlers \X Nat)
      BY <2>1, <2>2 DEF SigFrame
    <3>2. [e EXCEPT !.k = e.k + 1, !.called = e.called \cup {<<e.handler, e.k + 1>>}] \in SigFrame
      BY <2>1, <3>1 DEF SigFrame
    <3> QED
      BY <3>2
  <2>4. SetTop(t, f) /\ cbMutex' = cbMutex /\ gWrapperMutex' = gWrapperMutex
    BY <1>6, <2>3 DEF RunCallback, global, objects
  <2>5. stack' = [stack EXCEPT ![t] = <<f>>]
    BY <1>0, <1>2, <2>1, <2>4, OneFrame
  <2>6. f.op = "signal" /\ f.pc = "wrapper" /\ f.handler = e.handler
    BY <2>1, <2>3 DEF SigFrame
  <2>7. HasGlobal(f) /\ \A h \in Handlers : cbMutex[h] = t => HasOwn(f, h)
    BY <1>2, <2>1, <2>6 DEF HasOwn, HasGlobal
  <2>8. /\ cbMutex' \in [Handlers -> Threads \cup {None}]
        /\ gWrapperMutex' \in {gWrapperMutex, None, t}
    BY <2>4 DEF HeldInv
  <2>9. /\ \A h \in Handlers : cbMutex'[h] \in {cbMutex[h], None, t}
        /\ \A h \in Handlers : cbMutex'[h] = t => HasOwn(f, h)
    BY <2>4, <2>7
  <2> QED
    BY <1>0, <2>5, <2>7, <2>8, <2>9, HeldByFrame
<1>7. ASSUME NEW t \in Threads, LeaveWrapper(t) PROVE HeldInv'
  <2> PICK e : e = Top(t)
    OBVIOUS
  <2>1. stack[t] # <<>> /\ e.op = "signal" /\ e.pc = "wrapper" /\ e \in SigFrame
    BY <1>2, <1>7 DEF LeaveWrapper, At
  <2>2. PICK f \in SigFrame : f = [e EXCEPT !.pc = "in", !.handler = None, !.k = 0]
    <3>1. [e EXCEPT !.pc = "in", !.handler = None, !.k = 0] \in SigFrame
      BY <2>1 DEF SigFrame
    <3> QED
      BY <3>1
  <2>3. /\ SetTop(t, f) /\ gWrapperMutex' = gWrapperMutex
        /\ cbMutex' = [cbMutex EXCEPT ![e.handler] = None]
    BY <1>7, <2>2 DEF LeaveWrapper, global
  <2>4. stack' = [stack EXCEPT ![t] = <<f>>]
    BY <1>0, <1>2, <2>1, <2>3, OneFrame
  <2>5. HasGlobal(f)
    BY <2>1, <2>2 DEF HasGlobal, SigFrame
  <2>6. /\ cbMutex' \in [Handlers -> Threads \cup {None}]
        /\ \A h \in Handlers : cbMutex'[h] \in {cbMutex[h], None}
        /\ \A h \in Handlers : cbMutex'[h] # t
    BY <1>0, <1>2, <2>1, <2>3 DEF HeldInv, HasOwn
  <2> QED
    BY <1>0, <2>3, <2>4, <2>5, <2>6, HeldByFrame
<1>8. ASSUME NEW t \in Threads, Construct(t) \/ Destroy(t) \/ SignalReturns(t) PROVE HeldInv'
  <2>1. /\ stack[t] # <<>> /\ Top(t).op # "add" /\ Top(t).pc = "in" /\ Pop(t)
        /\ gWrapperMutex' = None /\ cbMutex' = cbMutex
    BY <1>8 DEF Construct, Destroy, SignalReturns, At, objects
  <2>2. stack' = [stack EXCEPT ![t] = <<>>]
    BY <1>0, <1>2, <2>1, OneFrame
  <2>3. \A h \in Handlers : cbMutex[h] # t
    BY <1>2, <2>1 DEF HasOwn
  <2> QED
    BY <1>0, <2>1, <2>2, <2>3, HeldByNone DEF HeldInv
<1>9. ASSUME NEW t \in Threads, Add(t) PROVE HeldInv'
  <2>1. /\ stack[t] # <<>> /\ Top(t).op = "add" /\ Pop(t)
        /\ gWrapperMutex' = gWrapperMutex /\ cbMutex' = [cbMutex EXCEPT ![Top(t).handler] = None]
    BY <1>9 DEF Add, At, global
  <2>2. stack' = [stack EXCEPT ![t] = <<>>]
    BY <1>0, <1>2, <2>1, OneFrame
  <2>3. gWrapperMutex # t
    BY <1>2, <2>1 DEF HasGlobal
  <2>4. /\ cbMutex' \in [Handlers -> Threads \cup {None}]
        /\ \A h \in Handlers : cbMutex'[h] \in {cbMutex[h], None}
        /\ \A h \in Handlers : cbMutex'[h] # t
    BY <1>0, <1>2, <2>1 DEF HeldInv, HasOwn
  <2> QED
    BY <1>0, <2>1, <2>2, <2>3, <2>4, HeldByNone
<1>10. ASSUME UNCHANGED <<gWrapperMutex, cbMutex, stack>> PROVE HeldInv'
  BY <1>10 DEF HeldInv, Idle, Busy, HasGlobal, HasOwn
<1>11. ASSUME NEW t \in Threads, Lock(t) PROVE HeldInv'
  BY <1>3, <1>4, <1>5, <1>11 DEF Lock, LockDestroy
<1>12. ASSUME NEW t \in Threads, Work(t) PROVE HeldInv'
  BY <1>6, <1>7, <1>8, <1>9, <1>12 DEF Work
<1>13. ASSUME NEW h \in Handlers, ClearInitialized(h) PROVE HeldInv'
  BY <1>10, <1>13 DEF ClearInitialized, global
<1>14. ASSUME UNCHANGED vars PROVE HeldInv'
  BY <1>10, <1>14 DEF vars, global, objects
<1> QED
  BY <1>1, <1>11, <1>12, <1>13, <1>14 DEF Next, Stopped

\* Where signals find their thread idle and callbacks leave the handlers alone
\* (and only there: a signal on top of an operation waits for it forever), no
\* thread waits for a mutex it holds (SignalHandler.hh: "thread-safe").
THEOREM NoThreadWaitsForItself == Plainly /\ Spec => []NoSelfDeadlock
<1>1. Init => HeldInv
  BY SignalAssumption DEF Init, HeldInv, Idle, Busy
<1>2. SigInv /\ HeldInv => NoSelfDeadlock
  <2> SUFFICES ASSUME SigInv, HeldInv, NEW t \in Threads, stack[t] # <<>>
               PROVE  LET f == Top(t) IN
                      /\ f.pc = "lock" /\ f.op # "add" => gWrapperMutex # t
                      /\ f.pc = "lock" /\ f.op = "add" => cbMutex[f.handler] # t
                      /\ f.op = "signal" /\ f.pc = "in" /\ Later(t) # {} =>
                           cbMutex[gOnSignalWrappers[Min(Later(t))]] # t
    BY DEF NoSelfDeadlock
  <2> PICK f : f = Top(t)
    OBVIOUS
  <2>1. ShapeInv /\ f = stack[t][1] /\ OwnerOf(f) /\ f \in SigFrame
    BY OneFrame, TopKnows DEF SigInv, HeldInv, Idle
  <2>2. /\ gWrapperMutex = t => HasGlobal(f)
        /\ \A h \in Handlers : cbMutex[h] = t => HasOwn(f, h)
    BY <2>1 DEF HeldInv, Idle, HasGlobal, HasOwn
  <2>3. f.op = "add" => f.handler \in Handlers
    BY <2>1 DEF OwnerOf
  <2>4. ASSUME Later(t) # {} PROVE gOnSignalWrappers[Min(Later(t))] \in Handlers
    <3>1. Later(t) \in SUBSET Nat /\ Later(t) \subseteq DOMAIN gOnSignalWrappers
      BY <2>1 DEF ShapeInv, Later
    <3>2. Min(Later(t)) \in Later(t)
      BY <2>4, <3>1, LeastOf
    <3> QED
      BY <2>1, <3>1, <3>2 DEF ShapeInv
  <2> QED
    BY <2>2, <2>3, <2>4 DEF HasGlobal, HasOwn
<1>3. Plainly /\ SigInv /\ HeldInv /\ [Next]_vars => HeldInv'
  BY HeldStep
<1>4. SUFFICES ASSUME Plainly PROVE Spec => []NoSelfDeadlock
  OBVIOUS
<1>5. SigInv /\ HeldInv /\ [Next]_vars => HeldInv'
  BY <1>3, <1>4
<1> QED
  BY <1>1, <1>2, <1>5, SigInvariant, PTL DEF Spec
=============================================================================
