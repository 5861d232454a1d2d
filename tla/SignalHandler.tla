--------------------------- MODULE SignalHandler ---------------------------
(***************************************************************************)
(* ignition::common::SignalHandler (src/SignalHandler.cc): objects that    *)
(* register callbacks for SIGINT and SIGTERM in one global map, guarded by *)
(* a global mutex, each object's callbacks guarded by a mutex of its own.  *)
(*                                                                         *)
(* A signal interrupts a thread: onSignal() is pushed on the stack of      *)
(* calls of whatever thread the system picks, and that thread does nothing *)
(* else until it returns.  An operation is a frame of that stack, with one *)
(* step to get its mutex and one for the rest.                             *)
(***************************************************************************)
EXTENDS Integers, Sequences, FiniteSets, FiniteSetsExt

CONSTANTS Threads,
          Handlers,         \* the SignalHandler objects a run constructs
          None,
          MaxCallbacks,     \* bound on AddCallback per handler
          MaxStack,         \* bound on nested operations of a thread
          SignalsAnywhere,  \* may a signal interrupt an operation?
          CallbacksUseApi   \* may a callback construct, destroy and add?

ASSUME SignalAssumption == /\ None \notin Threads \cup Handlers
                           /\ MaxCallbacks \in Nat \ {0}
                           /\ MaxStack \in Nat \ {0}
                           /\ SignalsAnywhere \in BOOLEAN
                           /\ CallbacksUseApi \in BOOLEAN

Signals == {"SIGINT", "SIGTERM"}

VARIABLES gOnSignalWrappers,  \* index -> handler
          gWrapperMutex,      \* the thread that holds it, or None
          counter,            \* the static counter of the constructor
          installed,          \* the signals whose disposition is onSignal
          life,               \* of each handler object
          initialized,
          wrapperIndex,
          callbacks,          \* how many each handler has
          cbMutex,            \* per handler: the thread that holds it, or None
          stack               \* per thread: its operations, innermost last

global == <<gOnSignalWrappers, gWrapperMutex, counter, installed>>
objects == <<life, initialized, wrapperIndex, callbacks, cbMutex>>
vars == <<global, objects, stack>>

Ops == {"construct", "destroy", "add", "signal"}
Indices == 0 .. Cardinality(Handlers)
Calls == Handlers \X (1 .. MaxCallbacks + Cardinality(Threads))

\* pc: "lock" before the operation's first mutex, "in" with it, "wrapper" in
\* SignalHandlerPrivate::OnSignal with both.  at, k: where the two loops of a
\* signal are.  due, called: history of a signal.
Frame == [op : Ops, pc : {"lock", "in", "wrapper"},
          handler : Handlers \cup {None}, at : Indices \cup {-1}, k : Nat,
          due : SUBSET Calls, called : SUBSET Calls]

TypeOK ==
  /\ DOMAIN gOnSignalWrappers \subseteq Indices
  /\ \A i \in DOMAIN gOnSignalWrappers : gOnSignalWrappers[i] \in Handlers
  /\ gWrapperMutex \in Threads \cup {None}
  /\ counter \in Indices
  /\ installed \subseteq Signals
  /\ life \in [Handlers -> {"new", "constructing", "alive", "destroying", "dead"}]
  /\ initialized \in [Handlers -> BOOLEAN]
  /\ wrapperIndex \in [Handlers -> Indices \cup {-1}]
  /\ callbacks \in [Handlers -> Nat]
  /\ cbMutex \in [Handlers -> Threads \cup {None}]
  /\ stack \in [Threads -> Seq(Frame)]
  /\ \A t \in Threads : \A n \in DOMAIN stack[t] :
       stack[t][n].pc = "wrapper" => stack[t][n].k <= callbacks[stack[t][n].handler]

Init == /\ gOnSignalWrappers = <<>>
        /\ gWrapperMutex = None
        /\ counter = 0
        /\ installed = {}
        /\ life = [h \in Handlers |-> "new"]
        /\ initialized = [h \in Handlers |-> FALSE]
        /\ wrapperIndex = [h \in Handlers |-> -1]
        /\ callbacks = [h \in Handlers |-> 0]
        /\ cbMutex = [h \in Handlers |-> None]
        /\ stack = [t \in Threads |-> <<>>]

-----------------------------------------------------------------------------
(* Stacks.                                                                 *)

Top(t) == stack[t][Len(stack[t])]
At(t, op, pc) == stack[t] # <<>> /\ Top(t).op = op /\ Top(t).pc = pc
InCallback(t) == At(t, "signal", "wrapper") /\ Top(t).k > 0

Push(t, f) == stack' = [stack EXCEPT ![t] = Append(@, f)]
Pop(t) == stack' = [stack EXCEPT ![t] = SubSeq(@, 1, Len(@) - 1)]
SetTop(t, f) == stack' = [stack EXCEPT ![t][Len(stack[t])] = f]

Call(op, h) == [op |-> op, pc |-> "lock", handler |-> h, at |-> -1, k |-> 0,
                due |-> {}, called |-> {}]

MayCall(t) == \/ stack[t] = <<>>
              \/ CallbacksUseApi /\ InCallback(t) /\ Len(stack[t]) < MaxStack

LockGlobal(t, op) == /\ At(t, op, "lock")
                     /\ gWrapperMutex = None
                     /\ gWrapperMutex' = t
                     /\ SetTop(t, [Top(t) EXCEPT !.pc = "in"])
                     /\ UNCHANGED <<gOnSignalWrappers, counter, installed, objects>>

-----------------------------------------------------------------------------
(* SignalHandler::SignalHandler().                                         *)

BeginConstruct(t, h) == /\ MayCall(t)
                        /\ life[h] = "new"
                        /\ life' = [life EXCEPT ![h] = "constructing"]
                        /\ Push(t, Call("construct", h))
                        /\ UNCHANGED <<global, initialized, wrapperIndex,
                                       callbacks, cbMutex>>

NewIndex == counter

\* Faulty variant: the map's key is the number of handlers in it.
RegisterAtSize(h) ==
  LET size == Cardinality(DOMAIN gOnSignalWrappers) IN
  [i \in DOMAIN gOnSignalWrappers \cup {size} |->
     IF i = size THEN h ELSE gOnSignalWrappers[i]]

Register(h) == [i \in DOMAIN gOnSignalWrappers \cup {NewIndex} |->
                  IF i = NewIndex THEN h ELSE gOnSignalWrappers[i]]

\* The rest of the constructor.  std::signal may fail for either signal.
Construct(t) ==
  /\ At(t, "construct", "in")
  /\ LET h == Top(t).handler IN
     /\ \/ /\ installed' = Signals
           /\ gOnSignalWrappers' = Register(h)
           /\ wrapperIndex' = [wrapperIndex EXCEPT ![h] = NewIndex]
           /\ counter' = counter + 1
           /\ initialized' = [initialized EXCEPT ![h] = TRUE]
        \/ /\ installed' \in {installed, installed \cup {"SIGINT"}}
           /\ UNCHANGED <<gOnSignalWrappers, wrapperIndex, counter, initialized>>
     /\ life' = [life EXCEPT ![h] = "alive"]
  /\ gWrapperMutex' = None
  /\ Pop(t)
  /\ UNCHANGED <<callbacks, cbMutex>>

\* SetInitialized(false), as the subclass of the test does.
ClearInitialized(h) == /\ life[h] = "alive"
                       /\ initialized[h]
                       /\ initialized' = [initialized EXCEPT ![h] = FALSE]
                       /\ UNCHANGED <<global, life, wrapperIndex, callbacks,
                                      cbMutex, stack>>

-----------------------------------------------------------------------------
(* SignalHandler::~SignalHandler().                                        *)

\* The client destroys an object nobody is adding a callback to.
BeginDestroy(t, h) ==
  /\ MayCall(t)
  /\ life[h] = "alive"
  /\ \A u \in Threads : \A n \in DOMAIN stack[u] :
       stack[u][n].op = "add" => stack[u][n].handler # h
  /\ life' = [life EXCEPT ![h] = "destroying"]
  /\ Push(t, Call("destroy", h))
  /\ UNCHANGED <<global, initialized, wrapperIndex, callbacks, cbMutex>>

\* Faulty variant: the destructor does not wait for the global mutex.
LockNothing(t) == /\ At(t, "destroy", "lock")
                  /\ SetTop(t, [Top(t) EXCEPT !.pc = "in"])
                  /\ UNCHANGED <<global, objects>>

LockDestroy(t) == LockGlobal(t, "destroy")

Destroy(t) ==
  /\ At(t, "destroy", "in")
  /\ LET h == Top(t).handler IN
     /\ gOnSignalWrappers' =
          [i \in DOMAIN gOnSignalWrappers \ {wrapperIndex[h]} |->
             gOnSignalWrappers[i]]
     /\ life' = [life EXCEPT ![h] = "dead"]
  /\ gWrapperMutex' = None
  /\ Pop(t)
  /\ UNCHANGED <<counter, installed, initialized, wrapperIndex, callbacks, cbMutex>>

-----------------------------------------------------------------------------
(* SignalHandler::AddCallback().                                           *)

BeginAdd(t, h) == /\ MayCall(t)
                  /\ life[h] = "alive"
                  /\ initialized[h]
                  /\ callbacks[h] < MaxCallbacks
                  /\ Push(t, Call("add", h))
                  /\ UNCHANGED <<global, objects>>

LockAdd(t) == /\ At(t, "add", "lock")
              /\ cbMutex[Top(t).handler] = None
              /\ cbMutex' = [cbMutex EXCEPT ![Top(t).handler] = t]
              /\ SetTop(t, [Top(t) EXCEPT !.pc = "in"])
              /\ UNCHANGED <<global, life, initialized, wrapperIndex, callbacks>>

Add(t) == /\ At(t, "add", "in")
          /\ callbacks' = [callbacks EXCEPT ![Top(t).handler] = @ + 1]
          /\ cbMutex' = [cbMutex EXCEPT ![Top(t).handler] = None]
          /\ Pop(t)
          /\ UNCHANGED <<global, life, initialized, wrapperIndex>>

-----------------------------------------------------------------------------
(* onSignal() and SignalHandlerPrivate::OnSignal().                        *)

Registered(h) == \E i \in DOMAIN gOnSignalWrappers : gOnSignalWrappers[i] = h

\* What a signal delivered now has to call.
Due == {c \in Calls : /\ Registered(c[1]) /\ life[c[1]] = "alive"
                      /\ c[2] <= callbacks[c[1]]}

Deliver(t) == /\ installed # {}
              /\ \/ stack[t] = <<>>
                 \/ SignalsAnywhere /\ Len(stack[t]) < MaxStack
              /\ Push(t, [Call("signal", None) EXCEPT !.due = Due])
              /\ UNCHANGED <<global, objects>>

Later(t) == {i \in DOMAIN gOnSignalWrappers : i > Top(t).at}

\* Faulty variant: the first wrapper is taken to be the only one.
NoneAfterTheFirst(t) == Top(t).at >= 0 \/ Later(t) = {}

NoneLeft(t) == Later(t) = {}

EnterWrapper(t) ==
  /\ At(t, "signal", "in")
  /\ ~NoneLeft(t)
  /\ LET i == Min(Later(t))
         h == gOnSignalWrappers[i]
     IN /\ cbMutex[h] = None
        /\ cbMutex' = [cbMutex EXCEPT ![h] = t]
        /\ SetTop(t, [Top(t) EXCEPT !.pc = "wrapper", !.handler = h,
                                    !.at = i, !.k = 0])
  /\ UNCHANGED <<global, life, initialized, wrapperIndex, callbacks>>

RunCallback(t) ==
  /\ At(t, "signal", "wrapper")
  /\ Top(t).k < callbacks[Top(t).handler]
  /\ SetTop(t, [Top(t) EXCEPT !.k = @ + 1,
                              !.called = @ \cup {<<Top(t).handler, Top(t).k + 1>>}])
  /\ UNCHANGED <<global, objects>>

\* Faulty variant: the handler's mutex is not released.
LeaveLocked(t) ==
  /\ At(t, "signal", "wrapper")
  /\ Top(t).k = callbacks[Top(t).handler]
  /\ SetTop(t, [Top(t) EXCEPT !.pc = "in", !.handler = None, !.k = 0])
  /\ UNCHANGED <<global, objects>>

LeaveWrapper(t) ==
  /\ At(t, "signal", "wrapper")
  /\ Top(t).k = callbacks[Top(t).handler]
  /\ cbMutex' = [cbMutex EXCEPT ![Top(t).handler] = None]
  /\ SetTop(t, [Top(t) EXCEPT !.pc = "in", !.handler = None, !.k = 0])
  /\ UNCHANGED <<global, life, initialized, wrapperIndex, callbacks>>

SignalReturns(t) ==
  /\ At(t, "signal", "in")
  /\ NoneLeft(t)
  /\ gWrapperMutex' = None
  /\ Pop(t)
  /\ UNCHANGED <<gOnSignalWrappers, counter, installed, objects>>

-----------------------------------------------------------------------------
Lock(t) == \/ LockGlobal(t, "construct") \/ LockDestroy(t) \/ LockAdd(t)
           \/ LockGlobal(t, "signal") \/ EnterWrapper(t)

Work(t) == \/ Construct(t) \/ Destroy(t) \/ Add(t)
           \/ RunCallback(t) \/ LeaveWrapper(t) \/ SignalReturns(t)

Begin(t) == \/ \E h \in Handlers : \/ BeginConstruct(t, h)
                                   \/ BeginDestroy(t, h)
                                   \/ BeginAdd(t, h)
            \/ Deliver(t)

\* Nothing is left to happen once all objects are gone and no signal is
\* caught (std::signal failed each time).
Stopped == /\ \A h \in Handlers : life[h] = "dead"
           /\ \A t \in Threads : stack[t] = <<>>
           /\ installed = {}
           /\ UNCHANGED vars

Next == \/ \E t \in Threads : Lock(t) \/ Work(t) \/ Begin(t)
        \/ \E h \in Handlers : ClearInitialized(h)
        \/ Stopped

Spec == Init /\ [][Next]_vars

\* Threads run, callbacks return, and a thread that keeps asking for a mutex
\* gets it although others take it in between.
Fairness == \A t \in Threads : WF_vars(Work(t)) /\ SF_vars(Lock(t))
-----------------------------------------------------------------------------
(* Properties.                                                             *)

\* The map holds exactly the handlers whose constructor succeeded and whose
\* destructor has not run, each under its own index: destroying one never
\* unregisters another.
RegistrationExact ==
  /\ \A h \in Handlers :
       initialized[h] /\ life[h] \in {"alive", "destroying"} => Registered(h)
  /\ \A i \in DOMAIN gOnSignalWrappers :
       LET h == gOnSignalWrappers[i]
       IN life[h] \in {"alive", "destroying"} /\ wrapperIndex[h] = i

\* No callback runs for an object that has been destroyed, nor does its
\* mutex stay locked: the destructor waits for a signal in progress.
NoCallAfterDestroy ==
  \A t \in Threads : \A n \in DOMAIN stack[t] :
    stack[t][n].pc = "wrapper" => life[stack[t][n].handler] \in {"alive", "destroying"}

\* The map holds exactly the handlers there are, and no callback runs for one
\* that is gone (SignalHandler's constructor and destructor, onSignal).
CallsAreOfHandlers == RegistrationExact /\ NoCallAfterDestroy

\* A signal calls every callback whose AddCallback had returned when it was
\* delivered, of every handler but those destroyed since, each one once.
SignalReachesAll ==
  [][\A t \in Threads : SignalReturns(t) =>
       \A c \in Top(t).due : life[c[1]] = "alive" => c \in Top(t).called]_vars

\* SignalHandler.hh calls the class a thread-safe interface to the signals:
\* no thread ever waits for a mutex it holds itself.
NoSelfDeadlock ==
  \A t \in Threads : stack[t] # <<>> =>
    LET f == Top(t) IN
    /\ f.pc = "lock" /\ f.op # "add" => gWrapperMutex # t
    /\ f.pc = "lock" /\ f.op = "add" => cbMutex[f.handler] # t
    /\ f.op = "signal" /\ f.pc = "in" /\ Later(t) # {} =>
         cbMutex[gOnSignalWrappers[Min(Later(t))]] # t

\* Every operation and every signal in progress comes to its end.
OperationsReturn == \A t \in Threads : stack[t] # <<>> ~> stack[t] = <<>>
=============================================================================
