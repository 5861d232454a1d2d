------------------------------- MODULE Event -------------------------------
(***************************************************************************)
(* ignition::common::EventT and Connection (events/.../Event.hh,           *)
(* events/src/Event.cc): a map from integer ids to callbacks, a list of    *)
(* map iterators to erase later, and handles that disconnect when they are *)
(* destroyed.                                                              *)
(*                                                                         *)
(* Everything happens in one thread.  What makes it hard is reentrancy:    *)
(* between two steps of a signal's loop a callback runs, and the callback  *)
(* may connect, drop handles and signal the same event again, which erases *)
(* map entries an outer loop may be standing on.                           *)
(***************************************************************************)
EXTENDS Integers, Sequences, FiniteSets, FiniteSetsExt

CONSTANTS Subscribers,       \* each holds at most one handle at a time
          MaxId,             \* bound on the ids a run may reach
          MaxDepth,          \* bound on nested signals
          DropsTwice,        \* may a client that has called Disconnect(id)
                             \* itself go on to destroy its Connection, or
                             \* call again, as if it were still connected?
          CarelessNesting    \* may an event be signalled again by a callback
                             \* whose own connection has been dropped?

VARIABLES connections,          \* id -> [on, callback]
          connectionsToRemove,  \* iterators, as the ids of their entries
          handle,               \* the id in the Connection a subscriber holds
          frames,               \* the entries the nested signal loops stand on
          wants,                \* history: connected and not disconnected since
          broken                \* an iterator to an erased entry was used

eventVars == <<connections, connectionsToRemove, handle, frames, wants, broken>>

NoHandle == -1
Ids == 0 .. MaxId
Entry == [on : BOOLEAN, callback : Subscribers]

EventTypeOK ==
  /\ DOMAIN connections \subseteq Ids
  /\ \A i \in DOMAIN connections : connections[i] \in Entry
  /\ connectionsToRemove \in Seq(DOMAIN connections)
  /\ handle \in [Subscribers -> Ids \cup {NoHandle}]
  /\ frames \in Seq(DOMAIN connections)
  /\ wants \in [Subscribers -> BOOLEAN]
  /\ broken \in BOOLEAN

EventInit ==
  /\ connections = <<>>
  /\ connectionsToRemove = <<>>
  /\ handle = [s \in Subscribers |-> NoHandle]
  /\ frames = <<>>
  /\ wants = [s \in Subscribers |-> FALSE]
  /\ broken = FALSE

Listed(q) == {q[k] : k \in DOMAIN q}

\* Faulty variant: the last id is taken, not the one after it.
LastId == IF DOMAIN connections = {} THEN 0 ELSE Max(DOMAIN connections)

NewId == IF DOMAIN connections = {} THEN 0 ELSE Max(DOMAIN connections) + 1

Connect(s) ==
  /\ ~broken
  /\ handle[s] = NoHandle
  /\ NewId <= MaxId
  /\ connections' = [i \in DOMAIN connections \cup {NewId} |->
                       IF i = NewId THEN [on |-> TRUE, callback |-> s]
                                    ELSE connections[i]]
  /\ handle' = [handle EXCEPT ![s] = NewId]
  /\ wants' = [wants EXCEPT ![s] = TRUE]
  /\ UNCHANGED <<connectionsToRemove, frames, broken>>

\* Faulty variant: the entry is erased by the next signal and not switched
\* off before.
DisconnectLater(id) ==
  /\ UNCHANGED connections
  /\ connectionsToRemove' = IF id \in DOMAIN connections
                            THEN Append(connectionsToRemove, id)
                            ELSE connectionsToRemove

\* EventT::Disconnect(_id).  The entry is switched off and stays in the map.
Disconnect(id) ==
  IF id \in DOMAIN connections
  THEN /\ connections' = [connections EXCEPT ![id].on = FALSE]
       /\ connectionsToRemove' = Append(connectionsToRemove, id)
  ELSE UNCHANGED <<connections, connectionsToRemove>>

MayUse(s) == /\ ~broken
             /\ handle[s] # NoHandle
             /\ DropsTwice \/ wants[s]

\* ~Connection()
DropHandle(s) ==
  /\ MayUse(s)
  /\ Disconnect(handle[s])
  /\ handle' = [handle EXCEPT ![s] = NoHandle]
  /\ wants' = [wants EXCEPT ![s] = FALSE]
  /\ UNCHANGED <<frames, broken>>

\* event.Disconnect(connection->Id()), the handle being kept
DisconnectById(s) ==
  /\ MayUse(s)
  /\ Len(connectionsToRemove) <= MaxId
  /\ Disconnect(handle[s])
  /\ wants' = [wants EXCEPT ![s] = FALSE]
  /\ UNCHANGED <<handle, frames, broken>>

\* Faulty variant: entries that are switched off are called like the others.
AnyAfter(conns, at) == {i \in DOMAIN conns : i > at}

\* The entries the loop of Signal has yet to call.
OnAfter(conns, at) == {i \in DOMAIN conns : i > at /\ conns[i].on}

\* Cleanup() goes wrong when it erases one entry twice, or an entry some
\* signal in progress stands on.
ErasesTwice == Cardinality(Listed(connectionsToRemove)) < Len(connectionsToRemove)
ErasesActive == Listed(connectionsToRemove) \cap Listed(frames) # {}

\* Faulty variant: iterators are kept once they have been erased.
KeepIterators == connectionsToRemove

\* connectionsToRemove.clear()
ClearedIterators == <<>>

\* Signal(), up to the first callback: Cleanup(), then the first entry on.
Signal ==
  /\ ~broken
  /\ Len(frames) < MaxDepth
  /\ CarelessNesting \/ ~ErasesActive
  /\ LET kept == DOMAIN connections \ Listed(connectionsToRemove)
         left == [i \in kept |-> connections[i]]
         due  == OnAfter(left, -1)
     IN IF ErasesTwice \/ ErasesActive
        THEN broken' = TRUE /\ UNCHANGED <<connections, connectionsToRemove, frames>>
        ELSE /\ connections' = left
             /\ connectionsToRemove' = ClearedIterators
             /\ frames' = IF due = {} THEN frames ELSE Append(frames, Min(due))
             /\ UNCHANGED broken
  /\ UNCHANGED <<handle, wants>>

Top == frames[Len(frames)]

\* The running callback returns: the innermost loop goes on to the next entry
\* that is on, or its Signal returns.
CallbackReturns ==
  /\ ~broken
  /\ frames # <<>>
  /\ LET due == OnAfter(connections, Top)
     IN frames' = IF due = {} THEN SubSeq(frames, 1, Len(frames) - 1)
                  ELSE [frames EXCEPT ![Len(frames)] = Min(due)]
  /\ UNCHANGED <<connections, connectionsToRemove, handle, wants, broken>>

EventNext ==
  \/ \E s \in Subscribers : \/ Connect(s)
                            \/ DropHandle(s)
                            \/ DisconnectById(s)
  \/ Signal
  \/ CallbackReturns

EventSpec == EventInit /\ [][EventNext]_eventVars
-----------------------------------------------------------------------------
(* Properties.                                                             *)

\* A subscriber's entry is there and on, under the id its handle holds, from
\* Connect until its own handle or call disconnects it; nobody else's
\* Disconnect, and no Cleanup, takes it away.
SubscriptionsHonoured ==
  \A s \in Subscribers : wants[s] =>
    /\ handle[s] \in DOMAIN connections
    /\ connections[handle[s]] = [on |-> TRUE, callback |-> s]

\* Event.hh calls the id of a Connection unique: two handles in use never
\* carry the same one.
UniqueIds == \A s, t \in Subscribers :
               s # t /\ handle[s] # NoHandle => handle[s] # handle[t]

\* Cleanup never erases an entry twice, nor one whose callback is running.
IteratorsValid == ~broken

\* Exactly the entries that are off are queued for removal, each once: none
\* is left in the map for ever, none is removed in use.
RemovalsPending ==
  /\ Listed(connectionsToRemove) = {i \in DOMAIN connections : ~connections[i].on}
  /\ ~ErasesTwice

\* A loop of EventT::Signal stands on entries that are there, whatever its
\* callbacks connect, drop and signal; exactly what is off is to be removed;
\* and nobody but a subscriber takes its entry away (Event.hh).
LoopsSurviveCallbacks == IteratorsValid /\ RemovalsPending /\ SubscriptionsHonoured

\* Event_TEST.cc says that a callback disconnected while the event is being
\* signalled "should still be called": the loop never passes over an entry
\* because it has been disconnected since the signal began.
StillCalledWhenDisconnected ==
  [][CallbackReturns =>
       AnyAfter(connections, Top) = OnAfter(connections, Top)]_eventVars

Callback(i) == connections[i].callback

\* To its subscribers the event is Multicast: everybody subscribed is called
\* once by each signal, nobody after unsubscribing.
Promise == INSTANCE Multicast WITH
  subscribed <- {s \in Subscribers : wants[s]},
  rounds <- [k \in DOMAIN frames |->
               [running |-> Callback(frames[k]),
                called  |-> {Callback(i) : i \in
                               {j \in DOMAIN connections :
                                  j <= frames[k] /\ connections[j].on}}]]

ImplementsMulticast == Promise!Spec
=============================================================================
