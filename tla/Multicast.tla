----------------------------- MODULE Multicast -----------------------------
(***************************************************************************)
(* What an EventT promises to its subscribers (events Event.hh), without   *)
(* ids, iterators or removal lists.  A signal calls the subscribers one at *)
(* a time, in some order; it calls nobody twice for one subscription and   *)
(* returns only when everybody subscribed at that moment has been called.  *)
(* The running callback may subscribe, unsubscribe and signal in its turn. *)
(***************************************************************************)
EXTENDS Naturals, Sequences

CONSTANT Subscribers

VARIABLES subscribed,   \* who is subscribed
          rounds        \* the signals in progress, the innermost last:
                        \* whose callback runs, and who has been called

vars == <<subscribed, rounds>>

Init == /\ subscribed = {}
        /\ rounds = <<>>

Subscribe(s) == /\ s \notin subscribed
                /\ subscribed' = subscribed \cup {s}
                /\ UNCHANGED rounds

\* A later subscription of s is a new one, to be called again.
Unsubscribe(s) ==
  /\ s \in subscribed
  /\ subscribed' = subscribed \ {s}
  /\ rounds' = [i \in DOMAIN rounds |->
                  [rounds[i] EXCEPT !.called = @ \ {s}]]

Begin(s) == /\ s \in subscribed
            /\ rounds' = Append(rounds, [running |-> s, called |-> {s}])
            /\ UNCHANGED subscribed

Continue(s) ==
  /\ rounds # <<>>
  /\ s \in subscribed \ rounds[Len(rounds)].called
  /\ rounds' = [rounds EXCEPT ![Len(rounds)] =
                  [running |-> s, called |-> @.called \cup {s}]]
  /\ UNCHANGED subscribed

End == /\ rounds # <<>>
       /\ subscribed \subseteq rounds[Len(rounds)].called
       /\ rounds' = SubSeq(rounds, 1, Len(rounds) - 1)
       /\ UNCHANGED subscribed

Next == \/ \E s \in Subscribers : \/ Subscribe(s) \/ Unsubscribe(s)
                                  \/ Begin(s) \/ Continue(s)
        \/ End

Spec == Init /\ [][Next]_vars
=============================================================================
