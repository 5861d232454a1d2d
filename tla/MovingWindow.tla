---------------------------- MODULE MovingWindow ----------------------------
(***************************************************************************)
(* What a moving window filter promises (MovingWindowFilter.hh): it        *)
(* averages the last `size` values given to it since the size was set, or  *)
(* all of them while there are fewer.                                      *)
(***************************************************************************)
EXTENDS Integers, Sequences

CONSTANTS Values, Sizes

VARIABLES size, recent, total

vars == <<size, recent, total>>

Sum(s) ==
  LET upTo[i \in 0 .. Len(s)] == IF i = 0 THEN 0 ELSE upTo[i - 1] + s[i]
  IN  upTo[Len(s)]

Init == /\ size \in Sizes
        /\ recent = <<>>
        /\ total = 0

\* The last n elements of s, or all of them.
LastOnes(s, n) == IF Len(s) <= n THEN s ELSE SubSeq(s, Len(s) - n + 1, Len(s))

Update(v) == /\ recent' = LastOnes(Append(recent, v), size)
             /\ total' = Sum(recent')
             /\ UNCHANGED size

SetWindowSize(n) == /\ size' = n
                    /\ recent' = <<>>
                    /\ total' = 0

Next == \/ \E v \in Values : Update(v)
        \/ \E n \in Sizes : SetWindowSize(n)

Spec == Init /\ [][Next]_vars
=============================================================================
