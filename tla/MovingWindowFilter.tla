------------------------- MODULE MovingWindowFilter -------------------------
(***************************************************************************)
(* ignition::common::MovingWindowFilter (MovingWindowFilter.hh): a ring    *)
(* buffer with a running sum, an iterator to the latest value and a count  *)
(* of samples.  The values are integers: T = double rounds, which is left  *)
(* out.                                                                    *)
(***************************************************************************)
EXTENDS Integers

CONSTANTS Values,      \* what Update may be given
          Sizes,       \* what SetWindowSize may be given
          DefaultSize  \* the hardcoded initial window size

\* A window of no values has no iterator to move: Update would run past the
\* end of an empty vector.
ASSUME FilterAssumption == /\ Values \subseteq Int
                           /\ Sizes \subseteq Nat \ {0}
                           /\ DefaultSize \in Nat \ {0}

VARIABLES valWindowSize, valHistory, valIter, sum, samples

vars == <<valWindowSize, valHistory, valIter, sum, samples>>

Zeros(n) == [i \in 0 .. n - 1 |-> 0]

TypeOK == /\ valWindowSize \in Nat \ {0}
          /\ valHistory \in [0 .. valWindowSize - 1 -> Int]
          /\ valIter \in 0 .. valWindowSize - 1
          /\ sum \in Int
          /\ samples \in 0 .. valWindowSize

Init == /\ valWindowSize = DefaultSize
        /\ valHistory = Zeros(DefaultSize)
        /\ valIter = 0
        /\ sum = 0
        /\ samples = 0

\* ++valIter, and back to the beginning at the end.
Wrap(i) == IF i = valWindowSize THEN 0 ELSE i

NextIter == Wrap(valIter + 1)

\* Faulty variants: the window counts as full one sample early, or late.
FullEarly == samples + 1 >= valWindowSize
FullLate == samples > valWindowSize

Full == samples + 1 > valWindowSize

Update(v) ==
  /\ valIter' = NextIter
  /\ IF Full
     THEN /\ sum' = sum + v - valHistory[NextIter]
          /\ UNCHANGED samples
     ELSE /\ sum' = sum + v
          /\ samples' = samples + 1
  /\ valHistory' = [valHistory EXCEPT ![NextIter] = v]
  /\ UNCHANGED valWindowSize

\* Faulty variant: the sum of the old window is kept.
SetSizeKeepSum(n) == /\ valWindowSize' = n
                     /\ valHistory' = Zeros(n)
                     /\ valIter' = 0
                     /\ samples' = 0
                     /\ UNCHANGED sum

SetWindowSize(n) == /\ valWindowSize' = n
                    /\ valHistory' = Zeros(n)
                    /\ valIter' = 0
                    /\ sum' = 0
                    /\ samples' = 0

Next == \/ \E v \in Values : Update(v)
        \/ \E n \in Sizes : SetWindowSize(n)

Spec == Init /\ [][Next]_vars

WindowFilled == samples = valWindowSize
-----------------------------------------------------------------------------
(* Properties.                                                             *)

\* Until the window is full the iterator counts the samples and every slot
\* the filter has not reached is zero, so that nothing is subtracted from the
\* sum that was not added to it.
RingInOrder ==
  ~WindowFilled => /\ valIter = samples
                   /\ \A i \in DOMAIN valHistory :
                        i = 0 \/ i > samples => valHistory[i] = 0

\* Update changes one slot of the ring, and the sum by what that slot changed:
\* the running sum can never drift from the sum of the ring.
SumFollowsRing ==
  [][(\E v \in Values : Update(v)) =>
       \E i \in DOMAIN valHistory :
         /\ \A j \in DOMAIN valHistory \ {i} : valHistory'[j] = valHistory[j]
         /\ sum' - sum = valHistory'[i] - valHistory[i]]_vars

\* The k-th last value of the window, k = 0 being the latest.
Recent(k) == valHistory[(valIter - k) % valWindowSize]

\* The ring and its running sum implement the window: the sum is that of the
\* values most recently given, in number and in order.
Window == INSTANCE MovingWindow WITH
  size <- valWindowSize,
  recent <- [i \in 1 .. samples |-> Recent(samples - i)],
  total <- sum,
  Sizes <- Sizes \cup {DefaultSize}

ImplementsWindow == Window!Spec
=============================================================================
