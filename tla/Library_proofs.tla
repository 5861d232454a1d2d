-------------------------- MODULE Library_proofs ----------------------------
(***************************************************************************)
(* Proofs about Time, PluginLoader, MovingWindowFilter, Battery and Media. *)
(* Times:  sums, differences and settings are exact and in normal form,    *)
(* comparing two times compares their nanoseconds, and their text adds up  *)
(* to them.  Plugins:  what a pointer offers, who keeps an instance, and   *)
(* what the registry says of a library.  Filters:  they are the window of  *)
(* the latest values.  Batteries:  what names a consumer.  Media:  what is *)
(* loaded is of one file, and what is decoded is all of it.                *)
(***************************************************************************)
EXTENDS MovingWindowFilter, Time, PluginLoader, Battery, Media, Sequences,
        FiniteSetTheorems, SequenceTheorems, WellFoundedInduction, TLAPS

\* Division by a billion, for numbers of less than three billions.
LEMMA Division ==
  ASSUME NEW a \in Int, NEW n \in Nat \ {0}
  PROVE  /\ a \div n \in Int /\ a % n \in 0..(n - 1)
         /\ a = (a \div n) * n + (a % n)
OBVIOUS

LEMMA Divided ==
  ASSUME NEW a \in Int, NEW q \in 0..2, q * NsInSec <= a, a < (q + 1) * NsInSec
  PROVE  Quotient(a) = q
BY TimeAssumption DEF Quotient

LEMMA DividedBelow ==
  ASSUME NEW a \in Int, NEW q \in 0..2, q * NsInSec <= -a, -a < (q + 1) * NsInSec
  PROVE  Quotient(a) = -q
BY TimeAssumption DEF Quotient

\* What Correct is given here: less than two billion nanoseconds on either side,
\* and at most one billion above seconds below zero.
Sound(t) == /\ t \in Pair
            /\ -2 * NsInSec < t.nsec /\ t.nsec < 2 * NsInSec
            /\ (t.sec < 0 => t.nsec <= NsInSec)

\* After the first two steps of Correct nanoseconds below two billion stay, whose
\* sign is that of the seconds, or of neither.
LEMMA LentIsExact ==
  ASSUME NEW t, Sound(t)
  PROVE  /\ Lend(t) \in Pair /\ Total(Lend(t)) = Total(t)
         /\ -2 * NsInSec < Lend(t).nsec /\ Lend(t).nsec < 2 * NsInSec
         /\ (Lend(t).sec > 0 => Lend(t).nsec >= 0)
         /\ (Lend(t).sec < 0 => Lend(t).nsec <= NsInSec)
<1>1. CASE t.sec > 0 /\ t.nsec < 0
  <2>1. CASE -t.nsec < NsInSec
    <3>1. Borrowed(t) = 1
      BY <2>1, <1>1, DividedBelow, TimeAssumption DEF Borrowed, Sound, Pair, Abs
    <3> QED
      BY <3>1, <2>1, <1>1, TimeAssumption DEF Lend, Sound, Pair, T, Total
  <2>2. CASE -t.nsec >= NsInSec
    <3>1. Borrowed(t) = 2
      BY <2>2, <1>1, DividedBelow, TimeAssumption DEF Borrowed, Sound, Pair, Abs
    <3> QED
      BY <3>1, <2>2, <1>1, TimeAssumption DEF Lend, Sound, Pair, T, Total
  <2> QED
    BY <2>1, <2>2, TimeAssumption DEF Sound, Pair
<1>2. CASE ~(t.sec > 0 /\ t.nsec < 0)
  BY <1>2, TimeAssumption DEF Lend, Sound, Pair
<1> QED
  BY <1>1, <1>2

LEMMA ReturnedIsExact ==
  ASSUME NEW t \in Pair, -2 * NsInSec < t.nsec, t.nsec < 2 * NsInSec,
         t.sec > 0 => t.nsec >= 0, t.sec < 0 => t.nsec <= NsInSec
  PROVE  /\ Return(t) \in Pair /\ Total(Return(t)) = Total(t)
         /\ -2 * NsInSec < Return(t).nsec /\ Return(t).nsec < 2 * NsInSec
         /\ (Return(t).sec > 0 => Return(t).nsec >= 0 \/ Return(t).nsec = -NsInSec)
         /\ (Return(t).sec < 0 => Return(t).nsec <= 0)
<1>1. CASE t.sec < 0 /\ t.nsec > 0
  <2>1. CASE t.nsec < NsInSec
    <3>1. Borrowed(t) = 1
      BY <2>1, <1>1, Divided, TimeAssumption DEF Borrowed, Pair, Abs
    <3> QED
      BY <3>1, <2>1, <1>1, TimeAssumption DEF Return, Pair, T, Total
  <2>2. CASE t.nsec = NsInSec
    <3>1. Borrowed(t) = 2
      BY <2>2, <1>1, Divided, TimeAssumption DEF Borrowed, Pair, Abs
    <3> QED
      BY <3>1, <2>2, <1>1, TimeAssumption DEF Return, Pair, T, Total
  <2> QED
    BY <1>1, <2>1, <2>2, TimeAssumption DEF Pair
<1>2. CASE ~(t.sec < 0 /\ t.nsec > 0)
  BY <1>2, TimeAssumption DEF Return, Pair
<1> QED
  BY <1>1, <1>2

LEMMA CarriedIsExact ==
  ASSUME NEW t \in Pair, -2 * NsInSec < t.nsec, t.nsec < 2 * NsInSec,
         t.sec > 0 => t.nsec >= 0 \/ t.nsec = -NsInSec, t.sec < 0 => t.nsec <= 0
  PROVE  /\ Carry(t) \in Pair /\ Total(Carry(t)) = Total(t) /\ Normal(Carry(t))
<1>1. CASE 0 <= t.nsec /\ t.nsec < NsInSec
  <2>1. Quotient(t.nsec) = 0
    BY <1>1, Divided, TimeAssumption DEF Pair
  <2> QED
    BY <2>1, <1>1, TimeAssumption DEF Carry, Pair, T, Total, Normal
<1>2. CASE NsInSec <= t.nsec
  <2>1. Quotient(t.nsec) = 1
    BY <1>2, Divided, TimeAssumption DEF Pair
  <2>2. Carry(t) = T(t.sec + 1, t.nsec - NsInSec)
    BY <2>1, TimeAssumption DEF Carry, Pair
  <2>3. (t.sec + 1) * NsInSec + (t.nsec - NsInSec) = t.sec * NsInSec + t.nsec
    BY TimeAssumption DEF Pair
  <2>4. t.sec >= 0
    BY <1>2, TimeAssumption DEF Pair
  <2>5. /\ Carry(t) \in Pair
        /\ Carry(t).sec = t.sec + 1 /\ Carry(t).nsec = t.nsec - NsInSec
    BY <2>2, TimeAssumption DEF Pair, T
  <2>6. Total(Carry(t)) = Total(t)
    BY <2>3, <2>5 DEF Total
  <2>7. Normal(Carry(t))
    BY <2>4, <2>5, <1>2, TimeAssumption DEF Pair, Normal
  <2> QED
    BY <2>5, <2>6, <2>7
<1>3. CASE t.nsec < 0 /\ -t.nsec < NsInSec
  <2>1. Quotient(t.nsec) = 0
    BY <1>3, DividedBelow, TimeAssumption DEF Pair
  <2> QED
    BY <2>1, <1>3, TimeAssumption DEF Carry, Pair, T, Total, Normal
<1>4. CASE NsInSec <= -t.nsec
  <2>1. Quotient(t.nsec) = -1
    BY <1>4, DividedBelow, TimeAssumption DEF Pair
  <2> QED
    BY <2>1, <1>4, TimeAssumption DEF Carry, Pair, T, Total, Normal
<1> QED
  BY <1>1, <1>2, <1>3, <1>4, TimeAssumption DEF Pair

LEMMA CorrectIsExact ==
  ASSUME NEW t, Sound(t)
  PROVE  Correct(t) \in Pair /\ Exact(Correct(t), Total(t))
<1>1. /\ Return(Lend(t)) \in Pair /\ Total(Return(Lend(t))) = Total(t)
      /\ -2 * NsInSec < Return(Lend(t)).nsec /\ Return(Lend(t)).nsec < 2 * NsInSec
      /\ (Return(Lend(t)).sec > 0 => Return(Lend(t)).nsec >= 0 \/ Return(Lend(t)).nsec = -NsInSec)
      /\ (Return(Lend(t)).sec < 0 => Return(Lend(t)).nsec <= 0)
  BY LentIsExact, ReturnedIsExact
<1> QED
  BY <1>1, CarriedIsExact DEF Correct, Exact

\* Sums and differences of times in normal form are theirs.
LEMMA AddedIsExact ==
  ASSUME NEW t \in Pair, NEW x \in Pair, Normal(t), Normal(x)
  PROVE  /\ Plus(t, x) \in Pair /\ Exact(Plus(t, x), Total(t) + Total(x))
         /\ Minus(t, x) \in Pair /\ Exact(Minus(t, x), Total(t) - Total(x))
<1>1. Sound(T(t.sec + x.sec, t.nsec + x.nsec))
  BY TimeAssumption DEF Sound, T, Pair, Normal
<1>2. Sound(T(t.sec - x.sec, t.nsec - x.nsec))
  BY TimeAssumption DEF Sound, T, Pair, Normal
<1>3. Total(T(t.sec + x.sec, t.nsec + x.nsec)) = Total(t) + Total(x)
  BY TimeAssumption DEF Total, T, Pair
<1>4. Total(T(t.sec - x.sec, t.nsec - x.nsec)) = Total(t) - Total(x)
  BY TimeAssumption DEF Total, T, Pair
<1> QED
  BY <1>1, <1>2, <1>3, <1>4, CorrectIsExact DEF Plus, Minus

LEMMA ReadingIsExact ==
  ASSUME NEW r \in Nat
  PROVE  SystemTime(r) \in Pair /\ Exact(SystemTime(r), r)
<1>1. /\ r \div NsInSec \in Nat /\ r % NsInSec \in 0..(NsInSec - 1)
      /\ r = (r \div NsInSec) * NsInSec + (r % NsInSec)
  <2>1. /\ r \div NsInSec \in Int /\ r % NsInSec \in 0..(NsInSec - 1)
        /\ r = (r \div NsInSec) * NsInSec + (r % NsInSec)
    BY Division, TimeAssumption
  <2>2. ASSUME NEW q \in Int, NEW m \in 0..(NsInSec - 1), r = q * NsInSec + m
        PROVE  q >= 0
    BY <2>2, TimeAssumption
  <2> QED
    BY <2>1, <2>2
<1> QED
  BY <1>1, TimeAssumption DEF SystemTime, Exact, Normal, Total, T, Pair

LEMMA SecondsAreExact ==
  ASSUME NEW d \in Int
  PROVE  Seconds(d) \in Pair /\ Exact(Seconds(d), (d + 1) \div 2)
<1> DEFINE s == d \div (2 * NsInSec)
           r == d % (2 * NsInSec)
           n == (r + 1) \div 2
<1>1. s \in Int /\ r \in 0..(2 * NsInSec - 1) /\ d = s * (2 * NsInSec) + r
  <2>1. 2 * NsInSec \in Nat \ {0}
    BY TimeAssumption
  <2> QED
    BY <2>1, Division
<1>2. n \in 0..NsInSec
  BY <1>1, TimeAssumption
<1>3. s * NsInSec + n = (d + 1) \div 2
  BY <1>1, <1>2, TimeAssumption
<1>4. Sound(T(s, n)) /\ Total(T(s, n)) = (d + 1) \div 2
  BY <1>1, <1>2, <1>3, TimeAssumption DEF Sound, Total, T, Pair
<1> QED
  BY <1>4, CorrectIsExact DEF Seconds

-----------------------------------------------------------------------------
\* A time that is exactly a number of nanoseconds.
IsTime(t, total) == t \in Pair /\ total \in Int /\ Exact(t, total)

\* The strengthening: what the timer holds is exactly what its clock read.
TimeInv == /\ IsTime(now, exact)
           /\ IsTime(answer.time, answer.exact)
           /\ clock \in Nat
           /\ IsTime(timer.start, marks.start) /\ IsTime(timer.stop, marks.stop)
           /\ timer = [start |-> timer.start, stop |-> timer.stop, running |-> timer.running]
           /\ marks = [start |-> marks.start, stop |-> marks.stop]

LEMMA ZeroIsTime == IsTime(Zero, 0)
BY TimeAssumption DEF IsTime, Zero, T, Pair, Exact, Normal, Total

LEMMA TotalIsInt == \A t \in Pair : Total(t) \in Int
BY TimeAssumption DEF Pair, Total

LEMMA SumIsTime ==
  ASSUME NEW t, NEW a, IsTime(t, a), NEW x, NEW b, IsTime(x, b)
  PROVE  IsTime(Plus(t, x), a + b) /\ IsTime(Minus(t, x), a - b)
BY AddedIsExact DEF IsTime, Exact

LEMMA ReadingIsTime == \A r \in Nat : IsTime(SystemTime(r), r)
BY ReadingIsExact DEF IsTime

LEMMA OperandIsTime == \A x \in Operands : IsTime(x, Total(x))
BY TotalIsInt, TimeAssumption DEF IsTime, Exact

LEMMA InitHoldsInv == TimeInit => TimeInv
BY ZeroIsTime, TimeAssumption DEF TimeInit, TimeInv

\* Every operation of the client leaves its time exact.
LEMMA BecomesKeepsInv ==
  ASSUME TimeInv, NEW t, NEW total, IsTime(t, total), Becomes(t, total)
  PROVE  TimeInv'
BY DEF TimeInv, Becomes, IsTime, Exact, Normal, Total

\* Every answer is exact.
LEMMA AnswerKeepsInv ==
  ASSUME TimeInv, NEW t, NEW total, IsTime(t, total), Answer(t, total)
  PROVE  TimeInv'
BY DEF TimeInv, Answer, IsTime, Exact, Normal, Total

LEMMA StepKeepsInv == TimeInv /\ [TimeNext]_timeVars => TimeInv'
<1> SUFFICES ASSUME TimeInv, [TimeNext]_timeVars PROVE TimeInv'
  OBVIOUS
<1>0. /\ IsTime(now, exact) /\ clock \in Nat
      /\ IsTime(timer.start, marks.start) /\ IsTime(timer.stop, marks.stop)
  BY DEF TimeInv
<1>1. ASSUME NEW x \in Operands, Add(x) PROVE TimeInv'
  BY <1>0, <1>1, SumIsTime, OperandIsTime, BecomesKeepsInv DEF Add
<1>2. ASSUME NEW x \in Operands, Subtract(x) PROVE TimeInv'
  BY <1>0, <1>2, SumIsTime, OperandIsTime, BecomesKeepsInv DEF Subtract
<1>3. ASSUME NEW p \in Pairs, Set(p) PROVE TimeInv'
  <2>1. Sound(p) /\ Total(p) \in Int
    BY TotalIsInt, TimeAssumption DEF Sound
  <2>2. IsTime(Correct(p), Total(p))
    BY <2>1, CorrectIsExact DEF IsTime
  <2> QED
    BY <1>3, <2>2, BecomesKeepsInv DEF Set
<1>4. ASSUME NEW d \in Doubles, SetSeconds(d) PROVE TimeInv'
  <2>1. d \in Int /\ (d + 1) \div 2 \in Int
    BY TimeAssumption
  <2>2. IsTime(Seconds(d), (d + 1) \div 2)
    BY <2>1, SecondsAreExact DEF IsTime
  <2> QED
    BY <1>4, <2>2, BecomesKeepsInv DEF SetSeconds
<1>5. CASE Sleep
  <2>1. ASSUME NEW left \in Readings, Answer(Minus(now, SystemTime(left)), exact - left)
        PROVE  TimeInv'
    <3>1. IsTime(SystemTime(left), left)
      BY ReadingIsTime, TimeAssumption
    <3>2. IsTime(Minus(now, SystemTime(left)), exact - left)
      BY <3>1, <1>0, SumIsTime
    <3> QED
      BY <2>1, <3>2, AnswerKeepsInv
  <2>2. CASE Answer(Zero, 0)
    BY <2>2, ZeroIsTime, AnswerKeepsInv
  <2> QED
    BY <1>5, <2>1, <2>2 DEF Sleep
<1>6. CASE Tick
  BY <1>6, TimeAssumption DEF Tick, TimeInv, IsTime, Exact, Normal, Total
<1>7. CASE Start
  <2>1. IsTime(SystemTime(clock), clock)
    BY <1>0, ReadingIsTime
  <2> QED
    BY <1>7, <2>1 DEF Start, TimeInv, IsTime, Exact, Normal, Total
<1>8. CASE Stop
  <2>1. IsTime(SystemTime(clock), clock)
    BY <1>0, ReadingIsTime
  <2> QED
    BY <1>8, <2>1 DEF Stop, TimeInv, IsTime, Exact, Normal, Total
<1>9. CASE Elapsed
  <2>1. IsTime(SystemTime(clock), clock)
    BY <1>0, ReadingIsTime
  <2>2. IsTime(Minus(SystemTime(clock), timer.start), clock - marks.start)
    BY <2>1, <1>0, SumIsTime
  <2>3. IsTime(Minus(timer.stop, timer.start), marks.stop - marks.start)
    BY <1>0, SumIsTime
  <2> QED
    BY <1>9, <2>2, <2>3, AnswerKeepsInv DEF Elapsed
<1>10. CASE UNCHANGED timeVars
  BY <1>10 DEF timeVars, TimeInv, IsTime, Exact, Normal, Total
<1> QED
  BY <1>1, <1>2, <1>3, <1>4, <1>5, <1>6, <1>7, <1>8, <1>9, <1>10 DEF TimeNext

THEOREM TimeInvariant == TimeSpec => []TimeInv
<1>1. TimeInit => TimeInv
  BY InitHoldsInv
<1>2. TimeInv /\ [TimeNext]_timeVars => TimeInv'
  BY StepKeepsInv
<1> QED
  BY <1>1, <1>2, PTL DEF TimeSpec

\* Whatever is added, subtracted, set, slept and timed, times are exactly what
\* they were made of, and in normal form (Time::Correct, Time.hh).
THEOREM TimesStayExact == TimeSpec => []TimesAreExact
<1>1. TimeInv => TimesAreExact
  BY DEF TimeInv, TimesAreExact, IsTime
<1> QED
  BY <1>1, TimeInvariant, PTL

-----------------------------------------------------------------------------
LEMMA SecondsApart ==
  ASSUME NEW a \in Int, NEW b \in Int, a < b
  PROVE  a * NsInSec + NsInSec <= b * NsInSec
<1>1. b - a - 1 \in Nat
  OBVIOUS
<1>2. ASSUME NEW k \in Nat PROVE k * NsInSec >= 0
  BY TimeAssumption
<1>3. (b - a - 1) * NsInSec = b * NsInSec - a * NsInSec - NsInSec
  BY TimeAssumption
<1>4. (b - a - 1) * NsInSec >= 0
  BY <1>1, <1>2
<1> QED
  BY <1>3, <1>4, TimeAssumption

\* Fewer seconds are less time, whatever the nanoseconds.
LEMMA FewerSeconds ==
  ASSUME NEW t \in Pair, NEW x \in Pair, Normal(t), Normal(x), t.sec < x.sec
  PROVE  Total(t) < Total(x)
<1>1. t.sec * NsInSec + NsInSec <= x.sec * NsInSec
  BY SecondsApart DEF Pair
<1>2. t.sec * NsInSec \in Int /\ x.sec * NsInSec \in Int
  BY TimeAssumption DEF Pair
<1>3. CASE t.sec >= 0
  BY <1>1, <1>2, <1>3, TimeAssumption DEF Pair, Normal, Total
<1>4. CASE t.sec < 0
  BY <1>1, <1>2, <1>4, TimeAssumption DEF Pair, Normal, Total
<1> QED
  BY <1>3, <1>4 DEF Pair

LEMMA NormalTimesCompare ==
  ASSUME NEW t \in Pair, NEW x \in Pair, Normal(t), Normal(x)
  PROVE  /\ Less(t, x) <=> Total(t) < Total(x)
         /\ t = x <=> Total(t) = Total(x)
<1>1. Total(t) \in Int /\ Total(x) \in Int
  BY TotalIsInt
<1>2. CASE t.sec < x.sec
  <2>1. Total(t) < Total(x)
    BY <1>2, FewerSeconds
  <2> QED
    BY <1>1, <1>2, <2>1 DEF Less, Pair
<1>3. CASE x.sec < t.sec
  <2>1. Total(x) < Total(t)
    BY <1>3, FewerSeconds
  <2> QED
    BY <1>1, <1>3, <2>1 DEF Less, Pair
<1>4. CASE x.sec = t.sec
  <2>1. Total(t) - Total(x) = t.nsec - x.nsec
    BY <1>4, TimeAssumption DEF Total, Pair
  <2>2. t = x <=> t.nsec = x.nsec
    BY <1>4 DEF Pair
  <2> QED
    BY <1>1, <1>4, <2>1, <2>2 DEF Less, Pair
<1> QED
  BY <1>2, <1>3, <1>4 DEF Pair

\* In every state the comparisons of the client's time with any other agree
\* with the nanoseconds of both (operator< and operator==, Time.cc).
THEOREM TimesAlwaysCompare == TimeSpec => []TimesCompare
<1>1. TimeInv => TimesCompare
  <2> SUFFICES ASSUME TimeInv, NEW x \in Operands
               PROVE  /\ Less(now, x) <=> Total(now) < Total(x)
                      /\ now = x <=> Total(now) = Total(x)
    BY DEF TimesCompare
  <2>1. now \in Pair /\ Normal(now)
    BY DEF TimeInv, IsTime, Exact
  <2>2. x \in Pair /\ Normal(x)
    BY TimeAssumption
  <2> QED
    BY <2>1, <2>2, NormalTimesCompare
<1> QED
  BY <1>1, TimeInvariant, PTL
-----------------------------------------------------------------------------
(* FormattedString.                                                        *)

\* A quotient and a remainder are what they should be.
LEMMA DivisionIs ==
  ASSUME NEW n \in Nat \ {0}, NEW q \in Int, NEW r \in 0..(n - 1)
  PROVE  (q * n + r) \div n = q /\ (q * n + r) % n = r
<1> DEFINE a == q * n + r
           p == a \div n
           m == a % n
<1>1. a \in Int /\ p \in Int /\ m \in 0..(n - 1) /\ a = p * n + m
  BY Division
<1>2. ASSUME NEW k \in Int, k >= 1 PROVE k * n >= n
  <2>1. k - 1 \in Nat
    BY <1>2
  <2>2. (k - 1) * n >= 0
    BY <2>1
  <2>3. (k - 1) * n = k * n - n
    OBVIOUS
  <2> QED
    BY <2>2, <2>3
<1> HIDE DEF a, p, m
<1>3. (q - p) * n = m - r /\ (p - q) * n = r - m
  BY <1>1 DEF a
<1>4. q - p \in Int /\ p - q \in Int
  BY <1>1
<1>5. ~(q - p >= 1) /\ ~(p - q >= 1)
  BY <1>1, <1>2, <1>3, <1>4
<1>6. p = q
  BY <1>1, <1>5
<1>7. m = r
  BY <1>1, <1>6 DEF a
<1> QED
  BY <1>6, <1>7 DEF a, p, m

\* Taking a multiple of n away first leaves the remainder by n as it is.
LEMMA RemainderOfRemainder ==
  ASSUME NEW a \in Int, NEW b \in Nat \ {0}, NEW n \in Nat \ {0}, b % n = 0
  PROVE  (a % b) % n = a % n
<1> DEFINE k == b \div n
           q == a \div b
           x == a % b
<1>1. k \in Int /\ b = k * n
  BY Division
<1>2. q \in Int /\ x \in Int /\ a = q * b + x
  BY Division
<1> DEFINE p == x \div n
           r == x % n
<1>3. p \in Int /\ r \in 0..(n - 1) /\ x = p * n + r
  BY <1>2, Division
<1> HIDE DEF k, q, x, p, r
<1>4. a = (q * k + p) * n + r
  <2>1. q * (k * n) = (q * k) * n
    BY <1>1, <1>2
  <2>2. (q * k + p) * n = (q * k) * n + p * n
    BY <1>1, <1>2, <1>3
  <2> QED
    BY <1>1, <1>2, <1>3, <2>1, <2>2
<1>5. q * k + p \in Int
  BY <1>1, <1>2, <1>3
<1>6. a % n = r
  BY <1>3, <1>4, <1>5, DivisionIs
<1> QED
  BY <1>6 DEF x, r

\* What is left of all below one unit, when all is counted in parts of another.
LEMMA RemainderInParts ==
  ASSUME NEW s \in Nat, NEW n \in Nat \ {0}, NEW parts \in Nat \ {0},
         NEW m \in 0..(parts - 1)
  PROVE  (s * parts + m) % (n * parts) = (s % n) * parts + m
<1> DEFINE q == s \div n
           x == s % n
<1>1. q \in Int /\ x \in 0..(n - 1) /\ s = q * n + x
  BY Division
<1> HIDE DEF q, x
<1>2. s * parts + m = q * (n * parts) + (x * parts + m)
  <2>1. (q * n + x) * parts = (q * n) * parts + x * parts
    BY <1>1
  <2>2. (q * n) * parts = q * (n * parts)
    BY <1>1
  <2> QED
    BY <1>1, <2>1, <2>2
<1>3. n * parts \in Nat \ {0}
  OBVIOUS
<1>4. x * parts + m \in 0..(n * parts - 1)
  <2>1. x * parts \in Nat
    BY <1>1
  <2>2. n - 1 - x \in Nat
    BY <1>1
  <2>3. (n - 1 - x) * parts >= 0
    BY <2>2
  <2>4. (n - 1 - x) * parts = n * parts - parts - x * parts
    BY <1>1
  <2> QED
    BY <2>1, <2>3, <2>4
<1>5. (q * (n * parts) + (x * parts + m)) % (n * parts) = x * parts + m
  BY <1>1, <1>3, <1>4, DivisionIs
<1> QED
  BY <1>2, <1>5 DEF x

\* Milliseconds in a second, in a time and in a unit of one.
MsInSec == NsInSec \div NsInMs
AllMs == exact \div NsInMs
MsIn(u) == IF u < 5 THEN Units[u] * MsInSec ELSE 1

LEMMA MillisecondsOf ==
  ASSUME TimeInv, now.sec >= 0, now.nsec >= 0
  PROVE  /\ MsInSec \in Nat \ {0} /\ now.sec \in Nat
         /\ now.nsec \div NsInMs \in 0..(MsInSec - 1)
         /\ AllMs = now.sec * MsInSec + now.nsec \div NsInMs
<1> DEFINE m == now.nsec \div NsInMs
           r == now.nsec % NsInMs
<1>1. /\ NsInMs \in Nat \ {0} /\ NsInSec \in Nat \ {0}
      /\ now.sec \in Nat /\ now.nsec \in 0..(NsInSec - 1)
      /\ exact = now.sec * NsInSec + now.nsec
  BY TimeAssumption, UnitsAssumption DEF TimeInv, IsTime, Exact, Normal, Total, Pair
<1>2. MsInSec \in Int /\ NsInSec = MsInSec * NsInMs
  BY <1>1, Division, TimeAssumption, UnitsAssumption DEF MsInSec
<1>3. m \in Int /\ r \in 0..(NsInMs - 1) /\ now.nsec = m * NsInMs + r
  <2>1. now.nsec \in Int
    BY <1>1
  <2> QED
    BY <1>1, <2>1, Division, Zenon
<1>4. MsInSec \in Nat \ {0}
  <2>1. ASSUME MsInSec <= 0 PROVE FALSE
    <3>1. (-MsInSec) * NsInMs >= 0
      BY <1>1, <1>2, <2>1
    <3>2. (-MsInSec) * NsInMs = -(MsInSec * NsInMs)
      BY <1>1, <1>2
    <3> QED
      BY <1>1, <1>2, <3>1, <3>2
  <2> QED
    BY <1>2, <2>1
<1> HIDE DEF m, r
<1>5. m >= 0
  <2>1. ASSUME m < 0 PROVE FALSE
    <3>1. -m - 1 \in Nat
      BY <1>3, <2>1
    <3>2. (-m - 1) * NsInMs >= 0
      BY <1>1, <3>1
    <3>3. (-m - 1) * NsInMs = -(m * NsInMs) - NsInMs
      BY <1>1, <1>3
    <3> QED
      BY <1>1, <1>3, <3>2, <3>3
  <2> QED
    BY <1>3, <2>1
<1>6. m < MsInSec
  <2>1. ASSUME m >= MsInSec PROVE FALSE
    <3>1. m - MsInSec \in Nat
      BY <1>3, <1>4, <2>1
    <3>2. (m - MsInSec) * NsInMs >= 0
      BY <1>1, <3>1
    <3>3. (m - MsInSec) * NsInMs = m * NsInMs - MsInSec * NsInMs
      BY <1>1, <1>3, <1>4
    <3> QED
      BY <1>1, <1>2, <1>3, <3>2, <3>3
  <2> QED
    BY <1>3, <1>4, <2>1
<1>7. exact = (now.sec * MsInSec + m) * NsInMs + r
  <2>1. now.sec * (MsInSec * NsInMs) = (now.sec * MsInSec) * NsInMs
    BY <1>1, <1>4
  <2>2. (now.sec * MsInSec + m) * NsInMs = (now.sec * MsInSec) * NsInMs + m * NsInMs
    BY <1>1, <1>3, <1>4
  <2> QED
    BY <1>1, <1>2, <1>3, <2>1, <2>2
<1>8. now.sec * MsInSec + m \in Int
  BY <1>1, <1>3, <1>4
<1>9. AllMs = now.sec * MsInSec + m
  BY <1>1, <1>3, <1>7, <1>8, DivisionIs DEF AllMs
<1> QED
  BY <1>1, <1>3, <1>4, <1>5, <1>6, <1>9 DEF m

\* Below a unit, as much is left of the milliseconds as of the seconds, and
\* the milliseconds of the last one.
LEMMA LeftBelow ==
  ASSUME TimeInv, now.sec >= 0, now.nsec >= 0
  PROVE  /\ \A u \in 1..4 : AllMs % MsIn(u) =
              (now.sec % Units[u]) * MsInSec + now.nsec \div NsInMs
         /\ AllMs % MsIn(5) = 0
<1> DEFINE s == now.sec
           m == now.nsec \div NsInMs
<1>1. /\ MsInSec \in Nat \ {0} /\ s \in Nat /\ m \in 0..(MsInSec - 1)
      /\ AllMs = s * MsInSec + m
  BY MillisecondsOf
<1> HIDE DEF s, m
<1>2. ASSUME NEW u \in 1..4
      PROVE  AllMs % MsIn(u) = (s % Units[u]) * MsInSec + m
  <2> DEFINE n == Units[u]
  <2>1. n \in Nat \ {0} /\ MsIn(u) = n * MsInSec
    BY TimeAssumption, UnitsAssumption DEF Units, MsIn
  <2> HIDE DEF n
  <2>2. (s * MsInSec + m) % (n * MsInSec) = (s % n) * MsInSec + m
    BY <1>1, <2>1, RemainderInParts, Zenon
  <2>3. AllMs % MsIn(u) = (s % n) * MsInSec + m
    BY <1>1, <2>1, <2>2, Zenon
  <2> QED
    BY <2>3 DEF n
<1>3. AllMs \in Int
  BY <1>1
<1>4. AllMs % MsIn(5) = 0
  BY <1>3 DEF MsIn
<1> QED
  BY <1>2, <1>4 DEF s, m

\* What the unit u takes, when it is the first and when it is not.
Taken(u, first, s, m) ==
  LET left == IF first THEN s ELSE s % Units[u - 1]
  IN IF u < 5 THEN left \div Units[u]
     ELSE IF first THEN m + s * MsInSec ELSE m

LEMMA PartIsTaken ==
  ASSUME NEW start \in 1..5, NEW end \in start..5, NEW u \in start..end
  PROVE  FormattedString(now, start, end)[u - start + 1]
           = Taken(u, u = start, now.sec, now.nsec \div NsInMs)
<1> DEFINE i == u - start + 1
<1>1. i \in 1..(end - start + 1) /\ start + i - 1 = u /\ ~(end < start)
  OBVIOUS
<1>2. start = 5 /\ ~(u < 5) <=> u = start /\ ~(u < 5)
  OBVIOUS
<1> HIDE DEF i
<1> QED
  BY <1>1, <1>2 DEF FormattedString, Taken, MsInSec, i

\* A unit of the seconds takes what is left above its own remainder.
LEMMA TakenOfSeconds ==
  ASSUME NEW s \in Nat, NEW u \in 1..4, NEW first \in BOOLEAN, u = 1 => first
  PROVE  LET left == IF first THEN s ELSE s % Units[u - 1]
         IN /\ left \in Nat /\ s % Units[u] \in Nat
            /\ (left \div Units[u]) \in Int
            /\ (left \div Units[u]) * Units[u] = left - (s % Units[u])
<1> DEFINE left == IF first THEN s ELSE s % Units[u - 1]
           n == Units[u]
<1>1. n \in Nat \ {0}
  BY TimeAssumption, UnitsAssumption DEF Units
<1>2. left \in Nat /\ left % n = s % n
  <2>1. CASE first
    BY <2>1
  <2>2. CASE ~first
    <3> DEFINE b == Units[u - 1]
    <3>1. b \in Nat \ {0} /\ b % n = 0
      <4>1. CASE u = 2
        BY <4>1, TimeAssumption, UnitsAssumption DEF Units
      <4>2. CASE u = 3
        BY <4>2, TimeAssumption, UnitsAssumption DEF Units
      <4>3. CASE u = 4
        BY <4>3, TimeAssumption, UnitsAssumption DEF Units
      <4> QED
        BY <2>2, <4>1, <4>2, <4>3
    <3> HIDE DEF b, n
    <3>5. s \in Int
      OBVIOUS
    <3>2. (s % b) % n = s % n
      BY <1>1, <3>1, <3>5, RemainderOfRemainder, Zenon
    <3>3. s % b \in Nat
      BY <3>1, Division
    <3>4. left = s % b
      BY <2>2 DEF b
    <3> QED
      BY <3>2, <3>3, <3>4
  <2> QED
    BY <2>1, <2>2
<1> HIDE DEF left, n
<1>7. left \in Int
  BY <1>2
<1>3. left \div n \in Int /\ left % n \in 0..(n - 1) /\ left = (left \div n) * n + (left % n)
  BY <1>1, <1>7, Division, Zenon
<1>4. (left \div n) * n \in Int
  BY <1>1, <1>3
<1>5. (left \div n) * n = left - (left % n)
  BY <1>2, <1>3, <1>4
<1>6. s % n \in Nat
  BY <1>2, <1>3
<1> QED
  BY <1>2, <1>3, <1>5, <1>6 DEF left, n

\* Every number FormattedString writes is what its unit takes of what the
\* units before it have left.
LEMMA PartsOfTime ==
  ASSUME TimeInv, now.sec >= 0, now.nsec >= 0,
         NEW start \in 1..5, NEW end \in start..5, NEW u \in start..end
  PROVE  /\ FormattedString(now, start, end)[u - start + 1] * MsIn(u) =
             (IF u = start THEN AllMs ELSE AllMs % MsIn(u - 1)) - (AllMs % MsIn(u))
         /\ AllMs \in Nat /\ AllMs % MsIn(u) \in Nat
<1> DEFINE s == now.sec
           m == now.nsec \div NsInMs
           part == FormattedString(now, start, end)[u - start + 1]
           left == IF u = start THEN s ELSE s % Units[u - 1]
           before == IF u = start THEN AllMs ELSE AllMs % MsIn(u - 1)
<1>1. /\ MsInSec \in Nat \ {0} /\ s \in Nat /\ m \in 0..(MsInSec - 1)
      /\ AllMs = s * MsInSec + m
  BY MillisecondsOf
<1>2. /\ \A v \in 1..4 : AllMs % MsIn(v) = (s % Units[v]) * MsInSec + m
      /\ AllMs % MsIn(5) = 0
  BY LeftBelow
<1>3. part = Taken(u, u = start, s, m)
  BY PartIsTaken
<1>0. u = start \/ (u # start /\ u - 1 \in 1..4)
  OBVIOUS
<1>7. u < 5 \/ u = 5
  OBVIOUS
<1> HIDE DEF s, m, part, left, before
<1>a. AllMs \in Nat
  BY <1>1
<1>4. CASE u < 5
  <2> DEFINE n == Units[u]
  <2>0. u \in 1..4
    BY <1>4
  <2>1. MsIn(u) = n * MsInSec /\ n \in Nat \ {0}
    BY <2>0, TimeAssumption, UnitsAssumption DEF MsIn, Units
  <2>2. /\ left \in Nat /\ s % n \in Nat /\ part \in Int
        /\ part * n = left - (s % n)
    <3>1. part = left \div n
      BY <1>3, <1>4 DEF Taken, left
    <3>2. u = 1 => u = start
      OBVIOUS
    <3> QED
      BY <1>1, <2>0, <3>1, <3>2, TakenOfSeconds DEF left
  <2>3. before = left * MsInSec + m
    <3>1. CASE u = start
      BY <1>1, <3>1 DEF before, left
    <3>2. CASE u # start
      BY <1>0, <1>2, <3>2 DEF before, left
    <3> QED
      BY <3>1, <3>2
  <2>4. AllMs % MsIn(u) = (s % n) * MsInSec + m
    BY <1>2, <2>0
  <2> DEFINE x == s % n
  <2> HIDE DEF n, x
  <2>6. part * (n * MsInSec) = (left - x) * MsInSec
    <3>1. part * (n * MsInSec) = (part * n) * MsInSec
      BY <1>1, <2>1, <2>2
    <3>2. part * n = left - x
      BY <2>2 DEF x
    <3> QED
      BY <3>1, <3>2, Zenon
  <2>x. x \in Nat
    BY <2>2 DEF x
  <2>7. (left - x) * MsInSec = left * MsInSec - x * MsInSec
    BY <1>1, <2>2, <2>x
  <2>8. left * MsInSec \in Nat /\ x * MsInSec \in Nat /\ m \in Nat
    BY <1>1, <2>2, <2>x
  <2>9. AllMs % MsIn(u) = x * MsInSec + m
    BY <2>4 DEF x
  <2>10. part * MsIn(u) = left * MsInSec - x * MsInSec
    BY <2>1, <2>6, <2>7, Zenon
  <2> DEFINE p == part * MsIn(u)
             a == AllMs % MsIn(u)
             b == left * MsInSec
             c == x * MsInSec
  <2>11. b \in Nat /\ c \in Nat /\ m \in Nat /\ before = b + m /\ a = c + m /\ p = b - c
    BY <2>3, <2>8, <2>9, <2>10
  <2> HIDE DEF p, a, b, c
  <2>12. p = before - a /\ a \in Nat
    BY <2>11
  <2> QED
    BY <1>a, <2>12 DEF p, a, before, part
<1>5. CASE u = 5
  <2>1. MsIn(5) = 1 /\ AllMs \in Int /\ m \in Int
    BY <1>1 DEF MsIn
  <2>0. part \in Int /\ part * 1 = part
    BY <1>1, <1>3, <1>5 DEF Taken
  <2>2. CASE u = start
    <3>1. part = m + s * MsInSec
      BY <1>3, <1>5, <2>2 DEF Taken
    <3>2. part = AllMs
      BY <1>1, <3>1
    <3> QED
      BY <1>2, <1>5, <1>a, <2>0, <2>1, <2>2, <3>2 DEF part
  <2>3. CASE u # start
    <3>1. Units[4] = 1
      BY DEF Units
    <3>2. AllMs % MsIn(4) = m
      <4>1. AllMs % MsIn(4) = (s % 1) * MsInSec + m
        BY <1>2, <3>1
      <4>2. s % 1 = 0
        BY <1>1
      <4> QED
        BY <1>1, <4>1, <4>2
    <3>3. part = m
      BY <1>3, <1>5, <2>3 DEF Taken
    <3>4. AllMs % MsIn(u - 1) = m
      BY <1>5, <3>2
    <3> QED
      BY <1>2, <1>5, <1>a, <2>0, <2>1, <2>3, <3>3, <3>4 DEF part
  <2> QED
    BY <2>2, <2>3
<1> QED
  BY <1>4, <1>5, <1>7

\* The sum FormatsTellTheTime speaks of, by the parts before each.
Partial(f, start, end) ==
  LET parts == FormattedString(now, start, end)
  IN f = [i \in 0..(end - start + 1) |->
            IF i = 0 THEN 0 ELSE f[i - 1] + parts[i] * MsIn(start + i - 1)]

LEMMA PartialSums ==
  ASSUME TimeInv, now.sec >= 0, now.nsec >= 0, NEW start \in 1..5, NEW end \in start..5
  PROVE  \A f : Partial(f, start, end) =>
           f[end - start + 1] = AllMs - (AllMs % MsIn(end))
<1> DEFINE part(i) == FormattedString(now, start, end)[i]
           below(i) == AllMs % MsIn(start + i - 1)
           n == end - start + 1
<1>1. ASSUME NEW i \in 1..n
      PROVE  /\ part(i) * MsIn(start + i - 1) = (IF i = 1 THEN AllMs ELSE below(i - 1)) - below(i)
             /\ AllMs \in Nat /\ below(i) \in Nat
  <2> DEFINE u == start + i - 1
  <2>1. u \in start..end /\ u - start + 1 = i /\ (u = start <=> i = 1)
        /\ start + (i - 1) - 1 = u - 1
    OBVIOUS
  <2> HIDE DEF u
  <2>2. /\ FormattedString(now, start, end)[u - start + 1] * MsIn(u) =
             (IF u = start THEN AllMs ELSE AllMs % MsIn(u - 1)) - (AllMs % MsIn(u))
        /\ AllMs \in Nat /\ AllMs % MsIn(u) \in Nat
    BY <2>1, PartsOfTime
  <2> QED
    BY <2>1, <2>2 DEF u
<1>2. SUFFICES ASSUME NEW f, Partial(f, start, end)
               PROVE  f[n] = AllMs - below(n)
  <2>1. start + n - 1 = end
    OBVIOUS
  <2> QED
    BY <2>1
<1>3. f[0] = 0 /\ \A i \in 1..n : f[i] = f[i - 1] + part(i) * MsIn(start + i - 1)
  BY <1>2 DEF Partial
<1> HIDE DEF part, below
<1>4. f[1] = AllMs - below(1) /\ AllMs \in Nat
  <2>1. 1 \in 1..n
    OBVIOUS
  <2> QED
    BY <1>1, <1>3, <2>1
<1>5. ASSUME NEW i \in 1..n, i + 1 \in 1..n, f[i] = AllMs - below(i)
      PROVE  f[i + 1] = AllMs - below(i + 1)
  <2> DEFINE j == i + 1
             p == part(j) * MsIn(start + j - 1)
  <2>1. j \in 1..n /\ j # 1 /\ j - 1 = i
    BY <1>5
  <2>2. p = below(j - 1) - below(j) /\ below(j) \in Nat
    BY <1>1, <2>1
  <2>3. f[j] = f[i] + p
    BY <1>3, <2>1
  <2>4. below(i) \in Nat
    BY <1>1
  <2> HIDE DEF p
  <2>5. f[j] = AllMs - below(j)
    BY <1>4, <1>5, <2>1, <2>2, <2>3, <2>4
  <2> QED
    BY <2>5
<1>6. n \in 1..5
  OBVIOUS
<1> HIDE DEF n
<1>7. n >= 2 => f[2] = AllMs - below(2)
  BY <1>4, <1>5, <1>6
<1>8. n >= 3 => f[3] = AllMs - below(3)
  BY <1>5, <1>6, <1>7
<1>9. n >= 4 => f[4] = AllMs - below(4)
  BY <1>5, <1>6, <1>8
<1>10. n >= 5 => f[5] = AllMs - below(5)
  BY <1>5, <1>6, <1>9
<1> QED
  BY <1>4, <1>6, <1>7, <1>8, <1>9, <1>10

LEMMA PartialSumsExist ==
  ASSUME TimeInv, now.sec >= 0, now.nsec >= 0, NEW start \in 1..5, NEW end \in start..5
  PROVE  \E f : Partial(f, start, end)
<1> DEFINE n == end - start + 1
           below(i) == AllMs % MsIn(start + i - 1)
           term(i) == FormattedString(now, start, end)[i] * MsIn(start + i - 1)
           f == [i \in 0..n |-> IF i = 0 THEN 0 ELSE AllMs - below(i)]
           g == [i \in 0..n |-> IF i = 0 THEN 0 ELSE f[i - 1] + term(i)]
<1>1. ASSUME NEW i \in 1..n
      PROVE  /\ term(i) = (IF i = 1 THEN AllMs ELSE below(i - 1)) - below(i)
             /\ AllMs \in Nat /\ below(i) \in Nat
  <2> DEFINE u == start + i - 1
  <2>1. u \in start..end /\ u - start + 1 = i /\ (u = start <=> i = 1)
        /\ start + (i - 1) - 1 = u - 1
    OBVIOUS
  <2> HIDE DEF u
  <2>2. /\ FormattedString(now, start, end)[u - start + 1] * MsIn(u) =
             (IF u = start THEN AllMs ELSE AllMs % MsIn(u - 1)) - (AllMs % MsIn(u))
        /\ AllMs \in Nat /\ AllMs % MsIn(u) \in Nat
    BY <2>1, PartsOfTime
  <2> QED
    BY <2>1, <2>2 DEF u
<1> HIDE DEF below, term
<1>2. ASSUME NEW i \in 0..n PROVE f[i] = g[i]
  <2>1. CASE i = 0
    BY <2>1
  <2>2. CASE i = 1
    <3>1. i \in 1..n /\ i - 1 = 0 /\ 0 \in 0..n
      BY <2>2
    <3>2. g[i] = f[i - 1] + term(i) /\ f[i - 1] = 0 /\ f[i] = AllMs - below(i)
      BY <3>1
    <3> QED
      BY <1>1, <2>2, <3>1, <3>2
  <2>3. CASE i > 1
    <3>1. i \in 1..n /\ i - 1 \in 1..n
      BY <2>3
    <3>2. g[i] = f[i - 1] + term(i) /\ f[i - 1] = AllMs - below(i - 1) /\ f[i] = AllMs - below(i)
      BY <3>1
    <3>3. below(i - 1) \in Nat /\ below(i) \in Nat /\ AllMs \in Nat
          /\ term(i) = below(i - 1) - below(i)
      BY <1>1, <2>3, <3>1
    <3> QED
      BY <3>2, <3>3
  <2> QED
    BY <2>1, <2>2, <2>3
<1>3. f = g
  BY <1>2
<1> HIDE DEF f
<1> QED
  BY <1>3 DEF Partial, term

LEMMA NumbersTellTheTime == TimeInv => FormatsTellTheTime
<1> SUFFICES ASSUME TimeInv, now.sec >= 0, now.nsec >= 0, NEW start \in 1..5, NEW end \in start..5
    PROVE  LET parts == FormattedString(now, start, end)
               Sum[i \in 0..Len(parts)] ==
                 IF i = 0 THEN 0 ELSE Sum[i - 1] + parts[i] * MsIn(start + i - 1)
           IN Sum[Len(parts)] = AllMs - (AllMs % MsIn(end))
  BY DEF FormatsTellTheTime, AllMs, MsIn, MsInSec
<1> DEFINE parts == FormattedString(now, start, end)
           n == end - start + 1
<1>1. Len(parts) = n
  <2>1. ~(end < start) /\ n \in Nat
    OBVIOUS
  <2> QED
    BY <2>1 DEF FormattedString
<1> HIDE DEF parts
<1> DEFINE Sum == CHOOSE f : f = [i \in 0..Len(parts) |->
                     IF i = 0 THEN 0 ELSE f[i - 1] + parts[i] * MsIn(start + i - 1)]
<1>2. Sum = [i \in 0..Len(parts) |->
               IF i = 0 THEN 0 ELSE Sum[i - 1] + parts[i] * MsIn(start + i - 1)]
  <2>1. \E f : f = [i \in 0..Len(parts) |->
                     IF i = 0 THEN 0 ELSE f[i - 1] + parts[i] * MsIn(start + i - 1)]
    <3>1. PICK f : Partial(f, start, end)
      BY PartialSumsExist, Zenon
    <3>2. f = [i \in 0..n |-> IF i = 0 THEN 0 ELSE f[i - 1] + parts[i] * MsIn(start + i - 1)]
      BY <3>1, Zenon DEF Partial, parts
    <3>3. f = [i \in 0..Len(parts) |-> IF i = 0 THEN 0 ELSE f[i - 1] + parts[i] * MsIn(start + i - 1)]
      BY <1>1, <3>2, Zenon
    <3> QED
      BY <3>3, Zenon
  <2> QED
    BY <2>1, Zenon
<1> HIDE DEF Sum
<1>3. Partial(Sum, start, end)
  BY <1>1, <1>2 DEF Partial, parts
<1>4. Sum[n] = AllMs - (AllMs % MsIn(end))
  BY <1>3, PartialSums, Zenon
<1> QED
  BY <1>1, <1>4, Zenon DEF Sum, parts

\* In every state the client's time compares with any other as its nanoseconds
\* do, and written from any unit to any other its numbers add up to it
\* (operator<, operator==, Time::FormattedString).
THEOREM TimesAlwaysReadAsTheyAre == TimeSpec => []TimesReadAsTheyAre
<1>1. TimeSpec => []TimesCompare
  BY TimesAlwaysCompare
<1>2. TimeInv => FormatsTellTheTime
  BY NumbersTellTheTime
<1> QED
  BY <1>1, <1>2, TimeInvariant, PTL DEF TimesReadAsTheyAre

-----------------------------------------------------------------------------
(***************************************************************************)
(* PluginLoader and PluginPtr:  whatever libraries are opened, in whatever *)
(* order, and however pointers are made, copied, cast, moved, cleared and  *)
(* destroyed, a pointer offers what its instance implements, an instance   *)
(* outlives its users, the registry is first come, first served.  Nothing  *)
(* is assumed of the constants.                                            *)
(***************************************************************************)

-----------------------------------------------------------------------------
(* The pointers.                                                           *)

\* A map of entries is that of an instance (or Null) which offers some
\* interfaces.
Follows(map, i, offers) ==
  /\ i = Null => \A f \in DOMAIN map : map[f] = Null
  /\ i # Null => /\ offers \subseteq DOMAIN map
                 /\ \A f \in DOMAIN map : map[f] = IF f \in offers THEN i ELSE Null

\* What is known of a pointer's wrapper.  One that has none keeps nothing.
PtrSound(p) ==
  /\ life[p] = "live" => /\ Special[p] \subseteq DOMAIN entries[p]
                         /\ Follows(entries[p], held[p], provides[held[p]])
  /\ life[p] # "live" => held[p] = Null /\ DOMAIN entries[p] = {}

\* The instances pointers have and clients keep are there.
AllExist == \A i \in Owned(held, borrowed) : i \in Instances /\ Exists(i)

PtrInv ==
  /\ DOMAIN life = Ptrs /\ DOMAIN held = Ptrs /\ DOMAIN entries = Ptrs
  /\ DOMAIN provides = Instances
  /\ AllExist
  /\ \A p \in Ptrs : PtrSound(p)

\* SetWrapper keeps it, when the new instance is there, the old ones are not
\* made anew, and the new map is that of the new instance.
LEMMA WrapperSet ==
  ASSUME PtrInv, NEW p \in Ptrs, NEW i, NEW map, NEW made,
         DOMAIN life' = Ptrs, \A q \in Ptrs \ {p} : life'[q] = life[q],
         SetWrapper(p, i, map, made),
         \A j \in Owned(held, borrowed) : made[j] = provides[j],
         i # Null => i \in Instances /\ made[i] # Null,
         life'[p] = "live" => Special[p] \subseteq DOMAIN map /\ Follows(map, i, made[i]),
         life'[p] # "live" => i = Null /\ DOMAIN map = {}
  PROVE  PtrInv'
<1>1. /\ DOMAIN held' = Ptrs /\ held'[p] = i /\ \A q \in Ptrs \ {p} : held'[q] = held[q]
      /\ DOMAIN entries' = Ptrs /\ entries'[p] = map
      /\ \A q \in Ptrs \ {p} : entries'[q] = entries[q]
      /\ held' = [held EXCEPT ![p] = i] /\ borrowed' = borrowed
      /\ provides' = [j \in Instances |-> IF j \in Owned(held', borrowed) THEN made[j] ELSE Null]
  BY DEF SetWrapper, PtrInv
<1>2. ASSUME NEW j \in Owned(held', borrowed)
      PROVE  j \in Instances /\ provides'[j] = made[j] /\ provides'[j] # Null
  <2>1. j \in Owned(held, borrowed) \/ (j = i /\ i # Null)
    BY <1>1, <1>2 DEF Owned
  <2>2. j \in Instances /\ made[j] # Null
    BY <2>1 DEF PtrInv, AllExist, Exists
  <2> QED
    BY <1>1, <1>2, <2>2
<1>3. AllExist'
  BY <1>1, <1>2 DEF AllExist, Exists
<1>4. ASSUME NEW q \in Ptrs PROVE PtrSound(q)'
  <2>1. CASE q = p
    <3>1. i # Null => provides'[i] = made[i]
      BY <1>1, <1>2 DEF Owned
    <3> QED
      BY <1>1, <2>1, <3>1 DEF PtrSound, Follows
  <2>2. CASE q # p
    <3>1. held[q] # Null => provides'[held[q]] = provides[held[q]]
      <4>1. held[q] # Null => held[q] \in Owned(held, borrowed) /\ held[q] \in Owned(held', borrowed)
        BY <1>1, <2>2 DEF Owned
      <4> QED
        BY <1>2, <4>1
    <3>2. life'[q] = life[q] /\ held'[q] = held[q] /\ entries'[q] = entries[q]
      BY <1>1, <2>2
    <3>3. PtrSound(q)
      BY DEF PtrInv
    <3> QED
      BY <3>1, <3>2, <3>3 DEF PtrSound, Follows
  <2> QED
    BY <2>1, <2>2
<1> QED
  BY <1>1, <1>3, <1>4 DEF PtrInv

\* The maps the wrappers are given.
LEMMA NullFollows ==
  ASSUME NEW map, NEW offers
  PROVE  /\ DOMAIN ClearedEntries(map) = DOMAIN map
         /\ Follows(ClearedEntries(map), Null, offers)
  BY DEF ClearedEntries, Follows

LEMMA NewFollows ==
  ASSUME NEW p, NEW offers
  PROVE  DOMAIN NewEntries(p) = Special[p] /\ Follows(NewEntries(p), Null, offers)
  BY DEF NewEntries, Follows

LEMMA InfoFollows ==
  ASSUME NEW map, NEW i, NEW offers
  PROVE  LET made == InfoEntries(ClearedEntries(map), i, offers) IN
         DOMAIN map \subseteq DOMAIN made /\ Follows(made, i, offers)
  BY DEF InfoEntries, ClearedEntries, Follows

LEMMA CopyFollows ==
  ASSUME NEW map, NEW other, NEW i, NEW offers, i # Null, Follows(other, i, offers)
  PROVE  LET copied == CopiedEntries(ClearedEntries(map), other) IN
         DOMAIN map \subseteq DOMAIN copied /\ Follows(copied, i, offers)
  BY DEF CopiedEntries, ClearedEntries, Follows

\* Clear() and Initialize(_other), into a map with the entries of its type.
LEMMA CopiedInto ==
  ASSUME PtrInv, NEW p \in Ptrs, NEW q \in Ptrs, NEW old,
         life[q] = "live", life'[p] = "live", Special[p] \subseteq DOMAIN old,
         DOMAIN life' = Ptrs, \A r \in Ptrs \ {p} : life'[r] = life[r],
         CopyInto(p, q, old)
  PROVE  PtrInv'
<1>1. CASE p = q \/ held[q] = Null
  <2>1. SetWrapper(p, Null, ClearedEntries(old), provides)
    BY <1>1 DEF CopyInto
  <2>2. /\ Special[p] \subseteq DOMAIN ClearedEntries(old)
        /\ Follows(ClearedEntries(old), Null, provides[Null])
    BY NullFollows
  <2> QED
    BY <2>1, <2>2, WrapperSet
<1>2. CASE p # q /\ held[q] # Null
  <2>1. SetWrapper(p, held[q], CopiedEntries(ClearedEntries(old), entries[q]), provides)
    BY <1>2 DEF CopyInto
  <2>2. held[q] \in Instances /\ provides[held[q]] # Null
    BY <1>2 DEF PtrInv, AllExist, Exists, Owned
  <2>3. Follows(entries[q], held[q], provides[held[q]])
    BY DEF PtrInv, PtrSound
  <2>4. /\ Special[p] \subseteq DOMAIN CopiedEntries(ClearedEntries(old), entries[q])
        /\ Follows(CopiedEntries(ClearedEntries(old), entries[q]), held[q], provides[held[q]])
    BY <1>2, <2>3, CopyFollows
  <2> QED
    BY <2>1, <2>2, <2>4, WrapperSet
<1> QED
  BY <1>1, <1>2

\* Each way to make, change and destroy a pointer keeps the invariant.
LEMMA ConstructStep ==
  ASSUME PtrInv, NEW p \in Ptrs, NEW info, ConstructFrom(p, info)
  PROVE  PtrInv'
<1>1. life[p] = "none" /\ life' = [life EXCEPT ![p] = "live"]
  BY DEF ConstructFrom
<1>2. DOMAIN life' = Ptrs /\ life'[p] = "live" /\ \A q \in Ptrs \ {p} : life'[q] = life[q]
  BY <1>1 DEF PtrInv
<1>3. CASE SetWrapper(p, Null, NewEntries(p), provides)
  BY <1>2, <1>3, NewFollows, WrapperSet
<1>4. CASE \E i \in Instances :
             /\ ~Exists(i) /\ info # Null
             /\ SetWrapper(p, i, InfoEntries(ClearedEntries(NewEntries(p)), i, info),
                           [provides EXCEPT ![i] = info])
  <2>1. PICK i \in Instances :
           /\ ~Exists(i) /\ info # Null
           /\ SetWrapper(p, i, InfoEntries(ClearedEntries(NewEntries(p)), i, info),
                         [provides EXCEPT ![i] = info])
    BY <1>4
  <2> DEFINE map == InfoEntries(ClearedEntries(NewEntries(p)), i, info)
             made == [provides EXCEPT ![i] = info]
  <2>2. made[i] = info /\ \A j \in Owned(held, borrowed) : made[j] = provides[j]
    BY <2>1 DEF PtrInv, AllExist
  <2>3. Special[p] \subseteq DOMAIN map /\ Follows(map, i, info)
    BY NewFollows, NullFollows, InfoFollows
  <2> HIDE DEF map, made
  <2>4. SetWrapper(p, i, map, made)
    BY <2>1 DEF map, made
  <2> QED
    BY <1>2, <2>1, <2>2, <2>3, <2>4, WrapperSet
<1> QED
  BY <1>3, <1>4 DEF ConstructFrom

LEMMA MoveStep ==
  ASSUME PtrInv, NEW p \in Ptrs, NEW q \in Ptrs, Move(p, q)
  PROVE  PtrInv'
<1>1. /\ p # q /\ Special[p] = Special[q] /\ life[q] = "live" /\ borrowed' = borrowed
      /\ DOMAIN life' = Ptrs /\ life'[p] = "live" /\ life'[q] = "moved"
      /\ DOMAIN held' = Ptrs /\ held'[p] = held[q] /\ held'[q] = Null
      /\ DOMAIN entries' = Ptrs /\ entries'[p] = entries[q] /\ entries'[q] = NoEntries
      /\ \A r \in Ptrs \ {p, q} :
           life'[r] = life[r] /\ held'[r] = held[r] /\ entries'[r] = entries[r]
  BY DEF Move, PtrInv
<1>2. provides' = [j \in Instances |-> IF j \in Owned(held', borrowed) THEN provides[j] ELSE Null]
  BY DEF Move
<1>3. Owned(held', borrowed') \subseteq Owned(held, borrowed)
  BY <1>1 DEF Owned
<1>4. \A j \in Owned(held', borrowed') : j \in Instances /\ provides'[j] = provides[j]
  BY <1>1, <1>2, <1>3 DEF PtrInv, AllExist
<1>5. AllExist'
  BY <1>3, <1>4 DEF AllExist, Exists, PtrInv
<1>6. ASSUME NEW r \in Ptrs, held'[r] # Null PROVE provides'[held'[r]] = provides[held'[r]]
  BY <1>4, <1>6 DEF Owned
<1>7. ASSUME NEW r \in Ptrs PROVE PtrSound(r)'
  <2>1. PtrSound(r) /\ PtrSound(q)
    BY DEF PtrInv
  <2>2. CASE r = p
    <3>1. held'[r] # Null => provides'[held'[r]] = provides[held[q]]
      BY <1>1, <1>6, <2>2
    <3> QED
      BY <1>1, <2>1, <2>2, <3>1 DEF PtrSound, Follows
  <2>3. CASE r = q
    <3>1. DOMAIN NoEntries = {}
      BY DEF NoEntries
    <3> QED
      BY <1>1, <2>3, <3>1 DEF PtrSound
  <2>4. CASE r # p /\ r # q
    <3>1. life'[r] = life[r] /\ held'[r] = held[r] /\ entries'[r] = entries[r]
      BY <1>1, <2>4
    <3> QED
      BY <1>6, <2>1, <3>1 DEF PtrSound, Follows
  <2> QED
    BY <2>2, <2>3, <2>4
<1> QED
  BY <1>1, <1>2, <1>5, <1>7 DEF PtrInv

LEMMA GiveBackStep ==
  ASSUME PtrInv, NEW i \in Instances, GiveBack(i)
  PROVE  PtrInv'
<1>1. /\ life' = life /\ held' = held /\ entries' = entries /\ borrowed' = borrowed \ {i}
      /\ DOMAIN provides' = Instances
      /\ provides'[i] = IF i \in Owned(held, borrowed') THEN provides[i] ELSE Null
      /\ \A j \in Instances \ {i} : provides'[j] = provides[j]
  BY DEF GiveBack, PtrInv
<1>2. \A j \in Owned(held, borrowed') : j \in Instances /\ Exists(j) /\ provides'[j] = provides[j]
  BY <1>1 DEF Owned, PtrInv, AllExist
<1>3. AllExist'
  BY <1>1, <1>2 DEF AllExist, Exists
<1>4. ASSUME NEW r \in Ptrs PROVE PtrSound(r)'
  <2>1. PtrSound(r)
    BY DEF PtrInv
  <2>2. held[r] # Null => provides'[held[r]] = provides[held[r]]
    BY <1>2 DEF Owned
  <2> QED
    BY <1>1, <2>1, <2>2 DEF PtrSound, Follows
<1> QED
  BY <1>1, <1>3, <1>4 DEF PtrInv

LEMMA PointerStep == PtrInv /\ PtrStep => PtrInv'
<1> SUFFICES ASSUME PtrInv, PtrStep PROVE PtrInv'
  OBVIOUS
<1>1. ASSUME NEW p \in Ptrs, DefaultConstruct(p) PROVE PtrInv'
  <2>1. DOMAIN life' = Ptrs /\ life'[p] = "live" /\ \A q \in Ptrs \ {p} : life'[q] = life[q]
    BY <1>1 DEF DefaultConstruct, PtrInv
  <2> QED
    BY <1>1, <2>1, NewFollows, WrapperSet DEF DefaultConstruct
<1>2. ASSUME NEW p \in Ptrs, Clear(p) PROVE PtrInv'
  <2>1. DOMAIN life' = Ptrs /\ life'[p] = "live" /\ \A q \in Ptrs \ {p} : life'[q] = life[q]
    BY <1>2 DEF Clear, PtrInv
  <2>2. Special[p] \subseteq DOMAIN entries[p]
    BY <1>2 DEF Clear, PtrInv, PtrSound
  <2>3. SetWrapper(p, Null, ClearedEntries(entries[p]), provides)
    BY <1>2 DEF Clear
  <2> QED
    BY <2>1, <2>2, <2>3, NullFollows, WrapperSet
<1>3. ASSUME NEW p \in Ptrs, Destroy(p) PROVE PtrInv'
  <2>1. DOMAIN life' = Ptrs /\ life'[p] = "none" /\ \A q \in Ptrs \ {p} : life'[q] = life[q]
    BY <1>3 DEF Destroy, PtrInv
  <2>2. SetWrapper(p, Null, NoEntries, provides) /\ DOMAIN NoEntries = {}
    BY <1>3 DEF Destroy, NoEntries
  <2> QED
    BY <2>1, <2>2, WrapperSet
<1>4. ASSUME NEW p \in Ptrs, NEW q \in Ptrs, CopyConstruct(p, q) PROVE PtrInv'
  <2>1. /\ DOMAIN life' = Ptrs /\ life'[p] = "live" /\ \A r \in Ptrs \ {p} : life'[r] = life[r]
        /\ life[q] = "live" /\ CopyInto(p, q, NewEntries(p))
    BY <1>4 DEF CopyConstruct, PtrInv
  <2>2. Special[p] \subseteq DOMAIN NewEntries(p)
    BY NewFollows
  <2> QED
    BY <2>1, <2>2, CopiedInto
<1>5. ASSUME NEW p \in Ptrs, NEW q \in Ptrs, CopyAssign(p, q) PROVE PtrInv'
  <2>1. life[p] = "live" /\ life[q] = "live" /\ life' = life /\ CopyInto(p, q, entries[p])
    BY <1>5 DEF CopyAssign
  <2>2. DOMAIN life = Ptrs /\ Special[p] \subseteq DOMAIN entries[p]
    BY <2>1 DEF PtrInv, PtrSound
  <2> QED
    BY <2>1, <2>2, CopiedInto
<1>6. ASSUME NEW p \in Ptrs, NEW q \in Ptrs, Move(p, q) PROVE PtrInv'
  BY <1>6, MoveStep
<1>7. ASSUME NEW p \in Ptrs, NEW f \in Interfaces, Borrow(p, f) PROVE PtrInv'
  <2>1. /\ life[p] = "live" /\ entries[p][f] # Null /\ f \in DOMAIN entries[p]
        /\ borrowed' = borrowed \cup {held[p]}
        /\ life' = life /\ held' = held /\ entries' = entries /\ provides' = provides
    BY <1>7 DEF Borrow, QueryInterface
  <2>2. held[p] # Null
    BY <2>1 DEF PtrInv, PtrSound, Follows
  <2>3. Owned(held, borrowed') = Owned(held, borrowed)
    BY <2>1, <2>2 DEF Owned
  <2>4. AllExist' /\ \A r \in Ptrs : PtrSound(r)'
    BY <2>1, <2>3 DEF PtrInv, AllExist, Exists, PtrSound, Follows
  <2> QED
    BY <2>1, <2>4 DEF PtrInv
<1>8. ASSUME NEW i \in Instances, GiveBack(i) PROVE PtrInv'
  BY <1>8, GiveBackStep
<1> QED
  BY <1>1, <1>2, <1>3, <1>4, <1>5, <1>6, <1>7, <1>8 DEF PtrStep
-----------------------------------------------------------------------------
(* The registry.                                                           *)

Found(path) == {Normalized(i) : i \in LoadPlugins(Library[path])}

Has(path, n) == \E i \in Found(path) : i.name = n

\* What the registry knows, and from which library.
RegistryInv ==
  /\ opened \in Seq(Paths)
  /\ \A n : n \in DOMAIN plugins <=> \E k \in 1 .. Len(opened) : Has(opened[k], n)
  /\ \A n \in DOMAIN plugins : \A k \in 1 .. Len(opened) :
       Has(opened[k], n) /\ (\A j \in 1 .. k - 1 : ~Has(opened[j], n)) =>
         [name |-> n, interfaces |-> plugins[n]] \in Found(opened[k])

LEMMA FoundIsInfo ==
  ASSUME NEW path, NEW i \in Found(path)
  PROVE  i = [name |-> i.name, interfaces |-> i.interfaces]
  BY DEF Found, Normalized

LEMMA InsertedIs ==
  ASSUME NEW path, NEW map
  PROVE  LET after == Inserted(map, Found(path)) IN
         /\ \A n : n \in DOMAIN after <=> n \in DOMAIN map \/ Has(path, n)
         /\ \A n \in DOMAIN map : after[n] = map[n]
         /\ \A n \in DOMAIN after : n \notin DOMAIN map =>
              [name |-> n, interfaces |-> after[n]] \in Found(path)
<1> DEFINE after == Inserted(map, Found(path))
<1>1. DOMAIN after = DOMAIN map \cup {i.name : i \in Found(path)}
  BY DEF Inserted
<1>2. \A n : n \in DOMAIN after <=> n \in DOMAIN map \/ Has(path, n)
  BY <1>1 DEF Has
<1>3. \A n \in DOMAIN map : after[n] = map[n]
  BY DEF Inserted
<1>4. ASSUME NEW n \in DOMAIN after, n \notin DOMAIN map
      PROVE  [name |-> n, interfaces |-> after[n]] \in Found(path)
  <2>1. after[n] = (CHOOSE i \in Found(path) : i.name = n).interfaces
    BY <1>1, <1>4 DEF Inserted
  <2>2. PICK i \in Found(path) : i.name = n /\ after[n] = i.interfaces
    BY <1>2, <1>4, <2>1 DEF Has
  <2>3. i = [name |-> i.name, interfaces |-> i.interfaces]
    BY FoundIsInfo
  <2> QED
    BY <2>2, <2>3
<1> QED
  BY <1>2, <1>3, <1>4

LEMMA RegistryStep ==
  ASSUME RegistryInv, NEW path \in Paths, LoadLibrary(path)
  PROVE  RegistryInv'
<1>1. plugins' = Inserted(plugins, Found(path))
  BY DEF LoadLibrary, Found
<1>2. /\ \A n : n \in DOMAIN plugins' <=> n \in DOMAIN plugins \/ Has(path, n)
      /\ \A n \in DOMAIN plugins : plugins'[n] = plugins[n]
      /\ \A n \in DOMAIN plugins' : n \notin DOMAIN plugins =>
           [name |-> n, interfaces |-> plugins'[n]] \in Found(path)
  BY <1>1, InsertedIs
<1>3. opened \in Seq(Paths)
  BY DEF RegistryInv
<1>4. CASE \E k \in DOMAIN opened : opened[k] = path
  <2>1. opened' = opened
    BY <1>4 DEF LoadLibrary
  <2>2. \A n : Has(path, n) => n \in DOMAIN plugins
    BY <1>3, <1>4 DEF RegistryInv
  <2>3. \A n : n \in DOMAIN plugins' <=> n \in DOMAIN plugins
    BY <1>2, <2>2
  <2> QED
    BY <1>2, <2>1, <2>3 DEF RegistryInv
<1>5. CASE ~\E k \in DOMAIN opened : opened[k] = path
  <2> PICK last : last = Len(opened) + 1
    OBVIOUS
  <2>1. opened' = Append(opened, path)
    BY <1>5 DEF LoadLibrary
  <2>2. /\ opened' \in Seq(Paths) /\ Len(opened) \in Nat /\ Len(opened') = last
        /\ opened'[last] = path /\ \A k \in 1 .. Len(opened) : opened'[k] = opened[k]
    BY <1>3, <2>1
  <2>3. \A k \in 1 .. Len(opened') : k \in 1 .. Len(opened) \/ k = last
    BY <2>2
  <2>4. last \in 1 .. Len(opened') /\ \A k \in 1 .. Len(opened) : k \in 1 .. last - 1 /\ k \in 1 .. Len(opened')
    BY <2>2
  <2>5. ASSUME NEW n
        PROVE  n \in DOMAIN plugins' <=> \E k \in 1 .. Len(opened') : Has(opened'[k], n)
    <3>1. n \in DOMAIN plugins <=> \E k \in 1 .. Len(opened) : Has(opened[k], n)
      BY DEF RegistryInv
    <3>2. CASE \E k \in 1 .. Len(opened) : Has(opened[k], n)
      <4>1. PICK k \in 1 .. Len(opened) : Has(opened[k], n)
        BY <3>2
      <4>2. k \in 1 .. Len(opened') /\ opened'[k] = opened[k]
        BY <2>2, <2>4
      <4>3. Has(opened'[k], n)
        BY <4>1, <4>2
      <4> QED
        BY <1>2, <3>1, <3>2, <4>2, <4>3
    <3>3. CASE ~\E k \in 1 .. Len(opened) : Has(opened[k], n)
      <4>1. \A k \in 1 .. Len(opened') : Has(opened'[k], n) => k = last
        BY <2>2, <2>3, <3>3
      <4>2. Has(opened'[last], n) <=> Has(path, n)
        BY <2>2
      <4> QED
        BY <1>2, <2>4, <3>1, <3>3, <4>1, <4>2
    <3> QED
      BY <3>2, <3>3
  <2>6. ASSUME NEW n \in DOMAIN plugins', NEW k \in 1 .. Len(opened'),
               Has(opened'[k], n), \A j \in 1 .. k - 1 : ~Has(opened'[j], n)
        PROVE  [name |-> n, interfaces |-> plugins'[n]] \in Found(opened'[k])
    <3>1. CASE n \in DOMAIN plugins
      <4>1. PICK j \in 1 .. Len(opened) : Has(opened[j], n)
        BY <3>1 DEF RegistryInv
      <4>2. k # last
        BY <2>2, <2>4, <2>6, <4>1
      <4>3. k \in 1 .. Len(opened)
        BY <2>3, <4>2
      <4>4. opened'[k] = opened[k] /\ \A i \in 1 .. k - 1 : opened'[i] = opened[i]
        BY <2>2, <4>3
      <4>5. Has(opened[k], n) /\ \A i \in 1 .. k - 1 : ~Has(opened[i], n)
        BY <2>6, <4>4
      <4>6. [name |-> n, interfaces |-> plugins[n]] \in Found(opened[k])
        BY <3>1, <4>3, <4>5 DEF RegistryInv
      <4> QED
        BY <1>2, <3>1, <4>4, <4>6
    <3>2. CASE n \notin DOMAIN plugins
      <4>1. [name |-> n, interfaces |-> plugins'[n]] \in Found(path)
        BY <1>2, <3>2
      <4>2. \A j \in 1 .. Len(opened) : ~Has(opened[j], n)
        BY <3>2 DEF RegistryInv
      <4>3. k = last
        BY <2>2, <2>3, <2>6, <4>2
      <4> QED
        BY <2>2, <4>1, <4>3
    <3> QED
      BY <3>1, <3>2
  <2> QED
    BY <2>2, <2>5, <2>6 DEF RegistryInv
<1> QED
  BY <1>4, <1>5
-----------------------------------------------------------------------------
LoaderInv == PtrInv /\ RegistryInv

\* What pointers, instances and the registry satisfy, always.
THEOREM LoaderInvariant == LoaderSpec => []LoaderInv
<1>1. LoaderInit => LoaderInv
  <2> SUFFICES ASSUME LoaderInit PROVE LoaderInv
    OBVIOUS
  <2>1. PtrInv
    BY DEF LoaderInit, PtrInit, PtrInv, AllExist, Owned, PtrSound, NoEntries
  <2>2. DOMAIN plugins = {} /\ opened = <<>> /\ opened \in Seq(Paths) /\ Len(opened) = 0
    BY DEF LoaderInit
  <2>3. RegistryInv
    BY <2>2 DEF RegistryInv
  <2> QED
    BY <2>1, <2>3 DEF LoaderInv
<1>2. LoaderInv /\ [LoaderNext]_loaderVars => LoaderInv'
  <2> SUFFICES ASSUME LoaderInv, [LoaderNext]_loaderVars PROVE LoaderInv'
    OBVIOUS
  <2>1. PtrInv /\ RegistryInv
    BY DEF LoaderInv
  <2>2. ASSUME UNCHANGED ptrVars PROVE PtrInv'
    BY <2>1, <2>2 DEF ptrVars, PtrInv, AllExist, Owned, Exists, PtrSound, Follows
  <2>3. ASSUME UNCHANGED <<plugins, opened>> PROVE RegistryInv'
    BY <2>1, <2>3 DEF RegistryInv
  <2>4. ASSUME NEW path \in Paths, LoadLibrary(path) PROVE LoaderInv'
    BY <2>1, <2>2, <2>4, RegistryStep DEF LoadLibrary, LoaderInv
  <2>5. ASSUME NEW p \in Ptrs, NEW name \in Names, Instantiate(p, name) PROVE LoaderInv'
    BY <2>1, <2>3, <2>5, ConstructStep DEF Instantiate, LoaderInv
  <2>6. ASSUME PtrStep, UNCHANGED <<plugins, opened>> PROVE LoaderInv'
    BY <2>1, <2>3, <2>6, PointerStep DEF LoaderInv
  <2>7. CASE UNCHANGED loaderVars
    BY <2>2, <2>3, <2>7 DEF loaderVars, LoaderInv
  <2> QED
    BY <2>4, <2>5, <2>6, <2>7 DEF LoaderNext
<1> QED
  BY <1>1, <1>2, PTL DEF LoaderSpec

\* Whatever a pointer held before, was copied, cast or moved from, its entries
\* are those of its instance, none points into another, and none that an
\* iterator of its type may point to is erased (PluginPrivate::Clear and
\* Initialize, SpecializedPlugin).
THEOREM PointersAlwaysOfferTheirInstance == LoaderSpec => []PointersOfferTheirInstance
<1>1. LoaderInv => PointersOfferTheirInstance
  <2> SUFFICES ASSUME LoaderInv PROVE PointersOfferTheirInstance
    OBVIOUS
  <2>1. ASSUME NEW p \in Ptrs, life[p] = "live"
        PROVE  /\ Special[p] \subseteq DOMAIN entries[p]
               /\ Follows(entries[p], held[p], provides[held[p]])
    BY <2>1 DEF LoaderInv, PtrInv, PtrSound
  <2>2. EntriesFollowInstance
    BY <2>1 DEF EntriesFollowInstance, Follows
  <2>3. SpecialEntriesStay
    BY <2>1 DEF SpecialEntriesStay
  <2> QED
    BY <2>2, <2>3 DEF PointersOfferTheirInstance
<1> QED
  BY <1>1, LoaderInvariant, PTL

\* An instance is there as long as a pointer has it or a client keeps one of
\* its interfaces, and the registry says of a plugin what the first library
\* that had it said, however often and in whatever order libraries are opened
\* (the shared_ptr of the wrapper, PluginLoader::LoadLibrary).
THEOREM PluginsAlwaysOutliveTheirUsers == LoaderSpec => []PluginsOutliveTheirUsers
<1>1. LoaderInv => PluginsOutliveTheirUsers
  <2> SUFFICES ASSUME LoaderInv PROVE PluginsOutliveTheirUsers
    OBVIOUS
  <2>1. \A i \in Owned(held, borrowed) : Exists(i)
    BY DEF LoaderInv, PtrInv, AllExist
  <2>2. \A i \in borrowed : Exists(i)
    BY <2>1 DEF Owned
  <2>3. ASSUME NEW p \in Ptrs, NEW f \in DOMAIN entries[p], entries[p][f] # Null
        PROVE  Exists(entries[p][f])
    <3>1. PtrSound(p)
      BY DEF LoaderInv, PtrInv
    <3>2. entries[p][f] = held[p] /\ held[p] # Null
      BY <2>3, <3>1 DEF PtrSound, Follows
    <3> QED
      BY <2>1, <3>2 DEF Owned
  <2>4. RegistryIsFirstCome
    <3>1. /\ opened \in Seq(Paths)
          /\ \A n : n \in DOMAIN plugins <=> \E k \in 1 .. Len(opened) : Has(opened[k], n)
          /\ \A n \in DOMAIN plugins : \A k \in 1 .. Len(opened) :
               Has(opened[k], n) /\ (\A j \in 1 .. k - 1 : ~Has(opened[j], n)) =>
                 [name |-> n, interfaces |-> plugins[n]] \in Found(opened[k])
      BY DEF LoaderInv, RegistryInv
    <3>2. DOMAIN opened = 1 .. Len(opened)
      BY <3>1
    <3>3. DOMAIN plugins = UNION {{i.name : i \in Found(opened[k])} : k \in DOMAIN opened}
      <4>1. \A n : \A k \in DOMAIN opened : Has(opened[k], n) <=> n \in {i.name : i \in Found(opened[k])}
        BY DEF Has
      <4> QED
        BY <3>1, <3>2, <4>1, Zenon
    <3> QED
      BY <3>1, <3>2, <3>3 DEF RegistryIsFirstCome, Found, Has
  <2> QED
    BY <2>2, <2>3, <2>4 DEF PluginsOutliveTheirUsers, InstancesOutliveUsers
<1> QED
  BY <1>1, LoaderInvariant, PTL

-----------------------------------------------------------------------------
(***************************************************************************)
(* MovingWindowFilter, for any sizes from 1 and any integers:  a ring      *)
(* buffer and its running sum do what the sequence of the latest values    *)
(* does.                                                                   *)
(***************************************************************************)

RingInv == TypeOK /\ RingInOrder

\* The inductive step of RingInv.
LEMMA RingStep == RingInv /\ [Next]_vars => RingInv'
<1> SUFFICES ASSUME RingInv, [Next]_vars PROVE RingInv'
  OBVIOUS
<1> USE FilterAssumption DEF RingInv, TypeOK, RingInOrder, WindowFilled
<1>1. ASSUME NEW v \in Values, Update(v) PROVE RingInv'
  <2> USE DEF Update, NextIter, Wrap, Full
  <2>1. v \in Int /\ NextIter \in 0 .. valWindowSize - 1
    OBVIOUS
  <2>2. TypeOK'
    BY <1>1, <2>1
  <2>3. RingInOrder'
    <3> SUFFICES ASSUME ~WindowFilled'
                 PROVE  /\ valIter' = samples'
                        /\ \A i \in DOMAIN valHistory' :
                             i = 0 \/ i > samples' => valHistory'[i] = 0
      OBVIOUS
    <3>1. samples' = samples + 1 /\ samples + 1 < valWindowSize
      BY <1>1
    <3>2. valIter = samples /\ NextIter = samples + 1
      BY <3>1
    <3> QED
      BY <1>1, <3>1, <3>2
  <2> QED
    BY <2>2, <2>3
<1>2. ASSUME NEW n \in Sizes, SetWindowSize(n) PROVE RingInv'
  BY <1>2 DEF SetWindowSize, Zeros
<1>3. CASE UNCHANGED vars
  BY <1>3 DEF vars
<1> QED
  BY <1>1, <1>2, <1>3 DEF Next

\* The iterator stays inside the ring, the samples within the window, and an
\* unfilled ring is zero where the filter has not been.
THEOREM RingCorrect == Spec => []RingInv
<1>1. Init => RingInv
  BY FilterAssumption
     DEF Init, RingInv, TypeOK, RingInOrder, WindowFilled, Zeros
<1> QED
  BY <1>1, RingStep, PTL DEF Spec

\* The type invariant alone.
THEOREM TypeCorrect == Spec => []TypeOK
  BY RingCorrect, PTL DEF RingInv

\* The ring is in order at all times.
THEOREM RingAlwaysInOrder == Spec => []RingInOrder
  BY RingCorrect, PTL DEF RingInv

\* The running sum changes by what the ring changes, in every Update.
THEOREM SumIsExact == Spec => SumFollowsRing
<1>1. RingInv /\ [Next]_vars =>
        [(\E v \in Values : Update(v)) =>
           \E i \in DOMAIN valHistory :
             /\ \A j \in DOMAIN valHistory \ {i} : valHistory'[j] = valHistory[j]
             /\ sum' - sum = valHistory'[i] - valHistory[i]]_vars
  <2> SUFFICES ASSUME RingInv, NEW v \in Values, Update(v)
               PROVE  \E i \in DOMAIN valHistory :
                        /\ \A j \in DOMAIN valHistory \ {i} :
                             valHistory'[j] = valHistory[j]
                        /\ sum' - sum = valHistory'[i] - valHistory[i]
    OBVIOUS
  <2> USE FilterAssumption DEF RingInv, TypeOK, RingInOrder, WindowFilled
  <2>1. NextIter \in DOMAIN valHistory /\ v \in Int
    BY DEF NextIter, Wrap
  <2>2. /\ \A j \in DOMAIN valHistory \ {NextIter} : valHistory'[j] = valHistory[j]
        /\ valHistory'[NextIter] = v
    BY <2>1 DEF Update
  <2>3. CASE Full
    <3>1. sum' - sum = v - valHistory[NextIter]
      BY <2>1, <2>3 DEF Update
    <3> QED
      BY <2>1, <2>2, <3>1
  <2>4. CASE ~Full
    <3>1. valHistory[NextIter] = 0
      BY <2>1, <2>4 DEF Full, NextIter, Wrap
    <3>2. sum' - sum = v
      BY <2>1, <2>4 DEF Update
    <3> QED
      BY <2>1, <2>2, <3>1, <3>2
  <2> QED
    BY <2>3, <2>4
<1> QED
  BY <1>1, RingCorrect, PTL DEF Spec, SumFollowsRing
-----------------------------------------------------------------------------
(* Sums.  The prover has no induction over sequences:  a least             *)
(* counterexample among the natural numbers takes its place.               *)

\* A set of natural numbers that is not empty has a least element.
LEMMA LeastNat ==
  ASSUME NEW S \in SUBSET Nat, S # {}
  PROVE  \E x \in S : \A y \in S : x <= y
<1>1. PICK x \in S : \A y \in S : <<y, x>> \notin OpToRel(<, Nat)
  BY NatLessThanWellFounded, WFMin, Zenon
<1>2. ASSUME NEW y \in S, y < x PROVE FALSE
  <2>1. <<y, x>> \in OpToRel(<, Nat)
    BY <1>2 DEF OpToRel
  <2> QED
    BY <1>1, <2>1
<1> QED
  BY <1>2

\* p has the sums of the first elements of s, up to the first n of them.
SumsUpTo(p, s, n) == p[0] = 0 /\ \A i \in 1 .. n : p[i] = p[i - 1] + s[i]

\* Every sequence of integers has them,
LEMMA SumsExist ==
  ASSUME NEW s \in Seq(Int)
  PROVE  \E p \in [0 .. Len(s) -> Int] : SumsUpTo(p, s, Len(s))
<1> DEFINE Summed(n) == \E p \in [0 .. n -> Int] : SumsUpTo(p, s, n)
           Fails  == {n \in 0 .. Len(s) : ~Summed(n)}
<1>1. SUFFICES ASSUME Fails # {} PROVE FALSE
  <2>1. Len(s) \in 0 .. Len(s)
    OBVIOUS
  <2> QED
    BY <2>1
<1>2. PICK n \in Fails : \A m \in Fails : n <= m
  <2>1. Fails \in SUBSET Nat
    OBVIOUS
  <2> QED
    BY <1>1, <2>1, LeastNat
<1>3. n \in 1 .. Len(s) /\ n - 1 \in 0 .. Len(s) /\ n - 1 \notin Fails
  <2>1. Summed(0)
    <3>1. SumsUpTo([i \in 0 .. 0 |-> 0], s, 0)
      BY DEF SumsUpTo
    <3> QED
      BY <3>1
  <2>2. n \in 0 .. Len(s) /\ Len(s) \in Nat /\ ~Summed(n)
    BY <1>2
  <2> HIDE DEF Fails, Summed
  <2>3. n - 1 \notin Fails
    BY <1>2, <2>2
  <2>4. n # 0
    BY <2>1, <2>2
  <2> QED
    BY <2>2, <2>3, <2>4
<1>4. PICK p \in [0 .. n - 1 -> Int] : SumsUpTo(p, s, n - 1)
  BY <1>3
<1> DEFINE q == [i \in 0 .. n |-> IF i = n THEN p[n - 1] + s[n] ELSE p[i]]
<1>5. q \in [0 .. n -> Int]
  <2>1. s[n] \in Int /\ p[n - 1] \in Int
    BY <1>3, <1>4
  <2> QED
    BY <1>3, <1>4, <2>1
<1>6. SumsUpTo(q, s, n)
  <2>1. n \in Nat \ {0} /\ p[0] = 0 /\ \A i \in 1 .. n - 1 : p[i] = p[i - 1] + s[i]
    BY <1>3, <1>4 DEF SumsUpTo
  <2>2. q[0] = 0
    BY <2>1
  <2>3. ASSUME NEW i \in 1 .. n PROVE q[i] = q[i - 1] + s[i]
    <3>1. i \in 0 .. n /\ i - 1 \in 0 .. n /\ i - 1 # n
      BY <2>1
    <3>2. q[i - 1] = p[i - 1]
      BY <3>1
    <3>3. CASE i = n
      BY <3>1, <3>2, <3>3
    <3>4. CASE i # n
      <4>1. i \in 1 .. n - 1
        BY <2>1, <3>4
      <4> QED
        BY <2>1, <3>1, <3>2, <3>4, <4>1
    <3> QED
      BY <3>3, <3>4
  <2> QED
    BY <2>2, <2>3 DEF SumsUpTo
<1> QED
  BY <1>2, <1>5, <1>6

\* and only these,
LEMMA SumsAreUnique ==
  ASSUME NEW s, NEW n \in Nat, NEW p, NEW q,
         SumsUpTo(p, s, n), SumsUpTo(q, s, n)
  PROVE  p[n] = q[n]
<1> DEFINE Differ == {i \in 0 .. n : p[i] # q[i]}
<1>1. n \in 0 .. n /\ Differ \in SUBSET Nat
  OBVIOUS
<1>2. SUFFICES ASSUME Differ # {} PROVE FALSE
  BY <1>1
<1>3. PICK i \in Differ : \A j \in Differ : i <= j
  BY <1>1, <1>2, LeastNat
<1>4. i \in 1 .. n /\ i - 1 \in 0 .. n
  BY <1>3 DEF SumsUpTo
<1>5. p[i - 1] = q[i - 1]
  BY <1>3, <1>4
<1> QED
  BY <1>3, <1>4, <1>5 DEF SumsUpTo

\* and the sum of the whole is the last of them.
LEMMA SumIsLast ==
  ASSUME NEW s \in Seq(Int), NEW p \in [0 .. Len(s) -> Int],
         SumsUpTo(p, s, Len(s))
  PROVE  Window!Sum(s) = p[Len(s)]
<1> DEFINE f == CHOOSE g : g = [i \in 0 .. Len(s) |->
                                  IF i = 0 THEN 0 ELSE g[i - 1] + s[i]]
<1>1. p = [i \in 0 .. Len(s) |-> IF i = 0 THEN 0 ELSE p[i - 1] + s[i]]
  BY DEF SumsUpTo
<1>2. f = [i \in 0 .. Len(s) |-> IF i = 0 THEN 0 ELSE f[i - 1] + s[i]]
  BY <1>1
<1>3. Window!Sum(s) = f[Len(s)]
  BY DEF Window!Sum
<1>4. SumsUpTo(f, s, Len(s))
  <2>1. Len(s) \in Nat
    OBVIOUS
  <2> HIDE DEF f
  <2> QED
    BY <1>2, <2>1 DEF SumsUpTo
<1> QED
  BY <1>3, <1>4, SumsAreUnique

LEMMA SumOfNone == Window!Sum(<<>>) = 0
<1>1. SumsUpTo([i \in 0 .. 0 |-> 0], <<>>, 0)
  BY DEF SumsUpTo
<1>2. <<>> \in Seq(Int) /\ Len(<<>>) = 0 /\ [i \in 0 .. 0 |-> 0] \in [0 .. 0 -> Int]
  OBVIOUS
<1>3. Window!Sum(<<>>) = [i \in 0 .. 0 |-> 0][0]
  BY <1>1, <1>2, SumIsLast
<1> QED
  BY <1>3

\* One more element adds to the sum,
LEMMA SumOfAppend ==
  ASSUME NEW s \in Seq(Int), NEW v \in Int
  PROVE  Window!Sum(s) \in Int /\ Window!Sum(Append(s, v)) = Window!Sum(s) + v
<1> DEFINE t == Append(s, v)
           n == Len(s)
<1>1. PICK p \in [0 .. Len(t) -> Int] : SumsUpTo(p, t, Len(t))
  <2>1. t \in Seq(Int)
    OBVIOUS
  <2> QED
    BY <2>1, SumsExist, Zenon
<1>2. n \in Nat /\ Len(t) = n + 1 /\ t[n + 1] = v /\ \A i \in 1 .. n : t[i] = s[i]
  OBVIOUS
<1> DEFINE q == [i \in 0 .. n |-> p[i]]
<1>3. q \in [0 .. n -> Int] /\ SumsUpTo(q, s, n)
  BY <1>1, <1>2 DEF SumsUpTo
<1>4. Window!Sum(s) = q[n]
  BY <1>3, SumIsLast, Zenon
<1>5. Window!Sum(t) = p[n + 1]
  BY <1>1, <1>2, SumIsLast
<1>6. q[n] = p[n] /\ p[n] \in Int /\ p[n + 1] = p[n] + v
  <2>1. n \in 0 .. n /\ n \in 0 .. Len(t) /\ n + 1 \in 1 .. Len(t)
    BY <1>2
  <2> HIDE DEF t, n
  <2>2. q[n] = p[n] /\ p[n] \in Int
    BY <1>1, <2>1
  <2>3. p[n + 1] = p[(n + 1) - 1] + t[n + 1]
    BY <1>1, <2>1, Zenon DEF SumsUpTo
  <2>4. (n + 1) - 1 = n
    BY <2>1
  <2> QED
    BY <1>2, <2>2, <2>3, <2>4
<1> QED
  BY <1>4, <1>5, <1>6

\* and the first one takes its part of it away when it leaves.
LEMMA SumOfTail ==
  ASSUME NEW s \in Seq(Int), s # <<>>
  PROVE  Window!Sum(Tail(s)) = Window!Sum(s) - s[1]
<1> DEFINE t == Tail(s)
           n == Len(t)
<1>1. PICK p \in [0 .. Len(s) -> Int] : SumsUpTo(p, s, Len(s))
  BY SumsExist
<1>2. /\ n \in Nat /\ Len(s) = n + 1 /\ \A i \in 1 .. n : t[i] = s[i + 1]
      /\ t \in Seq(Int) /\ s[1] \in Int
  OBVIOUS
<1> DEFINE q == [i \in 0 .. n |-> p[i + 1] - s[1]]
<1>3. q \in [0 .. n -> Int] /\ SumsUpTo(q, t, n)
  <2>1. \A i \in 0 .. n + 1 : p[i] \in Int
    BY <1>1, <1>2
  <2>2. \A i \in 1 .. n : p[i + 1] = p[i] + t[i]
    BY <1>1, <1>2, <2>1 DEF SumsUpTo
  <2>3. p[1] = s[1]
    BY <1>1, <1>2 DEF SumsUpTo
  <2>4. \A i \in 1 .. n : t[i] \in Int
    BY <1>2
  <2> HIDE DEF t, n
  <2>5. q \in [0 .. n -> Int] /\ q[0] = 0
    BY <1>2, <2>1, <2>3
  <2>6. ASSUME NEW i \in 1 .. n PROVE q[i] = q[i - 1] + t[i]
    <3>1. q[i] = p[i + 1] - s[1] /\ q[i - 1] = p[i] - s[1]
      BY <1>2
    <3>2. p[i] \in Int /\ p[i + 1] = p[i] + t[i] /\ t[i] \in Int
      BY <1>2, <2>1, <2>2, <2>4
    <3>3. s[1] \in Int
      BY <1>2
    <3> HIDE DEF q
    <3> QED
      BY <3>1, <3>2, <3>3
  <2> QED
    BY <2>5, <2>6 DEF SumsUpTo
<1>4. Window!Sum(t) = q[n]
  BY <1>2, <1>3, SumIsLast, Zenon
<1>5. Window!Sum(s) = p[n + 1]
  BY <1>1, <1>2, SumIsLast
<1>6. q[n] = p[n + 1] - s[1]
  BY <1>2
<1> QED
  BY <1>4, <1>5, <1>6
-----------------------------------------------------------------------------
(* The refinement of MovingWindow.                                         *)

\* The values the window holds, the latest last.
Held == [i \in 1 .. samples |-> Recent(samples - i)]

\* What the refinement needs: the running sum is that of the values held.
WindowInv == RingInv /\ sum = Window!Sum(Held)

\* Recent(k) after a step.
Newest(k) == valHistory'[(valIter' - k) % valWindowSize']

\* Counting back from the iterator goes around the ring at most once.
LEMMA SlotOf ==
  ASSUME NEW n \in Nat \ {0}, NEW at \in 0 .. n - 1, NEW k \in 0 .. n - 1
  PROVE  (at - k) % n = IF k <= at THEN at - k ELSE at - k + n
<1> DEFINE a == at - k
<1>1. a \in Int /\ -n < a /\ a < n
  OBVIOUS
<1>2. a % n = IF a < 0 THEN a + n ELSE a
  BY <1>1
<1> QED
  BY <1>2

\* A function with the domain and the values of a sequence is that sequence.
LEMMA SameSequence ==
  ASSUME NEW s \in Seq(Int), NEW f, f = [i \in 1 .. Len(s) |-> f[i]],
         \A i \in 1 .. Len(s) : f[i] = s[i]
  PROVE  f = s
  OBVIOUS

\* What is held are integers.
LEMMA HeldType == ASSUME RingInv PROVE Held \in Seq(Int) /\ Len(Held) = samples
<1>1. samples \in Nat
  BY DEF RingInv, TypeOK
<1>2. ASSUME NEW k \in 0 .. samples - 1 PROVE Recent(k) \in Int
  <2>1. (valIter - k) % valWindowSize \in 0 .. valWindowSize - 1
    BY DEF RingInv, TypeOK
  <2> QED
    BY <2>1 DEF RingInv, TypeOK, Recent
<1> QED
  BY <1>1, <1>2 DEF Held

\* Where Update writes, and where everything else is found after it.
LEMMA UpdateRing ==
  ASSUME RingInv, NEW v \in Values, Update(v)
  PROVE  /\ Newest(0) = v
         /\ \A k \in 1 .. valWindowSize - 1 : Newest(k) = Recent(k - 1)
         /\ Recent(valWindowSize - 1) = valHistory[NextIter]
<1> DEFINE n == valWindowSize
<1>1. /\ n \in Nat \ {0} /\ valIter \in 0 .. n - 1 /\ n' = n
      /\ valHistory \in [0 .. n - 1 -> Int]
      /\ valIter' = NextIter
      /\ valHistory' = [valHistory EXCEPT ![NextIter] = v]
  BY DEF RingInv, TypeOK, Update
<1>2. NextIter \in 0 .. n - 1 /\ NextIter = IF valIter = n - 1 THEN 0 ELSE valIter + 1
  BY <1>1 DEF NextIter, Wrap
<1>3. \A k \in 0 .. n - 1 :
         (valIter - k) % n = IF k <= valIter THEN valIter - k ELSE valIter - k + n
  BY <1>1, SlotOf
<1>4. \A k \in 0 .. n - 1 :
         (NextIter - k) % n = IF k <= NextIter THEN NextIter - k ELSE NextIter - k + n
  BY <1>1, <1>2, SlotOf
<1>5. \A k \in 0 .. n - 1 : Newest(k) = valHistory'[(NextIter - k) % n]
  BY <1>1 DEF Newest
<1> HIDE DEF n
<1>6. Newest(0) = v
  BY <1>1, <1>2, <1>4, <1>5
<1>7. ASSUME NEW k \in 1 .. n - 1 PROVE Newest(k) = Recent(k - 1)
  <2>1. /\ (NextIter - k) % n = (valIter - (k - 1)) % n
        /\ (NextIter - k) % n # NextIter
        /\ (NextIter - k) % n \in 0 .. n - 1
    <3>1. k \in 0 .. n - 1 /\ k - 1 \in 0 .. n - 1
      BY <1>1
    <3>2. /\ (valIter - (k - 1)) % n =
               IF k - 1 <= valIter THEN valIter - (k - 1)
                                   ELSE valIter - (k - 1) + n
          /\ (NextIter - k) % n = IF k <= NextIter THEN NextIter - k
                                                   ELSE NextIter - k + n
      BY <1>3, <1>4, <3>1
    <3>3. CASE valIter = n - 1
      <4>1. NextIter = 0 /\ k - 1 <= valIter /\ ~(k <= NextIter)
        BY <1>1, <1>2, <3>3
      <4>2. (NextIter - k) % n = n - k /\ (valIter - (k - 1)) % n = n - k
        BY <1>1, <3>2, <3>3, <4>1
      <4> QED
        BY <1>1, <4>1, <4>2
    <3>4. CASE valIter # n - 1
      <4>1. NextIter = valIter + 1 /\ (k <= NextIter <=> k - 1 <= valIter)
        BY <1>1, <1>2, <3>4
      <4>2. (NextIter - k) % n = (valIter - (k - 1)) % n
        BY <1>1, <3>2, <4>1
      <4>3. (NextIter - k) % n \in 0 .. n - 1 /\ (NextIter - k) % n # NextIter
        BY <1>1, <1>2, <3>2, <4>1
      <4> QED
        BY <4>2, <4>3
    <3> QED
      BY <3>3, <3>4
  <2>2. Newest(k) = valHistory[(NextIter - k) % n]
    BY <1>1, <1>2, <1>5, <2>1
  <2> QED
    BY <2>1, <2>2 DEF Recent, n
<1>8. (valIter - (n - 1)) % n = NextIter
  BY <1>1, <1>2, <1>3
<1> QED
  BY <1>6, <1>7, <1>8 DEF Recent, n

\* Update gives the window one value more, and takes the oldest when it is full.
LEMMA UpdateHeld ==
  ASSUME RingInv, NEW v \in Values, Update(v)
  PROVE  /\ Full => /\ Held # <<>>
                    /\ Held' = Append(Tail(Held), v)
                    /\ sum' = sum + v - Held[1]
         /\ ~Full => Held' = Append(Held, v) /\ sum' = sum + v
<1> DEFINE n == valWindowSize
<1>1. /\ n \in Nat \ {0} /\ samples \in 0 .. n /\ v \in Int
      /\ NextIter \in 0 .. n - 1
  BY FilterAssumption DEF RingInv, TypeOK, NextIter, Wrap
<1>2. Held \in Seq(Int) /\ Len(Held) = samples
  BY HeldType
<1>3. /\ Newest(0) = v
      /\ \A k \in 1 .. n - 1 : Newest(k) = Recent(k - 1)
      /\ Recent(n - 1) = valHistory[NextIter]
  BY UpdateRing
<1>4. \A i \in 1 .. samples : Held[i] = Recent(samples - i)
  BY DEF Held
<1>5. Held' = [i \in 1 .. samples' |-> Newest(samples' - i)]
  BY DEF Held, Recent, Newest
<1> HIDE DEF n
<1>6. CASE Full
  <2>1. samples = n /\ samples' = n /\ sum' = sum + v - valHistory[NextIter]
    BY <1>1, <1>6 DEF Full, Update, n
  <2>2. Held # <<>> /\ Held[1] = valHistory[NextIter]
    BY <1>1, <1>2, <1>3, <1>4, <2>1
  <2>3. Append(Tail(Held), v) \in Seq(Int) /\ Len(Append(Tail(Held), v)) = n
    BY <1>1, <1>2, <2>1, <2>2
  <2>4. ASSUME NEW i \in 1 .. n PROVE Held'[i] = Append(Tail(Held), v)[i]
    <3>1. CASE i = n
      <4>1. Held'[i] = v
        BY <1>1, <1>3, <1>5, <2>1, <3>1
      <4> QED
        BY <1>1, <1>2, <2>1, <2>2, <3>1, <4>1
    <3>2. CASE i < n
      <4>1. n - i \in 1 .. n - 1 /\ n - i - 1 = n - (i + 1)
        BY <1>1, <3>2
      <4>2. Held'[i] = Newest(n - i)
        BY <1>5, <2>1
      <4>3. Held'[i] = Held[i + 1]
        BY <1>1, <1>3, <1>4, <2>1, <3>2, <4>1, <4>2
      <4> QED
        BY <1>1, <1>2, <2>1, <2>2, <3>2, <4>3
    <3>3. i = n \/ i < n
      BY <1>1
    <3> QED
      BY <3>1, <3>2, <3>3
  <2>5. Held' = Append(Tail(Held), v)
    <3>1. \A i \in 1 .. n : Held'[i] = Append(Tail(Held), v)[i]
      BY <2>4
    <3>2. Held' = [i \in 1 .. n |-> Held'[i]]
      BY <1>5, <2>1
    <3> QED
      BY <2>3, <3>1, <3>2, SameSequence
  <2> QED
    BY <1>6, <2>1, <2>2, <2>5
<1>7. CASE ~Full
  <2>1. samples < n /\ samples' = samples + 1 /\ sum' = sum + v
    BY <1>1, <1>7 DEF Full, Update, n
  <2>2. /\ Append(Held, v) \in Seq(Int) /\ Len(Append(Held, v)) = samples + 1
        /\ Append(Held, v)[samples + 1] = v
        /\ \A i \in 1 .. samples : Append(Held, v)[i] = Held[i]
    BY <1>1, <1>2
  <2>3. ASSUME NEW i \in 1 .. samples + 1 PROVE Held'[i] = Append(Held, v)[i]
    <3>1. CASE i = samples + 1
      BY <1>1, <1>3, <1>5, <2>1, <2>2, <3>1
    <3>2. CASE i <= samples
      <4>1. /\ samples + 1 - i \in 1 .. n - 1
            /\ samples + 1 - i - 1 = samples - i
        BY <1>1, <2>1, <3>2
      <4>2. Held'[i] = Newest(samples + 1 - i)
        BY <1>1, <1>5, <2>1
      <4>3. i \in 1 .. samples
        BY <1>1, <3>2
      <4> DEFINE k == samples + 1 - i
      <4>4. Newest(k) = Recent(k - 1)
        <5>1. k \in 1 .. n - 1
          BY <4>1
        <5> HIDE DEF k
        <5> QED
          BY <1>3, <5>1
      <4>5. k - 1 = samples - i
        BY <1>1
      <4>6. Held'[i] = Held[i]
        BY <1>4, <4>2, <4>3, <4>4, <4>5
      <4> QED
        BY <2>2, <4>3, <4>6
    <3>3. i = samples + 1 \/ i <= samples
      BY <1>1
    <3> QED
      BY <3>1, <3>2, <3>3
  <2>4. Held' = Append(Held, v)
    <3>1. \A i \in 1 .. samples + 1 : Held'[i] = Append(Held, v)[i]
      BY <2>3
    <3>2. Held' = [i \in 1 .. samples + 1 |-> Held'[i]]
      BY <1>5, <2>1
    <3> QED
      BY <2>2, <3>1, <3>2, SameSequence
  <2> QED
    BY <1>7, <2>1, <2>4
<1> QED
  BY <1>6, <1>7

\* An Update is one of the window.
LEMMA UpdateImplements ==
  ASSUME WindowInv, NEW v \in Values, Update(v)
  PROVE  Window!Update(v) /\ sum' = Window!Sum(Held')
<1>1. RingInv /\ sum = Window!Sum(Held) /\ v \in Int
  BY FilterAssumption DEF WindowInv
<1>2. Held \in Seq(Int) /\ Len(Held) = samples
  BY <1>1, HeldType
<1>3. /\ Full => /\ Held # <<>>
                 /\ Held' = Append(Tail(Held), v)
                 /\ sum' = sum + v - Held[1]
      /\ ~Full => Held' = Append(Held, v) /\ sum' = sum + v
  BY <1>1, UpdateHeld
<1>4. /\ valWindowSize \in Nat \ {0} /\ samples \in 0 .. valWindowSize
      /\ sum \in Int /\ valWindowSize' = valWindowSize
  BY <1>1 DEF RingInv, TypeOK, Update
<1> DEFINE all == Append(Held, v)
<1>5. CASE Full
  <2>1. samples = valWindowSize
    BY <1>4, <1>5 DEF Full
  <2>2. Tail(Held) \in Seq(Int) /\ Held[1] \in Int
    BY <1>2, <1>3, <1>5
  <2>3. Window!Sum(Held') = Window!Sum(Held) - Held[1] + v
    <3>1. Window!Sum(Append(Tail(Held), v)) = Window!Sum(Tail(Held)) + v
      BY <1>1, <2>2, SumOfAppend
    <3>2. Window!Sum(Tail(Held)) = Window!Sum(Held) - Held[1]
      BY <1>2, <1>3, <1>5, SumOfTail
    <3> QED
      BY <1>3, <1>5, <3>1, <3>2
  <2>4. Append(Tail(Held), v) = Window!LastOnes(all, valWindowSize)
    <3>1. all \in Seq(Int) /\ Len(all) = valWindowSize + 1
      BY <1>1, <1>2, <2>1
    <3>2. Append(Tail(Held), v) = Tail(all)
      BY <1>1, <1>2, <1>3, <1>5
    <3>3. Tail(all) = SubSeq(all, 2, Len(all))
      BY <3>1
    <3> QED
      BY <1>4, <3>1, <3>2, <3>3 DEF Window!LastOnes
  <2>5. sum' = Window!Sum(Held')
    BY <1>1, <1>3, <1>4, <1>5, <2>2, <2>3
  <2> QED
    BY <1>3, <1>4, <1>5, <2>4, <2>5 DEF Window!Update, Held
<1>6. CASE ~Full
  <2>1. Window!Sum(Held') = Window!Sum(Held) + v
    BY <1>1, <1>2, <1>3, <1>6, SumOfAppend
  <2>2. all = Window!LastOnes(all, valWindowSize)
    <3>1. Len(all) <= valWindowSize
      BY <1>1, <1>2, <1>4, <1>6 DEF Full
    <3> QED
      BY <3>1 DEF Window!LastOnes
  <2>3. sum' = Window!Sum(Held')
    BY <1>1, <1>3, <1>6, <2>1
  <2> QED
    BY <1>3, <1>4, <1>6, <2>2, <2>3 DEF Window!Update, Held
<1> QED
  BY <1>5, <1>6

\* The values held by a window just begun.
LEMMA NothingHeld == ASSUME samples = 0 PROVE Held = <<>>
  BY DEF Held

\* Setting the size empties the window.
LEMMA SetSizeImplements ==
  ASSUME NEW n \in Sizes, SetWindowSize(n)
  PROVE  Window!SetWindowSize(n) /\ sum' = Window!Sum(Held')
<1>1. samples' = 0 /\ sum' = 0 /\ valWindowSize' = n
  BY DEF SetWindowSize
<1>2. Held' = <<>>
  BY <1>1 DEF Held
<1> QED
  BY <1>1, <1>2, SumOfNone DEF Window!SetWindowSize, Held

\* The ring with its running sum does what its header says: after any number
\* of values and of sizes set, the sum is that of the last values given, as
\* many as the window is wide or all since it was set.
THEOREM RingImplementsWindow == Spec => ImplementsWindow
<1>1. Init => WindowInv /\ Window!Init
  <2> SUFFICES ASSUME Init PROVE WindowInv /\ Window!Init
    OBVIOUS
  <2>1. RingInv
    BY FilterAssumption
       DEF Init, RingInv, TypeOK, RingInOrder, WindowFilled, Zeros
  <2>2. samples = 0 /\ sum = 0 /\ valWindowSize = DefaultSize
    BY DEF Init
  <2>3. Held = <<>>
    BY <2>2, NothingHeld
  <2> QED
    BY <2>1, <2>2, <2>3, SumOfNone DEF WindowInv, Window!Init, Held
<1>2. WindowInv /\ [Next]_vars => WindowInv' /\ [Window!Next]_(Window!vars)
  <2> SUFFICES ASSUME WindowInv, [Next]_vars
               PROVE  WindowInv' /\ [Window!Next]_(Window!vars)
    OBVIOUS
  <2>1. RingInv'
    BY RingStep DEF WindowInv
  <2>2. ASSUME NEW v \in Values, Update(v)
        PROVE  Window!Update(v) /\ sum' = Window!Sum(Held')
    BY <2>2, UpdateImplements
  <2>3. ASSUME NEW n \in Sizes, SetWindowSize(n)
        PROVE  Window!SetWindowSize(n) /\ sum' = Window!Sum(Held')
    BY <2>3, SetSizeImplements
  <2>4. CASE UNCHANGED vars
    <3>1. Held' = Held /\ sum' = sum /\ valWindowSize' = valWindowSize
      BY <2>4 DEF vars, Held, Recent
    <3> QED
      BY <2>1, <3>1 DEF WindowInv, Window!vars, Held
  <2> QED
    BY <2>1, <2>2, <2>3, <2>4 DEF Next, WindowInv, Window!Next
<1> QED
  BY <1>1, <1>2, PTL DEF Spec, Window!Spec, ImplementsWindow
-----------------------------------------------------------------------------
(* Batteries.                                                              *)

\* The ids given away are those below the counter, and the consumers there are
\* have some of them.
IdsInv ==
  /\ powerLoadCounter \in [Batteries -> ConsumerIds]
  /\ issued \in [Batteries -> SUBSET Int]
  /\ \A b \in Batteries : issued[b] = 0 .. powerLoadCounter[b] - 1
  /\ DOMAIN powerLoads = Batteries
  /\ \A b \in Batteries : DOMAIN powerLoads[b] \subseteq issued[b]

\* Every voltage is a number, and the real one is not below zero.
VoltageInv ==
  /\ initVoltage \in [Batteries -> Int]
  /\ realVoltage \in [Batteries -> Int]
  /\ VoltageNotNegative

BatteryInv == IdsInv /\ VoltageInv

LEMMA Clamped ==
  ASSUME NEW v \in Int
  PROVE  Clamp(v) \in Int /\ Clamp(v) >= 0
BY DEF Clamp

\* As long as the bound lets one more id be given away the counter does not wrap.
LEMMA NoWrap ==
  ASSUME IdsInv, NEW b \in Batteries, Cardinality(issued[b]) < IdModulus - 1
  PROVE  /\ powerLoadCounter[b] \in ConsumerIds
         /\ (powerLoadCounter[b] + 1) % IdModulus = powerLoadCounter[b] + 1
         /\ powerLoadCounter[b] + 1 \in ConsumerIds
<1>1. PICK m \in Nat : m = IdModulus /\ m > 0
  BY BatteryAssumption
<1>2. PICK c \in 0 .. m - 1 : c = powerLoadCounter[b]
  BY <1>1 DEF IdsInv, ConsumerIds
<1>3. issued[b] = 0 .. c - 1
  BY <1>2 DEF IdsInv
<1>4. Cardinality(0 .. c - 1) = c
  <2>1. 0 \in Int /\ c - 1 \in Int /\ (c - 1) - 0 + 1 = c /\ (0 > c - 1 => c = 0)
    BY <1>1, <1>2
  <2>2. Cardinality(0 .. c - 1) = IF 0 > c - 1 THEN 0 ELSE (c - 1) - 0 + 1
    BY <2>1, FS_Interval
  <2> QED
    BY <2>1, <2>2
<1>5. c + 1 < m
  BY <1>1, <1>2, <1>3, <1>4
<1>6. (c + 1) % m = c + 1
  BY <1>1, <1>2, <1>5
<1> QED
  BY <1>1, <1>2, <1>5, <1>6 DEF ConsumerIds

LEMMA BatteryInitHolds == BatteryInit => BatteryInv
<1> SUFFICES ASSUME BatteryInit PROVE BatteryInv
  OBVIOUS
<1>1. IdsInv
  <2>1. 0 \in ConsumerIds
    BY BatteryAssumption DEF ConsumerIds
  <2>2. 0 .. 0 - 1 = {} /\ DOMAIN << >> = {}
    OBVIOUS
  <2> QED
    BY <2>1, <2>2 DEF BatteryInit, IdsInv
<1>2. VoltageInv
  <2>1. initVoltage \in [Batteries -> Voltages] /\ realVoltage = [b \in Batteries |-> 0]
    BY DEF BatteryInit
  <2>2. initVoltage \in [Batteries -> Int]
    BY <2>1, BatteryAssumption
  <2> QED
    BY <2>1, <2>2 DEF VoltageInv, VoltageNotNegative
<1> QED
  BY <1>1, <1>2 DEF BatteryInv

\* Operations on the voltages.
LEMMA VoltagesKept ==
  ASSUME BatteryInv, NEW b \in Batteries, NEW v \in Int, NEW w \in Int,
         initVoltage' = [initVoltage EXCEPT ![b] = v] \/ initVoltage' = initVoltage,
         \/ realVoltage' = [realVoltage EXCEPT ![b] = w] /\ w >= 0
         \/ realVoltage' = realVoltage
  PROVE  VoltageInv'
BY DEF BatteryInv, VoltageInv, VoltageNotNegative

\* Operations on the consumers of a battery that give no id away.
LEMMA LoadsKept ==
  ASSUME BatteryInv, NEW b \in Batteries, NEW q,
         powerLoads' = [powerLoads EXCEPT ![b] = q], DOMAIN q \subseteq DOMAIN powerLoads[b],
         UNCHANGED <<powerLoadCounter, issued>>
  PROVE  IdsInv' /\ \A c \in Batteries : DOMAIN powerLoads'[c] \subseteq DOMAIN powerLoads[c]
<1>1. \A c \in Batteries : powerLoads'[c] = IF c = b THEN q ELSE powerLoads[c]
  BY DEF BatteryInv, IdsInv
<1>2. DOMAIN powerLoads' = Batteries
  BY DEF BatteryInv, IdsInv
<1>3. \A c \in Batteries : DOMAIN powerLoads'[c] \subseteq DOMAIN powerLoads[c]
  BY <1>1
<1> QED
  BY <1>2, <1>3 DEF BatteryInv, IdsInv

LEMMA AddConsumerKeeps ==
  ASSUME BatteryInv, NEW b \in Batteries, AddConsumer(b)
  PROVE  BatteryInv' /\ \A c \in Batteries \ {b} : powerLoads'[c] = powerLoads[c]
<1>1. PICK n : n = powerLoadCounter[b]
  OBVIOUS
<1>2. n \in ConsumerIds /\ (n + 1) % IdModulus = n + 1 /\ n + 1 \in ConsumerIds
  BY <1>1, NoWrap DEF AddConsumer, BatteryInv
<1>3. n \in Nat
  BY <1>2, BatteryAssumption DEF ConsumerIds
<1>4. PICK q : /\ q = [i \in DOMAIN powerLoads[b] \cup {n} |-> IF i = n THEN 0 ELSE powerLoads[b][i]]
               /\ powerLoads' = [powerLoads EXCEPT ![b] = q]
  BY <1>1 DEF AddConsumer
<1>5. /\ powerLoadCounter' = [powerLoadCounter EXCEPT ![b] = n + 1]
      /\ issued' = [issued EXCEPT ![b] = issued[b] \cup {n}]
      /\ UNCHANGED <<initVoltage, realVoltage, updateFunc>>
  BY <1>1, <1>2 DEF AddConsumer, electric
<1>6. (0 .. n - 1) \cup {n} = 0 .. (n + 1) - 1
  BY <1>3
<1>7. issued[b] = 0 .. n - 1 /\ issued[b] \subseteq Int
  BY <1>1 DEF BatteryInv, IdsInv
<1>8. \A c \in Batteries : powerLoads'[c] = IF c = b THEN q ELSE powerLoads[c]
  BY <1>4 DEF BatteryInv, IdsInv
<1>9. DOMAIN q \subseteq issued[b] \cup {n}
  BY <1>4 DEF BatteryInv, IdsInv
<1>10. IdsInv'
  <2>1. powerLoadCounter' \in [Batteries -> ConsumerIds]
    BY <1>2, <1>5 DEF BatteryInv, IdsInv
  <2>2. issued' \in [Batteries -> SUBSET Int]
    BY <1>3, <1>5, <1>7 DEF BatteryInv, IdsInv
  <2>3. ASSUME NEW c \in Batteries
        PROVE  issued'[c] = 0 .. powerLoadCounter'[c] - 1 /\ DOMAIN powerLoads'[c] \subseteq issued'[c]
    <3>1. CASE c = b
      <4>1. issued'[c] = issued[b] \cup {n} /\ powerLoadCounter'[c] = n + 1
        BY <1>5, <3>1 DEF BatteryInv, IdsInv
      <4> QED
        BY <1>6, <1>7, <1>8, <1>9, <3>1, <4>1
    <3>2. CASE c # b
      <4>1. issued'[c] = issued[c] /\ powerLoadCounter'[c] = powerLoadCounter[c]
        BY <1>5, <3>2 DEF BatteryInv, IdsInv
      <4>2. powerLoads'[c] = powerLoads[c]
        BY <1>8, <3>2
      <4> QED
        BY <4>1, <4>2 DEF BatteryInv, IdsInv
    <3> QED
      BY <3>1, <3>2
  <2>4. DOMAIN powerLoads' = Batteries
    BY <1>4 DEF BatteryInv, IdsInv
  <2> QED
    BY <2>1, <2>2, <2>3, <2>4 DEF IdsInv
<1>11. VoltageInv'
  BY <1>5 DEF BatteryInv, VoltageInv, VoltageNotNegative
<1> QED
  BY <1>8, <1>10, <1>11 DEF BatteryInv

LEMMA AssignKeeps ==
  ASSUME BatteryInv, NEW a \in Batteries, NEW b \in Batteries, Assign(a, b)
  PROVE  BatteryInv' /\ \A c \in Batteries \ {a} : powerLoads'[c] = powerLoads[c]
<1>1. PICK q : /\ q = IF a = b THEN << >> ELSE powerLoads[b]
               /\ powerLoads' = [powerLoads EXCEPT ![a] = q]
  BY DEF Assign
<1>2. DOMAIN q \subseteq issued[b]
  <2>1. DOMAIN << >> = {}
    OBVIOUS
  <2> QED
    BY <1>1, <2>1 DEF BatteryInv, IdsInv
<1>3. \A c \in Batteries : powerLoads'[c] = IF c = a THEN q ELSE powerLoads[c]
  BY <1>1 DEF BatteryInv, IdsInv
<1>4. IdsInv'
  <2>1. /\ powerLoadCounter' = [powerLoadCounter EXCEPT ![a] = powerLoadCounter[b]]
        /\ issued' = [issued EXCEPT ![a] = issued[b]]
    BY DEF Assign
  <2>2. powerLoadCounter' \in [Batteries -> ConsumerIds] /\ issued' \in [Batteries -> SUBSET Int]
    BY <2>1 DEF BatteryInv, IdsInv
  <2>3. ASSUME NEW c \in Batteries
        PROVE  issued'[c] = 0 .. powerLoadCounter'[c] - 1 /\ DOMAIN powerLoads'[c] \subseteq issued'[c]
    <3>1. CASE c = a
      <4>1. issued'[c] = issued[b] /\ powerLoadCounter'[c] = powerLoadCounter[b]
        BY <2>1, <3>1 DEF BatteryInv, IdsInv
      <4> QED
        BY <1>2, <1>3, <3>1, <4>1 DEF BatteryInv, IdsInv
    <3>2. CASE c # a
      <4>1. issued'[c] = issued[c] /\ powerLoadCounter'[c] = powerLoadCounter[c]
        BY <2>1, <3>2 DEF BatteryInv, IdsInv
      <4> QED
        BY <1>3, <3>2, <4>1 DEF BatteryInv, IdsInv
    <3> QED
      BY <3>1, <3>2
  <2>4. DOMAIN powerLoads' = Batteries
    BY <1>1 DEF BatteryInv, IdsInv
  <2> QED
    BY <2>2, <2>3, <2>4 DEF IdsInv
<1>5. VoltageInv'
  BY DEF BatteryInv, VoltageInv, VoltageNotNegative, Assign
<1> QED
  BY <1>3, <1>4, <1>5 DEF BatteryInv

\* The operations that bring no consumer into being.
Plain(b) ==
  \/ ResetVoltage(b) \/ InitBattery(b) \/ UpdateVoltage(b)
  \/ SetUpdateFunc(b) \/ ResetUpdateFunc(b)
  \/ \E v \in Voltages : SetInitVoltage(b, v)
  \/ \E id \in ConsumerIds : \/ RemoveConsumer(b, id)
                             \/ \E load \in Loads : SetPowerLoad(b, id, load)

LEMMA PlainKeeps ==
  ASSUME BatteryInv, NEW b \in Batteries, Plain(b)
  PROVE  BatteryInv' /\ \A c \in Batteries : DOMAIN powerLoads'[c] \subseteq DOMAIN powerLoads[c]
<1>0. initVoltage[b] \in Int /\ realVoltage[b] \in Int /\ realVoltage[b] >= 0
  BY DEF BatteryInv, VoltageInv, VoltageNotNegative
<1>1. Clamp(initVoltage[b]) \in Int /\ Clamp(initVoltage[b]) >= 0
  BY <1>0, Clamped
<1>2. ASSUME UNCHANGED consumers
      PROVE  IdsInv' /\ \A c \in Batteries : DOMAIN powerLoads'[c] \subseteq DOMAIN powerLoads[c]
  BY <1>2 DEF consumers, BatteryInv, IdsInv
<1>3. ASSUME UNCHANGED electric PROVE VoltageInv'
  BY <1>3 DEF electric, BatteryInv, VoltageInv, VoltageNotNegative
<1>4. CASE ResetVoltage(b)
  <2>1. VoltageInv'
    BY <1>0, <1>1, <1>4, VoltagesKept DEF ResetVoltage
  <2> QED
    BY <1>2, <1>4, <2>1 DEF ResetVoltage, BatteryInv
<1>5. CASE InitBattery(b)
  <2>1. VoltageInv'
    BY <1>0, <1>1, <1>5, VoltagesKept DEF InitBattery
  <2>2. DOMAIN << >> \subseteq DOMAIN powerLoads[b]
    OBVIOUS
  <2>3. IdsInv' /\ \A c \in Batteries : DOMAIN powerLoads'[c] \subseteq DOMAIN powerLoads[c]
    BY <1>5, <2>2, LoadsKept DEF InitBattery
  <2> QED
    BY <2>1, <2>3 DEF BatteryInv
<1>6. CASE UpdateVoltage(b)
  <2>1. PICK w \in NewVoltage(b) : realVoltage' = [realVoltage EXCEPT ![b] = w]
    BY <1>6 DEF UpdateVoltage
  <2>2. w \in Int /\ w >= 0
    BY <1>0, <2>1, Clamped, BatteryAssumption DEF NewVoltage
  <2>3. VoltageInv'
    BY <1>0, <1>6, <2>1, <2>2, VoltagesKept DEF UpdateVoltage
  <2> QED
    BY <1>2, <1>6, <2>3 DEF UpdateVoltage, BatteryInv
<1>7. CASE SetUpdateFunc(b) \/ ResetUpdateFunc(b)
  <2>1. UNCHANGED <<initVoltage, realVoltage, consumers>>
    BY <1>7 DEF SetUpdateFunc, ResetUpdateFunc
  <2>2. VoltageInv'
    BY <2>1 DEF BatteryInv, VoltageInv, VoltageNotNegative
  <2> QED
    BY <1>2, <2>1, <2>2 DEF BatteryInv
<1>8. CASE \E v \in Voltages : SetInitVoltage(b, v)
  <2>1. PICK v \in Voltages : SetInitVoltage(b, v)
    BY <1>8
  <2>2. VoltageInv'
    BY <1>0, <2>1, VoltagesKept, BatteryAssumption DEF SetInitVoltage
  <2> QED
    BY <1>2, <2>1, <2>2 DEF SetInitVoltage, BatteryInv
<1>9. ASSUME NEW id \in ConsumerIds, RemoveConsumer(b, id)
      PROVE  BatteryInv' /\ \A c \in Batteries : DOMAIN powerLoads'[c] \subseteq DOMAIN powerLoads[c]
  <2>1. PICK q : q = [i \in DOMAIN powerLoads[b] \ {id} |-> powerLoads[b][i]]
    OBVIOUS
  <2>2. powerLoads' = [powerLoads EXCEPT ![b] = q] /\ UNCHANGED <<powerLoadCounter, issued, electric>>
    BY <1>9, <2>1 DEF RemoveConsumer
  <2>3. DOMAIN q \subseteq DOMAIN powerLoads[b]
    BY <2>1
  <2>4. IdsInv' /\ \A c \in Batteries : DOMAIN powerLoads'[c] \subseteq DOMAIN powerLoads[c]
    BY <2>2, <2>3, LoadsKept
  <2> QED
    BY <1>3, <2>2, <2>4 DEF BatteryInv
<1>10. ASSUME NEW id \in ConsumerIds, NEW load \in Loads, SetPowerLoad(b, id, load)
      PROVE  BatteryInv' /\ \A c \in Batteries : DOMAIN powerLoads'[c] \subseteq DOMAIN powerLoads[c]
  <2>1. PICK q : q = [powerLoads[b] EXCEPT ![id] = load]
    OBVIOUS
  <2>2. powerLoads' = [powerLoads EXCEPT ![b] = q] /\ UNCHANGED <<powerLoadCounter, issued, electric>>
    BY <1>10, <2>1 DEF SetPowerLoad
  <2>3. DOMAIN q \subseteq DOMAIN powerLoads[b]
    BY <2>1
  <2>4. IdsInv' /\ \A c \in Batteries : DOMAIN powerLoads'[c] \subseteq DOMAIN powerLoads[c]
    BY <2>2, <2>3, LoadsKept
  <2> QED
    BY <1>3, <2>2, <2>4 DEF BatteryInv
<1> QED
  BY <1>4, <1>5, <1>6, <1>7, <1>8, <1>9, <1>10 DEF Plain

\* What a step of one battery leaves of the rest.
Created(b) ==
  \/ DOMAIN powerLoads'[b] \subseteq DOMAIN powerLoads[b]
  \/ AddConsumer(b)
  \/ \E a \in Batteries : Assign(b, a)

LEMMA BatteryStep ==
  ASSUME BatteryInv, [BatteryNext]_batteryVars
  PROVE  BatteryInv' /\ \A b \in Batteries : Created(b)
<1>1. CASE BatteryNext
  <2>1. PICK b \in Batteries : Plain(b) \/ AddConsumer(b) \/ \E a \in Batteries : Assign(a, b)
    BY <1>1 DEF BatteryNext, Plain
  <2>2. CASE Plain(b)
    BY <2>2, PlainKeeps DEF Created
  <2>3. CASE AddConsumer(b)
    BY <2>3, AddConsumerKeeps DEF Created
  <2>4. ASSUME NEW a \in Batteries, Assign(a, b)
        PROVE  BatteryInv' /\ \A c \in Batteries : Created(c)
    BY <2>4, AssignKeeps DEF Created
  <2> QED
    BY <2>1, <2>2, <2>3, <2>4
<1>2. CASE UNCHANGED batteryVars
  BY <1>2 DEF batteryVars, consumers, electric, Created, BatteryInv, IdsInv, VoltageInv, VoltageNotNegative
<1> QED
  BY <1>1, <1>2

\* The ids a battery has given away are those below its counter, its consumers
\* have some of them, and its voltage is a number not below zero, at all times.
THEOREM BatteryInvariant == BatterySpec => []BatteryInv
<1>1. BatteryInv /\ [BatteryNext]_batteryVars => BatteryInv'
  BY BatteryStep
<1> QED
  BY <1>1, BatteryInitHolds, PTL DEF BatterySpec

\* A battery issues no id twice, though consumers are removed and batteries
\* assigned; its voltage is never negative; and only AddConsumer and an
\* assignment bring consumers into being.
THEOREM ConsumersAreAlwaysTheirOwn == BatterySpec => ConsumersAreTheirOwn
<1>1. BatteryInv => IdsAreFresh /\ VoltageNotNegative
  <2> SUFFICES ASSUME BatteryInv, NEW b \in Batteries PROVE powerLoadCounter[b] \notin issued[b]
    BY DEF IdsAreFresh, BatteryInv, VoltageInv
  <2>1. powerLoadCounter[b] \in Nat /\ issued[b] = 0 .. powerLoadCounter[b] - 1
    BY BatteryAssumption DEF BatteryInv, IdsInv, ConsumerIds
  <2> QED
    BY <2>1
<1>2. BatteryInv /\ [BatteryNext]_batteryVars =>
        [\A b \in Batteries :
           \/ DOMAIN powerLoads'[b] \subseteq DOMAIN powerLoads[b]
           \/ AddConsumer(b)
           \/ \E a \in Batteries : Assign(b, a)]_batteryVars
  BY BatteryStep DEF Created
<1> QED
  BY <1>1, <1>2, BatteryInvariant, PTL DEF BatterySpec, ConsumersAreTheirOwn, OnlyAddConsumerCreates

-----------------------------------------------------------------------------
(* Videos and sounds.                                                        *)

\* A set that has 0 and with every number the next has all of them.
LEMMA UpToN ==
  ASSUME NEW N \in Nat, NEW G, 0 \in G, \A n \in 1 .. N : n - 1 \in G => n \in G
  PROVE  0 .. N \subseteq G
<1> DEFINE S == {n \in 0 .. N : n \notin G}
<1>1. SUFFICES ASSUME S # {} PROVE FALSE
  OBVIOUS
<1>2. PICK n \in S : \A m \in S : n <= m
  <2>1. S \in SUBSET Nat
    OBVIOUS
  <2> HIDE DEF S
  <2> QED
    BY <1>1, <2>1, LeastNat
<1>3. n \in 1 .. N
  BY <1>2
<1>4. n - 1 \in 0 .. N /\ ~(n <= n - 1)
  BY <1>3
<1>5. n - 1 \in G
  BY <1>2, <1>4
<1> QED
  BY <1>2, <1>3, <1>5

\* There is a function that begins with b and goes on by steps that stay in A.
StepByStep(c, b, step, N) == \A n \in 0 .. N : c[n] = IF n = 0 THEN b ELSE step[n][c[n - 1]]

LEMMA StepsExist ==
  ASSUME NEW A, NEW b \in A, NEW N \in Nat, NEW step \in [1 .. N -> [A -> A]]
  PROVE  \E c \in [0 .. N -> A] : StepByStep(c, b, step, N)
<1> DEFINE Steps(c, m) == StepByStep(c, b, step, m)
           G == {m \in 0 .. N : \E c \in [0 .. m -> A] : Steps(c, m)}
<1>1. 0 \in G
  <2>1. PICK c : c = [n \in 0 .. 0 |-> b]
    OBVIOUS
  <2>2. c \in [0 .. 0 -> A] /\ c[0] = b
    BY <2>1
  <2>3. Steps(c, 0)
    BY <2>2 DEF StepByStep
  <2>4. 0 \in 0 .. N
    OBVIOUS
  <2> HIDE DEF Steps
  <2> QED
    BY <2>2, <2>3, <2>4
<1>2. ASSUME NEW m \in 1 .. N, m - 1 \in G PROVE m \in G
  <2>1. PICK c \in [0 .. m - 1 -> A] : Steps(c, m - 1)
    BY <1>2
  <2>2. m \in Nat /\ m - 1 \in Nat /\ m - 1 \in 0 .. m - 1
    OBVIOUS
  <2>3. step[m] \in [A -> A] /\ c[m - 1] \in A
    BY <2>2
  <2>4. PICK x \in A : x = step[m][c[m - 1]]
    BY <2>3
  <2> DEFINE d == [n \in 0 .. m |-> IF n = m THEN x ELSE c[n]]
  <2>5. d \in [0 .. m -> A]
    <3>1. ASSUME NEW n \in 0 .. m, n # m PROVE c[n] \in A
      <4>1. n \in 0 .. m - 1
        BY <2>2, <3>1
      <4> QED
        BY <4>1
    <3> QED
      BY <3>1
  <2>6. ASSUME NEW n \in 0 .. m PROVE d[n] = IF n = 0 THEN b ELSE step[n][d[n - 1]]
    <3>1. CASE n = m
      <4>1. n # 0 /\ n - 1 \in 0 .. m /\ n - 1 # m
        BY <2>2, <3>1
      <4>2. d[n - 1] = c[m - 1] /\ d[n] = x
        BY <3>1, <4>1
      <4> QED
        BY <2>4, <3>1, <4>1, <4>2
    <3>2. CASE n # m
      <4>1. n \in 0 .. m - 1 /\ d[n] = c[n]
        BY <2>2, <3>2
      <4>2. CASE n = 0
        BY <2>1, <4>1, <4>2 DEF StepByStep
      <4>3. CASE n # 0
        <5>1. n - 1 \in 0 .. m /\ n - 1 # m
          BY <2>2, <4>1, <4>3
        <5>2. d[n - 1] = c[n - 1]
          BY <5>1
        <5> QED
          BY <2>1, <4>1, <4>3, <5>2 DEF StepByStep
      <4> QED
        BY <4>2, <4>3
    <3> QED
      BY <3>1, <3>2
  <2> HIDE DEF d
  <2>7. Steps(d, m)
    BY <2>6 DEF StepByStep
  <2>8. \E e \in [0 .. m -> A] : Steps(e, m)
    BY <2>5, <2>7
  <2> QED
    BY <2>8
<1> HIDE DEF G
<1>3. 0 .. N \subseteq G
  BY <1>1, <1>2, UpToN
<1>4. N \in G
  BY <1>3
<1> QED
  BY <1>4 DEF G

LEMMA SequencesExist ==
  ASSUME NEW N \in Nat, NEW step \in [1 .. N -> [Seq(Nat) -> Seq(Nat)]]
  PROVE  \E c \in [0 .. N -> Seq(Nat)] : StepByStep(c, << >>, step, N)
<1>1. PICK A, b : A = Seq(Nat) /\ b = << >>
  OBVIOUS
<1>2. b \in A
  BY <1>1, EmptySeq
<1>3. step \in [1 .. N -> [A -> A]]
  BY <1>1
<1>4. \E c \in [0 .. N -> A] : StepByStep(c, b, step, N)
  BY <1>2, <1>3, StepsExist
<1> QED
  BY <1>1, <1>4

\* A packet of sound, and what of it is copied.
AudioPackets == [stream : Nat, frames : Seq(Nat)]
PieceOf(packet, stream) == IF packet.stream = stream THEN packet.frames ELSE << >>

\* The sizes of the frames in a file are a sequence.
LEMMA FramesAreSizes ==
  ASSUME NEW f, f.packets \in Seq(AudioPackets), NEW stream
  PROVE  Frames(f, stream, 0) \in Seq(Nat)
<1> PICK packets \in Seq(AudioPackets) : packets = f.packets
  OBVIOUS
<1> PICK N \in Nat : N = Len(packets)
  OBVIOUS
<1> DEFINE piece(p) == PieceOf(packets[p], stream)
<1>1. \A p \in 1 .. N : packets[p] \in AudioPackets
  BY ElementOfSeq
<1>2. \A p \in 1 .. N : piece(p) \in Seq(Nat)
  BY <1>1 DEF PieceOf, AudioPackets
<1> DEFINE after(p) == [x \in Seq(Nat) |-> x \o piece(p)]
           step == [p \in 1 .. N |-> after(p)]
<1> HIDE DEF piece
<1>3. \A p \in 1 .. N : after(p) \in [Seq(Nat) -> Seq(Nat)]
  BY <1>2
<1>4. step \in [1 .. N -> [Seq(Nat) -> Seq(Nat)]]
  <2> HIDE DEF after
  <2> QED
    BY <1>3
<1>5. PICK c \in [0 .. N -> Seq(Nat)] : StepByStep(c, << >>, step, N)
  <2> HIDE DEF step
  <2> QED
    BY <1>4, SequencesExist
<1>6. c = [p \in 0 .. N |-> IF p = 0 THEN << >> ELSE c[p - 1] \o piece(p)]
  <2>1. ASSUME NEW p \in 0 .. N
        PROVE  c[p] = IF p = 0 THEN << >> ELSE c[p - 1] \o piece(p)
    <3>1. CASE p = 0
      BY <1>5, <3>1 DEF StepByStep
    <3>2. CASE p # 0
      <4>1. p \in 1 .. N /\ p - 1 \in 0 .. N
        BY <3>2
      <4>2. c[p - 1] \in Seq(Nat)
        BY <4>1
      <4>3. c[p] = step[p][c[p - 1]]
        BY <1>5, <3>2 DEF StepByStep
      <4>4. step[p] = after(p)
        BY <4>1
      <4>5. step[p][c[p - 1]] = c[p - 1] \o piece(p)
        BY <4>2, <4>4
      <4> QED
        BY <3>2, <4>3, <4>5
    <3> QED
      BY <3>1, <3>2
  <2> QED
    BY <2>1
<1> DEFINE upTo == CHOOSE u : u = [p \in 0 .. N |-> IF p = 0 THEN << >> ELSE u[p - 1] \o piece(p)]
<1>7. upTo = [p \in 0 .. N |-> IF p = 0 THEN << >> ELSE upTo[p - 1] \o piece(p)]
  <2>1. \E u : u = [p \in 0 .. N |-> IF p = 0 THEN << >> ELSE u[p - 1] \o piece(p)]
    BY <1>6, Zenon
  <2> QED
    BY <2>1, Zenon
<1>8. Frames(f, stream, 0) = upTo[N]
  BY Zenon DEF Frames, piece, PieceOf
<1> HIDE DEF upTo
<1> DEFINE G == {p \in 0 .. N : upTo[p] \in Seq(Nat)}
<1>9. 0 \in G
  BY <1>7
<1>10. ASSUME NEW p \in 1 .. N, p - 1 \in G PROVE p \in G
  <2>1. upTo[p - 1] \in Seq(Nat) /\ piece(p) \in Seq(Nat)
    BY <1>2, <1>10
  <2>2. p \in 0 .. N /\ p # 0
    OBVIOUS
  <2>3. upTo[p] = upTo[p - 1] \o piece(p)
    BY <1>7, <2>2
  <2>4. upTo[p] \in Seq(Nat)
    BY <2>1, <2>3
  <2> QED
    BY <2>2, <2>4
<1>11. N \in G
  <2> HIDE DEF G
  <2>1. 0 .. N \subseteq G
    BY <1>9, <1>10, UpToN
  <2> QED
    BY <2>1
<1> QED
  BY <1>8, <1>11

\* A buffer with room for what is in it.
Buffers == {o \in [room : Nat, frames : Seq(Nat), size : Nat, fits : {TRUE}] : o.size <= o.room}

LEMMA CopyFits ==
  ASSUME NEW o \in Buffers, NEW size \in Nat
  PROVE  Copy(o, size) \in Buffers /\ Copy(o, size).frames = Append(o.frames, size)
<1> PICK room \in Nat : room = IF o.size + size > o.room THEN o.room + size * 5 ELSE o.room
  BY DEF Buffers
<1>1. o.frames \in Seq(Nat) /\ o.size \in Nat /\ o.room \in Nat /\ o.fits = TRUE
      /\ o.size <= o.room
  BY DEF Buffers
<1>2. o.size + size <= room
  BY <1>1
<1>3. Copy(o, size) = [room |-> room, frames |-> Append(o.frames, size),
                       size |-> o.size + size, fits |-> TRUE]
  BY <1>1, <1>2 DEF Copy, MoreRoom
<1>4. Append(o.frames, size) \in Seq(Nat) /\ o.size + size \in Nat
  BY <1>1
<1> QED
  BY <1>2, <1>3, <1>4 DEF Buffers

\* All frames are copied, in their order, and there is room for them.
LEMMA AllAreCopied ==
  ASSUME NEW s \in Seq(Nat)
  PROVE  Copied(s).frames = s /\ Copied(s).fits
<1> PICK N \in Nat : N = Len(s)
  OBVIOUS
<1>1. \A n \in 1 .. N : s[n] \in Nat
  BY ElementOfSeq
<1> DEFINE after(n) == [o \in Buffers |-> Copy(o, s[n])]
           step == [n \in 1 .. N |-> after(n)]
<1>2. \A n \in 1 .. N : after(n) \in [Buffers -> Buffers]
  BY <1>1, CopyFits
<1>3. step \in [1 .. N -> [Buffers -> Buffers]]
  <2> HIDE DEF after
  <2> QED
    BY <1>2
<1>4. Empty \in Buffers
  <2>1. << >> \in Seq(Nat)
    OBVIOUS
  <2> QED
    BY <2>1 DEF Empty, Buffers
<1>5. PICK c \in [0 .. N -> Buffers] : StepByStep(c, Empty, step, N)
  <2> HIDE DEF step
  <2> QED
    BY <1>3, <1>4, StepsExist, Zenon
<1>6. c = [n \in 0 .. N |-> IF n = 0 THEN Empty ELSE Copy(c[n - 1], s[n])]
  <2>1. ASSUME NEW n \in 0 .. N
        PROVE  c[n] = IF n = 0 THEN Empty ELSE Copy(c[n - 1], s[n])
    <3>1. CASE n = 0
      BY <1>5, <3>1 DEF StepByStep
    <3>2. CASE n # 0
      <4>1. n \in 1 .. N /\ n - 1 \in 0 .. N
        BY <3>2
      <4>2. c[n - 1] \in Buffers
        BY <4>1
      <4>3. c[n] = step[n][c[n - 1]]
        BY <1>5, <3>2 DEF StepByStep
      <4>4. step[n] = after(n)
        BY <4>1
      <4>5. step[n][c[n - 1]] = Copy(c[n - 1], s[n])
        BY <4>2, <4>4
      <4> QED
        BY <3>2, <4>3, <4>5
    <3> QED
      BY <3>1, <3>2
  <2> QED
    BY <2>1
<1> DEFINE upTo == CHOOSE u : u = [n \in 0 .. N |-> IF n = 0 THEN Empty ELSE Copy(u[n - 1], s[n])]
<1>7. upTo = [n \in 0 .. N |-> IF n = 0 THEN Empty ELSE Copy(upTo[n - 1], s[n])]
  <2>1. \E u : u = [n \in 0 .. N |-> IF n = 0 THEN Empty ELSE Copy(u[n - 1], s[n])]
    BY <1>6, Zenon
  <2> QED
    BY <2>1, Zenon
<1>8. Copied(s) = upTo[N]
  BY Zenon DEF Copied
<1> HIDE DEF upTo
<1> DEFINE Prefix(n) == [i \in 1 .. n |-> s[i]]
           G == {n \in 0 .. N : upTo[n] \in Buffers /\ upTo[n].frames = Prefix(n)}
<1>9. 0 \in G
  <2>1. upTo[0] = Empty
    BY <1>7
  <2>2. Empty.frames = << >> /\ << >> = Prefix(0)
    BY DEF Empty
  <2> QED
    BY <1>4, <2>1, <2>2
<1>10. ASSUME NEW n \in 1 .. N, n - 1 \in G PROVE n \in G
  <2>1. n \in 0 .. N /\ n # 0 /\ n - 1 \in Nat /\ s[n] \in Nat
    BY <1>1
  <2>2. PICK o \in Buffers : o = upTo[n - 1] /\ o.frames = Prefix(n - 1)
    BY <1>10
  <2>3. upTo[n] = Copy(o, s[n])
    BY <1>7, <2>1, <2>2
  <2>4. upTo[n] \in Buffers /\ upTo[n].frames = Append(Prefix(n - 1), s[n])
    <3>1. Copy(o, s[n]) \in Buffers /\ Copy(o, s[n]).frames = Append(o.frames, s[n])
      BY <2>1, CopyFits
    <3> QED
      BY <2>2, <2>3, <3>1
  <2>5. Append(Prefix(n - 1), s[n]) = Prefix(n)
    <3>1. Len(Prefix(n - 1)) = n - 1
      BY <2>1
    <3> QED
      BY <2>1, <3>1
  <2> QED
    BY <2>1, <2>4, <2>5
<1>11. N \in G
  <2> HIDE DEF G
  <2>1. 0 .. N \subseteq G
    BY <1>9, <1>10, UpToN
  <2> QED
    BY <2>1
<1>12. Prefix(N) = s
  OBVIOUS
<1> QED
  BY <1>8, <1>11, <1>12 DEF Buffers

\* How far the opening of a file gets.
LEMMA StageIs ==
  ASSUME NEW stages, NEW i \in DOMAIN stages,
         \A j \in DOMAIN stages : stages[j] = stages[i] => j = i
  PROVE  Stage(stages, stages[i]) = i
BY DEF Stage

LEMMA FirstIs ==
  ASSUME NEW f, f.streams \in Seq(STRING), NEW kind, First(kind, f) # 0
  PROVE  f.streams[First(kind, f)] = kind
<1> DEFINE all == {i \in DOMAIN f.streams : f.streams[i] = kind}
<1>1. all # {} /\ all \in SUBSET Nat
  <2>1. DOMAIN f.streams \in SUBSET Nat
    BY LenProperties
  <2>2. all # {}
    BY Zenon DEF First
  <2> QED
    BY <2>1, <2>2
<1>2. PICK i \in all : \A j \in all : i <= j
  <2> HIDE DEF all
  <2> QED
    BY <1>1, LeastNat
<1>3. First(kind, f) = CHOOSE x \in all : \A j \in all : x <= j
  BY <1>1, Zenon DEF First
<1> HIDE DEF all
<1>4. First(kind, f) \in all
  BY <1>2, <1>3
<1> QED
  BY <1>4 DEF all

\* N stages of which the given one looks for the stream.
StagesAre(stages, N, stream) ==
  /\ DOMAIN stages = 1 .. N /\ Len(stages) = N
  /\ \A i, j \in 1 .. N : stages[i] = stages[j] => i = j
  /\ stream \in 1 .. N /\ stages[stream] = "stream"

LEMMA PastIs ==
  ASSUME NEW stages, NEW N \in Nat, NEW stream, StagesAre(stages, N, stream),
         NEW f, Opens(stages, f), NEW kind
  PROVE  /\ Past(stages, kind, f) \in 0 .. N
         /\ Past(stages, kind, f) = N => First(kind, f) # 0
<1> DEFINE fails == {Stage(stages, s) : s \in {f.fails} \ {""}}
                      \cup (IF First(kind, f) = 0 THEN {Stage(stages, "stream")} ELSE {})
<1> USE DEF StagesAre
<1>1. Stage(stages, "stream") = stream
  BY StageIs
<1>2. ASSUME NEW s, s \in {f.fails} \ {""} PROVE Stage(stages, s) \in 1 .. N
  <2>1. PICK i \in 1 .. N : s = stages[i]
    BY <1>2 DEF Opens
  <2>2. Stage(stages, stages[i]) = i
    BY StageIs
  <2> QED
    BY <2>1, <2>2
<1>3. fails \in SUBSET (1 .. N)
  <2>1. {Stage(stages, s) : s \in {f.fails} \ {""}} \subseteq 1 .. N
    <3> SUFFICES ASSUME NEW x \in {Stage(stages, s) : s \in {f.fails} \ {""}}
                 PROVE  x \in 1 .. N
      OBVIOUS
    <3>1. PICK s \in {f.fails} \ {""} : x = Stage(stages, s)
      OBVIOUS
    <3> QED
      BY <1>2, <3>1
  <2>2. (IF First(kind, f) = 0 THEN {Stage(stages, "stream")} ELSE {}) \subseteq 1 .. N
    BY <1>1
  <2> QED
    BY <2>1, <2>2, Zenon
<1>4. First(kind, f) = 0 => fails # {}
  OBVIOUS
<1>5. Past(stages, kind, f) =
        IF fails = {} THEN Len(stages) ELSE (CHOOSE i \in fails : \A j \in fails : i <= j) - 1
  BY Zenon DEF Past
<1> HIDE DEF fails
<1>6. CASE fails = {}
  BY <1>4, <1>5, <1>6
<1>7. CASE fails # {}
  <2>1. fails \in SUBSET Nat
    BY <1>3
  <2>2. PICK i \in fails : \A j \in fails : i <= j
    BY <1>7, <2>1, LeastNat
  <2>3. PICK k \in fails : k = CHOOSE x \in fails : \A j \in fails : x <= j
    BY <2>2
  <2>4. k \in 1 .. N /\ Past(stages, kind, f) = k - 1
    BY <1>3, <1>5, <1>7, <2>3
  <2> QED
    BY <2>4
<1> QED
  BY <1>6, <1>7

\* A file that is opened to the last stage is that of every object.
LEMMA AllLoaded ==
  ASSUME NEW f \in VideoFiles, NEW v, VideoPast(f) = Len(VideoStages)
  PROVE  /\ Loaded(v, f).format = <<f>> /\ Loaded(v, f).codec = <<f>>
         /\ Loaded(v, f).sws = <<f>> /\ Loaded(v, f).dst = <<f>>
         /\ Loaded(v, f).avFrame = <<"live">>
         /\ f.streams[Loaded(v, f).stream] = "video"
<1>1. Opens(VideoStages, f)
  BY MediaAssumption
<1>2. StagesAre(VideoStages, 8, 3) /\ Len(VideoStages) = 8
  BY DEF VideoStages, StagesAre
<1>3. First("video", f) # 0
  <2>1. Past(VideoStages, "video", f) = 8
    BY <1>2 DEF VideoPast
  <2>2. 8 \in Nat
    OBVIOUS
  <2> QED
    BY <1>1, <1>2, <2>1, <2>2, PastIs, Zenon
<1>4. /\ Stage(VideoStages, "open") = 1 /\ Stage(VideoStages, "info") = 2
      /\ Stage(VideoStages, "codec") = 4 /\ Stage(VideoStages, "context") = 5
      /\ Stage(VideoStages, "decoder") = 7 /\ Stage(VideoStages, "scaler") = 8
  BY DEF Stage, VideoStages
<1>5. VideoPast(f) = 8
  BY <1>2
<1>6. Loaded(v, f) = [format |-> <<f>>, avFrame |-> <<"live">>, stream |-> First("video", f),
                      codec |-> <<f>>, sws |-> <<f>>, dst |-> <<f>>]
  BY <1>4, <1>5 DEF Loaded
<1>7. f.streams[First("video", f)] = "video"
  BY <1>1, <1>3, FirstIs DEF Opens
<1> QED
  BY <1>6, <1>7

\* What is loaded is whole, what is decoded is of its stream of pictures, and
\* what was decoded last too.
VideoWhole(v) ==
  \E f \in VideoFiles :
    /\ v.format = <<f>> /\ v.codec = <<f>> /\ v.sws = <<f>> /\ v.dst = <<f>>
    /\ v.avFrame = <<"live">> /\ f.streams[v.stream] = "video"

OfPictures(s) == s # Nothing => s[1].streams[s[1].packets[s[2]]] = "video"

VideoInv ==
  /\ loaded => VideoWhole(video)
  /\ bytesLeft \in Nat
  /\ bytesLeft > 0 => loaded /\ video.format[1].packets[videoRead] = video.stream
  /\ OfPictures(shown)

LEMMA VideoStep == VideoInv /\ [VideoNext]_videoVars => VideoInv'
<1> SUFFICES ASSUME VideoInv, [VideoNext]_videoVars PROVE VideoInv'
  OBVIOUS
<1> USE DEF VideoInv
<1>1. CASE Load
  <2>1. PICK f \in VideoFiles : /\ video' = Loaded(video, f)
                                /\ loaded' = (VideoPast(f) = Len(VideoStages))
    BY <1>1 DEF Load
  <2>2. bytesLeft = 0 /\ bytesLeft' = 0 /\ shown' = Nothing
    BY <1>1 DEF Load
  <2>3. ASSUME loaded' PROVE VideoWhole(video')
    <3>1. VideoPast(f) = Len(VideoStages)
      BY <2>1, <2>3
    <3> QED
      BY <2>1, <3>1, AllLoaded DEF VideoWhole
  <2>4. OfPictures(shown')
    BY <2>2 DEF OfPictures
  <2> QED
    BY <2>2, <2>3, <2>4
<1>2. CASE NextFrame
  <2>1. loaded /\ UNCHANGED <<video, loaded, shown>> /\ videoRead' = videoRead + 1
        /\ bytesLeft' = IF video.format[1].packets[videoRead'] = video.stream THEN Bytes ELSE 0
    BY <1>2 DEF NextFrame
  <2>2. bytesLeft' \in Nat
    BY <2>1, MediaAssumption
  <2>3. bytesLeft' > 0 => video.format[1].packets[videoRead'] = video.stream
    BY <2>1
  <2> QED
    BY <2>1, <2>2, <2>3
<1>3. CASE AVCodecDecode
  <2>1. /\ bytesLeft > 0 /\ UNCHANGED <<video, loaded, videoRead>>
        /\ shown' \in {shown, <<video.format[1], videoRead>>}
    BY <1>3 DEF AVCodecDecode
  <2>2. bytesLeft' \in Nat
    <3>1. PICK used \in 0 .. bytesLeft : bytesLeft' = bytesLeft - used
      BY <1>3 DEF AVCodecDecode
    <3> QED
      BY <3>1
  <2>3. loaded /\ video.format[1].packets[videoRead] = video.stream
    BY <2>1
  <2>4. PICK f \in VideoFiles : video.format = <<f>> /\ f.streams[video.stream] = "video"
    BY <2>3 DEF VideoWhole
  <2>5. OfPictures(<<f, videoRead>>)
    BY <2>3, <2>4 DEF OfPictures
  <2>6. OfPictures(shown')
    BY <2>1, <2>4, <2>5
  <2> QED
    BY <2>1, <2>2, <2>3, <2>6
<1>4. CASE DecodeFails
  BY <1>4 DEF DecodeFails
<1>5. CASE UNCHANGED videoVars
  BY <1>5 DEF videoVars
<1> QED
  BY <1>1, <1>2, <1>3, <1>4, <1>5 DEF VideoNext

\* A file of sound that can be decoded is that of every object; of another
\* nothing can be decoded.
OfSound(a, f) ==
  /\ a.format = <<f>> /\ a.codecCtx = <<f>> /\ a.filename = <<f>>
  /\ a.stream = First("audio", f) /\ f.streams[a.stream] = "audio"

LEMMA AllSet ==
  ASSUME NEW f \in AudioFiles, NEW a
  PROVE  /\ AudioPast(f) = Len(AudioStages) => OfSound(FileSet(a, f), f)
         /\ AudioPast(f) # Len(AudioStages) => FileSet(a, f).format = Nothing
<1>1. Opens(AudioStages, f)
  BY MediaAssumption
<1>2. StagesAre(AudioStages, 5, 3) /\ Len(AudioStages) = 5
  BY DEF AudioStages, StagesAre
<1>3. /\ AudioPast(f) \in 0 .. 5
      /\ AudioPast(f) = 5 => First("audio", f) # 0
  <2>1. 5 \in Nat
    OBVIOUS
  <2>2. /\ Past(AudioStages, "audio", f) \in 0 .. 5
        /\ Past(AudioStages, "audio", f) = 5 => First("audio", f) # 0
    BY <1>1, <1>2, <2>1, PastIs, Zenon
  <2> QED
    BY <2>2 DEF AudioPast
<1>4. /\ Stage(AudioStages, "info") = 2 /\ Stage(AudioStages, "stream") = 3
      /\ Stage(AudioStages, "codec") = 4 /\ Stage(AudioStages, "decoder") = 5
  BY DEF Stage, AudioStages
<1>5. CASE AudioPast(f) = 5
  <2>1. FileSet(a, f) = [format |-> <<f>>, stream |-> First("audio", f), codecCtx |-> <<f>>,
                         codec |-> <<f>>, filename |-> <<f>>]
    <3>1. /\ AudioPast(f) >= Stage(AudioStages, "info")
          /\ AudioPast(f) >= Stage(AudioStages, "stream")
          /\ AudioPast(f) >= Stage(AudioStages, "codec")
          /\ AudioPast(f) >= Stage(AudioStages, "decoder")
      BY <1>4, <1>5
    <3> QED
      BY <3>1, Zenon DEF FileSet
  <2>2. f.streams[First("audio", f)] = "audio"
    BY <1>1, <1>3, <1>5, FirstIs DEF Opens
  <2> QED
    BY <1>2, <1>5, <2>1, <2>2 DEF OfSound
<1>6. CASE AudioPast(f) # 5
  <2>1. ~(AudioPast(f) >= Stage(AudioStages, "decoder"))
    BY <1>3, <1>4, <1>6
  <2>2. FileSet(a, f).format = Nothing
    BY <2>1 DEF FileSet
  <2> QED
    BY <1>2, <1>6, <2>2
<1> QED
  BY <1>5, <1>6

\* A decoder with a file has all of that file, and the buffer all of one.
AudioInv ==
  /\ audio.format # Nothing => \E f \in AudioFiles : OfSound(audio, f)
  /\ audioSet => audio.format # Nothing
  /\ audioRead = 0 /\ decoded.fits
  /\ decoded # Empty => \E f \in AudioFiles : decoded.frames = Frames(f, First("audio", f), 0)

LEMMA AudioStep == AudioInv /\ [AudioNext]_audioVars => AudioInv'
<1> SUFFICES ASSUME AudioInv, [AudioNext]_audioVars PROVE AudioInv'
  OBVIOUS
<1> USE DEF AudioInv
<1>1. CASE SetFile
  <2>1. PICK f \in AudioFiles : /\ audio' = FileSet(audio, f)
                                /\ audioSet' = (AudioPast(f) = Len(AudioStages))
    BY <1>1 DEF SetFile
  <2>2. audioRead' = 0 /\ decoded' = decoded
    BY <1>1 DEF SetFile
  <2>3. ASSUME audio'.format # Nothing PROVE OfSound(audio', f)
    BY <2>1, <2>3, AllSet
  <2>4. ASSUME audioSet' PROVE audio'.format # Nothing
    <3>1. OfSound(audio', f)
      BY <2>1, <2>4, AllSet
    <3> QED
      BY <3>1 DEF OfSound, Nothing
  <2> QED
    BY <2>2, <2>3, <2>4
<1>2. CASE Decode
  <2>1. /\ audio.format # Nothing /\ UNCHANGED <<audio, audioSet>> /\ audioRead' = 0
        /\ decoded' = Copied(Frames(audio.format[1], audio.stream, 0))
    BY <1>2 DEF Decode
  <2>2. PICK f \in AudioFiles : OfSound(audio, f)
    BY <2>1
  <2>3. PICK sizes : sizes = Frames(f, First("audio", f), 0)
    OBVIOUS
  <2>4. decoded' = Copied(sizes)
    BY <2>1, <2>2, <2>3 DEF OfSound
  <2>5. f.packets \in Seq(AudioPackets)
    BY MediaAssumption DEF AudioPackets
  <2>6. sizes \in Seq(Nat)
    BY <2>3, <2>5, FramesAreSizes
  <2>7. decoded'.frames = sizes /\ decoded'.fits
    BY <2>4, <2>6, AllAreCopied
  <2> QED
    BY <2>1, <2>3, <2>7
<1>3. CASE UNCHANGED audioVars
  BY <1>3 DEF audioVars
<1> QED
  BY <1>1, <1>2, <1>3 DEF AudioNext

\* Whatever files are loaded and set one after the other, at whatever stage each
\* of them fails, and whatever is decoded between: a video that is loaded has
\* its objects alive and of one file, a picture is one of its stream, and a
\* decode is all the sound of a file, with room for it (Video::Load, NextFrame,
\* AudioDecoder::SetFile, Decode).
THEOREM MediaAreAlwaysOfTheirFile == VideoSpec /\ AudioSpec => []MediaAreOfTheirFile
<1>1. VideoInit => VideoInv
  BY DEF VideoInit, VideoInv, OfPictures
<1>2. AudioInit => AudioInv
  BY DEF AudioInit, AudioInv, Empty
<1>3. VideoInv => PicturesAreOfTheVideo
  <2> SUFFICES ASSUME VideoInv PROVE PicturesAreOfTheVideo
    OBVIOUS
  <2>1. ASSUME loaded
        PROVE  /\ \E f \in VideoFiles : \A m \in {"format", "codec", "sws", "dst"} : video[m] = <<f>>
               /\ video.avFrame = <<"live">> /\ video.format[1].streams[video.stream] = "video"
    <3>1. PICK f \in VideoFiles :
            /\ video.format = <<f>> /\ video.codec = <<f>> /\ video.sws = <<f>> /\ video.dst = <<f>>
            /\ video.avFrame = <<"live">> /\ f.streams[video.stream] = "video"
      BY <2>1 DEF VideoInv, VideoWhole
    <3>2. \A m \in {"format", "codec", "sws", "dst"} : video[m] = <<f>>
      BY <3>1
    <3> QED
      BY <3>1, <3>2
  <2> QED
    BY <2>1 DEF PicturesAreOfTheVideo, VideoInv, OfPictures
<1>4. AudioInv => DecodesAreWhole
  <2> SUFFICES ASSUME AudioInv PROVE DecodesAreWhole
    OBVIOUS
  <2>1. ASSUME audioSet
        PROVE  /\ audio.codecCtx = audio.format /\ audio.filename = audio.format
               /\ audio.format[1].streams[audio.stream] = "audio"
    <3>1. PICK f \in AudioFiles : OfSound(audio, f)
      BY <2>1 DEF AudioInv
    <3> QED
      BY <3>1 DEF OfSound
  <2> QED
    BY <2>1 DEF DecodesAreWhole, AudioInv
<1> QED
  BY <1>1, <1>2, <1>3, <1>4, VideoStep, AudioStep, PTL
     DEF VideoSpec, AudioSpec, MediaAreOfTheirFile
=============================================================================
