-------------------------------- MODULE Time --------------------------------
(***************************************************************************)
(* Time.cc and Timer.cc: a time of a client, as seconds and nanoseconds,   *)
(* and a timer over the system's clock, used by one thread.  A double is a *)
(* whole number of halves of a nanosecond.  Products and quotients of      *)
(* times are left out, and so is the width of the integers.                *)
(***************************************************************************)
EXTENDS Integers, Sequences

CONSTANTS
  NsInSec, NsInMs,    \* a billion and a million
  Day, Hour, Minute,  \* in seconds
  Operands,           \* times added and subtracted
  Pairs,              \* seconds and nanoseconds a time is set to
  Doubles,            \* what it is set to otherwise
  Readings,           \* of the clock, in nanoseconds
  Resolution,         \* of the clock that sleeps
  MaxSec              \* bound: seconds of the client's time

Normal(t) == /\ -NsInSec < t.nsec /\ t.nsec < NsInSec
             /\ (t.sec > 0 => t.nsec >= 0) /\ (t.sec < 0 => t.nsec <= 0)

Pair == [sec : Int, nsec : Int]

\* Operands were made here.  Below zero, two billion nanoseconds or more, or
\* one and some seconds, are not brought into order by Correct.
ASSUME TimeAssumption ==
  /\ NsInSec \in Nat \ {0} /\ NsInMs \in Nat \ {0}
  /\ Operands \subseteq Pair /\ \A x \in Operands : Normal(x)
  /\ Pairs \subseteq Pair
  /\ \A p \in Pairs : -2 * NsInSec < p.nsec /\ p.nsec < 2 * NsInSec
                      /\ (p.sec < 0 => p.nsec <= NsInSec)
  /\ Doubles \subseteq Int /\ Readings \subseteq Nat
  /\ Resolution \in Nat \ {0} /\ MaxSec \in Nat

\* Each unit of time is a number of the next.
ASSUME UnitsAssumption ==
  /\ Day \in Nat \ {0} /\ Hour \in Nat \ {0} /\ Minute \in Nat \ {0}
  /\ Day % Hour = 0 /\ Hour % Minute = 0 /\ NsInSec % NsInMs = 0

VARIABLES
  now,      \* the client's time
  exact,    \* history: what it is, in nanoseconds
  clock,    \* what the clock reads
  timer,    \* start, stop and running
  marks,    \* history: what the clock read at the last start and stop
  answer    \* the time the last Sleep or Elapsed returned, and what it is

timeVars == <<now, exact, clock, timer, marks, answer>>

T(sec, nsec) == [sec |-> sec, nsec |-> nsec]
Zero == T(0, 0)
Total(t) == t.sec * NsInSec + t.nsec

\* Division towards zero.
Quotient(a) == IF a >= 0 THEN a \div NsInSec ELSE -((-a) \div NsInSec)
Abs(a) == IF a >= 0 THEN a ELSE -a
Borrowed(t) == Abs(Quotient(t.nsec)) + 1

Lend(t) == IF t.sec > 0 /\ t.nsec < 0
           THEN T(t.sec - Borrowed(t), t.nsec + Borrowed(t) * NsInSec) ELSE t
Return(t) == IF t.sec < 0 /\ t.nsec > 0
             THEN T(t.sec + Borrowed(t), t.nsec - Borrowed(t) * NsInSec) ELSE t
Carry(t) == T(t.sec + Quotient(t.nsec), t.nsec - Quotient(t.nsec) * NsInSec)

\* For the mutants: signs are made equal from one side only.
CorrectOnce(t) == Carry(Lend(t))
Correct(t) == Carry(Return(Lend(t)))

Plus(t, x)  == Correct(T(t.sec + x.sec, t.nsec + x.nsec))
Minus(t, x) == Correct(T(t.sec - x.sec, t.nsec - x.nsec))

Less(t, x) == \/ t.sec < x.sec
              \/ t.sec = x.sec /\ t.nsec < x.nsec
AtLeast(t, x) == ~Less(t, x)

\* Seconds below, and the nanoseconds above them, rounded.
Seconds(d) == Correct(T(d \div (2 * NsInSec), ((d % (2 * NsInSec)) + 1) \div 2))

SystemTime(reading) == T(reading \div NsInSec, reading % NsInSec)
-----------------------------------------------------------------------------

TimeInit == /\ now = Zero /\ exact = 0 /\ answer = [time |-> Zero, exact |-> 0]
            /\ clock \in Readings /\ marks = [start |-> 0, stop |-> 0]
            /\ timer = [start |-> Zero, stop |-> Zero, running |-> FALSE]

Becomes(t, total) == /\ t.sec \in -MaxSec..MaxSec
                     /\ now' = t /\ exact' = total
                     /\ UNCHANGED <<clock, timer, marks, answer>>

Add(x)         == Becomes(Plus(now, x), exact + Total(x))
Subtract(x)    == Becomes(Minus(now, x), exact - Total(x))
Set(p)         == Becomes(Correct(p), Total(p))
SetSeconds(d)  == Becomes(Seconds(d), (d + 1) \div 2)

Answer(t, total) == /\ answer' = [time |-> t, exact |-> total]
                    /\ UNCHANGED <<now, exact, clock, timer, marks>>

\* Sleeps for the client's time, if that is not too short or below zero; a
\* signal may leave some of it.
Sleep ==
  IF AtLeast(now, SystemTime(Resolution)) /\ now.sec >= 0 /\ now.nsec >= 0
  THEN \E left \in Readings : left <= exact /\ Answer(Minus(now, SystemTime(left)), exact - left)
  ELSE Answer(Zero, 0)

\* The clock is the system's, which may be set back.
Tick == clock' \in Readings /\ UNCHANGED <<now, exact, timer, marks, answer>>

Start == /\ timer' = [timer EXCEPT !.start = SystemTime(clock), !.running = TRUE]
         /\ marks' = [marks EXCEPT !.start = clock]
         /\ UNCHANGED <<now, exact, clock, answer>>
Stop  == /\ timer' = [timer EXCEPT !.stop = SystemTime(clock), !.running = FALSE]
         /\ marks' = [marks EXCEPT !.stop = clock]
         /\ UNCHANGED <<now, exact, clock, answer>>

Elapsed ==
  IF timer.running THEN Answer(Minus(SystemTime(clock), timer.start), clock - marks.start)
  ELSE Answer(Minus(timer.stop, timer.start), marks.stop - marks.start)

TimeNext ==
  \/ \E x \in Operands : Add(x) \/ Subtract(x)
  \/ \E p \in Pairs : Set(p)
  \/ \E d \in Doubles : SetSeconds(d)
  \/ Sleep \/ Tick \/ Start \/ Stop \/ Elapsed

TimeSpec == TimeInit /\ [][TimeNext]_timeVars
-----------------------------------------------------------------------------
\* FormattedString: the numbers from one unit to another, days first.  Before
\* the first unit everything stays together.
Units == <<Day, Hour, Minute, 1>>

\* For the mutants: what a unit took stays in the rest.
FormattedWhole(t, start, end) ==
  [i \in 1..(end - start + 1) |->
     LET u == start + i - 1
     IN IF u < 5 THEN t.sec \div Units[u] ELSE t.nsec \div NsInMs]
FormattedString(t, start, end) ==
  LET s == t.sec
      msec == t.nsec \div NsInMs
      last == IF end < start THEN start ELSE end
      Left(u) == IF u = start THEN s ELSE s % Units[u - 1]
      One(u) == IF u < 5 THEN Left(u) \div Units[u]
                ELSE IF start = 5 THEN msec + s * (NsInSec \div NsInMs) ELSE msec
  IN [i \in 1..(last - start + 1) |-> One(start + i - 1)]
-----------------------------------------------------------------------------
Exact(t, total) == Normal(t) /\ Total(t) = total

\* Whatever is added, subtracted and set, a time is exactly what it was made
\* of, and in the one form in which times are compared (Time::Correct and the
\* operators); so is what Sleep and Timer::Elapsed return.
TimesAreExact == Exact(now, exact) /\ Exact(answer.time, answer.exact)

\* Times compare as what they are: operator< and operator== on seconds and
\* nanoseconds agree with the nanoseconds in all.
TimesCompare ==
  \A x \in Operands : /\ Less(now, x) <=> Total(now) < Total(x)
                      /\ now = x <=> Total(now) = Total(x)

\* From any unit to any other, the numbers FormattedString writes add up to
\* the time, without what is smaller than the last (for times from zero on).
FormatsTellTheTime ==
  now.sec >= 0 /\ now.nsec >= 0 =>
    \A start \in 1..5 : \A end \in start..5 :
      LET ms(u) == IF u < 5 THEN Units[u] * (NsInSec \div NsInMs) ELSE 1
          parts == FormattedString(now, start, end)
          Sum[i \in 0..Len(parts)] == IF i = 0 THEN 0 ELSE Sum[i - 1] + parts[i] * ms(start + i - 1)
          all == exact \div NsInMs
      IN Sum[Len(parts)] = all - (all % ms(end))

\* Times compare as what they are, and the numbers they are written as add up
\* to them (operator<, operator==, Time::FormattedString).
TimesReadAsTheyAre == TimesCompare /\ FormatsTellTheTime
=============================================================================
