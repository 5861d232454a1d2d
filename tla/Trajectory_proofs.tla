-------------------------- MODULE Trajectory_proofs --------------------------
(***************************************************************************)
(* Theorems about Trajectory, the animation in it, and SkeletonAnimation,  *)
(* for any times, values, lengths, number of key frames and waypoints, and *)
(* for any nodes and poses.                                                *)
(***************************************************************************)
EXTENDS Trajectory, SkeletonAnimation, FiniteSetTheorems, SequenceTheorems,
        WellFoundedInduction, TLAPS

\* No step that leaves the splines alone makes them stale: either it leaves
\* the key frames alone too, or the flag says that they need building.
LEMMA SplinesStep ==
  ~LateEdits /\ SplinesFollowKeys /\ [Next]_vars => SplinesFollowKeys'
<1> SUFFICES ASSUME ~LateEdits, SplinesFollowKeys, [Next]_vars
             PROVE  SplinesFollowKeys'
  OBVIOUS
<1> USE DEF SplinesFollowKeys
<1>1. ASSUME NEW t \in Times, CreateKeyFrame(t) PROVE SplinesFollowKeys'
  BY <1>1 DEF CreateKeyFrame, NeedSplines
<1>2. ASSUME NEW i \in DOMAIN keyFrames, NEW v \in Values, SetKeyFrame(i, v)
      PROVE  SplinesFollowKeys'
  BY <1>2, Zenon DEF SetKeyFrame
<1>3. ASSUME NEW len \in Lengths, SetLength(len) PROVE SplinesFollowKeys'
  BY <1>3 DEF SetLength
<1>4. ASSUME NEW t \in Positions, Time(t) \/ AddTime(t) PROVE SplinesFollowKeys'
  BY <1>4 DEF AddTime, Time
<1>5. CASE InterpolatedKeyFrame
  BY <1>5 DEF InterpolatedKeyFrame
<1>6. ASSUME NEW w \in Routes, SetWaypoints(w) PROVE SplinesFollowKeys'
  BY <1>6, Zenon DEF SetWaypoints, NeedSplines
<1>7. CASE UNCHANGED vars
  BY <1>7 DEF vars, animation
<1> QED
  BY <1>1, <1>2, <1>3, <1>4, <1>5, <1>6, <1>7 DEF Next, AnimationStep

\* As long as key frames are filled in before a pose is asked for, a pose is
\* never interpolated from splines of other key frames.
THEOREM SplinesFollowKeysAlways ==
  ASSUME ~LateEdits PROVE Spec => []SplinesFollowKeys
<1>1. Init => SplinesFollowKeys
  BY DEF Init, NewAnimation, SplinesFollowKeys
<1>2. SplinesFollowKeys /\ [Next]_vars => SplinesFollowKeys'
  BY SplinesStep
<1> QED
  BY <1>1, <1>2, PTL DEF Spec
-----------------------------------------------------------------------------
\* A set of natural numbers has a least one,
LEMMA MinOfNat ==
  ASSUME NEW S \in SUBSET Nat, S # {}
  PROVE  Min(S) \in S /\ \A y \in S : Min(S) <= y
<1>1. PICK x \in S : \A y \in S : <<y, x>> \notin OpToRel(<, Nat)
  BY NatLessThanWellFounded, WFMin, Zenon
<1>2. \A y \in S : x <= y
  <2> SUFFICES ASSUME NEW y \in S, y < x PROVE FALSE
    OBVIOUS
  <2>1. <<y, x>> \in OpToRel(<, Nat)
    BY DEF OpToRel
  <2> QED
    BY <1>1, <2>1
<1> QED
  BY <1>1, <1>2 DEF Min

\* and if it is bounded a largest one.
LEMMA MaxOfNat ==
  ASSUME NEW end \in Nat, NEW S \in SUBSET (0 .. end), S # {}
  PROVE  Max(S) \in S /\ \A y \in S : y <= Max(S)
<1> DEFINE T == {end - y : y \in S}
<1>1. T \in SUBSET Nat /\ T # {}
  <2>1. \A y \in S : end - y \in Nat
    OBVIOUS
  <2> QED
    BY <2>1, Zenon
<1>2. PICK x \in S : Min(T) = end - x
  BY <1>1, MinOfNat
<1>3. \A y \in S : y <= x
  <2> SUFFICES ASSUME NEW y \in S PROVE y <= x
    OBVIOUS
  <2>1. Min(T) <= end - y
    BY <1>1, MinOfNat
  <2> QED
    BY <1>2, <2>1
<1> QED
  BY <1>2, <1>3 DEF Max

\* What the range of the position rests on.
LengthOK == length \in Nat /\ timePos \in Int

\* SetWaypoints makes an animation of a natural length.
LEMMA RouteLength ==
  ASSUME NEW w \in Routes
  PROVE  Max(DOMAIN w) - Min(DOMAIN w) \in Nat
<1>1. DOMAIN w \subseteq Clock /\ DOMAIN w # {}
  BY DEF Routes
<1>2. Max(DOMAIN w) \in DOMAIN w /\ DOMAIN w \in SUBSET (0 .. LastTick)
  BY <1>1, TrajectoryAssumption, MaxOfNat
<1>3. Min(DOMAIN w) \in DOMAIN w /\ Min(DOMAIN w) <= Max(DOMAIN w)
  BY <1>1, <1>2, MinOfNat
<1> QED
  BY <1>2, <1>3, TrajectoryAssumption

\* Remainders and ends are in range.
LEMMA NewPosition ==
  ASSUME NEW t \in Int, length \in Nat, loop => length > 0
  PROVE  (IF loop THEN Wrap(t) ELSE Clamp(t)) \in 0 .. length
  BY DEF Wrap, Clamp

\* The time position is in range whenever it changes, and stays an integer.
LEMMA PositionStep ==
  LengthOK /\ [Next]_vars =>
    /\ LengthOK'
    /\ timePos' # timePos => timePos' \in 0 .. length
<1> SUFFICES ASSUME LengthOK, [Next]_vars
             PROVE  /\ LengthOK'
                    /\ timePos' # timePos => timePos' \in 0 .. length
  OBVIOUS
<1> USE DEF LengthOK
<1>1. ASSUME NEW t \in Times, CreateKeyFrame(t) PROVE UNCHANGED <<length, timePos>>
  BY <1>1 DEF CreateKeyFrame
<1>2. ASSUME NEW i \in DOMAIN keyFrames, NEW v \in Values, SetKeyFrame(i, v)
      PROVE  UNCHANGED <<length, timePos>>
  BY <1>2 DEF SetKeyFrame
<1>3. ASSUME NEW len \in Lengths, SetLength(len)
      PROVE  length' \in Nat /\ timePos' = timePos
  BY <1>3, AnimationAssumption DEF SetLength
<1>4. ASSUME NEW t \in Int, Time(t)
      PROVE  length' = length /\ timePos' \in 0 .. length
  BY <1>4, NewPosition DEF Time
<1>5. ASSUME NEW t \in Positions, Time(t) \/ AddTime(t)
      PROVE  length' = length /\ timePos' \in 0 .. length
  <2>1. t \in Int /\ timePos + t \in Int
    BY AnimationAssumption
  <2> QED
    BY <1>4, <1>5, <2>1 DEF AddTime
<1>6. CASE InterpolatedKeyFrame
  BY <1>6 DEF InterpolatedKeyFrame
<1>7. ASSUME NEW w \in Routes, SetWaypoints(w)
      PROVE  length' \in Nat /\ timePos' = 0
  BY <1>7, RouteLength DEF SetWaypoints
<1>8. CASE UNCHANGED vars
  BY <1>8 DEF vars, animation
<1> QED
  BY <1>1, <1>2, <1>3, <1>5, <1>6, <1>7, <1>8 DEF Next, AnimationStep

\* Whatever Time and AddTime are given, and however the length was changed
\* before, they leave the animation inside its length.
THEOREM PositionAlwaysInRange == Spec => PositionInRange
<1>1. Init => LengthOK
  BY AnimationAssumption DEF Init, NewAnimation, LengthOK
<1>2. LengthOK /\ [Next]_vars => LengthOK'
  BY PositionStep
<1>3. LengthOK /\ [Next]_vars =>
        [timePos' # timePos => timePos' \in 0 .. length]_animation
  BY PositionStep
<1> QED
  BY <1>1, <1>2, <1>3, PTL DEF Spec, PositionInRange
-----------------------------------------------------------------------------
(* The binary searches.                                                      *)

\* What is counted from the front is a prefix of the positions.
LEMMA CountedPrefix ==
  ASSUME NEW n \in Nat, NEW S \in SUBSET (1 .. n),
         \A i \in S : \A j \in 1 .. i : j \in S
  PROVE  Cardinality(S) \in 0 .. n /\ S = 1 .. Cardinality(S)
<1>1. CASE S = {}
  <2>1. Cardinality(S) = 0
    BY <1>1, FS_EmptySet
  <2> QED
    BY <1>1, <2>1
<1>2. CASE S # {}
  <2>1. S \in SUBSET (0 .. n)
    OBVIOUS
  <2>2. PICK m \in S : \A y \in S : y <= m
    BY <1>2, <2>1, MaxOfNat
  <2>3. S = 1 .. m
    <3>1. m \in Int /\ \A j \in S : j \in 1 .. m
      BY <2>2
    <3>2. \A j \in 1 .. m : j \in S
      BY <2>2
    <3> QED
      BY <3>1, <3>2
  <2>4. Cardinality(1 .. m) = m
    BY <2>2, FS_Interval
  <2> QED
    BY <2>2, <2>3, <2>4
<1> QED
  BY <1>1, <1>2

Keys == [time : Nat, value : Int]
Ordered(keys) == \A i, j \in DOMAIN keys : i < j => keys[i].time <= keys[j].time

LEMMA TimesAreNumbers ==
  ASSUME NEW keys \in Seq(Keys), NEW i \in DOMAIN keys
  PROVE  keys[i] \in Keys /\ keys[i].time \in Int /\ keys[i].value \in Int
<1>1. keys[i] \in Keys
  OBVIOUS
<1> QED
  BY <1>1 DEF Keys

\* The two searches split key frames that are in order: those before the
\* position they find are earlier than the time, or at it.
LEMMA LowerBoundSplits ==
  ASSUME NEW keys \in Seq(Keys), Ordered(keys), NEW t \in Int
  PROVE  /\ LowerBound(keys, t) \in 1 .. Len(keys) + 1
         /\ \A i \in DOMAIN keys : i < LowerBound(keys, t) <=> keys[i].time < t
<1> DEFINE S == {i \in DOMAIN keys : keys[i].time < t}
<1>1. S \in SUBSET (1 .. Len(keys)) /\ Len(keys) \in Nat
  OBVIOUS
<1>2. \A i \in S : \A j \in 1 .. i : j \in S
  <2> SUFFICES ASSUME NEW i \in S, NEW j \in 1 .. i PROVE j \in S
    OBVIOUS
  <2>1. i \in DOMAIN keys /\ j \in DOMAIN keys /\ (j = i \/ j < i)
    OBVIOUS
  <2>2. keys[i].time \in Int /\ keys[j].time \in Int
    BY <2>1, TimesAreNumbers
  <2> QED
    BY <2>1, <2>2 DEF Ordered
<1>3. Cardinality(S) \in 0 .. Len(keys) /\ S = 1 .. Cardinality(S)
  BY <1>1, <1>2, CountedPrefix
<1>4. LowerBound(keys, t) = 1 + Cardinality(S)
  BY DEF LowerBound
<1>5. \A i \in DOMAIN keys : i \in S <=> keys[i].time < t
  OBVIOUS
<1> HIDE DEF S
<1> QED
  BY <1>3, <1>4, <1>5

LEMMA UpperBoundSplits ==
  ASSUME NEW keys \in Seq(Keys), Ordered(keys), NEW t \in Int
  PROVE  /\ UpperBound(keys, t) \in 1 .. Len(keys) + 1
         /\ \A i \in DOMAIN keys : i < UpperBound(keys, t) <=> keys[i].time <= t
<1> DEFINE S == {i \in DOMAIN keys : keys[i].time <= t}
<1>1. S \in SUBSET (1 .. Len(keys)) /\ Len(keys) \in Nat
  OBVIOUS
<1>2. \A i \in S : \A j \in 1 .. i : j \in S
  <2> SUFFICES ASSUME NEW i \in S, NEW j \in 1 .. i PROVE j \in S
    OBVIOUS
  <2>1. i \in DOMAIN keys /\ j \in DOMAIN keys /\ (j = i \/ j < i)
    OBVIOUS
  <2>2. keys[i].time \in Int /\ keys[j].time \in Int
    BY <2>1, TimesAreNumbers
  <2> QED
    BY <2>1, <2>2 DEF Ordered
<1>3. Cardinality(S) \in 0 .. Len(keys) /\ S = 1 .. Cardinality(S)
  BY <1>1, <1>2, CountedPrefix
<1>4. UpperBound(keys, t) = 1 + Cardinality(S)
  BY DEF UpperBound
<1>5. \A i \in DOMAIN keys : i \in S <=> keys[i].time <= t
  OBVIOUS
<1> HIDE DEF S
<1> QED
  BY <1>3, <1>4, <1>5

\* What is before, at and after an element put between two sequences.
Between(s, a, k, b) ==
  /\ Len(s) = Len(a) + 1 + Len(b)
  /\ \A i \in 1 .. Len(a) : s[i] = a[i]
  /\ s[Len(a) + 1] = k
  /\ \A i \in Len(a) + 2 .. Len(a) + 1 + Len(b) : s[i] = b[i - (Len(a) + 1)]

LEMMA PutBetween ==
  ASSUME NEW T, NEW a \in Seq(T), NEW k \in T, NEW b \in Seq(T)
  PROVE  a \o <<k>> \o b \in Seq(T) /\ Between(a \o <<k>> \o b, a, k, b)
<1>0. Len(a) \in Nat /\ Len(b) \in Nat
  BY LenProperties
<1>1. <<k>> \in Seq(T) /\ Len(<<k>>) = 1 /\ <<k>>[1] = k
  OBVIOUS
<1>2. PICK c : c = a \o <<k>>
  OBVIOUS
<1>3. /\ c \in Seq(T) /\ Len(c) = Len(a) + 1
      /\ \A i \in 1 .. Len(a) + 1 : c[i] = IF i <= Len(a) THEN a[i] ELSE <<k>>[i - Len(a)]
  BY <1>1, <1>2, ConcatProperties, Zenon
<1>4. /\ c \o b \in Seq(T) /\ Len(c \o b) = Len(c) + Len(b)
      /\ \A i \in 1 .. Len(c) + Len(b) : (c \o b)[i] = IF i <= Len(c) THEN c[i] ELSE b[i - Len(c)]
  <2>1. c \in Seq(T)
    BY <1>3
  <2> QED
    BY <2>1, ConcatProperties, Zenon
<1>5. PICK s : s = c \o b
  OBVIOUS
<1>6. PICK m \in Nat : m = Len(a)
  BY <1>0
<1>7. PICK n \in Nat : n = Len(b)
  BY <1>0
<1>8. /\ \A i \in 1 .. m + 1 : c[i] = IF i <= m THEN a[i] ELSE <<k>>[i - m]
      /\ \A i \in 1 .. m + 1 + n : s[i] = IF i <= m + 1 THEN c[i] ELSE b[i - (m + 1)]
      /\ s \in Seq(T) /\ Len(s) = m + 1 + n
  BY <1>3, <1>4, <1>5, <1>6, <1>7, Zenon
<1>9. ASSUME NEW i \in 1 .. m PROVE s[i] = a[i]
  <2>1. i \in 1 .. m + 1 /\ i \in 1 .. m + 1 + n /\ i <= m /\ i <= m + 1
    BY <1>6, <1>7
  <2> QED
    BY <1>8, <2>1, Zenon
<1>10. s[m + 1] = k
  <2>1. m + 1 \in 1 .. m + 1 /\ m + 1 \in 1 .. m + 1 + n /\ ~(m + 1 <= m) /\ m + 1 <= m + 1 /\ (m + 1) - m = 1
    BY <1>6, <1>7
  <2> QED
    BY <1>1, <1>8, <2>1, Zenon
<1>11. ASSUME NEW i \in m + 2 .. m + 1 + n PROVE s[i] = b[i - (m + 1)]
  <2>1. i \in 1 .. m + 1 + n /\ ~(i <= m + 1)
    BY <1>6, <1>7
  <2> QED
    BY <1>8, <2>1, Zenon
<1> QED
  BY <1>2, <1>5, <1>6, <1>7, <1>8, <1>9, <1>10, <1>11, Zenon DEF Between

\* What InsertAt does, by position.
Inserted(s, keys, p, k) ==
  /\ Len(s) = Len(keys) + 1
  /\ \A i \in 1 .. p - 1 : s[i] = keys[i]
  /\ s[p] = k
  /\ \A i \in p + 1 .. Len(keys) + 1 : s[i] = keys[i - 1]

LEMMA InsertedAt ==
  ASSUME NEW T, NEW keys \in Seq(T), NEW k \in T, NEW p \in 1 .. Len(keys) + 1
  PROVE  InsertAt(keys, p, k) \in Seq(T) /\ Inserted(InsertAt(keys, p, k), keys, p, k)
<1>0. PICK n \in Nat : n = Len(keys)
  BY LenProperties
<1>1. PICK a : a = SubSeq(keys, 1, p - 1)
  OBVIOUS
<1>2. PICK b : b = SubSeq(keys, p, n)
  OBVIOUS
<1>3. a \in Seq(T) /\ Len(a) = p - 1 /\ \A i \in 1 .. p - 1 : a[i] = keys[i]
  BY <1>0, <1>1
<1>4. b \in Seq(T) /\ Len(b) = n - p + 1 /\ \A i \in 1 .. n - p + 1 : b[i] = keys[p + i - 1]
  BY <1>0, <1>2
<1>5. PICK s : s = a \o <<k>> \o b
  OBVIOUS
<1>6. s \in Seq(T) /\ Between(s, a, k, b)
  BY <1>3, <1>4, <1>5, PutBetween
<1>7. Len(a) + 1 = p /\ Len(a) + 1 + Len(b) = n + 1 /\ Len(a) + 2 = p + 1
  BY <1>0, <1>3, <1>4
<1>8. s = InsertAt(keys, p, k)
  BY <1>0, <1>1, <1>2, <1>5, Zenon DEF InsertAt
<1>9. /\ s \in Seq(T) /\ Len(s) = n + 1
      /\ s[p] = k
      /\ \A i \in 1 .. p - 1 : s[i] = keys[i]
      /\ \A i \in p + 1 .. n + 1 : s[i] = b[i - p]
  BY <1>3, <1>6, <1>7, Zenon DEF Between
<1>10. ASSUME NEW i \in p + 1 .. n + 1 PROVE s[i] = keys[i - 1]
  <2>1. i - p \in 1 .. n - p + 1 /\ p + (i - p) - 1 = i - 1
    BY <1>0
  <2> QED
    BY <1>4, <1>9, <2>1, Zenon
<1> QED
  BY <1>0, <1>8, <1>9, <1>10, Zenon DEF Inserted

\* A key frame that is put where the search says leaves them in order.
InOrderWith(s, keys, k) ==
  /\ s \in Seq(Keys) /\ Ordered(s)
  /\ \A i \in DOMAIN s : s[i] = k \/ \E j \in DOMAIN keys : s[i] = keys[j]

LEMMA InsertedInOrder ==
  ASSUME NEW keys \in Seq(Keys), Ordered(keys), NEW k \in Keys
  PROVE  InOrderWith(InsertAt(keys, Place(keys, k.time), k), keys, k)
<1> PICK p : p = Place(keys, k.time)
  OBVIOUS
<1> PICK s : s = InsertAt(keys, p, k)
  OBVIOUS
<1>1. k.time \in Int
  BY DEF Keys
<1>0. Len(keys) \in Nat /\ DOMAIN keys = 1 .. Len(keys)
  OBVIOUS
<1>2. /\ p \in 1 .. Len(keys) + 1
      /\ \A i \in DOMAIN keys : i < p <=> keys[i].time <= k.time
  BY <1>1, UpperBoundSplits DEF Place
<1>3. s \in Seq(Keys) /\ Inserted(s, keys, p, k)
  BY <1>2, InsertedAt
<1>4. /\ Len(s) = Len(keys) + 1
      /\ \A i \in 1 .. p - 1 : s[i] = keys[i]
      /\ s[p] = k
      /\ \A i \in p + 1 .. Len(s) : s[i] = keys[i - 1]
  BY <1>3, Zenon DEF Inserted
<1>5. Ordered(s)
  <2> SUFFICES ASSUME NEW i \in 1 .. Len(s), NEW j \in 1 .. Len(s), i < j
               PROVE  s[i].time <= s[j].time
    BY <1>3 DEF Ordered
  <2>0. \A n \in DOMAIN keys : keys[n].time \in Int
    BY TimesAreNumbers
  <2>1. CASE j < p
    <3>1. s[i] = keys[i] /\ s[j] = keys[j] /\ i \in DOMAIN keys /\ j \in DOMAIN keys
      BY <1>2, <1>4, <2>1
    <3> QED
      BY <3>1 DEF Ordered
  <2>2. CASE j = p
    BY <1>2, <1>4, <2>2
  <2>3. CASE j > p /\ i < p
    <3>0. i \in 1 .. p - 1 /\ j \in p + 1 .. Len(s)
      BY <1>2, <2>3
    <3>1. s[i] = keys[i] /\ s[j] = keys[j - 1]
      BY <1>4, <3>0
    <3>2. /\ i \in DOMAIN keys /\ j - 1 \in DOMAIN keys
          /\ i < j - 1 \/ i = j - 1
      BY <1>0, <1>2, <1>3, <1>4, <3>0
    <3> QED
      BY <2>0, <3>1, <3>2 DEF Ordered
  <2>4. CASE j > p /\ i = p
    <3>1. ~(keys[j - 1].time <= k.time) /\ j - 1 \in DOMAIN keys
      BY <1>2, <1>3, <1>4, <2>4
    <3>2. keys[j - 1].time \in Int
      BY <2>0, <3>1
    <3> QED
      BY <1>1, <1>4, <2>4, <3>1, <3>2
  <2>5. CASE i > p
    <3>0. i \in p + 1 .. Len(s) /\ j \in p + 1 .. Len(s)
      BY <1>2, <2>5
    <3>1. s[i] = keys[i - 1] /\ s[j] = keys[j - 1]
      BY <1>4, <3>0
    <3>2. i - 1 \in DOMAIN keys /\ j - 1 \in DOMAIN keys /\ i - 1 < j - 1
      BY <1>0, <1>2, <1>3, <1>4, <3>0
    <3> QED
      BY <3>1, <3>2 DEF Ordered
  <2> QED
    BY <1>2, <2>1, <2>2, <2>3, <2>4, <2>5
<1>6. ASSUME NEW i \in DOMAIN s
      PROVE  s[i] = k \/ \E j \in DOMAIN keys : s[i] = keys[j]
  BY <1>2, <1>3, <1>4
<1> QED
  BY <1>3, <1>5, <1>6 DEF InOrderWith
-----------------------------------------------------------------------------
(* Interpolation.                                                            *)

\* A remainder is told by its range.
LEMMA RemainderIs ==
  ASSUME NEW len \in Nat \ {0}, NEW r \in 0 .. len - 1, NEW a \in {r, r + len, r + 2 * len}
  PROVE  a % len = r
<1> DEFINE q == a \div len
           m == a % len
<1>1. q \in Int /\ m \in 0 .. len - 1 /\ a = q * len + m
  OBVIOUS
<1> HIDE DEF q, m
<1>2. CASE q \in 0 .. 2
  <2>1. CASE q = 0
    BY <1>1, <2>1
  <2>2. CASE q = 1
    BY <1>1, <2>2
  <2>3. CASE q = 2
    BY <1>1, <2>3
  <2> QED
    BY <1>2, <2>1, <2>2, <2>3
<1>3. CASE q <= -1
  <2>1. (-1 - q) * len >= 0
    BY <1>1, <1>3
  <2>2. q * len <= -len
    BY <1>1, <2>1
  <2> QED
    BY <1>1, <2>2
<1>4. CASE q >= 3
  <2>1. (q - 3) * len >= 0
    BY <1>1, <1>4
  <2>2. q * len >= 3 * len
    BY <1>1, <2>1
  <2> QED
    BY <1>1, <2>2
<1>5. m = r
  BY <1>1, <1>2, <1>3, <1>4
<1> QED
  BY <1>5 DEF m

\* The time an animation of length len is at, as InterpolationIsLinear says it.
Turned(time, len) ==
  CHOOSE x \in 0 .. len :
    IF time <= len \/ len = 0 THEN x = time \/ len = 0
    ELSE x > 0 /\ \E n \in 1 .. 3 : time = x + n * len

LEMMA FoldedIsTurned ==
  ASSUME NEW len \in Nat \ {0}, NEW time \in 0 .. 2 * len + 1
  PROVE  Turned(time, len) = Folded(time, len) /\ Folded(time, len) \in 0 .. len
<1>1. CASE time <= len
  <2>1. Folded(time, len) = time
    BY <1>1 DEF Folded
  <2>2. Turned(time, len) = CHOOSE x \in 0 .. len : x = time
    BY <1>1 DEF Turned
  <2> QED
    BY <1>1, <2>1, <2>2
<1>2. CASE time > len
  <2> PICK f : f = Folded(time, len)
    OBVIOUS
  <2>1. f = ((time - 1) % len) + 1
    BY <1>2 DEF Folded
  <2>2. f \in 1 .. len
    BY <2>1
  <2>3. ASSUME NEW x \in 1 .. len, NEW n \in 1 .. 3, time = x + n * len PROVE f = x
    <3>1. n \in 1 .. 2
      <4>1. CASE n = 3
        BY <2>3, <4>1
      <4> QED
        BY <4>1
    <3>2. time - 1 \in {x - 1, (x - 1) + len, (x - 1) + 2 * len} /\ x - 1 \in 0 .. len - 1
      <4>1. CASE n = 1
        BY <2>3, <4>1
      <4>2. CASE n = 2
        BY <2>3, <4>2
      <4> QED
        BY <3>1, <4>1, <4>2
    <3>3. (time - 1) % len = x - 1
      BY <3>2, RemainderIs
    <3> QED
      BY <2>1, <3>3
  <2>4. \E x \in 1 .. len : \E n \in 1 .. 3 : time = x + n * len
    <3>1. CASE time <= 2 * len
      <4>1. time - len \in 1 .. len /\ time = (time - len) + 1 * len /\ 1 \in 1 .. 3
        BY <1>2, <3>1
      <4> QED
        BY <4>1, Zenon
    <3>2. CASE time = 2 * len + 1
      <4>1. 1 \in 1 .. len /\ time = 1 + 2 * len /\ 2 \in 1 .. 3
        BY <3>2
      <4> QED
        BY <4>1, Zenon
    <3> QED
      BY <3>1, <3>2
  <2>5. \E n \in 1 .. 3 : time = f + n * len
    BY <2>3, <2>4
  <2>6. \A x \in 0 .. len : x > 0 /\ (\E n \in 1 .. 3 : time = x + n * len) <=> x = f
    BY <2>2, <2>3, <2>5
  <2>7. Turned(time, len) = CHOOSE x \in 0 .. len :
                              x > 0 /\ \E n \in 1 .. 3 : time = x + n * len
    BY <1>2 DEF Turned
  <2> QED
    BY <2>2, <2>6, <2>7
<1> QED
  BY <1>1, <1>2

\* What InterpolationIsLinear says of a value f at the time t.
Linear(keys, len, f, t) ==
  \/ \E i \in DOMAIN keys : keys[i].time = t /\ Equals(f, keys[i].value)
  \/ t < keys[1].time /\ Equals(f, keys[1].value)
  \/ \E i \in DOMAIN keys \ {Len(keys)} :
       /\ keys[i].time < t /\ t < keys[i + 1].time
       /\ OnLine(f, t, keys[i].time, keys[i].value, keys[i + 1].time, keys[i + 1].value)
  \/ /\ keys[Len(keys)].time < t
     /\ OnLine(f, t, keys[Len(keys)].time, keys[Len(keys)].value,
               len + keys[1].time, keys[1].value)

\* A part of the way from one value to another is on the line between them.
LEMMA PartOfLine ==
  ASSUME NEW t1 \in Int, NEW t2 \in Int, NEW v1 \in Int, NEW v2 \in Int, NEW t \in Int,
         t1 < t, t <= t2
  PROVE  OnLine([num |-> v1 * (t2 - t1) + (v2 - v1) * (t - t1), den |-> t2 - t1],
                t, t1, v1, t2, v2)
<1> DEFINE n == v1 * (t2 - t1) + (v2 - v1) * (t - t1)
           d == t2 - t1
<1>1. n \in Int /\ d \in Int /\ d > 0
  OBVIOUS
<1> HIDE DEF n, d
<1>2. n * d = d * n
  BY <1>1
<1>3. OnLine([num |-> n, den |-> d], t, t1, v1, t2, v2) <=>
        d > 0 /\ t1 <= t /\ t <= t2 /\ n * (t2 - t1) = d * (v1 * (t2 - t1) + (v2 - v1) * (t - t1))
  BY DEF OnLine
<1> QED
  BY <1>1, <1>2, <1>3 DEF n, d

LEMMA InterpolatedIsLinear ==
  ASSUME NEW keys \in Seq(Keys), Ordered(keys), keys # <<>>, NEW len \in Nat \ {0},
         NEW time \in Int, Folded(time, len) \in 0 .. len
  PROVE  Linear(keys, len, Interpolated(keys, len, time), Folded(time, len))
<1> PICK t \in 0 .. len : t = Folded(time, len)
  OBVIOUS
<1> PICK next : next = LowerBound(keys, t)
  OBVIOUS
<1> PICK last \in Nat : last = Len(keys)
  OBVIOUS
<1> DEFINE v(i) == keys[i].value
           at(i) == keys[i].time
           f == Interpolated(keys, len, time)
<1>1. /\ next \in 1 .. last + 1
      /\ \A i \in DOMAIN keys : i < next <=> at(i) < t
      /\ DOMAIN keys = 1 .. last /\ last >= 1
  <2>1. last # 0
    BY EmptySeq
  <2> QED
    BY <2>1, LowerBoundSplits
<1>2. \A i \in 1 .. last : at(i) \in Nat /\ v(i) \in Int
  <2>1. \A i \in 1 .. last : keys[i] \in Keys
    OBVIOUS
  <2> QED
    BY <2>1 DEF Keys
<1>3. ASSUME NEW i \in 1 .. last, KeyFramesAtTime(keys, len, time).first = i,
             KeyFramesAtTime(keys, len, time).num = 0
      PROVE  f = [num |-> v(i), den |-> 1] /\ Equals(f, v(i))
  <2>1. f = [num |-> v(i), den |-> 1]
    BY <1>3 DEF Interpolated
  <2>2. v(i) = v(i) * 1
    BY <1>2
  <2> QED
    BY <2>1, <2>2 DEF Equals
<1>4. CASE next <= last /\ (next = 1 \/ at(next) = t)
  <2>1. KeyFramesAtTime(keys, len, time).first = next /\ KeyFramesAtTime(keys, len, time).num = 0
    BY <1>1, <1>2, <1>4 DEF KeyFramesAtTime
  <2>2. Equals(f, v(next)) /\ next \in DOMAIN keys
    BY <1>1, <1>3, <1>4, <2>1
  <2>3. at(next) = t \/ (next = 1 /\ t < at(next))
    BY <1>1, <1>2, <1>4
  <2> QED
    BY <2>2, <2>3 DEF Linear
<1>5. CASE next <= last /\ next > 1 /\ at(next) # t
  <2> PICK k : k = next - 1
    OBVIOUS
  <2>1. k \in DOMAIN keys \ {last} /\ k + 1 = next /\ k < next /\ k \in 1 .. last /\ next \in 1 .. last
    BY <1>1, <1>5
  <2>2. at(k) < t /\ t < at(next) /\ at(k) \in Int /\ at(next) \in Int
    BY <1>1, <1>2, <1>5, <2>1
  <2>3. KeyFramesAtTime(keys, len, time) =
          [first |-> k, second |-> next, num |-> t - at(k), den |-> at(next) - at(k)]
    BY <1>1, <1>5, <2>1, <2>2 DEF KeyFramesAtTime
  <2>4. t - at(k) # 0
    BY <2>2
  <2>5. f = [num |-> v(k) * (at(next) - at(k)) + (v(next) - v(k)) * (t - at(k)),
             den |-> at(next) - at(k)]
    BY <2>3, <2>4 DEF Interpolated
  <2>6. OnLine(f, t, at(k), v(k), at(next), v(next))
    <3>1. v(k) \in Int /\ v(next) \in Int
      BY <1>2, <2>1
    <3> HIDE DEF v, at
    <3>2. OnLine([num |-> v(k) * (at(next) - at(k)) + (v(next) - v(k)) * (t - at(k)),
                  den |-> at(next) - at(k)], t, at(k), v(k), at(next), v(next))
      BY <2>2, <3>1, PartOfLine
    <3> QED
      BY <2>5, <3>2, Zenon
  <2> QED
    BY <2>1, <2>2, <2>6 DEF Linear
<1>6. CASE next = last + 1
  <2> DEFINE end == len + at(1)
  <2>1. at(last) < t /\ t <= end /\ at(last) \in Int /\ end \in Int /\ v(last) \in Int /\ v(1) \in Int
    BY <1>1, <1>2, <1>6
  <2>2. KeyFramesAtTime(keys, len, time) =
          [first |-> last, second |-> 1, num |-> t - at(last), den |-> end - at(last)]
    BY <1>1, <1>6, <2>1 DEF KeyFramesAtTime
  <2>3. t - at(last) # 0
    BY <2>1
  <2>4. f = [num |-> v(last) * (end - at(last)) + (v(1) - v(last)) * (t - at(last)),
             den |-> end - at(last)]
    BY <2>2, <2>3 DEF Interpolated
  <2>5. OnLine(f, t, at(last), v(last), end, v(1))
    BY <2>1, <2>4, PartOfLine
  <2> QED
    BY <2>1, <2>5 DEF Linear
<1> QED
  BY <1>1, <1>4, <1>5, <1>6

\* An animation of no length, with all its key frames at 0, is at its first or
\* its last one.
LEMMA NoLength ==
  ASSUME NEW keys \in Seq(Keys), keys # <<>>, NEW time \in 0 .. 1,
         \A i \in DOMAIN keys : keys[i].time = 0
  PROVE  Linear(keys, 0, Interpolated(keys, 0, time), Turned(time, 0))
<1> PICK last \in Nat : last = Len(keys)
  OBVIOUS
<1> DEFINE b == KeyFramesAtTime(keys, 0, time)
<1>1. DOMAIN keys = 1 .. last /\ last >= 1 /\ Ordered(keys)
  <2>1. last # 0
    BY EmptySeq
  <2> QED
    BY <2>1 DEF Ordered
<1>2. Turned(time, 0) = 0
  <2>1. \E x \in 0 .. 0 : IF time <= 0 \/ 0 = 0 THEN x = time \/ 0 = 0
                          ELSE x > 0 /\ \E n \in 1 .. 3 : time = x + n * 0
    OBVIOUS
  <2>2. Turned(time, 0) \in 0 .. 0
    BY <2>1, Zenon DEF Turned
  <2> QED
    BY <2>2
<1>3. /\ LowerBound(keys, time) \in 1 .. last + 1
      /\ \A i \in DOMAIN keys : i < LowerBound(keys, time) <=> keys[i].time < time
  <2>1. time \in Int /\ Ordered(keys)
    BY <1>1
  <2> HIDE DEF b
  <2> QED
    BY <2>1, LowerBoundSplits, Zenon
<1>4. Folded(time, 0) = time
  BY DEF Folded
<1>5. \E i \in 1 .. last : b.first = i /\ b.num = 0
  <2>1. CASE time = 0
    <3>1. LowerBound(keys, time) = 1
      BY <1>1, <1>3, <2>1
    <3>2. b.first = 1 /\ b.num = 0
      BY <1>1, <1>4, <2>1, <3>1 DEF KeyFramesAtTime
    <3> QED
      BY <1>1, <3>2
  <2>2. CASE time = 1
    <3>1. LowerBound(keys, time) = last + 1
      BY <1>1, <1>3, <2>2
    <3>2. b.first = last /\ b.num = 0
      BY <1>1, <1>4, <3>1 DEF KeyFramesAtTime
    <3> QED
      BY <1>1, <3>2
  <2> QED
    BY <2>1, <2>2
<1>6. PICK i \in 1 .. last : b.first = i /\ b.num = 0
  BY <1>5
<1>7. keys[i].value \in Int
  BY <1>1, TimesAreNumbers
<1>8. Equals(Interpolated(keys, 0, time), keys[i].value)
  BY <1>6, <1>7 DEF Interpolated, Equals
<1> QED
  BY <1>1, <1>2, <1>8 DEF Linear
-----------------------------------------------------------------------------
(* Waypoints in order.                                                       *)

Rank(S, x) == Cardinality({y \in S : y <= x})

LEMMA InOrderIs ==
  ASSUME NEW end \in Nat, NEW S \in SUBSET (0 .. end), S # {}
  PROVE  /\ Cardinality(S) \in Nat \ {0}
         /\ InOrder(S) \in [1 .. Cardinality(S) -> S]
         /\ \A i, j \in 1 .. Cardinality(S) : i < j => InOrder(S)[i] < InOrder(S)[j]
<1> PICK n : n = Cardinality(S)
  OBVIOUS
<1> DEFINE upTo(x) == {y \in S : y <= x}
           rank == [x \in S |-> Rank(S, x)]
<1>1. IsFiniteSet(S) /\ n \in Nat /\ n # 0
  <2>1. IsFiniteSet(0 .. end)
    BY FS_Interval
  <2>2. IsFiniteSet(S)
    BY <2>1, FS_Subset
  <2> QED
    BY <2>2, FS_CardinalityType, FS_EmptySet
<1>2. ASSUME NEW x \in S
      PROVE  IsFiniteSet(upTo(x)) /\ Rank(S, x) = Cardinality(upTo(x)) /\ Rank(S, x) \in 1 .. n
  <2>1. upTo(x) \in SUBSET S /\ x \in upTo(x)
    OBVIOUS
  <2>2. IsFiniteSet(upTo(x)) /\ Cardinality(upTo(x)) <= n
    BY <1>1, <2>1, FS_Subset
  <2>3. Cardinality(upTo(x)) \in Nat /\ Cardinality(upTo(x)) # 0
    BY <2>1, <2>2, FS_CardinalityType, FS_EmptySet
  <2> QED
    BY <1>1, <2>2, <2>3 DEF Rank
<1>3. ASSUME NEW x \in S, NEW y \in S, x < y PROVE Rank(S, x) < Rank(S, y)
  <2>0. x \in Int /\ y \in Int /\ \A z \in S : z \in Int
    OBVIOUS
  <2>1. upTo(x) \in SUBSET upTo(y) /\ y \in upTo(y) /\ y \notin upTo(x)
    <3>1. \A z \in S : z <= x => z <= y
      BY <1>3, <2>0
    <3>2. y <= y /\ ~(y <= x)
      BY <1>3, <2>0
    <3> QED
      BY <3>1, <3>2
  <2>2. /\ Cardinality(upTo(x)) <= Cardinality(upTo(y))
        /\ Cardinality(upTo(x)) # Cardinality(upTo(y))
    BY <1>2, <2>1, FS_Subset
  <2>3. Rank(S, x) = Cardinality(upTo(x)) /\ Rank(S, y) = Cardinality(upTo(y))
        /\ Rank(S, x) \in 1 .. n /\ Rank(S, y) \in 1 .. n
    BY <1>2
  <2> QED
    BY <2>2, <2>3
<1>4. rank \in Injection(S, 1 .. n)
  <2>1. rank \in [S -> 1 .. n]
    BY <1>2
  <2>2. ASSUME NEW x \in S, NEW y \in S, rank[x] = rank[y] PROVE x = y
    <3>1. Rank(S, x) = Rank(S, y) /\ Rank(S, x) \in 1 .. n
      BY <1>2, <2>2
    <3>2. x < y \/ x = y \/ y < x
      OBVIOUS
    <3> QED
      BY <1>3, <3>1, <3>2
  <2> QED
    BY <2>1, <2>2 DEF Injection, IsInjective
<1>5. rank \in Surjection(S, 1 .. n)
  <2>1. IsFiniteSet(1 .. n) /\ Cardinality(1 .. n) = n
    BY <1>1, FS_Interval
  <2> QED
    BY <1>4, <2>1, FS_Injection
<1>6. ASSUME NEW i \in 1 .. n
      PROVE  InOrder(S)[i] \in S /\ Rank(S, InOrder(S)[i]) = i
  <2>1. \E x \in S : rank[x] = i
    BY <1>5 DEF Surjection
  <2>2. \E x \in S : Cardinality({y \in S : y <= x}) = i
    BY <2>1 DEF Rank
  <2>3. InOrder(S)[i] = CHOOSE x \in S : Cardinality({y \in S : y <= x}) = i
    BY DEF InOrder
  <2> QED
    BY <2>2, <2>3 DEF Rank
<1>7. InOrder(S) \in [1 .. n -> S]
  BY <1>6 DEF InOrder
<1>8. ASSUME NEW i \in 1 .. n, NEW j \in 1 .. n, i < j PROVE InOrder(S)[i] < InOrder(S)[j]
  <2> PICK x \in S : x = InOrder(S)[i]
    BY <1>6
  <2> PICK y \in S : y = InOrder(S)[j]
    BY <1>6
  <2>1. Rank(S, x) < Rank(S, y)
    BY <1>6, <1>8
  <2>2. Rank(S, x) \in Int /\ Rank(S, y) \in Int
    <3>1. Rank(S, x) \in 1 .. n /\ Rank(S, y) \in 1 .. n
      BY <1>2, Zenon
    <3> QED
      BY <1>1, <3>1
  <2>3. x < y \/ x = y \/ y < x
    OBVIOUS
  <2>4. x # y
    BY <2>1, <2>2
  <2>5. ~(y < x)
    <3>1. y < x => Rank(S, y) < Rank(S, x)
      BY <1>3
    <3> QED
      BY <2>1, <2>2, <3>1
  <2> QED
    BY <2>3, <2>4, <2>5
<1> QED
  BY <1>1, <1>7, <1>8

LEMMA BeforeIs ==
  ASSUME NEW end \in Nat, NEW S \in SUBSET (0 .. end), NEW t \in S
  PROVE  /\ Before(S, t) \in S /\ Before(S, t) <= t
         /\ \A x \in S : x < t => Before(S, t) < t /\ x <= Before(S, t)
<1> DEFINE E == {x \in S : x < t}
<1>1. CASE E = {}
  <2>1. Before(S, t) = t
    BY <1>1 DEF Before
  <2> QED
    BY <1>1, <2>1
<1>2. CASE E # {}
  <2>1. E \in SUBSET (0 .. end)
    OBVIOUS
  <2>2. Max(E) \in E /\ \A y \in E : y <= Max(E)
    BY <1>2, <2>1, MaxOfNat
  <2>3. Before(S, t) = Max(E)
    BY <1>2 DEF Before
  <2>4. PICK m \in S : m = Max(E) /\ m < t
    BY <2>2
  <2>5. \A x \in S : x < t => x <= m
    BY <2>2, <2>4
  <2>6. m \in Int /\ t \in Int
    OBVIOUS
  <2> QED
    BY <2>3, <2>4, <2>5, <2>6
<1> QED
  BY <1>1, <1>2

\* The same when all the times are counted from a start.
LEMMA BeforeShifted ==
  ASSUME NEW end \in Nat, NEW S \in SUBSET (0 .. end), NEW start \in S,
         \A x \in S : start <= x, NEW t \in S
  PROVE  /\ {x - start : x \in S} \in SUBSET (0 .. end)
         /\ Before({x - start : x \in S}, t - start) = Before(S, t) - start
<1> DEFINE R == {x - start : x \in S}
<1>1. R \in SUBSET (0 .. end)
  OBVIOUS
<1>2. t - start \in R
  OBVIOUS
<1>3. PICK b \in R : b = Before(R, t - start)
  BY <1>1, <1>2, BeforeIs
<1>4. PICK c \in S : c = Before(S, t)
  BY BeforeIs
<1>5. /\ c <= t
      /\ \A x \in S : x < t => c < t /\ x <= c
  BY <1>4, BeforeIs
<1>6. /\ b <= t - start
      /\ \A x \in R : x < t - start => b < t - start /\ x <= b
  BY <1>1, <1>2, <1>3, BeforeIs
<1>7. PICK d \in S : b = d - start
  BY <1>3
<1>8. c - start \in R
  BY <1>4
<1> HIDE DEF R
<1>9. d <= t /\ (d < t => c < t /\ d <= c)
  BY <1>5, <1>6, <1>7
<1>10. c < t => d < t /\ c <= d
  BY <1>6, <1>7, <1>8
<1>11. b = c - start
  BY <1>5, <1>7, <1>9, <1>10
<1> QED
  BY <1>1, <1>3, <1>4, <1>11 DEF R
-----------------------------------------------------------------------------
(* What the values rest on: key frames in order, those of an animation of no *)
(* length at its beginning, and the segments of the route there is.          *)

KeysInv ==
  /\ keyFrames \in Seq(Keys) /\ Ordered(keyFrames)
  /\ length \in Nat
  /\ length = 0 => \A i \in DOMAIN keyFrames : keyFrames[i].time = 0

RouteInv ==
  /\ DOMAIN route \in SUBSET (0 .. LastTick)
  /\ DOMAIN segDistance = DOMAIN route
  /\ DOMAIN route # {} => 0 \in DOMAIN route
  /\ \A t \in DOMAIN route :
       /\ route[t] \in Int
       /\ segDistance[t] = Distance(route[t], route[Before(DOMAIN route, t)])

ValuesInv == KeysInv /\ RouteInv

LEMMA CreatedKeys ==
  ASSUME KeysInv, NEW t \in Times, CreateKeyFrame(t) PROVE KeysInv'
<1> PICK k : k = [time |-> t, value |-> 0]
  OBVIOUS
<1> PICK keys \in Seq(Keys) : keys = keyFrames
  BY DEF KeysInv
<1> PICK s : s = InsertAt(keys, Place(keys, k.time), k)
  OBVIOUS
<1>1. k \in Keys /\ k.time = t
  BY AnimationAssumption DEF Keys
<1>2. keyFrames' = s /\ length' = length /\ (length > 0 \/ t = 0)
  <2>1. keyFrames' = InsertAt(keyFrames, Place(keyFrames, t), [time |-> t, value |-> 0])
        /\ length' = length /\ (length > 0 \/ t = 0)
    BY DEF CreateKeyFrame
  <2> QED
    BY <1>1, <2>1, Zenon
<1>3. /\ s \in Seq(Keys) /\ Ordered(s)
      /\ \A i \in DOMAIN s : s[i] = k \/ \E j \in DOMAIN keys : s[i] = keys[j]
  <2>1. Ordered(keys)
    BY DEF KeysInv
  <2>2. InOrderWith(s, keys, k)
    BY <1>1, <2>1, InsertedInOrder
  <2> QED
    BY <2>2, Zenon DEF InOrderWith
<1>4. ASSUME length = 0, NEW i \in DOMAIN s PROVE s[i].time = 0
  <2>1. t = 0
    BY <1>2, <1>4
  <2>2. \A j \in DOMAIN keys : keys[j].time = 0
    BY <1>4 DEF KeysInv
  <2> QED
    BY <1>1, <1>3, <2>1, <2>2
<1> QED
  BY <1>2, <1>3, <1>4 DEF KeysInv, Ordered

LEMMA WrittenKeys ==
  ASSUME KeysInv, NEW i \in DOMAIN keyFrames, NEW v \in Values, SetKeyFrame(i, v)
  PROVE  KeysInv'
<1> PICK keys \in Seq(Keys) : keys = keyFrames
  BY DEF KeysInv
<1> PICK s : s = [keys EXCEPT ![i].value = v]
  OBVIOUS
<1>1. keyFrames' = s /\ length' = length
  BY DEF SetKeyFrame
<1>2. i \in DOMAIN keys /\ v \in Int /\ keys[i] \in Keys
  BY AnimationAssumption, TimesAreNumbers
<1>3. [keys[i] EXCEPT !.value = v] \in Keys /\ [keys[i] EXCEPT !.value = v].time = keys[i].time
  BY <1>2 DEF Keys
<1>4. /\ s = [keys EXCEPT ![i] = [keys[i] EXCEPT !.value = v]]
      /\ DOMAIN s = DOMAIN keys
  OBVIOUS
<1>5. s \in Seq(Keys)
  BY <1>2, <1>3, <1>4, ExceptSeq
<1>6. \A j \in DOMAIN keys : s[j].time = keys[j].time
  BY <1>2, <1>3, <1>4
<1> QED
  BY <1>1, <1>4, <1>5, <1>6 DEF KeysInv, Ordered

\* What a route is.
LEMMA RouteIs ==
  ASSUME NEW w \in Routes, NEW D, D = DOMAIN w
  PROVE  D # {} /\ D \in SUBSET (0 .. LastTick) /\ \A x \in D : w[x] \in Int
<1>1. PICK C \in SUBSET Clock : C # {} /\ w \in [C -> Values]
  BY DEF Routes
<1>2. D = C /\ \A x \in C : w[x] \in Values
  BY <1>1
<1>3. C \in SUBSET (0 .. LastTick)
  BY TrajectoryAssumption
<1>4. \A v \in Values : v \in Int
  BY AnimationAssumption
<1> QED
  BY <1>1, <1>2, <1>3, <1>4

LEMMA RoutedKeys ==
  ASSUME NEW w \in Routes, SetWaypoints(w) PROVE KeysInv'
<1> PICK D : D = DOMAIN w
  OBVIOUS
<1> PICK start : start = Min(D)
  OBVIOUS
<1> PICK order : order = InOrder(D)
  OBVIOUS
<1> PICK n : n = Cardinality(D)
  OBVIOUS
<1>1. D # {} /\ D \in SUBSET (0 .. LastTick) /\ \A x \in D : w[x] \in Int
  BY RouteIs
<1>2. start \in D /\ \A x \in D : start <= x
  BY <1>1, MinOfNat
<1>3. Max(D) \in D /\ \A x \in D : x <= Max(D)
  BY <1>1, TrajectoryAssumption, MaxOfNat
<1>4. /\ n \in Nat /\ order \in [1 .. n -> D]
      /\ \A i, j \in 1 .. n : i < j => order[i] < order[j]
  BY <1>1, TrajectoryAssumption, InOrderIs
<1> DEFINE k(i) == [time |-> order[i] - start, value |-> w[order[i]]]
<1>5. keyFrames' = [i \in 1 .. n |-> k(i)] /\ length' = Max(D) - start
  BY <1>4 DEF SetWaypoints
<1>6. ASSUME NEW i \in 1 .. n
      PROVE  k(i) \in Keys /\ k(i).time = order[i] - start /\ order[i] \in D
  <2>1. order[i] \in D
    BY <1>4
  <2>2. order[i] - start \in Nat /\ w[order[i]] \in Int
    BY <1>1, <1>2, <2>1
  <2> QED
    BY <2>1, <2>2 DEF Keys
<1> HIDE DEF k
<1>7. [i \in 1 .. n |-> k(i)] \in Seq(Keys)
  BY <1>4, <1>6, IsASeq
<1>8. Ordered([i \in 1 .. n |-> k(i)])
  <2> SUFFICES ASSUME NEW i \in 1 .. n, NEW j \in 1 .. n, i < j
               PROVE  k(i).time <= k(j).time
    BY <1>4 DEF Ordered
  <2>1. order[i] < order[j] /\ order[i] \in D /\ order[j] \in D
    BY <1>4, <1>6
  <2> QED
    BY <1>1, <1>2, <1>6, <2>1
<1>9. ASSUME Max(D) - start = 0, NEW i \in 1 .. n PROVE k(i).time = 0
  BY <1>1, <1>2, <1>3, <1>6, <1>9
<1>10. Max(D) - start \in Nat
  BY <1>1, <1>2, <1>3
<1> QED
  BY <1>5, <1>7, <1>8, <1>9, <1>10 DEF KeysInv, Ordered

LEMMA RoutedSegments ==
  ASSUME NEW w \in Routes, SetWaypoints(w) PROVE RouteInv'
<1> PICK D : D = DOMAIN w
  OBVIOUS
<1> PICK start : start = Min(D)
  OBVIOUS
<1> PICK R : R = {x - start : x \in D}
  OBVIOUS
<1>1. D # {} /\ D \in SUBSET (0 .. LastTick) /\ \A x \in D : w[x] \in Int
  BY RouteIs
<1>2. start \in D /\ \A x \in D : start <= x
  BY <1>1, MinOfNat
<1>3. /\ segDistance' = [t \in R |-> Distance(w[start + t], w[Before(D, start + t)])]
      /\ route' = [t \in R |-> w[start + t]]
  BY DEF SetWaypoints, Segments
<1>4. R \in SUBSET (0 .. LastTick)
  BY <1>1, <1>2, TrajectoryAssumption, BeforeShifted
<1>5. 0 \in R
  <2>1. start - start = 0
    BY <1>1, <1>2
  <2> QED
    BY <1>2, <2>1
<1>6. ASSUME NEW t \in R
      PROVE  /\ route'[t] \in Int
             /\ segDistance'[t] = Distance(route'[t], route'[Before(R, t)])
  <2> PICK x \in D : t = x - start
    OBVIOUS
  <2>1. start + t = x
    BY <1>1, <1>2
  <2>2. Before(R, t) = Before(D, x) - start
    BY <1>1, <1>2, TrajectoryAssumption, BeforeShifted
  <2>3. Before(R, t) \in R /\ Before(D, x) \in D
    BY <1>1, <1>4, TrajectoryAssumption, BeforeIs
  <2>4. start + Before(R, t) = Before(D, x)
    BY <1>1, <1>2, <2>2, <2>3
  <2>5. route'[t] = w[x] /\ route'[Before(R, t)] = w[Before(D, x)]
    BY <1>3, <2>1, <2>3, <2>4
  <2>6. segDistance'[t] = Distance(w[x], w[Before(D, x)])
    BY <1>3, <2>1
  <2> QED
    BY <1>1, <2>5, <2>6
<1>7. DOMAIN route' = R /\ DOMAIN segDistance' = R
  BY <1>3
<1> QED
  BY <1>4, <1>5, <1>6, <1>7, Zenon DEF RouteInv

LEMMA ValuesStep == ValuesInv /\ [Next]_vars => ValuesInv'
<1> SUFFICES ASSUME ValuesInv, [Next]_vars PROVE ValuesInv'
  OBVIOUS
<1>0. KeysInv /\ RouteInv
  BY DEF ValuesInv
<1>1. ASSUME UNCHANGED <<keyFrames, length>> PROVE KeysInv'
  BY <1>0, <1>1 DEF KeysInv, Ordered
<1>2. ASSUME NEW t \in Times, CreateKeyFrame(t) PROVE KeysInv'
  BY <1>0, <1>2, CreatedKeys
<1>3. ASSUME NEW i \in DOMAIN keyFrames, NEW v \in Values, SetKeyFrame(i, v) PROVE KeysInv'
  BY <1>0, <1>3, WrittenKeys
<1>4. ASSUME NEW len \in Lengths, SetLength(len) PROVE KeysInv'
  <2>1. len \in Nat \ {0} /\ length' = len /\ keyFrames' = keyFrames
    BY <1>4, AnimationAssumption DEF SetLength
  <2> QED
    BY <1>0, <2>1 DEF KeysInv, Ordered
<1>5. ASSUME NEW t \in Positions, Time(t) \/ AddTime(t) PROVE KeysInv'
  BY <1>1, <1>5 DEF Time, AddTime
<1>6. ASSUME InterpolatedKeyFrame PROVE KeysInv'
  BY <1>1, <1>6 DEF InterpolatedKeyFrame
<1>7. ASSUME AnimationStep PROVE KeysInv'
  BY <1>2, <1>3, <1>4, <1>5, <1>6, <1>7 DEF AnimationStep
<1>8. ASSUME UNCHANGED trajectory PROVE RouteInv'
  <2>1. route' = route /\ segDistance' = segDistance
    BY <1>8 DEF trajectory
  <2> QED
    BY <1>0, <2>1, Zenon DEF RouteInv
<1>9. ASSUME NEW w \in Routes, SetWaypoints(w) PROVE KeysInv' /\ RouteInv'
  BY <1>9, RoutedKeys, RoutedSegments
<1>10. ASSUME UNCHANGED vars PROVE KeysInv' /\ RouteInv'
  BY <1>1, <1>8, <1>10 DEF vars, animation
<1> QED
  BY <1>7, <1>8, <1>9, <1>10 DEF Next, ValuesInv
-----------------------------------------------------------------------------
(* The way up to each waypoint.                                              *)

\* The sums that Completed defines, for the waypoints up to a time.
SumsUpTo(f, n) ==
  LET times == DOMAIN segDistance IN
  f = [t \in times \cap (0 .. n) |->
         segDistance[t] + (IF Before(times, t) = t THEN 0 ELSE f[Before(times, t)])]

LEMMA SumsExist ==
  ASSUME RouteInv, NEW n \in Nat
  PROVE  \E f : SumsUpTo(f, n)
<1> DEFINE times == DOMAIN segDistance
           upTo(m) == times \cap (0 .. m)
           sum(f, t) == segDistance[t] + (IF Before(times, t) = t THEN 0 ELSE f[Before(times, t)])
           Missing == {m \in Nat : ~\E f : SumsUpTo(f, m)}
<1>1. SUFFICES ASSUME Missing # {} PROVE FALSE
  OBVIOUS
<1>2. PICK m \in Missing : \A y \in Missing : m <= y
  <2>1. Missing \in SUBSET Nat
    OBVIOUS
  <2> QED
    BY <1>1, <2>1, MinOfNat
<1>3. times \in SUBSET (0 .. LastTick) /\ LastTick \in Nat
  BY TrajectoryAssumption DEF RouteInv
<1>4. \A t \in times : Before(times, t) \in times /\ Before(times, t) <= t
  BY <1>3, BeforeIs
<1>8. m \in Nat
  OBVIOUS
<1>9. \A x \in times : x \in Nat
  BY <1>3
<1> HIDE DEF times, Missing
<1>5. ASSUME NEW g, \A t \in upTo(m) : Before(times, t) # t => Before(times, t) \in upTo(m - 1),
             SumsUpTo(g, m - 1), m - 1 \in Nat
      PROVE  FALSE
  <2> PICK f : f = [t \in upTo(m) |-> sum(g, t)]
    OBVIOUS
  <2>1. g = [t \in upTo(m - 1) |-> sum(g, t)]
    BY <1>5 DEF SumsUpTo, times
  <2>2. ASSUME NEW t \in upTo(m - 1) PROVE f[t] = g[t]
    <3>1. t \in upTo(m)
      BY <1>5, <1>8
    <3> QED
      BY <2>1, <3>1
  <2>3. ASSUME NEW t \in upTo(m) PROVE sum(f, t) = sum(g, t)
    <3>1. Before(times, t) # t => f[Before(times, t)] = g[Before(times, t)]
      BY <1>5, <2>2, Zenon
    <3> QED
      BY <3>1, Zenon
  <2>4. f = [t \in upTo(m) |-> sum(f, t)]
    BY <2>3
  <2>5. SumsUpTo(f, m)
    BY <2>4 DEF SumsUpTo, times
  <2> QED
    BY <2>5 DEF Missing
<1>6. CASE m = 0
  <2> PICK f : f = [t \in upTo(0) |-> segDistance[t] + 0]
    OBVIOUS
  <2>1. ASSUME NEW t \in upTo(0) PROVE Before(times, t) = t
    <3>1. Before(times, t) \in times /\ Before(times, t) <= t
      BY <1>4
    <3>2. t = 0 /\ Before(times, t) \in Nat
      BY <1>9, <3>1
    <3> QED
      BY <3>1, <3>2
  <2>2. \A t \in upTo(0) : sum(f, t) = segDistance[t] + 0
    BY <2>1, Zenon
  <2>4. f = [t \in upTo(0) |-> sum(f, t)]
    BY <2>2
  <2>3. SumsUpTo(f, 0)
    BY <2>4 DEF SumsUpTo, times
  <2> QED
    BY <1>6, <2>3 DEF Missing
<1>7. CASE m # 0
  <2>1. m - 1 \in Nat /\ m - 1 \notin Missing
    BY <1>2, <1>7, <1>8
  <2>2. PICK g : SumsUpTo(g, m - 1)
    BY <2>1 DEF Missing
  <2>3. ASSUME NEW t \in upTo(m), Before(times, t) # t PROVE Before(times, t) \in upTo(m - 1)
    <3>1. Before(times, t) \in times /\ Before(times, t) <= t
      BY <1>4
    <3>2. t \in Int /\ t <= m /\ Before(times, t) \in Nat
      BY <1>9, <3>1
    <3>3. PICK b \in times : b = Before(times, t)
      BY <3>1
    <3>4. b \in 0 .. m - 1
      BY <1>8, <2>3, <3>1, <3>2, <3>3
    <3> QED
      BY <3>3, <3>4
  <2> QED
    BY <1>5, <2>1, <2>2, <2>3
<1> QED
  BY <1>6, <1>7

LEMMA CompletedIs ==
  ASSUME RouteInv, NEW t \in DOMAIN segDistance
  PROVE  LET prev == Before(DOMAIN segDistance, t) IN
         /\ Completed[t] = segDistance[t] + (IF prev = t THEN 0 ELSE Completed[prev])
         /\ segDistance[t] \in Int /\ Completed[t] \in Int
<1> PICK times : times = DOMAIN segDistance
  OBVIOUS
<1>1. times \in SUBSET (0 .. LastTick) /\ LastTick \in Nat
  BY TrajectoryAssumption DEF RouteInv
<1>2. \A x \in times : Before(times, x) \in times /\ Before(times, x) <= x
  BY <1>1, BeforeIs
<1>3. \A x \in times : segDistance[x] \in Int
  <2> SUFFICES ASSUME NEW x \in times PROVE segDistance[x] \in Int
    OBVIOUS
  <2>1. times = DOMAIN route
    BY DEF RouteInv
  <2>2. /\ segDistance[x] = Distance(route[x], route[Before(times, x)])
        /\ route[x] \in Int /\ route[Before(times, x)] \in Int
    BY <1>2, <2>1 DEF RouteInv
  <2> QED
    BY <2>2 DEF Distance
<1>4. \E f : f = [x \in times |->
                    segDistance[x] + (IF Before(times, x) = x THEN 0 ELSE f[Before(times, x)])]
  <2>1. PICK f : SumsUpTo(f, LastTick)
    BY <1>1, SumsExist
  <2>2. times \cap (0 .. LastTick) = times
    BY <1>1
  <2> QED
    BY <2>1, <2>2, Zenon DEF SumsUpTo
<1>5. Completed = [x \in times |->
                     segDistance[x] + (IF Before(times, x) = x THEN 0 ELSE Completed[Before(times, x)])]
  BY <1>4, Zenon DEF Completed
<1> PICK f : f = Completed
  OBVIOUS
<1>6. \A x \in times : f[x] = segDistance[x] + (IF Before(times, x) = x THEN 0 ELSE f[Before(times, x)])
  BY <1>5
<1>7. \A x \in times : f[x] \in Int
  <2> DEFINE Wrong == {x \in times : f[x] \notin Int}
  <2>1. SUFFICES ASSUME Wrong # {} PROVE FALSE
    OBVIOUS
  <2>2. Wrong \in SUBSET Nat
    BY <1>1
  <2>3. PICK m \in Wrong : \A y \in Wrong : m <= y
    BY <2>1, <2>2, MinOfNat
  <2>4. PICK b \in times : b = Before(times, m) /\ b <= m
    BY <1>2
  <2>5. b # m => f[b] \in Int
    BY <1>1, <2>3, <2>4
  <2>6. f[m] = segDistance[m] + (IF b = m THEN 0 ELSE f[b]) /\ segDistance[m] \in Int
    BY <1>3, <1>6, <2>4
  <2>7. f[m] \in Int
    BY <2>5, <2>6
  <2> QED
    BY <2>7
<1> QED
  BY <1>3, <1>6, <1>7

LEMMA RouteIsFollowed == RouteInv => DistanceFollowsRoute
<1> SUFFICES ASSUME RouteInv, NEW a \in DOMAIN route
             PROVE  LET later == {t \in DOMAIN route : t > a}
                        next  == Min(later)
                        here  == DistanceSoFar(a)
                    IN  /\ here.den = 1
                        /\ a = 0 => here.num = 0
                        /\ later = {} => Equals(DistanceSoFar(a + 1), here.num)
                        /\ later # {} =>
                             \A t \in a .. next :
                               OnLine(DistanceSoFar(t), t, a, here.num,
                                      next, here.num + Distance(route[a], route[next]))
  BY DEF DistanceFollowsRoute
<1> PICK R : R = DOMAIN route
  OBVIOUS
<1> PICK h : h = Completed[a]
  OBVIOUS
<1>1. R \in SUBSET (0 .. LastTick) /\ LastTick \in Nat /\ a \in R /\ R = DOMAIN segDistance
  BY TrajectoryAssumption DEF RouteInv
<1>2. a \in Nat /\ \A t \in R : t \in Nat
  BY <1>1
<1>3. h \in Int
  BY <1>1, CompletedIs
\* At a time not before a, and before all later waypoints.
<1>4. ASSUME NEW t \in Int, a <= t, \A x \in R : x > a => t < x
      PROVE  /\ {x \in R : x <= t} = {x \in R : x <= a}
             /\ a \in {x \in R : x <= t} /\ Max({x \in R : x <= t}) = a
  <2>1. \A x \in R : x <= t <=> x <= a
    BY <1>2, <1>4
  <2>2. {x \in R : x <= t} = {x \in R : x <= a} /\ a \in {x \in R : x <= t}
    BY <1>1, <1>2, <2>1
  <2>3. {x \in R : x <= a} \in SUBSET (0 .. LastTick) /\ {x \in R : x <= a} # {}
    BY <1>1, <2>2
  <2>4. Max({x \in R : x <= a}) \in {x \in R : x <= a}
        /\ \A y \in {x \in R : x <= a} : y <= Max({x \in R : x <= a})
    BY <1>1, <2>3, MaxOfNat
  <2>5. PICK m \in R : m = Max({x \in R : x <= a}) /\ m <= a /\ a <= m
    BY <2>2, <2>4
  <2>6. m = a
    BY <1>2, <2>5
  <2> QED
    BY <2>2, <2>5, <2>6
<1>5. DistanceSoFar(a) = [num |-> h, den |-> 1]
  <2>1. a \in {x \in R : x <= a} /\ Max({x \in R : x <= a}) = a
    BY <1>2, <1>4
  <2> QED
    BY <1>1, <1>2, <2>1 DEF DistanceSoFar
<1>6. ASSUME a = 0 PROVE h = 0
  <2>1. Before(R, a) \in R /\ Before(R, a) <= a
    BY <1>1, BeforeIs
  <2>2. Before(R, a) = a
    BY <1>2, <1>6, <2>1
  <2>3. segDistance[a] = Distance(route[a], route[a]) /\ route[a] \in Int
    BY <1>1, <2>2 DEF RouteInv
  <2>4. segDistance[a] = 0
    BY <2>3 DEF Distance
  <2>5. h = segDistance[a] + 0
    BY <1>1, <2>2, CompletedIs
  <2> QED
    BY <2>4, <2>5
<1>7. ASSUME {t \in R : t > a} = {} PROVE Equals(DistanceSoFar(a + 1), h)
  <2>1. \A x \in R : x <= a
    BY <1>2, <1>7
  <2>2. {x \in R : x <= a + 1} = R /\ a \in R
    BY <1>1, <1>2, <2>1
  <2>3. Max({x \in R : x <= a + 1}) = a
    BY <1>2, <1>4, <2>1
  <2>4. DistanceSoFar(a + 1) = [num |-> h, den |-> 1]
    BY <1>1, <2>2, <2>3 DEF DistanceSoFar
  <2> QED
    BY <1>3, <2>4 DEF Equals
<1>8. ASSUME {t \in R : t > a} # {} PROVE
        \A t \in a .. Min({x \in R : x > a}) :
          OnLine(DistanceSoFar(t), t, a, h, Min({x \in R : x > a}),
                 h + Distance(route[a], route[Min({x \in R : x > a})]))
  <2> PICK next : next = Min({x \in R : x > a})
    OBVIOUS
  <2> PICK d : d = segDistance[next]
    OBVIOUS
  <2>1. next \in R /\ next > a /\ \A x \in R : x > a => next <= x
    <3>1. {x \in R : x > a} \in SUBSET Nat
      BY <1>2
    <3> QED
      BY <1>8, <3>1, MinOfNat
  <2>2. next \in Nat
    BY <1>2, <2>1
  <2>3. Before(R, next) = a
    <3>1. PICK b \in R : b = Before(R, next)
      BY <1>1, <2>1, BeforeIs
    <3>2. a < next => b < next /\ a <= b
      BY <1>1, <2>1, <3>1, BeforeIs
    <3>3. b > a => next <= b
      BY <2>1
    <3> QED
      BY <1>2, <2>1, <2>2, <3>1, <3>2, <3>3
  <2>4. d \in Int /\ Completed[next] = d + h
    BY <1>1, <2>1, <2>3, CompletedIs
  <2>5. d = Distance(route[next], route[a]) /\ route[next] \in Int /\ route[a] \in Int
    BY <1>1, <2>1, <2>3 DEF RouteInv
  <2>6. Distance(route[a], route[next]) = d
    BY <2>5 DEF Distance
  <2>7. ASSUME NEW t \in Int, a < t, t < next PROVE OnLine(DistanceSoFar(t), t, a, h, next, h + d)
    <3>1. \A x \in R : x > a => t < x
      BY <1>2, <2>1, <2>2, <2>7
    <3>2. /\ {x \in R : x <= t} = {x \in R : x <= a} /\ a \in {x \in R : x <= t}
          /\ Max({x \in R : x <= t}) = a
      <4>1. a <= t
        BY <1>2, <2>7
      <4> QED
        BY <1>4, <2>7, <3>1, <4>1, Zenon
    <3>3. R \ {x \in R : x <= t} = {x \in R : x > a} /\ {x \in R : x <= t} # R
      BY <1>2, <2>1, <2>2, <2>7, <3>2
    <3>7. PICK C : C = {x \in R : x <= t}
      OBVIOUS
    <3>8. C # {} /\ C # R /\ Max(C) = a /\ Min(R \ C) = next /\ ~(t <= a)
      BY <1>2, <2>7, <3>2, <3>3, <3>7
    <3>4. DistanceSoFar(t) = [num |-> h * (next - a) + (t - a) * d, den |-> next - a]
      BY <1>1, <3>7, <3>8, Zenon DEF DistanceSoFar
    <3>5. (h + d) - h = d /\ (t - a) * d = d * (t - a)
      BY <1>2, <1>3, <2>4
    <3>6. OnLine([num |-> h * (next - a) + ((h + d) - h) * (t - a), den |-> next - a],
                 t, a, h, next, h + d)
      BY <1>2, <1>3, <2>2, <2>4, <2>7, PartOfLine
    <3> QED
      BY <3>4, <3>5, <3>6
  <2>8. OnLine(DistanceSoFar(a), a, a, h, next, h + d)
    <3>1. h * (next - a) = 1 * (h * (next - a) + ((h + d) - h) * (a - a))
      BY <1>2, <1>3, <2>2, <2>4
    <3> QED
      BY <1>2, <1>5, <2>1, <2>2, <3>1 DEF OnLine
  <2>9. OnLine(DistanceSoFar(next), next, a, h, next, h + d)
    <3>1. next \in {x \in R : x <= next} /\ Max({x \in R : x <= next}) = next
      <4>1. {x \in R : x <= next} \in SUBSET (0 .. LastTick) /\ next \in {x \in R : x <= next}
        BY <1>1, <2>1, <2>2
      <4>2. /\ Max({x \in R : x <= next}) \in {x \in R : x <= next}
            /\ \A y \in {x \in R : x <= next} : y <= Max({x \in R : x <= next})
        BY <1>1, <4>1, MaxOfNat
      <4>3. PICK m \in R : m = Max({x \in R : x <= next}) /\ m <= next /\ next <= m
        BY <4>1, <4>2
      <4> QED
        BY <1>2, <2>2, <4>1, <4>3
    <3>2. DistanceSoFar(next) = [num |-> d + h, den |-> 1]
      BY <1>1, <2>2, <2>4, <3>1 DEF DistanceSoFar
    <3>3. (d + h) * (next - a) = 1 * (h * (next - a) + ((h + d) - h) * (next - a))
      BY <1>2, <1>3, <2>2, <2>4
    <3>4. a <= next /\ next <= next /\ 1 > 0
      BY <1>2, <2>1, <2>2
    <3>5. PICK f : f = DistanceSoFar(next)
      OBVIOUS
    <3>6. f.num = d + h /\ f.den = 1
      BY <3>2, <3>5
    <3>7. OnLine(f, next, a, h, next, h + d)
      BY <3>3, <3>4, <3>6, Zenon DEF OnLine
    <3> QED
      BY <3>5, <3>7, Zenon
  <2>10. ASSUME NEW t \in a .. next PROVE OnLine(DistanceSoFar(t), t, a, h, next, h + d)
    <3>1. t \in Int /\ (t = a \/ t = next \/ (a < t /\ t < next))
      BY <1>2, <2>2
    <3> QED
      BY <2>7, <2>8, <2>9, <3>1
  <2> QED
    BY <2>6, <2>10
<1> QED
  BY <1>5, <1>6, <1>7, <1>8
-----------------------------------------------------------------------------
LEMMA InvMeansLinear == KeysInv => KeysInOrder /\ InterpolationIsLinear
<1> SUFFICES ASSUME KeysInv PROVE KeysInOrder /\ InterpolationIsLinear
  OBVIOUS
<1>1. KeysInOrder
  BY DEF KeysInv, Ordered, KeysInOrder
<1>2. ASSUME NEW time \in Probes, keyFrames # <<>>
      PROVE  Linear(keyFrames, length, Interpolated(keyFrames, length, time), Turned(time, length))
  <2>1. /\ keyFrames \in Seq(Keys) /\ Ordered(keyFrames) /\ length \in Nat
        /\ length = 0 => \A i \in DOMAIN keyFrames : keyFrames[i].time = 0
    BY DEF KeysInv
  <2>2. time \in 0 .. 2 * length + 1
    BY DEF Probes
  <2>3. CASE length = 0
    <3>1. time \in 0 .. 1
      BY <2>2, <2>3
    <3>2. Linear(keyFrames, 0, Interpolated(keyFrames, 0, time), Turned(time, 0))
      BY <1>2, <2>1, <2>3, <3>1, NoLength
    <3> QED
      BY <2>3, <3>2, Zenon
  <2>4. CASE length # 0
    <3>1. length \in Nat \ {0} /\ time \in Int
      BY <2>1, <2>2, <2>4
    <3>2. Turned(time, length) = Folded(time, length) /\ Folded(time, length) \in 0 .. length
      BY <2>2, <3>1, FoldedIsTurned
    <3>3. Linear(keyFrames, length, Interpolated(keyFrames, length, time), Folded(time, length))
      BY <1>2, <2>1, <3>1, <3>2, InterpolatedIsLinear
    <3> QED
      BY <3>2, <3>3, Zenon
  <2> QED
    BY <2>3, <2>4
<1>3. InterpolationIsLinear
  BY <1>2, Zenon DEF InterpolationIsLinear, Linear, Turned
<1> QED
  BY <1>1, <1>3

\* Whatever key frames are made and written to, lengths set and waypoints set
\* again: a value asked for is that of a key frame, or on the line between two
\* that follow each other, and the distance covered is that along the waypoints
\* set last (KeyFramesAtTime, InterpolatedKeyFrame, DistanceSoFar).
THEOREM ValuesAlwaysFollowKeys == Spec => []ValuesFollowKeys
<1>1. Init => ValuesInv
  <2> SUFFICES ASSUME Init PROVE ValuesInv
    OBVIOUS
  <2>1. keyFrames = <<>> /\ length \in Nat
    BY AnimationAssumption DEF Init, NewAnimation
  <2>2. KeysInv
    BY <2>1 DEF KeysInv, Ordered
  <2>3. route = <<>> /\ segDistance = <<>>
    BY DEF Init
  <2>4. DOMAIN route = {} /\ DOMAIN segDistance = {}
    BY <2>3
  <2> QED
    BY <2>2, <2>4 DEF ValuesInv, RouteInv
<1>2. ValuesInv /\ [Next]_vars => ValuesInv'
  BY ValuesStep
<1>3. ValuesInv => ValuesFollowKeys
  BY InvMeansLinear, RouteIsFollowed DEF ValuesInv, ValuesFollowKeys
<1> QED
  BY <1>1, <1>2, <1>3, PTL DEF Spec
-----------------------------------------------------------------------------
(* Skeleton animations.                                                      *)

\* A node animation as AddKeyFrame and Scale leave it: its length is the time
\* of its last key frame.
GoodNode(a) ==
  /\ a = [frames |-> a.frames, length |-> a.length]
  /\ a.length \in Nat /\ a.length \in DOMAIN a.frames
  /\ DOMAIN a.frames \in SUBSET (0 .. a.length)
  /\ \A t \in DOMAIN a.frames : a.frames[t] \in Int

\* No node goes on after the animation's length.
AnimatedInv ==
  /\ duration \in Int
  /\ \A n \in Live : GoodNode(animations[n]) /\ animations[n].length <= duration

\* What AddKeyFrame and Scale leave.
LEMMA KeyFrameAdded ==
  ASSUME NEW a, a = NewNode \/ GoodNode(a), NEW t \in KeyTimes, NEW v \in Poses
  PROVE  /\ GoodNode(WithKeyFrame(a, t, v))
         /\ WithKeyFrame(a, t, v).length = IF t > a.length THEN t ELSE a.length
<1> PICK w : w = WithKeyFrame(a, t, v)
  OBVIOUS
<1>1. t \in Nat /\ v \in Int
  BY SkeletonAnimationAssumption
<1>2. /\ w = [frames |-> w.frames, length |-> w.length]
      /\ w.length = IF t > a.length THEN t ELSE a.length
      /\ DOMAIN w.frames = DOMAIN a.frames \cup {t}
      /\ \A x \in DOMAIN w.frames : w.frames[x] = IF x = t THEN v ELSE a.frames[x]
  BY DEF WithKeyFrame
<1>3. CASE a = NewNode
  <2>1. a.length = 0 /\ DOMAIN a.frames = {}
    BY <1>3 DEF NewNode
  <2>2. w.length = t /\ DOMAIN w.frames = {t}
    BY <1>1, <1>2, <2>1
  <2>3. w.frames[t] = v
    BY <1>2, <2>2
  <2> QED
    BY <1>1, <1>2, <2>2, <2>3 DEF GoodNode
<1>4. CASE GoodNode(a)
  <2>1. PICK len \in Nat : len = a.length
    BY <1>4 DEF GoodNode
  <2>2. PICK keys \in SUBSET (0 .. len) : keys = DOMAIN a.frames
    BY <1>4, <2>1 DEF GoodNode
  <2>3. len \in keys /\ \A x \in keys : a.frames[x] \in Int
    BY <1>4, <2>1, <2>2 DEF GoodNode
  <2>4. PICK new \in Nat : new = w.length /\ new = IF t > len THEN t ELSE len
    BY <1>1, <1>2, <2>1
  <2>5. new \in keys \cup {t} /\ keys \cup {t} \in SUBSET (0 .. new)
    BY <1>1, <2>3, <2>4
  <2>6. \A x \in keys \cup {t} : w.frames[x] \in Int
    BY <1>1, <1>2, <2>2, <2>3
  <2> QED
    BY <1>2, <2>2, <2>4, <2>5, <2>6 DEF GoodNode
<1> QED
  BY <1>2, <1>3, <1>4

LEMMA NodeScaled ==
  ASSUME NEW a, GoodNode(a), NEW s \in Factors
  PROVE  GoodNode(Scaled(a, s)) /\ Scaled(a, s).length = a.length
<1>1. s \in Int
  BY SkeletonAnimationAssumption
<1> PICK w : w = Scaled(a, s)
  OBVIOUS
<1>2. w = [a EXCEPT !.frames = [t \in DOMAIN a.frames |-> s * a.frames[t]]]
  BY DEF Scaled
<1>3. a = [frames |-> a.frames, length |-> a.length]
  BY DEF GoodNode
<1>4. w = [frames |-> [t \in DOMAIN a.frames |-> s * a.frames[t]], length |-> a.length]
  BY <1>2, <1>3
<1>5. /\ w.length = a.length /\ DOMAIN w.frames = DOMAIN a.frames
      /\ \A t \in DOMAIN a.frames : w.frames[t] = s * a.frames[t]
  BY <1>4
<1>6. \A t \in DOMAIN a.frames : w.frames[t] \in Int
  BY <1>1, <1>5 DEF GoodNode
<1>7. w = [frames |-> w.frames, length |-> w.length]
  BY <1>4
<1> QED
  BY <1>5, <1>6, <1>7 DEF GoodNode

LEMMA AnimatedStep == AnimatedInv /\ [AnimatedNext]_animatedVars => AnimatedInv'
<1> SUFFICES ASSUME AnimatedInv, [AnimatedNext]_animatedVars PROVE AnimatedInv'
  OBVIOUS
<1> USE DEF AnimatedInv, Live
<1>1. ASSUME NEW n \in NodeNames, NEW t \in KeyTimes, NEW v \in Poses, AddKeyFrame(n, t, v)
      PROVE  AnimatedInv'
  <2> PICK a : a = IF n \in DOMAIN animations THEN animations[n] ELSE NewNode
    OBVIOUS
  <2> PICK new : new = WithKeyFrame(a, t, v)
    OBVIOUS
  <2>1. /\ a # Null
        /\ animations' = [x \in DOMAIN animations \cup {n} |->
                            IF x = n THEN new ELSE animations[x]]
        /\ duration' = Longest(t)
    BY <1>1 DEF AddKeyFrame
  <2>2. a = NewNode \/ GoodNode(a)
    BY <2>1
  <2>3. /\ GoodNode(new) /\ new.length = IF t > a.length THEN t ELSE a.length
    BY <2>2, KeyFrameAdded
  <2>4. t \in Nat
    BY SkeletonAnimationAssumption
  <2>5. PICK end \in Int : end = duration
    OBVIOUS
  <2>6. duration' = IF t > end THEN t ELSE end
    BY <2>1, <2>5 DEF Longest
  <2>7. duration' \in Int /\ t <= duration' /\ end <= duration'
    BY <2>4, <2>5, <2>6
  <2>8. new.length <= duration'
    <3>1. CASE n \in DOMAIN animations
      <4>1. a.length \in Nat /\ a.length <= end
        BY <2>1, <2>5, <3>1 DEF GoodNode
      <4> QED
        BY <2>3, <2>4, <2>5, <2>7, <4>1
    <3>2. CASE n \notin DOMAIN animations
      <4>1. a.length = 0
        BY <3>2 DEF NewNode
      <4> QED
        BY <2>3, <2>4, <2>7, <4>1
    <3> QED
      BY <3>1, <3>2
  <2>9. ASSUME NEW x \in Live' PROVE GoodNode(animations'[x]) /\ animations'[x].length <= duration'
    <3>1. CASE x = n
      <4>1. animations'[x] = new
        BY <2>1, <3>1
      <4> QED
        BY <2>3, <2>8, <4>1
    <3>2. CASE x # n
      <4>1. x \in Live /\ animations'[x] = animations[x]
        BY <2>1, <2>9, <3>2
      <4>2. GoodNode(animations[x]) /\ animations[x].length <= end
        BY <2>5, <4>1
      <4>3. animations[x].length \in Nat
        BY <4>2 DEF GoodNode
      <4> QED
        BY <2>5, <2>7, <4>1, <4>2, <4>3
    <3> QED
      BY <3>1, <3>2
  <2> QED
    BY <2>7, <2>9
<1>2. ASSUME NEW n \in NodeNames, NodePoseAtUnknown(n) PROVE AnimatedInv'
  <2>1. duration' = duration
    BY <1>2 DEF NodePoseAtUnknown
  <2>2. ASSUME NEW x \in Live' PROVE x \in Live /\ animations'[x] = animations[x]
    BY <1>2, <2>2 DEF NodePoseAtUnknown
  <2> QED
    BY <2>1, <2>2
<1>3. ASSUME NEW s \in Factors, Scale(s) PROVE AnimatedInv'
  <2>1. duration' = duration
    BY <1>3 DEF Scale
  <2>2. ASSUME NEW x \in Live' PROVE x \in Live /\ animations'[x] = Scaled(animations[x], s)
    BY <1>3, <2>2 DEF Scale
  <2>3. ASSUME NEW x \in Live PROVE /\ GoodNode(Scaled(animations[x], s))
                                    /\ Scaled(animations[x], s).length = animations[x].length
    BY NodeScaled
  <2> QED
    BY <2>1, <2>2, <2>3
<1>4. CASE UNCHANGED animatedVars
  BY <1>4 DEF animatedVars
<1> QED
  BY <1>1, <1>2, <1>3, <1>4 DEF AnimatedNext
-----------------------------------------------------------------------------
\* The key frames of a node: the last one, and the two around a time.
LEMMA LastKey ==
  ASSUME NEW a, GoodNode(a)
  PROVE  Max(DOMAIN a.frames) = a.length
<1> PICK len \in Nat : len = a.length
  BY DEF GoodNode
<1> PICK keys \in SUBSET (0 .. len) : keys = DOMAIN a.frames
  BY DEF GoodNode
<1>1. len \in keys
  BY DEF GoodNode
<1>2. Max(keys) \in keys /\ \A y \in keys : y <= Max(keys)
  BY <1>1, MaxOfNat
<1> QED
  BY <1>1, <1>2

LEMMA FirstKey ==
  ASSUME NEW a, GoodNode(a)
  PROVE  /\ Min(DOMAIN a.frames) \in DOMAIN a.frames
         /\ \A k \in DOMAIN a.frames : Min(DOMAIN a.frames) <= k
<1> PICK len \in Nat : len = a.length
  BY DEF GoodNode
<1> PICK keys \in SUBSET (0 .. len) : keys = DOMAIN a.frames
  BY DEF GoodNode
<1>1. len \in keys /\ keys \in SUBSET Nat
  BY DEF GoodNode
<1> QED
  BY <1>1, MinOfNat

\* k1 and k2 are key frames that follow each other.
Following(keys, k1, k2) ==
  k1 \in keys /\ k2 \in keys /\ k1 < k2 /\ \A k \in keys : k <= k1 \/ k >= k2

\* The key frames of keys that are past the time.
Past(keys, num, den) == {k \in keys : k * den > num}

Around(keys, later, num, den) ==
  /\ Min(later) \in keys /\ Min(later) * den > num
  /\ keys \ later = {} => Min(later) = Min(keys) /\ num < Min(keys) * den
  /\ keys \ later # {} => /\ Following(keys, Max(keys \ later), Min(later))
                          /\ Max(keys \ later) * den <= num

LEMMA AroundTime ==
  ASSUME NEW len \in Nat, NEW keys \in SUBSET (0 .. len), len \in keys,
         NEW num \in Nat, NEW den \in Nat \ {0}, num < len * den,
         NEW later, later = Past(keys, num, den)
  PROVE  Around(keys, later, num, den)
<1>1. later = {k \in keys : k * den > num}
  BY DEF Past
<1>2. later \in SUBSET Nat /\ later # {}
  <2>1. len * den > num
    OBVIOUS
  <2>2. len \in later
    BY <1>1, <2>1, Zenon
  <2>3. \A k \in later : k \in Nat
    BY <1>1
  <2> QED
    BY <2>2, <2>3, Zenon
<1>3. PICK k2 \in Nat : k2 = Min(later) /\ k2 \in later /\ \A k \in later : k2 <= k
  <2>1. Min(later) \in later /\ \A k \in later : Min(later) <= k
    BY <1>2, MinOfNat
  <2> QED
    BY <1>2, <2>1
<1>4. k2 \in keys /\ k2 * den > num
  BY <1>1, <1>3
<1>5. ASSUME keys \ later = {} PROVE k2 = Min(keys)
  <2>1. later = keys
    BY <1>1, <1>5
  <2> QED
    BY <1>3, <2>1
<1>6. ASSUME keys \ later # {}
      PROVE  Following(keys, Max(keys \ later), k2) /\ Max(keys \ later) * den <= num
  <2>1. keys \ later \in SUBSET (0 .. len)
    OBVIOUS
  <2>2. PICK k1 \in 0 .. len : /\ k1 = Max(keys \ later) /\ k1 \in keys \ later
                               /\ \A k \in keys \ later : k <= k1
    BY <1>6, <2>1, MaxOfNat
  <2>3. k1 * den \in Int /\ ~(k1 * den > num)
    BY <1>1, <2>2
  <2>4. k1 * den <= num
    BY <2>3
  <2>5. k1 * den < k2 * den
    BY <1>4, <2>4
  <2>6. k1 < k2
    BY <2>5
  <2>7. \A k \in keys : k <= k1 \/ k >= k2
    BY <1>3, <2>2
  <2> QED
    BY <1>4, <2>2, <2>4, <2>6, <2>7 DEF Following
<1> QED
  BY <1>3, <1>4, <1>5, <1>6 DEF Around

\* Where the loop or the length leaves a time, as FrameAt computes it,
Reached(a, time, looped) ==
  IF time.num <= a.length * time.den THEN time.num
  ELSE IF looped THEN Wrapped(time.num, a.length * time.den) ELSE a.length * time.den

\* and what it answers for that.
Part(a, k1, k2, num, den) ==
  [num |-> a.frames[k1] * (k2 - k1) * den
           + (a.frames[k2] - a.frames[k1]) * (num - k1 * den),
   den |-> (k2 - k1) * den]

Framed(a, num, den) ==
  LET later  == Later(a, num, den)
      sooner == DOMAIN a.frames \ later
  IN  IF num = a.length * den THEN Whole(a.frames[Max(DOMAIN a.frames)])
      ELSE IF sooner = {} THEN Whole(a.frames[Min(later)])
      ELSE Part(a, Max(sooner), Min(later), num, den)

LEMMA FrameIsFramed ==
  ASSUME NEW a, NEW time, NEW looped
  PROVE  FrameAt(a, time, looped) = Framed(a, Reached(a, time, looped), time.den)
BY DEF FrameAt, Framed, Reached, Part

\* At a key frame the part of the way is none of it.
LEMMA PartAtKey ==
  ASSUME NEW a, NEW k1 \in Int, NEW k2 \in Int, NEW den \in Int,
         a.frames[k1] \in Int, a.frames[k2] \in Int
  PROVE  Same(Part(a, k1, k2, k1 * den, den), Whole(a.frames[k1]))
<1> PICK v1 \in Int : v1 = a.frames[k1]
  OBVIOUS
<1> PICK v2 \in Int : v2 = a.frames[k2]
  OBVIOUS
<1> PICK f : f = Part(a, k1, k2, k1 * den, den)
  OBVIOUS
<1>1. f.num = v1 * (k2 - k1) * den + (v2 - v1) * (k1 * den - k1 * den)
      /\ f.den = (k2 - k1) * den
  BY DEF Part
<1>2. PICK w \in Int : w = (k2 - k1) * den
  OBVIOUS
<1>3. k1 * den - k1 * den = 0 /\ (v2 - v1) * 0 = 0
  OBVIOUS
<1>4. v1 * (k2 - k1) * den = v1 * w
  BY <1>2
<1>5. f.num = v1 * w /\ f.den = w
  BY <1>1, <1>2, <1>3, <1>4
<1> QED
  BY <1>5 DEF Same, Whole

\* A frame is that of a key frame, or part of the way between two that follow
\* each other.
FrameOf(a, f, num, den) ==
  LET keys == DOMAIN a.frames
  IN  \/ num < Min(keys) * den /\ f = Whole(a.frames[Min(keys)])
      \/ \E k \in keys : num = k * den /\ Same(f, Whole(a.frames[k]))
      \/ \E k1, k2 \in keys : /\ Following(keys, k1, k2)
                             /\ k1 * den < num /\ num < k2 * den
                             /\ f = Part(a, k1, k2, num, den)

LEMMA FramedIs ==
  ASSUME NEW a, GoodNode(a), NEW num \in Nat, NEW den \in Nat \ {0}, num <= a.length * den,
         NEW f, f = Framed(a, num, den)
  PROVE  FrameOf(a, f, num, den)
<1> PICK len \in Nat : len = a.length
  BY DEF GoodNode
<1> PICK keys \in SUBSET (0 .. len) : keys = DOMAIN a.frames
  BY DEF GoodNode
<1>1. len \in keys /\ \A k \in keys : a.frames[k] \in Int
  BY DEF GoodNode
<1> PICK later : later = Past(keys, num, den)
  OBVIOUS
<1>2. Later(a, num, den) = later
  BY DEF Later, Past
<1>3. CASE num = len * den
  <2>1. f = Whole(a.frames[Max(keys)])
    BY <1>3 DEF Framed
  <2>2. Max(keys) = len
    BY LastKey
  <2>3. Same(f, Whole(a.frames[len]))
    BY <2>1, <2>2 DEF Same
  <2> QED
    BY <1>1, <1>3, <2>3 DEF FrameOf
<1>4. CASE num < len * den
  <2>1. num # len * den
    BY <1>4
  <2>2. Around(keys, later, num, den)
    BY <1>1, <1>4, AroundTime
  <2>3. PICK k2 \in keys : k2 = Min(later)
    BY <2>2 DEF Around
  <2>4. k2 * den > num
    BY <2>2, <2>3 DEF Around
  <2>5. CASE keys \ later = {}
    <3>1. f = Whole(a.frames[k2])
      BY <1>2, <2>1, <2>3, <2>5 DEF Framed
    <3>2. k2 = Min(keys) /\ num < Min(keys) * den
      BY <2>2, <2>3, <2>5 DEF Around
    <3> QED
      BY <3>1, <3>2 DEF FrameOf
  <2>6. CASE keys \ later # {}
    <3>1. PICK k1 : k1 = Max(keys \ later)
      OBVIOUS
    <3>2. Following(keys, k1, k2) /\ k1 * den <= num
      BY <2>2, <2>3, <2>6, <3>1 DEF Around
    <3>3. f = Part(a, k1, k2, num, den)
      BY <1>2, <2>1, <2>3, <2>6, <3>1 DEF Framed
    <3>4. k1 \in keys
      BY <3>2 DEF Following
    <3>5. CASE num = k1 * den
      <4>1. k1 \in Int /\ k2 \in Int /\ den \in Int
        BY <3>4
      <4>2. a.frames[k1] \in Int /\ a.frames[k2] \in Int
        BY <1>1, <2>3, <3>4
      <4>3. Same(Part(a, k1, k2, k1 * den, den), Whole(a.frames[k1]))
        BY <4>1, <4>2, PartAtKey
      <4>4. Same(f, Whole(a.frames[k1]))
        BY <3>3, <3>5, <4>3
      <4> QED
        BY <3>4, <3>5, <4>4 DEF FrameOf
    <3>6. CASE num # k1 * den
      <4>1. k1 * den < num /\ num < k2 * den
        BY <2>4, <3>2, <3>4, <3>6
      <4> QED
        BY <2>3, <3>2, <3>3, <3>4, <4>1 DEF FrameOf
    <3> QED
      BY <3>5, <3>6
  <2> QED
    BY <2>5, <2>6
<1>5. num < len * den \/ num = len * den
  OBVIOUS
<1> QED
  BY <1>3, <1>4, <1>5

LEMMA PartOnSegment ==
  ASSUME NEW a, NEW k1 \in Int, NEW k2 \in Int, NEW time, time.num \in Int, time.den \in Int,
         a.frames[k1] \in Int, a.frames[k2] \in Int
  PROVE  OnSegment(Part(a, k1, k2, time.num, time.den), time,
                   k1, a.frames[k1], k2, a.frames[k2])
<1> PICK num \in Int : num = time.num
  OBVIOUS
<1> PICK den \in Int : den = time.den
  OBVIOUS
<1> PICK v1 \in Int : v1 = a.frames[k1]
  OBVIOUS
<1> PICK v2 \in Int : v2 = a.frames[k2]
  OBVIOUS
<1> PICK n \in Int : n = v1 * (k2 - k1) * den + (v2 - v1) * (num - k1 * den)
  OBVIOUS
<1> PICK f : f = Part(a, k1, k2, num, den)
  OBVIOUS
<1>1. f.num = n /\ f.den = (k2 - k1) * den
  BY DEF Part
<1>2. n * (k2 - k1) * den = (k2 - k1) * den * n
  <2>1. PICK d \in Int : d = k2 - k1
    OBVIOUS
  <2>2. n * d * den = d * den * n
    OBVIOUS
  <2> QED
    BY <2>1, <2>2
<1> QED
  BY <1>1, <1>2 DEF OnSegment

\* The frames of a node within its length are on the lines between its keys.
LEMMA NodeIsLinear ==
  ASSUME NEW a, GoodNode(a), NEW time, time.num \in Nat, time.den \in Nat \ {0},
         NEW looped, time.num <= a.length * time.den,
         NEW f, f = FrameAt(a, time, looped)
  PROVE  LET keys  == DOMAIN a.frames
             first == Min(keys)
         IN  \/ time.num < first * time.den /\ Same(f, Whole(a.frames[first]))
             \/ \E k \in keys : /\ time.num = k * time.den
                                /\ Same(f, Whole(a.frames[k]))
             \/ \E k1, k2 \in keys :
                  /\ k1 * time.den < time.num /\ time.num < k2 * time.den
                  /\ \A k \in keys : k <= k1 \/ k >= k2
                  /\ OnSegment(f, time, k1, a.frames[k1], k2, a.frames[k2])
<1> PICK num \in Nat : num = time.num
  OBVIOUS
<1> PICK den \in Nat \ {0} : den = time.den
  OBVIOUS
<1> PICK keys : keys = DOMAIN a.frames
  OBVIOUS
<1>1. Reached(a, time, looped) = num
  BY DEF Reached
<1>2. f = Framed(a, num, den)
  BY <1>1, FrameIsFramed
<1>3. \/ num < Min(keys) * den /\ f = Whole(a.frames[Min(keys)])
      \/ \E k \in keys : num = k * den /\ Same(f, Whole(a.frames[k]))
      \/ \E k1, k2 \in keys :
           /\ Following(keys, k1, k2)
           /\ k1 * den < num /\ num < k2 * den /\ f = Part(a, k1, k2, num, den)
  BY <1>2, FramedIs DEF FrameOf
<1>4. CASE num < Min(keys) * den /\ f = Whole(a.frames[Min(keys)])
  BY <1>4 DEF Same
<1>5. CASE \E k \in keys : num = k * den /\ Same(f, Whole(a.frames[k]))
  BY <1>5
<1>6. ASSUME NEW k1 \in keys, NEW k2 \in keys, Following(keys, k1, k2),
             k1 * den < num /\ num < k2 * den, f = Part(a, k1, k2, num, den)
      PROVE  /\ \A k \in keys : k <= k1 \/ k >= k2
             /\ OnSegment(f, time, k1, a.frames[k1], k2, a.frames[k2])
  <2>1. k1 \in Int /\ k2 \in Int /\ a.frames[k1] \in Int /\ a.frames[k2] \in Int
    BY DEF GoodNode
  <2>2. time.num \in Int /\ time.den \in Int
    OBVIOUS
  <2>3. OnSegment(f, time, k1, a.frames[k1], k2, a.frames[k2])
    BY <1>6, <2>1, <2>2, PartOnSegment
  <2> QED
    BY <1>6, <2>3 DEF Following
<1> QED
  BY <1>3, <1>4, <1>5, <1>6

\* After one more length the remainder is the same.
LEMMA RemainderRepeats ==
  ASSUME NEW len \in Nat \ {0}, NEW x \in Nat
  PROVE  (x + len) % len = x % len
<1> DEFINE q == x \div len
           m == x % len
           q2 == (x + len) \div len
           m2 == (x + len) % len
<1>1. q \in Int /\ m \in 0 .. len - 1 /\ x = q * len + m
  OBVIOUS
<1>2. q2 \in Int /\ m2 \in 0 .. len - 1 /\ x + len = q2 * len + m2
  <2>1. PICK y \in Nat : y = x + len
    OBVIOUS
  <2>2. y \div len \in Int /\ y % len \in 0 .. len - 1 /\ y = (y \div len) * len + (y % len)
    OBVIOUS
  <2> QED
    BY <2>1, <2>2
<1> HIDE DEF q, m, q2, m2
<1>3. PICK d \in Int : d = q2 - q - 1
  BY <1>1, <1>2
<1>4. d * len = m - m2
  <2>1. q2 = d + q + 1
    BY <1>1, <1>2, <1>3
  <2>2. q2 * len = d * len + q * len + len
    BY <1>1, <2>1
  <2> QED
    BY <1>1, <1>2, <2>2
<1>5. d = 0
  <2>1. CASE d >= 1
    <3>1. (d - 1) * len >= 0
      BY <2>1
    <3>2. d * len >= len
      BY <3>1
    <3> QED
      BY <1>1, <1>2, <1>4, <3>2
  <2>2. CASE d <= -1
    <3>1. (-1 - d) * len >= 0
      BY <2>2
    <3>2. d * len <= -len
      BY <3>1
    <3> QED
      BY <1>1, <1>2, <1>4, <3>2
  <2> QED
    BY <2>1, <2>2
<1>6. m2 = m
  BY <1>1, <1>2, <1>4, <1>5
<1> QED
  BY <1>6 DEF m, m2

\* A looped node is one length later where it was.
LEMMA NodeRepeats ==
  ASSUME NEW a, a.length \in Nat \ {0}, NEW num \in Nat \ {0}, NEW den \in Nat \ {0}
  PROVE  FrameAt(a, [num |-> num + a.length * den, den |-> den], TRUE) =
         FrameAt(a, [num |-> num, den |-> den], TRUE)
<1> PICK len \in Nat \ {0} : len = a.length
  OBVIOUS
<1> PICK end \in Nat \ {0} : end = len * den
  <2>1. len * den > 0
    OBVIOUS
  <2> QED
    BY <2>1
<1>1. PICK r \in Int : r = (num - 1) % end
  OBVIOUS
<1>2. (num - 1 + end) % end = r
  <2>1. num - 1 \in Nat
    OBVIOUS
  <2> QED
    BY <1>1, <2>1, RemainderRepeats
<1>3. num + end > end /\ (num + end) - 1 = num - 1 + end
  OBVIOUS
<1>4. Wrapped(num + end, end) = r + 1
  BY <1>2, <1>3 DEF Wrapped
<1>5. Reached(a, [num |-> num + end, den |-> den], TRUE) = r + 1
  <2>1. ~(num + end <= end)
    OBVIOUS
  <2>2. Reached(a, [num |-> num + end, den |-> den], TRUE) = Wrapped(num + end, end)
    BY <2>1 DEF Reached
  <2> QED
    BY <1>4, <2>2
<1>6. ASSUME num <= end PROVE Reached(a, [num |-> num, den |-> den], TRUE) = r + 1
  <2>1. num - 1 \in 0 .. end - 1
    BY <1>6
  <2>2. r = num - 1
    BY <1>1, <2>1, RemainderIs
  <2>3. Reached(a, [num |-> num, den |-> den], TRUE) = num
    BY <1>6 DEF Reached
  <2>4. num = r + 1
    BY <2>2
  <2> QED
    BY <2>3, <2>4
<1>7. ASSUME ~(num <= end) PROVE Reached(a, [num |-> num, den |-> den], TRUE) = r + 1
  <2>1. Reached(a, [num |-> num, den |-> den], TRUE) = Wrapped(num, end)
    BY <1>7 DEF Reached
  <2>2. num > end
    BY <1>7
  <2>3. Wrapped(num, end) = r + 1
    BY <1>1, <2>2 DEF Wrapped
  <2> QED
    BY <2>1, <2>3
<1> QED
  BY <1>5, <1>6, <1>7, FrameIsFramed

\* Between two key frames that follow each other a place is at the time
\* TimeAtX says.
LEMMA PartAtPlace ==
  ASSUME NEW a, NEW k1 \in Int, NEW k2 \in Int, NEW x1 \in Int, NEW x2 \in Int, NEW x \in Int,
         a.frames[k1] = x1, a.frames[k2] = x2,
         NEW num \in Int, num = k1 * (x2 - x1) + (k2 - k1) * (x - x1)
  PROVE  Same(Part(a, k1, k2, num, x2 - x1), Whole(x))
<1> PICK D \in Int : D = x2 - x1
  OBVIOUS
<1> PICK K \in Int : K = k2 - k1
  OBVIOUS
<1> PICK y \in Int : y = x - x1
  OBVIOUS
<1> PICK f : f = Part(a, k1, k2, num, D)
  OBVIOUS
<1>1. f.num = x1 * K * D + D * (num - k1 * D) /\ f.den = K * D
  BY DEF Part
<1>2. num - k1 * D = K * y
  OBVIOUS
<1>3. D * (K * y) = K * D * y
  OBVIOUS
<1>4. PICK w \in Int : w = K * D
  OBVIOUS
<1>5. x1 * K * D = x1 * w
  BY <1>4
<1>6. f.num = x1 * w + w * y
  BY <1>1, <1>2, <1>3, <1>4, <1>5
<1>7. x = x1 + y
  OBVIOUS
<1>8. x * w = x1 * w + w * y
  BY <1>7
<1>9. f.num = x * w /\ f.den = w
  BY <1>1, <1>4, <1>6, <1>8
<1>10. f.num * 1 = x * f.den
  BY <1>9
<1> QED
  BY <1>10 DEF Same, Whole

\* A place strictly between two values is at a time strictly between theirs.
LEMMA TimeBetween ==
  ASSUME NEW k1 \in Nat, NEW k2 \in Nat, NEW D \in Nat, NEW y \in Nat,
         k1 < k2, 0 < y, y < D,
         NEW num, num = k1 * D + (k2 - k1) * y
  PROVE  num \in Nat /\ k1 * D < num /\ num < k2 * D
<1> PICK K \in Nat : K = k2 - k1 /\ K > 0
  OBVIOUS
<1>1. K * y > 0
  OBVIOUS
<1>2. K * (D - y) > 0
  OBVIOUS
<1>3. k2 * D = k1 * D + K * D
  OBVIOUS
<1>4. K * (D - y) = K * D - K * y
  OBVIOUS
<1>5. k1 * D \in Nat /\ K * y \in Nat /\ K * D \in Nat /\ k2 * D \in Nat
  OBVIOUS
<1> QED
  BY <1>1, <1>2, <1>3, <1>4, <1>5

\* The pose at a place between a node's first and last value is at the place.
LEMMA PoseAtPlace ==
  ASSUME NEW a, GoodNode(a), NEW x \in Int,
         \A k1, k2 \in DOMAIN a.frames : k1 < k2 => a.frames[k1] < a.frames[k2],
         a.frames[Min(DOMAIN a.frames)] <= x, x <= a.frames[Max(DOMAIN a.frames)]
  PROVE  Same(FrameAt(a, TimeAtX(a, PlaceAtX(a, x, TRUE)), TRUE), Whole(x))
<1> PICK len \in Nat : len = a.length
  BY DEF GoodNode
<1> PICK keys \in SUBSET (0 .. len) : keys = DOMAIN a.frames
  BY DEF GoodNode
<1>1. len \in keys /\ \A k \in keys : k \in Nat /\ a.frames[k] \in Int
  BY DEF GoodNode
<1>2. Max(keys) = len
  BY LastKey
<1>3. PICK k0 \in keys : k0 = Min(keys) /\ \A k \in keys : k0 <= k
  BY FirstKey
<1>4. PlaceAtX(a, x, TRUE) = x
  <2>1. PICK first \in Int : first = a.frames[Min(keys)]
    BY <1>1, <1>3
  <2>2. PICK last \in Int : last = a.frames[Max(keys)]
    BY <1>1, <1>2
  <2>3. first <= x /\ x <= last
    BY <2>1, <2>2
  <2>4. ~(x < first)
    BY <2>3
  <2> QED
    BY <2>1, <2>2, <2>3, <2>4 DEF PlaceAtX
<1> PICK short : short = {k \in keys : a.frames[k] >= x}
  OBVIOUS
<1>5. short \in SUBSET Nat /\ short # {}
  <2>1. a.frames[len] >= x
    BY <1>1, <1>2
  <2> QED
    BY <1>1, <2>1
<1>6. PICK k2 \in keys : k2 = Min(short) /\ a.frames[k2] >= x /\ \A k \in short : k2 <= k
  <2>1. Min(short) \in short /\ \A k \in short : Min(short) <= k
    BY <1>5, MinOfNat
  <2> QED
    BY <2>1
<1>7. FirstAt(a, x) = k2
  BY <1>6 DEF FirstAt
<1>8. PICK x2 \in Int : x2 = a.frames[k2]
  BY <1>1
<1>9. k2 \in Nat /\ k2 <= len
  BY <1>1
<1> PICK f : f = FrameAt(a, TimeAtX(a, x), TRUE)
  OBVIOUS
<1>10. CASE x2 = x
  <2>1. TimeAtX(a, x) = Whole(k2)
    BY <1>7, <1>8, <1>10 DEF TimeAtX
  <2>2. Whole(k2).num = k2 /\ Whole(k2).den = 1
    BY DEF Whole
  <2>3. Reached(a, Whole(k2), TRUE) = k2
    BY <1>9, <2>2 DEF Reached
  <2>4. f = Framed(a, k2, 1)
    BY <2>1, <2>2, <2>3, FrameIsFramed
  <2>5. k2 <= a.length * 1 /\ 1 \in Nat \ {0}
    BY <1>9
  <2>6. FrameOf(a, f, k2, 1)
    BY <1>9, <2>4, <2>5, FramedIs
  <2>7. \/ k2 < k0 * 1 /\ f = Whole(a.frames[k0])
        \/ \E k \in keys : k2 = k * 1 /\ Same(f, Whole(a.frames[k]))
        \/ \E j1, j2 \in keys :
             /\ Following(keys, j1, j2)
             /\ j1 * 1 < k2 /\ k2 < j2 * 1 /\ f = Part(a, j1, j2, k2, 1)
    BY <1>3, <2>6 DEF FrameOf
  <2>8. ~(k2 < k0 * 1)
    BY <1>1, <1>3, <1>9
  <2>9. ASSUME NEW j1 \in keys, NEW j2 \in keys, Following(keys, j1, j2),
               j1 * 1 < k2, k2 < j2 * 1
        PROVE  FALSE
    <3>1. j1 < k2 /\ k2 < j2
      BY <1>1, <1>9, <2>9
    <3>2. k2 <= j1 \/ k2 >= j2
      BY <2>9 DEF Following
    <3> QED
      BY <1>1, <1>9, <3>1, <3>2
  <2>10. PICK k \in keys : k2 = k * 1 /\ Same(f, Whole(a.frames[k]))
    BY <2>7, <2>8, <2>9
  <2>11. k2 = k
    BY <1>1, <2>10
  <2> QED
    BY <1>4, <1>8, <1>10, <2>10, <2>11
<1>11. CASE x2 # x
  <2>1. x < x2
    BY <1>6, <1>8, <1>11
  <2>2. ASSUME NEW k \in keys, k < k2 PROVE a.frames[k] < x
    <3>1. ~(k2 <= k)
      BY <1>1, <1>9, <2>2
    <3>2. k \notin short
      BY <1>6, <3>1
    <3>3. ~(a.frames[k] >= x)
      BY <3>2
    <3> QED
      BY <1>1, <3>3
  <2>3. k2 # k0
    <3>1. a.frames[k0] <= x
      BY <1>3
    <3> QED
      BY <1>8, <2>1, <3>1
  <2>4. k0 < k2
    BY <1>1, <1>3, <1>9, <2>3
  <2> PICK earlier : earlier = {k \in keys : k < k2}
    OBVIOUS
  <2>5. earlier \in SUBSET (0 .. len) /\ earlier # {}
    BY <2>4
  <2>6. PICK k1 \in keys : k1 = Max(earlier) /\ k1 < k2 /\ \A k \in earlier : k <= k1
    <3>1. Max(earlier) \in earlier /\ \A k \in earlier : k <= Max(earlier)
      BY <2>5, MaxOfNat
    <3> QED
      BY <3>1
  <2>7. PICK x1 \in Int : x1 = a.frames[k1] /\ x1 < x
    BY <1>1, <2>2, <2>6
  <2>8. k1 \in Nat /\ Following(keys, k1, k2)
    <3>1. ASSUME NEW k \in keys PROVE k <= k1 \/ k >= k2
      <4>1. k \in earlier \/ ~(k < k2)
        OBVIOUS
      <4> QED
        BY <1>1, <1>9, <2>6, <4>1
    <3> QED
      BY <1>1, <2>6, <3>1 DEF Following
  <2>9. PICK D \in Nat \ {0} : D = x2 - x1
    BY <2>1, <2>7
  <2>10. PICK y \in Nat \ {0} : y = x - x1 /\ y < D
    BY <2>1, <2>7, <2>9
  <2>11. PICK num : num = k1 * D + (k2 - k1) * y
    OBVIOUS
  <2>12. num \in Nat /\ k1 * D < num /\ num < k2 * D
    BY <1>9, <2>6, <2>8, <2>10, <2>11, TimeBetween
  <2>13. TimeAtX(a, x) = [num |-> num, den |-> D]
    BY <1>3, <1>7, <1>8, <1>11, <2>3, <2>6, <2>7, <2>9, <2>10, <2>11 DEF TimeAtX
  <2>14. num <= a.length * D
    <3>1. k2 * D <= len * D
      BY <1>9
    <3> QED
      BY <1>9, <2>12, <3>1
  <2>15. Reached(a, [num |-> num, den |-> D], TRUE) = num
    BY <2>14 DEF Reached
  <2>16. f = Framed(a, num, D)
    <3>1. [num |-> num, den |-> D].den = D
      OBVIOUS
    <3>2. PICK time : time = [num |-> num, den |-> D]
      OBVIOUS
    <3>3. f = Framed(a, Reached(a, time, TRUE), time.den)
      BY <2>13, <3>2, FrameIsFramed
    <3> QED
      BY <2>15, <3>1, <3>2, <3>3
  <2>17. FrameOf(a, f, num, D)
    BY <2>12, <2>14, <2>16, FramedIs
  <2>18. \/ num < k0 * D /\ f = Whole(a.frames[k0])
         \/ \E k \in keys : num = k * D /\ Same(f, Whole(a.frames[k]))
         \/ \E j1, j2 \in keys :
              /\ Following(keys, j1, j2)
              /\ j1 * D < num /\ num < j2 * D /\ f = Part(a, j1, j2, num, D)
    BY <1>3, <2>17 DEF FrameOf
  <2>19. ASSUME NEW k \in keys PROVE (k <= k1 /\ k * D < num) \/ (k >= k2 /\ num < k * D)
    <3>1. CASE k <= k1
      <4>1. k * D <= k1 * D
        BY <1>1, <2>8, <3>1
      <4> QED
        BY <1>1, <2>8, <2>12, <3>1, <4>1
    <3>2. CASE k >= k2
      <4>1. k * D >= k2 * D
        BY <1>1, <1>9, <3>2
      <4> QED
        BY <1>1, <1>9, <2>12, <3>2, <4>1
    <3> QED
      BY <2>8, <3>1, <3>2 DEF Following
  <2>20. ~(num < k0 * D)
    <3>1. k0 <= k1 /\ ~(k0 >= k2)
      BY <1>1, <1>3, <1>9, <2>4, <2>6
    <3>2. k0 * D < num
      BY <2>19, <3>1
    <3> QED
      BY <1>1, <2>12, <3>2
  <2>21. ASSUME NEW k \in keys PROVE num # k * D
    BY <1>1, <2>12, <2>19
  <2>22. PICK j1 \in keys, j2 \in keys :
           /\ Following(keys, j1, j2)
           /\ j1 * D < num /\ num < j2 * D /\ f = Part(a, j1, j2, num, D)
    BY <2>18, <2>20, <2>21
  <2>23. j1 = k1 /\ j2 = k2
    <3>1. j1 <= k1 /\ j2 >= k2
      BY <1>1, <2>12, <2>19, <2>22
    <3>2. (k1 <= j1 \/ k1 >= j2) /\ (k2 <= j1 \/ k2 >= j2)
      BY <2>6, <2>22 DEF Following
    <3> QED
      BY <1>1, <1>9, <2>6, <3>1, <3>2
  <2>24. f = Part(a, k1, k2, num, x2 - x1)
    BY <2>9, <2>22, <2>23
  <2>25. num = k1 * (x2 - x1) + (k2 - k1) * (x - x1)
    BY <2>9, <2>10, <2>11
  <2>26. Same(f, Whole(x))
    <3>1. k1 \in Int /\ k2 \in Int /\ num \in Int
      BY <1>9, <2>8, <2>12
    <3>2. a.frames[k1] = x1 /\ a.frames[k2] = x2
      BY <1>8, <2>7
    <3>3. Same(Part(a, k1, k2, num, x2 - x1), Whole(x))
      BY <2>25, <3>1, <3>2, PartAtPlace
    <3> QED
      BY <2>24, <3>3
  <2> QED
    BY <1>4, <2>26
<1> QED
  BY <1>10, <1>11

LEMMA InvMeansFrames == AnimatedInv => FramesAreLinear /\ FramesRepeat
<1> SUFFICES ASSUME AnimatedInv PROVE FramesAreLinear /\ FramesRepeat
  OBVIOUS
<1>1. ASSUME NEW n \in Live PROVE GoodNode(animations[n])
  BY DEF AnimatedInv
<1>2. ASSUME NEW a, GoodNode(a), NEW time \in Halves(a)
      PROVE  /\ time = [num |-> time.num, den |-> time.den]
             /\ time.num \in Nat /\ time.den \in Nat \ {0}
  <2>1. a.length \in Nat
    BY <1>2 DEF GoodNode
  <2>2. PICK i \in 0 .. 2 * a.length + 3 : time = [num |-> i, den |-> 2]
    BY DEF Halves
  <2>3. i \in Nat
    BY <2>1, <2>2
  <2> QED
    BY <2>2, <2>3
<1>3. FramesAreLinear
  <2> SUFFICES ASSUME NEW n \in Live, NEW time \in Halves(animations[n]), NEW looped \in BOOLEAN
               PROVE
       LET a == animations[n]
           f == FrameAt(a, time, looped)
           keys == DOMAIN a.frames
           first == Min(keys)
       IN  Returns(a, time, looped) =>
           IF time.num > a.length * time.den
           THEN ~looped => Same(f, Whole(a.frames[Max(keys)]))
           ELSE \/ time.num < first * time.den /\ Same(f, Whole(a.frames[first]))
                \/ \E k \in keys : /\ time.num = k * time.den
                                   /\ Same(f, Whole(a.frames[k]))
                \/ \E k1, k2 \in keys :
                     /\ k1 * time.den < time.num /\ time.num < k2 * time.den
                     /\ \A k \in keys : k <= k1 \/ k >= k2
                     /\ OnSegment(f, time, k1, a.frames[k1], k2, a.frames[k2])
    BY DEF FramesAreLinear
  <2> PICK a : a = animations[n]
    OBVIOUS
  <2> PICK f : f = FrameAt(a, time, looped)
    OBVIOUS
  <2>1. GoodNode(a) /\ time.num \in Nat /\ time.den \in Nat \ {0}
    BY <1>1, <1>2
  <2>2. a.length \in Nat /\ a.length * time.den \in Nat
    BY <2>1 DEF GoodNode
  <2>3. ASSUME time.num > a.length * time.den, ~looped
        PROVE  Same(f, Whole(a.frames[Max(DOMAIN a.frames)]))
    <3>1. ~(time.num <= a.length * time.den)
      BY <2>1, <2>2, <2>3
    <3>2. Reached(a, time, looped) = a.length * time.den
      BY <2>3, <3>1 DEF Reached
    <3>3. f = Framed(a, a.length * time.den, time.den)
      BY <3>2, FrameIsFramed
    <3>4. f = Whole(a.frames[Max(DOMAIN a.frames)])
      BY <3>3 DEF Framed
    <3> QED
      BY <3>4 DEF Same
  <2>4. ASSUME ~(time.num > a.length * time.den)
        PROVE  \/ /\ time.num < Min(DOMAIN a.frames) * time.den
                  /\ Same(f, Whole(a.frames[Min(DOMAIN a.frames)]))
               \/ \E k \in DOMAIN a.frames : /\ time.num = k * time.den
                                             /\ Same(f, Whole(a.frames[k]))
               \/ \E k1, k2 \in DOMAIN a.frames :
                    /\ k1 * time.den < time.num /\ time.num < k2 * time.den
                    /\ \A k \in DOMAIN a.frames : k <= k1 \/ k >= k2
                    /\ OnSegment(f, time, k1, a.frames[k1], k2, a.frames[k2])
    <3>1. time.num <= a.length * time.den
      BY <2>1, <2>2, <2>4
    <3> QED
      BY <2>1, <3>1, NodeIsLinear
  <2> QED
    BY <2>3, <2>4, Zenon
<1>4. FramesRepeat
  <2> SUFFICES ASSUME NEW n \in Live, NEW time \in Halves(animations[n]),
                      animations[n].length > 0, time.num > 0
               PROVE  Same(FrameAt(animations[n],
                                   [time EXCEPT !.num = @ + animations[n].length * time.den],
                                   TRUE),
                           FrameAt(animations[n], time, TRUE))
    BY DEF FramesRepeat
  <2> PICK a : a = animations[n]
    OBVIOUS
  <2>1. GoodNode(a)
    BY <1>1
  <2>2. PICK num \in Nat \ {0}, den \in Nat \ {0} : time = [num |-> num, den |-> den]
    BY <1>2, <2>1
  <2>3. a.length \in Nat \ {0}
    BY <2>1 DEF GoodNode
  <2>4. [time EXCEPT !.num = @ + a.length * time.den]
        = [num |-> num + a.length * den, den |-> den]
    BY <2>2
  <2>5. FrameAt(a, [time EXCEPT !.num = @ + a.length * time.den], TRUE)
        = FrameAt(a, time, TRUE)
    <3>1. FrameAt(a, [num |-> num + a.length * den, den |-> den], TRUE)
          = FrameAt(a, [num |-> num, den |-> den], TRUE)
      BY <2>3, NodeRepeats
    <3> QED
      BY <2>2, <2>4, <3>1
  <2> QED
    BY <2>5 DEF Same
<1> QED
  BY <1>3, <1>4

LEMMA InvMeansPlaces == AnimatedInv => PoseAtXIsAtX
<1> SUFFICES ASSUME AnimatedInv, NEW n \in Live, NEW x \in Places,
                    \A k1, k2 \in DOMAIN animations[n].frames :
                      k1 < k2 => animations[n].frames[k1] < animations[n].frames[k2],
                    x \in animations[n].frames[Min(DOMAIN animations[n].frames)]
                          .. animations[n].frames[Max(DOMAIN animations[n].frames)]
             PROVE  Same(PoseAtX(x, n, TRUE)[n], Whole(x))
  BY DEF PoseAtXIsAtX
<1> PICK a : a = animations[n]
  OBVIOUS
<1>1. GoodNode(a)
  BY DEF AnimatedInv
<1>2. x \in Int
  BY SkeletonAnimationAssumption DEF Places
<1>3. PoseAtX(x, n, TRUE)[n] = FrameAt(a, TimeAtX(a, PlaceAtX(a, x, TRUE)), TRUE)
  BY DEF PoseAtX
<1>4. a.frames[Min(DOMAIN a.frames)] \in Int /\ a.frames[Max(DOMAIN a.frames)] \in Int
  BY <1>1, FirstKey, LastKey DEF GoodNode
<1>5. a.frames[Min(DOMAIN a.frames)] <= x /\ x <= a.frames[Max(DOMAIN a.frames)]
  BY <1>2, <1>4
<1>6. \A k1, k2 \in DOMAIN a.frames : k1 < k2 => a.frames[k1] < a.frames[k2]
  OBVIOUS
<1>7. Same(FrameAt(a, TimeAtX(a, PlaceAtX(a, x, TRUE)), TRUE), Whole(x))
  BY <1>1, <1>2, <1>5, <1>6, PoseAtPlace
<1> QED
  BY <1>3, <1>7

\* Whatever key frames are added to the nodes of an animation, unknown nodes
\* asked for and poses scaled: a frame is that of a key frame or on the line
\* between two that follow each other, comes again when it is looped, the pose
\* at a place is at that place, and no node goes on after the end of the
\* animation (NodeAnimation::FrameAt, SkeletonAnimation::PoseAtX, AddKeyFrame).
THEOREM PosesAlwaysFollowKeys == AnimatedSpec => []PosesFollowKeys
<1>1. AnimatedInit => AnimatedInv
  <2> SUFFICES ASSUME AnimatedInit PROVE AnimatedInv
    OBVIOUS
  <2>1. duration \in Int
    BY SkeletonAnimationAssumption DEF AnimatedInit
  <2>2. Live = {}
    BY DEF AnimatedInit, Live
  <2> QED
    BY <2>1, <2>2 DEF AnimatedInv
<1>2. AnimatedInv /\ [AnimatedNext]_animatedVars => AnimatedInv'
  BY AnimatedStep
<1>3. AnimatedInv => PosesFollowKeys
  <2>1. AnimatedInv => LengthCovers
    BY DEF AnimatedInv, LengthCovers
  <2> QED
    BY <2>1, InvMeansFrames, InvMeansPlaces DEF PosesFollowKeys
<1> QED
  BY <1>1, <1>2, <1>3, PTL DEF AnimatedSpec
=============================================================================
