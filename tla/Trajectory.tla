----------------------------- MODULE Trajectory -----------------------------
(***************************************************************************)
(* Animation, PoseAnimation and NumericAnimation (graphics/src/            *)
(* Animation.cc): key frames in the order of their times, a time position, *)
(* and for poses two splines that are built from the key frames when the   *)
(* flag build says so.  Times are integers; a pose or a number is a value, *)
(* and a parametric time a fraction num / den.                             *)
(*                                                                         *)
(* And common::TrajectoryInfo, with the pose animation it makes of its     *)
(* waypoints and hands out: clients go on working with that animation.  A  *)
(* pose is its place on a line.  The start and end times, id and index are *)
(* data nothing here depends on.                                           *)
(***************************************************************************)
EXTENDS Integers, Sequences, FiniteSets, SequencesExt, FiniteSetsExt

CONSTANTS Times,     \* of key frames
          Positions, \* times Time() is given
          Values,    \* of key frames
          Lengths,   \* Length() is given
          MaxKeys,   \* bound: key frames of an animation
          LateEdits, \* may a key frame be changed once the splines are built?
          NoSplines

ASSUME AnimationAssumption ==
  /\ Times \subseteq Nat /\ Positions \subseteq Int
  /\ 0 \in Values /\ Values \subseteq Int
  /\ Lengths \subseteq Nat \ {0}
  /\ MaxKeys \in Nat /\ LateEdits \in BOOLEAN
  /\ NoSplines \notin Seq(Values)

VARIABLES keyFrames, length, loop, timePos,
          build,   \* do the splines need building?
          splines  \* the values the splines were built from

animation == <<keyFrames, length, loop, timePos, build, splines>>

KeyFrames == [time : Nat, value : Values]

AnimationTypeOK ==
  /\ keyFrames \in Seq(KeyFrames) /\ Len(keyFrames) <= MaxKeys
  /\ length \in Nat /\ timePos \in Nat
  /\ loop \in BOOLEAN /\ build \in BOOLEAN
  /\ splines \in Seq(Values) \cup {NoSplines}

\* PoseAnimation(name, length, loop); fmod by a length of 0 is not a number.
NewAnimation(len, lp) ==
  /\ keyFrames = <<>> /\ length = len /\ loop = lp
  /\ timePos = 0 /\ build = FALSE /\ splines = NoSplines
-----------------------------------------------------------------------------
(* The two searches of <algorithm>, as positions in the sequence.          *)

LowerBound(keys, t) == 1 + Cardinality({i \in DOMAIN keys : keys[i].time < t})
UpperBound(keys, t) == 1 + Cardinality({i \in DOMAIN keys : keys[i].time <= t})

\* Faulty variant: the time is taken modulo the length, and the end of the
\* animation becomes its beginning.
Modulo(t, len) == IF t > len /\ len > 0 THEN t % len ELSE t

\* Subtracting the length until the time is not past it.
Folded(t, len) == IF t > len /\ len > 0 THEN ((t - 1) % len) + 1 ELSE t

\* The key frames around a time and how far between them it is.  Past the
\* last one the first follows, one length later.
KeyFramesAtTime(keys, len, time) ==
  LET t    == Folded(time, len)
      next == LowerBound(keys, t)
      past == next > Len(keys)
      k1   == IF past \/ (next > 1 /\ t < keys[next].time) THEN next - 1
                                                           ELSE next
      k2   == IF past THEN 1 ELSE next
      t1   == keys[k1].time
      t2   == IF past THEN len + keys[k2].time ELSE keys[k2].time
  IN  [first |-> k1, second |-> k2,
       num |-> IF t1 = t2 THEN 0 ELSE t - t1,
       den |-> IF t1 = t2 THEN 1 ELSE t2 - t1]

\* NumericAnimation::InterpolatedKeyFrame, as a fraction.
Interpolated(keys, len, time) ==
  LET b  == KeyFramesAtTime(keys, len, time)
      v1 == keys[b.first].value
      v2 == keys[b.second].value
  IN  IF b.num = 0 THEN [num |-> v1, den |-> 1]
      ELSE [num |-> v1 * b.den + (v2 - v1) * b.num, den |-> b.den]
-----------------------------------------------------------------------------
\* Faulty variant: the flag stays as it is.
KeepFlag == build

NeedSplines == TRUE

\* Faulty variant: a new key frame goes to the end.
AtEnd(keys, t) == Len(keys) + 1

\* A new key frame comes after those of the same time.
Place(keys, t) == UpperBound(keys, t)

\* An animation of no length has no key frame but at its beginning.
CreateKeyFrame(t) ==
  /\ Len(keyFrames) < MaxKeys /\ (length > 0 \/ t = 0)
  /\ keyFrames' = InsertAt(keyFrames, Place(keyFrames, t),
                           [time |-> t, value |-> 0])
  /\ build' = NeedSplines
  /\ UNCHANGED <<length, loop, timePos, splines>>

\* The client writes to a key frame CreateKeyFrame or KeyFrame gave it.
SetKeyFrame(i, v) ==
  /\ LateEdits \/ build
  /\ keyFrames' = [keyFrames EXCEPT ![i].value = v]
  /\ UNCHANGED <<length, loop, timePos, build, splines>>

SetLength(len) == /\ length' = len
                  /\ UNCHANGED <<keyFrames, loop, timePos, build, splines>>

Clamp(t) == IF t < 0 THEN 0 ELSE IF t > length THEN length ELSE t

\* Faulty variant: the sign of fmod is the sign of the time.
Remainder(t) == IF t >= 0 THEN t % length ELSE -((-t) % length)

Wrap(t) == t % length

\* Time(t): the time the animation is at already is not looked at.
Time(t) == /\ t # timePos /\ (loop => length > 0)
           /\ timePos' = IF loop THEN Wrap(t) ELSE Clamp(t)
           /\ UNCHANGED <<keyFrames, length, loop, build, splines>>

AddTime(d) == Time(timePos + d)

\* PoseAnimation::InterpolatedKeyFrame builds the splines if they need it.
InterpolatedKeyFrame ==
  /\ keyFrames # <<>> /\ build
  /\ splines' = [i \in DOMAIN keyFrames |-> keyFrames[i].value]
  /\ build' = FALSE
  /\ UNCHANGED <<keyFrames, length, loop, timePos>>

AnimationStep ==
  \/ \E t \in Times : CreateKeyFrame(t)
  \/ \E i \in DOMAIN keyFrames, v \in Values : SetKeyFrame(i, v)
  \/ \E len \in Lengths : SetLength(len)
  \/ \E t \in Positions : Time(t) \/ AddTime(t)
  \/ InterpolatedKeyFrame
-----------------------------------------------------------------------------
(* TrajectoryInfo.                                                         *)

CONSTANTS Clock,        \* points in time
          LastTick,     \* the last one there is: ticks are 64 bits wide
          MaxWaypoints  \* bound: waypoints of a trajectory

ASSUME TrajectoryAssumption ==
  LastTick \in Nat /\ Clock \subseteq 0 .. LastTick /\ MaxWaypoints \in Nat

VARIABLES segDistance,  \* time since the start -> length of the segment to it
          route         \* history: the waypoints, by time since the start

trajectory == <<segDistance, route>>
vars == <<animation, trajectory>>

TypeOK == /\ AnimationTypeOK
          /\ DOMAIN segDistance = DOMAIN route
          /\ \A t \in DOMAIN route : route[t] \in Values /\ segDistance[t] \in Nat

\* An animation of a client's own, or the one SetWaypoints is going to make.
Init == /\ \E len \in Lengths, lp \in BOOLEAN : NewAnimation(len, lp)
        /\ segDistance = <<>> /\ route = <<>>

Distance(x, y) == IF x < y THEN y - x ELSE x - y

Before(S, t) == LET earlier == {x \in S : x < t}
                IN  IF earlier = {} THEN t ELSE Max(earlier)

\* Faulty variant: the distances of the old waypoints are still there.
MergeSegments(w, start) ==
  LET d == {t - start : t \in DOMAIN w}
  IN  [t \in d \cup DOMAIN segDistance |->
         IF t \in d THEN Distance(w[start + t], w[Before(DOMAIN w, start + t)])
                    ELSE segDistance[t]]

\* Each waypoint has the distance from the one before it, the first has 0.
Segments(w, start) ==
  [t \in {x - start : x \in DOMAIN w} |->
     Distance(w[start + t], w[Before(DOMAIN w, start + t)])]

\* The i-th of the map's keys is the one with i keys up to it.
InOrder(S) == [i \in 1 .. Cardinality(S) |->
                 CHOOSE x \in S : Cardinality({y \in S : y <= x}) = i]

\* A new animation, not looped and as long as the waypoints, has a key frame
\* for each of them.
SetWaypoints(w) ==
  LET start == Min(DOMAIN w)
      order == InOrder(DOMAIN w)
  IN  /\ segDistance' = Segments(w, start)
      /\ route' = [t \in {x - start : x \in DOMAIN w} |-> w[start + t]]
      /\ keyFrames' = [i \in DOMAIN order |->
                         [time |-> order[i] - start, value |-> w[order[i]]]]
      /\ length' = Max(DOMAIN w) - start /\ loop' = FALSE
      /\ timePos' = 0 /\ build' = NeedSplines /\ splines' = NoSplines

Routes == UNION {[S -> Values] : S \in {C \in SUBSET Clock :
                   C # {} /\ Cardinality(C) <= MaxWaypoints}}

Next == \/ AnimationStep /\ UNCHANGED trajectory
        \/ \E w \in Routes : SetWaypoints(w)

Spec == Init /\ [][Next]_vars
-----------------------------------------------------------------------------
(* Properties.                                                             *)

\* The binary searches and the splines need the key frames in order,
\* whatever order the times are given in.
KeysInOrder ==
  \A i, j \in DOMAIN keyFrames : i < j => keyFrames[i].time <= keyFrames[j].time

\* A pose that is asked for is interpolated between the values the key
\* frames have now: the splines are there and not stale.
SplinesFollowKeys ==
  ~build => splines = IF keyFrames = <<>> THEN NoSplines
                      ELSE [i \in DOMAIN keyFrames |-> keyFrames[i].value]

Equals(f, v) == f.num = v * f.den

\* f lies on the line from (t1, v1) to (t2, v2) at time t
OnLine(f, t, t1, v1, t2, v2) ==
  /\ f.den > 0 /\ t1 <= t /\ t <= t2
  /\ f.num * (t2 - t1) = f.den * (v1 * (t2 - t1) + (v2 - v1) * (t - t1))

Probes == 0 .. 2 * length + 1

\* At any time the value is that of a key frame of that time, or of the
\* first one before it, or on the line between two that follow each other,
\* the first following the last one length later; and an animation asked
\* for a time past its length repeats itself.
InterpolationIsLinear ==
  \A time \in Probes : keyFrames # <<>> =>
    LET f     == Interpolated(keyFrames, length, time)
        t     == CHOOSE x \in 0 .. length :
                   IF time <= length \/ length = 0 THEN x = time \/ length = 0
                   ELSE x > 0 /\ \E n \in 1 .. 3 : time = x + n * length
        keys  == DOMAIN keyFrames
        first == keyFrames[1]
        last  == keyFrames[Len(keyFrames)]
    IN  \/ \E i \in keys : keyFrames[i].time = t /\ Equals(f, keyFrames[i].value)
        \/ t < first.time /\ Equals(f, first.value)
        \/ \E i \in keys \ {Len(keyFrames)} :
             LET a == keyFrames[i]  b == keyFrames[i + 1]
             IN  a.time < t /\ t < b.time
                 /\ OnLine(f, t, a.time, a.value, b.time, b.value)
        \/ /\ last.time < t
           /\ OnLine(f, t, last.time, last.value, length + first.time, first.value)

\* Time and AddTime leave the animation inside its length, whatever they are
\* given and whatever the length was before.
PositionInRange ==
  [][timePos' # timePos => timePos' \in 0 .. length]_animation

\* The segments up to each waypoint.
Completed ==
  LET times == DOMAIN segDistance
      sum[t \in times] ==
        LET prev == Before(times, t)
        IN  segDistance[t] + IF prev = t THEN 0 ELSE sum[prev]
  IN  sum

\* DistanceSoFar, as a fraction: the segments that are completed, and the
\* part of the next one.
DistanceSoFar(time) ==
  LET times     == DOMAIN segDistance
      completed == {t \in times : t <= time}
      prev      == IF completed = {} THEN Min(times) ELSE Max(completed)
      sum       == IF completed = {} THEN 0 ELSE Completed[prev]
      next      == Min(times \ completed)
  IN  IF completed = times \/ time <= prev THEN [num |-> sum, den |-> 1]
      ELSE [num |-> sum * (next - prev) + (time - prev) * segDistance[next],
            den |-> next - prev]

\* The distance covered is the length of the way along the waypoints that
\* were set last: from each to the next it grows evenly by their distance,
\* it starts at 0, and it ends with the last waypoint.
DistanceFollowsRoute ==
  \A a \in DOMAIN route :
    LET later == {t \in DOMAIN route : t > a}
        next  == Min(later)
        here  == DistanceSoFar(a)
    IN  /\ here.den = 1
        /\ a = 0 => here.num = 0
        /\ later = {} => Equals(DistanceSoFar(a + 1), here.num)
        /\ later # {} =>
             \A t \in a .. next :
               OnLine(DistanceSoFar(t), t, a, here.num,
                      next, here.num + Distance(route[a], route[next]))

\* A trajectory's distance is that along the waypoints set last, and between
\* key frames in order every value is on the line between two of them
\* (Animation.cc).
ValuesFollowKeys == KeysInOrder /\ InterpolationIsLinear /\ DistanceFollowsRoute
=============================================================================
