------------------------- MODULE SkeletonAnimation -------------------------
(***************************************************************************)
(* SkeletonAnimation and the NodeAnimations it is made of (graphics/src/   *)
(* SkeletonAnimation.cc, NodeAnimation.cc).  A transformation is its       *)
(* translation along X; times and places that are computed are fractions   *)
(* num / den.  A node animation is its key frames, a map from times to     *)
(* transformations, and its length.                                        *)
(***************************************************************************)
EXTENDS Integers, FiniteSets, FiniteSetsExt, Functions

CONSTANTS NodeNames,
          KeyTimes, \* of key frames
          Poses,    \* transformations of key frames
          Factors,  \* of Scale
          MaxValue, \* bound: transformations after scaling
          Garbage,  \* what the member length may start with
          Null

ASSUME SkeletonAnimationAssumption ==
  /\ KeyTimes \subseteq Nat /\ Poses \subseteq Int /\ Factors \subseteq Int
  /\ MaxValue \in Nat /\ Garbage \subseteq Int

VARIABLES animations,  \* the nodes the map has, with null pointers
          duration     \* the member length of the animation

animatedVars == <<animations, duration>>

Places == -MaxValue .. MaxValue

IsNode(a) == /\ DOMAIN a.frames \subseteq KeyTimes
             /\ \A t \in DOMAIN a.frames : a.frames[t] \in Places
             /\ a.length \in Nat

\* The nodes one can go through without a null pointer.
Live == {n \in DOMAIN animations : animations[n] # Null}

AnimatedTypeOK ==
  /\ DOMAIN animations \subseteq NodeNames
  /\ \A n \in Live : IsNode(animations[n]) /\ animations[n].frames # <<>>
  /\ duration \in Int

\* The constructor leaves length as it finds it.
AnimatedInit == animations = <<>> /\ duration \in Garbage

NewNode == [frames |-> <<>>, length |-> 0]

\* Faulty variant: the length is the time of the key frame added last.
EndsHere(a, t, v) ==
  [frames |-> [x \in DOMAIN a.frames \cup {t} |->
                 IF x = t THEN v ELSE a.frames[x]],
   length |-> t]

\* NodeAnimation::AddKeyFrame adds a key frame or replaces the one of the time.
WithKeyFrame(a, t, v) ==
  [frames |-> [x \in DOMAIN a.frames \cup {t} |->
                 IF x = t THEN v ELSE a.frames[x]],
   length |-> IF t > a.length THEN t ELSE a.length]

\* Faulty variant: the length is that of the node that was added last.
LengthOfLast(t) == t

Longest(t) == IF t > duration THEN t ELSE duration

\* A node with a null pointer is found, and called.
AddKeyFrame(n, t, v) ==
  LET a == IF n \in DOMAIN animations THEN animations[n] ELSE NewNode
  IN  /\ a # Null
      /\ animations' = [x \in DOMAIN animations \cup {n} |->
                          IF x = n THEN WithKeyFrame(a, t, v) ELSE animations[x]]
      /\ duration' = Longest(t)

\* NodePoseAt looks an unknown name up with operator[], which makes it a
\* node with a null pointer; nothing else changes.
NodePoseAtUnknown(n) ==
  /\ n \notin DOMAIN animations
  /\ animations' = [x \in DOMAIN animations \cup {n} |->
                      IF x = n THEN Null ELSE animations[x]]
  /\ UNCHANGED duration

Scaled(a, s) == [a EXCEPT !.frames = [t \in DOMAIN @ |-> s * @[t]]]

Scale(s) ==
  /\ Live = DOMAIN animations
  /\ animations' = [n \in Live |-> Scaled(animations[n], s)]
  /\ \A n \in Live : Range(animations'[n].frames) \subseteq Places
  /\ UNCHANGED duration

AnimatedNext ==
  \/ \E n \in NodeNames, t \in KeyTimes, v \in Poses : AddKeyFrame(n, t, v)
  \/ \E n \in NodeNames : NodePoseAtUnknown(n)
  \/ \E s \in Factors : Scale(s)

AnimatedSpec == AnimatedInit /\ [][AnimatedNext]_animatedVars
-----------------------------------------------------------------------------
(* What the queries answer.  A time or a place is [num, den], den > 0.     *)

Whole(x) == [num |-> x, den |-> 1]
Same(f, g) == f.num * g.den = g.num * f.den

\* Faulty variant: the time is taken modulo the length.
Remaindered(num, end) == num % end

\* Subtracting the length until the time is not past it.
Wrapped(num, end) == IF num > end THEN ((num - 1) % end) + 1 ELSE num

\* FrameAt with loop and a length of 0 goes on subtracting 0.
Returns(a, time, loop) == loop /\ time.num > 0 => a.length > 0

\* upper_bound and what follows it
Later(a, num, den) == {k \in DOMAIN a.frames : k * den > num}

FrameAt(a, time, loop) ==
  LET end   == a.length * time.den
      num   == IF time.num <= end THEN time.num
               ELSE IF loop THEN Wrapped(time.num, end) ELSE end
      later == Later(a, num, time.den)
      sooner == DOMAIN a.frames \ later
      k1    == Max(sooner)
      k2    == Min(later)
      v1    == a.frames[k1]
      v2    == a.frames[k2]
  IN  IF num = end THEN Whole(a.frames[Max(DOMAIN a.frames)])
      ELSE IF sooner = {} THEN Whole(v2)
      ELSE [num |-> v1 * (k2 - k1) * time.den + (v2 - v1) * (num - k1 * time.den),
            den |-> (k2 - k1) * time.den]

\* the first key frame that is not short of x; there is one in range
FirstAt(a, x) == Min({k \in DOMAIN a.frames : a.frames[k] >= x})

\* Faulty variant: the time since the key frame, and not since the beginning.
TimeSince(a, x) ==
  LET k2 == FirstAt(a, x)
      k1 == Max({k \in DOMAIN a.frames : k < k2})
      x1 == a.frames[k1]
      x2 == a.frames[k2]
  IN  IF k2 = Min(DOMAIN a.frames) \/ x2 = x THEN Whole(k2)
      ELSE [num |-> (k2 - k1) * (x - x1), den |-> x2 - x1]

TimeAtX(a, x) ==
  LET k2 == FirstAt(a, x)
      k1 == Max({k \in DOMAIN a.frames : k < k2})
      x1 == a.frames[k1]
      x2 == a.frames[k2]
  IN  IF k2 = Min(DOMAIN a.frames) \/ x2 = x THEN Whole(k2)
      ELSE [num |-> k1 * (x2 - x1) + (k2 - k1) * (x - x1), den |-> x2 - x1]

\* The place PoseAtX asks for: not before the first key frame, and past the
\* last one that one, or with loop what remains after taking it off.  When
\* the last one is not at a positive place it goes on taking it off.
PlaceAtX(a, x, loop) ==
  LET first == a.frames[Min(DOMAIN a.frames)]
      last  == a.frames[Max(DOMAIN a.frames)]
      from  == IF x < first THEN first ELSE x
  IN  IF from <= last THEN from
      ELSE IF loop THEN ((from - 1) % last) + 1 ELSE last

\* PoseAt asks every node for its frame at the one time.
PoseAtX(x, node, loop) ==
  LET a    == animations[node]
      time == TimeAtX(a, PlaceAtX(a, x, loop))
  IN  [n \in Live |-> FrameAt(animations[n], time, loop)]
-----------------------------------------------------------------------------
Halves(a) == {[num |-> i, den |-> 2] : i \in 0 .. 2 * a.length + 3}

\* f is on the line from (k1, v1) to (k2, v2) at the time
OnSegment(f, time, k1, v1, k2, v2) ==
  f.num * (k2 - k1) * time.den =
  f.den * (v1 * (k2 - k1) * time.den + (v2 - v1) * (time.num - k1 * time.den))

\* "if a node does not exist at that time ... the transformation is
\* interpolated" (NodeAnimation.hh:90): within its length a node is where
\* its key frames say, on the line between the two around the time, and
\* before the first where that one is; after its length, at its end.
FramesAreLinear ==
  \A n \in Live : \A time \in Halves(animations[n]), loop \in BOOLEAN :
    LET a == animations[n]
        f == FrameAt(a, time, loop)
        keys == DOMAIN a.frames
        first == Min(keys)
    IN  Returns(a, time, loop) =>
        IF time.num > a.length * time.den
        THEN ~loop => Same(f, Whole(a.frames[Max(keys)]))
        ELSE \/ time.num < first * time.den /\ Same(f, Whole(a.frames[first]))
             \/ \E k \in keys : /\ time.num = k * time.den
                                /\ Same(f, Whole(a.frames[k]))
             \/ \E k1, k2 \in keys :
                  /\ k1 * time.den < time.num /\ time.num < k2 * time.den
                  /\ \A k \in keys : k <= k1 \/ k >= k2
                  /\ OnSegment(f, time, k1, a.frames[k1], k2, a.frames[k2])

\* A looped node is after its length where it was one length before, the end
\* of a round being its last key frame and not its first.
FramesRepeat ==
  \A n \in Live : \A time \in Halves(animations[n]) :
    LET a == animations[n]
        later == [time EXCEPT !.num = @ + a.length * time.den]
    IN  a.length > 0 /\ time.num > 0 =>
          Same(FrameAt(a, later, TRUE), FrameAt(a, time, TRUE))

\* PoseAtX: "a named node transformation's translational value along the X
\* axis is equal to _x" (SkeletonAnimation.hh:102): when the node advances
\* from key frame to key frame, its own pose in the answer is at the place.
PoseAtXIsAtX ==
  \A n \in Live : \A x \in Places :
    LET a == animations[n]
        keys == DOMAIN a.frames
    IN  /\ \A k1, k2 \in keys : k1 < k2 => a.frames[k1] < a.frames[k2]
        /\ x \in a.frames[Min(keys)] .. a.frames[Max(keys)]
        /\ \A m \in Live : Returns(animations[m], TimeAtX(a, x), TRUE)
        => Same(PoseAtX(x, n, TRUE)[n], Whole(x))

\* No node goes on after the animation's length, whatever was in the member.
LengthCovers == \A n \in Live : animations[n].length <= duration

\* The frames of a node are on the lines between its key frames and come again
\* when it is looped, the pose at a place is at that place, and no node goes on
\* after the end (NodeAnimation, SkeletonAnimation).
PosesFollowKeys == FramesAreLinear /\ FramesRepeat /\ PoseAtXIsAtX /\ LengthCovers

\* "Returns the duration of the animations" (SkeletonAnimation.hh:117): the
\* length is that of the longest node.
LengthIsLongest ==
  Live # {} => \E n \in Live : animations[n].length = duration

\* HasNode: "true if the node exits" (SkeletonAnimation.hh:66): a node that
\* is found has key frames, and PoseAt, which calls every node, can.
NodesExist == Live = DOMAIN animations
=============================================================================
