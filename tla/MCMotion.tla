------------------------------ MODULE MCMotion ------------------------------
(* Trajectories, skeletons and their animations, and recordings of pictures: *)
(* each behaviour is about one of them, which it chooses at the beginning.   *)
EXTENDS Trajectory, SkeletonAnimation, VideoEncoder, TLC

CONSTANTS MaxNodes, Transforms, TreeFactors, BvhFiles, MaxAnims           \* Skeleton

VARIABLES
  subject,                                                            \* what the behaviour is about
  parent, children, transform, initial, model, root, nodes, size, anims, stale  \* Skeleton

Tree == INSTANCE Skeleton WITH Factors <- TreeFactors, Files <- BvhFiles

treeVars == <<parent, children, transform, initial, model, root, nodes, size, anims, stale>>

MCInit == /\ subject \in {"trajectory", "animation", "skeleton", "encoder"}
          /\ Init /\ AnimatedInit /\ Tree!Init /\ EncoderInit
          /\ subject # "trajectory" => ~loop /\ length = 2
          /\ subject # "animation" => duration = 0

MCNext ==
  /\ UNCHANGED subject
  /\ \/ subject = "trajectory" /\ Next /\ UNCHANGED <<animatedVars, treeVars, encoderVars>>
     \/ subject = "animation" /\ AnimatedNext /\ UNCHANGED <<vars, treeVars, encoderVars>>
     \/ subject = "skeleton" /\ Tree!Next /\ UNCHANGED <<vars, animatedVars, encoderVars>>
     \/ subject = "encoder" /\ EncoderNext /\ UNCHANGED <<vars, animatedVars, treeVars>>

MCSpec == MCInit /\ [][MCNext]_<<subject, vars, animatedVars, treeVars, encoderVars>>
-----------------------------------------------------------------------------
MCPositions  == {-3, 2, 7}
MCGarbage    == {-1, 0, 4}
MCTransforms == { <<-1, 1>> }
MCFactors    == {-1}
MCStamps     == {2, 3, 4}   \* in halves of a frame's period
MCBvhFiles == { [parents |-> p, frames |-> 2, short |-> s] : s \in {0, 1},
             p \in { <<0>>, <<0, 1>>, <<0, 1, 2>>, <<0, 1, 1>> } }

\* No size of a picture is compared with another.
SizesAlike == Permutations(Sizes)

\* Bounds: a tree is complete, and one tree, before it is changed; two of its
\* nodes are given transformations, one of them an initial one.
Zero == <<0, 0>>
Given(transforms) == Cardinality({n \in Tree!Nodes : transforms[n] # Zero})
Bounded ==
  /\ Cardinality({n \in Tree!Nodes : parent[n] = Tree!null}) <= 1
  /\ Len(parent) < MaxNodes => root = Tree!null /\ Given(transform) = 0
  /\ Given(transform) <= 2 /\ Given(initial) <= 1
  /\ \A n \in Tree!Nodes : transform[n][2] \in -1..1
-----------------------------------------------------------------------------
\* A node is in the model where its transformation puts it under its parent; a
\* .bvh animation is what its file says, and it is kept for a skeleton only
\* with a pairing of nodes under which parents are parents
\* (SkeletonNode::SetTransform, Skeleton::Scale, BVHLoader::Load,
\* Skeleton::AddBvhAnimation).
SkeletonsStayWhole ==
  /\ Tree!ModelsFollowTransforms /\ Tree!PairingKeepsTree
  /\ \A a \in DOMAIN anims : Tree!ReadsBack(anims[a].file, anims[a].loaded)
=============================================================================
