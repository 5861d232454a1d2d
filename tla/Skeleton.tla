------------------------------ MODULE Skeleton ------------------------------
(***************************************************************************)
(* BVHLoader.cc, Skeleton.cc and SkeletonNode.cc.  BVHLoader::Load is a    *)
(* fold over the lines of a file.  A line is a record of its first word, a *)
(* name or a list of values, and whether it has all the words it needs     *)
(* (full).  A node that is read is its name, its parent (0: none) and how  *)
(* many channels it has; a key frame is a node, the number of the frame    *)
(* and the values of the node's channels, which the code turns into a      *)
(* transformation.                                                         *)
(*                                                                         *)
(* A skeleton is a tree of nodes, each with the place it has relative to   *)
(* its parent and the one it has in the model, the nodes numbered by       *)
(* handles, and animations from BVH files mapped to them.  Here a          *)
(* transformation is <<sign, shift>>, x -> sign * x + shift: they compose, *)
(* do not commute and can be inverted; <<0, 0>> is the zero matrix a node  *)
(* is made with.                                                           *)
(***************************************************************************)
EXTENDS Integers, Sequences, SequencesExt, FiniteSets

Start == [status |-> "hierarchy", nodes |-> << >>, channels |-> << >>, offsets |-> << >>,
          parent |-> 0, node |-> 0, skip |-> 0]

Ends(s, how) == [s EXCEPT !.status = how]

\* A node under the innermost open brace.
OnNode(s, line) ==
  IF ~line.full THEN Ends(s, "refused")
  ELSE [s EXCEPT !.nodes = Append(@, [name |-> line.name, parent |-> s.parent]),
                 !.offsets = Append(@, << >>), !.node = Len(s.nodes) + 1]

\* One line of the hierarchy.  "crash": a null node or parent is used.
OnLine(s, line) ==
  IF s.status # "hierarchy" THEN s
  ELSE IF s.skip > 0 THEN [s EXCEPT !.skip = @ - 1]
  ELSE CASE line.word \in {"ROOT", "JOINT"} -> OnNode(s, line)
         [] line.word = "OFFSET" ->
              IF ~line.full THEN Ends(s, "refused")
              ELSE IF s.node = 0 THEN Ends(s, "crash")
              ELSE [s EXCEPT !.offsets[s.node] = line.values]
         [] line.word = "CHANNELS" ->
              IF ~line.full THEN Ends(s, "refused")
              ELSE [s EXCEPT !.channels = Append(@, line.count)]
         [] line.word = "{" -> [s EXCEPT !.parent = s.node]
         [] line.word = "}" ->
              IF s.parent = 0 THEN Ends(s, "crash")
              ELSE [s EXCEPT !.parent = s.nodes[s.parent].parent]
         [] line.word = "End" -> [s EXCEPT !.skip = 3]
         [] OTHER -> Ends(s, IF s.nodes = << >> THEN "refused" ELSE "motion")

\* For the mutants: every node has as many channels as the first.
EvenCursor(channels, n) == IF channels = << >> THEN 0 ELSE channels[1] * (n - 1)

\* Where the channels of node n start in a line of values.
Cursor(channels, n) == FoldLeft(LAMBDA sum, c : sum + c, 0, SubSeq(channels, 1, n - 1))

\* The key frames of a line: each node takes its values in turn; a short line
\* only lets time pass.
Whole(s, line) == Len(line.values) >= Cursor(s.channels, Len(s.channels) + 1)
KeyFrames(s, frame, line) ==
  IF ~Whole(s, line) THEN {}
  ELSE { [node |-> n, frame |-> frame,
          values |-> SubSeq(line.values, Cursor(s.channels, n) + 1, Cursor(s.channels, n + 1))]
         : n \in DOMAIN s.nodes }

\* The lines after the hierarchy: the number of frames, their time, the frames.
\* The number is only compared after a whole frame.
Motion(s, lines) ==
  IF Len(lines) < 2 \/ lines[1].word # "Frames:" \/ lines[2].word # "Frame Time:"
  THEN Ends(s, "refused")
  ELSE IF Len(s.channels) < Len(s.nodes) THEN Ends(s, "crash")
  ELSE LET count == lines[1].count
           last == IF count \in 1..(Len(lines) - 2) /\ Whole(s, lines[count + 2]) THEN count
                   ELSE Len(lines) - 2
       IN [status |-> "loaded", nodes |-> s.nodes, offsets |-> s.offsets,
           frames |-> UNION { KeyFrames(s, f - 1, lines[f + 2]) : f \in 1..last }]

BVHLoad(lines) ==
  LET read(n) == FoldLeft(OnLine, Start, SubSeq(lines, 2, n))
      done == { n \in DOMAIN lines : read(n).status # "hierarchy" }
      first == CHOOSE n \in done : \A m \in done : n <= m
  IN IF lines = << >> \/ lines[1].word # "HIERARCHY" \/ done = {} THEN Ends(Start, "refused")
     ELSE IF read(first).status = "motion"
     THEN Motion(read(first), SubSeq(lines, first + 1, Len(lines)))
     ELSE read(first)
-----------------------------------------------------------------------------
(* What a file of a tree says.  A tree is the sequence of its parents, the   *)
(* nodes in preorder; each node has its own number of channels and offset,   *)
(* and a frame, unless it is cut short, all their values in order.           *)
Word(w) == [word |-> w, full |-> TRUE]
ChannelsOf(n) == IF n = 1 THEN 2 ELSE 1
Hierarchy[parents \in Seq(Nat), n \in Nat] ==
  LET inside == SelectSeq([m \in DOMAIN parents |-> m], LAMBDA m : parents[m] = n)
      below == FlattenSeq([k \in DOMAIN inside |-> Hierarchy[parents, inside[k]]])
  IN << [word |-> IF n = 1 THEN "ROOT" ELSE "JOINT", name |-> n, full |-> TRUE], Word("{"),
        [word |-> "OFFSET", values |-> <<n>>, full |-> TRUE],
        [word |-> "CHANNELS", count |-> ChannelsOf(n), full |-> TRUE] >>
     \o (IF inside = << >> THEN <<Word("End"), Word("{"), Word("OFFSET"), Word("}")>> ELSE below)
     \o <<Word("}")>>
FrameValues(parents, f) ==
  FlattenSeq([n \in DOMAIN parents |-> [c \in 1..ChannelsOf(n) |-> <<f, n, c>>]])

\* file: the parents, how many frames, and which of them is cut short (or none).
Written(file) ==
  <<Word("HIERARCHY")>> \o Hierarchy[file.parents, 1] \o <<Word("MOTION"),
    [word |-> "Frames:", count |-> file.frames], Word("Frame Time:")>>
  \o [f \in 1..file.frames |->
        [word |-> "", values |-> IF f = file.short THEN << >> ELSE FrameValues(file.parents, f)]]

\* The loader reads back the tree, offsets included, and every value of every
\* whole frame at the frame's own time.
ReadsBack(file, loaded) ==
  /\ loaded.status = "loaded"
  /\ [n \in DOMAIN loaded.nodes |-> loaded.nodes[n].parent] = file.parents
  /\ \A n \in DOMAIN file.parents : loaded.nodes[n].name = n /\ loaded.offsets[n] = <<n>>
  /\ loaded.frames =
       { [node |-> n, frame |-> f - 1, values |-> [c \in 1..ChannelsOf(n) |-> <<f, n, c>>]]
         : n \in DOMAIN file.parents, f \in (1..file.frames) \ {file.short} }
-----------------------------------------------------------------------------
CONSTANTS
  MaxNodes,     \* bound: nodes made
  Transforms,   \* the transformations the client sets
  Factors,      \* what the client scales by
  Files,        \* the contents of the BVH files: see Written
  MaxAnims      \* bound: animations added

VARIABLES
  parent,      \* node -> its parent, or 0; the nodes are 1..Len(parent)
  children,    \* node -> its children in order
  transform, initial, model,   \* node -> transformation
  root,        \* the node of the skeleton, or 0
  nodes,       \* handle -> node, handles from 0: a function that grows
  size,        \* how many nodes the tree had when the handles were given
  anims,       \* the animations: the file, what was loaded, the names mapped
  stale        \* nodes whose parent moved without them

vars == <<parent, children, transform, initial, model, root, nodes, size, anims, stale>>
tree == <<parent, children>>
skeleton == <<root, nodes, size, anims>>

null == 0
Nodes == DOMAIN parent

Compose(a, b) == IF a[1] * b[1] = 0 THEN <<0, 0>> ELSE <<a[1] * b[1], a[2] + a[1] * b[2]>>
Inverted(a) == <<a[1], -a[1] * a[2]>>

Init ==
  /\ parent = << >> /\ children = << >> /\ stale = {}
  /\ transform = << >> /\ initial = << >> /\ model = << >>
  /\ root = null /\ nodes = << >> /\ size = 0 /\ anims = << >>

\* The nodes below n, the parents first, as both loops over toVisit meet them.
Below[n \in Nat] == FlattenSeq([c \in DOMAIN children[n] |->
                                  <<children[n][c]>> \o Below[children[n][c]]])

NewNode(p) ==
  /\ Len(parent) < MaxNodes
  /\ LET n == Len(parent) + 1
         grown == Append(children, << >>)
     IN /\ parent' = Append(parent, p)
        /\ children' = IF p = null THEN grown ELSE [grown EXCEPT ![p] = Append(@, n)]
        /\ transform' = Append(transform, <<0, 0>>)
        /\ initial' = Append(initial, <<0, 0>>) /\ model' = Append(model, <<0, 0>>)
  /\ UNCHANGED <<skeleton, stale>>

\* For the mutants: a loop that does not go on below the children.
UpdatedOnce(models, transforms, n) ==
  FoldLeft(LAMBDA m, c : [m EXCEPT ![c] = Compose(m[parent[c]], transforms[c])],
           models, children[n])

\* UpdateChildrenTransforms: the models below n, given those above.
Updated(models, transforms, n) ==
  FoldLeft(LAMBDA m, c : [m EXCEPT ![c] = Compose(m[parent[c]], transforms[c])],
           models, Below[n])

\* SetTransform and SetModelTransform: update says whether the children follow.
Place(n, t, update) ==
  LET own == [model EXCEPT ![n] = IF parent[n] = null THEN t ELSE Compose(model[parent[n]], t)]
  IN /\ transform' = [transform EXCEPT ![n] = t]
     /\ model' = IF update THEN Updated(own, transform', n) ELSE own
     /\ stale' = IF update THEN stale \ ({n} \cup ToSet(Below[n]))
                 ELSE (stale \ {n}) \cup ToSet(children[n])

SetTransform(n, t, update) == Place(n, t, update) /\ UNCHANGED <<initial, tree, skeleton>>

SetModelTransform(n, t, update) ==
  /\ parent[n] # null => model[parent[n]][1] # 0
  /\ Place(n, IF parent[n] = null THEN t ELSE Compose(Inverted(model[parent[n]]), t), update)
  /\ UNCHANGED <<initial, tree, skeleton>>

SetInitialTransform(n, t) ==
  /\ initial' = [initial EXCEPT ![n] = t]
  /\ Place(n, t, TRUE) /\ UNCHANGED <<tree, skeleton>>

\* Reset of a node, and of those below it, parents first.
Reset(n, all) ==
  LET back == IF all THEN <<n>> \o Below[n] ELSE <<n>>
      transforms == [m \in Nodes |-> IF m \in ToSet(back) THEN initial[m] ELSE transform[m]]
      own == [model EXCEPT ![n] = IF parent[n] = null THEN initial[n]
                                  ELSE Compose(model[parent[n]], initial[n])]
  IN /\ transform' = transforms /\ model' = Updated(own, transforms, n)
     /\ stale' = stale \ ({n} \cup ToSet(Below[n]))
     /\ UNCHANGED <<initial, tree, skeleton>>

\* RootNode and the constructor: handles are given in the order of the tree;
\* higher handles of an earlier tree stay in the map.
BuildNodeMap(n) ==
  LET all == <<n>> \o Below[n]
  IN [h \in DOMAIN nodes \cup 0..(Len(all) - 1) |-> IF h < Len(all) THEN all[h + 1] ELSE nodes[h]]

RootNode(n) ==
  /\ root' = n /\ nodes' = BuildNodeMap(n) /\ size' = Len(Below[n]) + 1
  /\ UNCHANGED <<tree, transform, initial, model, anims, stale>>

\* Every node of the map is scaled in the order of the handles, without its
\* children, one with two handles twice; the models are computed from the root
\* at the end, and the animations' key frames are scaled.
Scale(factor) ==
  LET mapped == [h \in 1..Cardinality(DOMAIN nodes) |-> nodes[h - 1]]
      visit(at, n) ==
        LET t == <<at.transform[n][1], factor * at.transform[n][2]>>
        IN [transform |-> [at.transform EXCEPT ![n] = t],
            model |-> [at.model EXCEPT ![n] = IF parent[n] = null THEN t
                                              ELSE Compose(at.model[parent[n]], t)]]
      visited == FoldLeft(visit, [transform |-> transform, model |-> model], mapped)
  IN /\ root # null
     /\ transform' = visited.transform
     /\ model' = Updated(visited.model, transform', root)
     /\ stale' = { n \in Nodes : parent[n] # null
                     /\ model'[n] # Compose(model'[parent[n]], transform'[n]) }
     /\ anims' = [a \in DOMAIN anims |-> [anims[a] EXCEPT !.scale = factor * @]]
     /\ UNCHANGED <<initial, tree, root, nodes, size>>

Parents(loaded) == [m \in DOMAIN loaded.nodes |-> loaded.nodes[m].parent]
ChildCount(parents, n) == Cardinality({m \in DOMAIN parents : parents[m] = n})
\* For the mutants: only the numbers of nodes are compared.
SameSize(loaded) == Cardinality(DOMAIN nodes) = Len(loaded.nodes)

\* A file is compatible when node for node, by handle, the numbers of children agree.
Compatible(loaded) ==
  /\ Cardinality(DOMAIN nodes) = Len(loaded.nodes)
  /\ \A h \in DOMAIN nodes :
       Len(children[nodes[h]]) = ChildCount(Parents(loaded), h + 1)

\* The animation's nodes are paired with those of the skin by handle.  How the
\* two are then aligned at rest is left out.
AddBvhAnimation(file) ==
  LET loaded == BVHLoad(Written(file))
  IN /\ root # null /\ Len(anims) < MaxAnims
     /\ anims' = IF loaded.status = "loaded" /\ Compatible(loaded)
                 THEN Append(anims, [file |-> file, loaded |-> loaded,
                        scale |-> 1,
                        skin |-> [n \in DOMAIN loaded.nodes |-> nodes[n - 1]]])
                 ELSE anims
     /\ UNCHANGED <<tree, transform, initial, model, root, nodes, size, stale>>

Next ==
  \/ \E p \in Nodes \cup {null} : NewNode(p)
  \/ \E n \in Nodes, t \in Transforms :
       \/ \E update \in BOOLEAN : SetTransform(n, t, update) \/ SetModelTransform(n, t, update)
       \/ SetInitialTransform(n, t)
  \/ \E n \in Nodes : RootNode(n) \/ \E all \in BOOLEAN : Reset(n, all)
  \/ \E f \in Factors : Scale(f)
  \/ \E file \in Files : AddBvhAnimation(file)

Spec == Init /\ [][Next]_vars
-----------------------------------------------------------------------------
\* A node whose parent did not move without it has in the model the place its
\* transformation gives it under its parent, whatever was set, reset or scaled.
ModelsFollowTransforms ==
  \A n \in Nodes \ stale : parent[n] # null => model[n] = Compose(model[parent[n]], transform[n])

\* An animation is kept only with a pairing of its nodes and the skin's that
\* is one of trees: the node of the parent is the parent of the node.  When the
\* skin grows afterwards its old nodes keep their places.
PairingKeepsTree ==
  \A a \in DOMAIN anims :
    LET skin == anims[a].skin
    IN /\ IsInjective(skin)
       /\ \A n \in DOMAIN skin : anims[a].loaded.nodes[n].parent # 0 =>
            parent[skin[n]] = skin[anims[a].loaded.nodes[n].parent]
=============================================================================
