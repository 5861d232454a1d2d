--------------------------- MODULE ColladaLoader ----------------------------
(***************************************************************************)
(* ColladaLoader.cc: how the geometry and the materials of a document      *)
(* become submeshes, the nodes of the scene, the controllers that hang     *)
(* geometry on a skeleton, and the animations.  An element is its tag, its *)
(* attributes, the values of its text and its children.  A transformation  *)
(* is <<factor, shift>>, x -> factor * x + shift; a position is one number, *)
(* a normal a sign, a texture coordinate a pair.  L is the loader: its     *)
(* caches, which outlive one primitive, and in "here" what is local to one. *)
(* A skeleton is the sequence of its nodes, parents first, each with its   *)
(* depth: the order of their handles.  A node's raw transformations are    *)
(* numbers by component, the first of a row 0, its shift and an angle (in  *)
(* half turns) 3.                                                          *)
(***************************************************************************)
EXTENDS Integers, Sequences, FiniteSets, SequencesExt, FiniteSetsExt, Functions, TLC

None == << >>
Identity == <<1, 0>>
Compose(a, b) == <<a[1] * b[1], a[2] + a[1] * b[2]>>
Moved(t, x) == t[1] * x + t[2]
Sign(x) == IF x > 0 THEN 1 ELSE IF x < 0 THEN -1 ELSE 0
Junk == -99    \* what is read beyond the end of a vector
At(s, i) == IF i + 1 \in DOMAIN s THEN s[i + 1] ELSE Junk

\* The only member of a set: what a bound name stands for is evaluated once.
The(S) == CHOOSE x \in S : TRUE

E(tag, at, text, kids) == [tag |-> tag, at |-> at, text |-> text, kids |-> kids]
Kids(e, tag) == SelectSeq(e.kids, LAMBDA k : k.tag = tag)
Has(e, tag) == Kids(e, tag) # << >>
Child(e, tag) == Kids(e, tag)[1]
Attribute(e, a) == IF a \in DOMAIN e.at THEN e.at[a] ELSE ""

\* The first element of e, in the order of the document, with this id or sid;
\* the tag only counts when no id is given.
RECURSIVE ElementId(_, _, _)
ElementId(e, tag, id) ==
  IF \/ id = "" /\ e.tag = tag
     \/ id # "" /\ id \in {Attribute(e, "id"), Attribute(e, "sid")} THEN e
  ELSE FoldLeft(LAMBDA found, k : IF found # None THEN found ELSE ElementId(k, tag, id), None, e.kids)
-----------------------------------------------------------------------------
Gathered == [values |-> << >>, dups |-> << >>]
Fresh == [positions |-> << >>, normals |-> << >>, texcoords |-> << >>, materials |-> << >>,
          scene |-> None, skeleton |-> None, subs |-> << >>, mats |-> << >>, here |-> None]

\* new read after values: an index is mapped to the first one read with it
\* that has the same value.
Gather(g, new) ==
  LET n == Len(g.values)
      First(i) == CHOOSE j \in 1..i : new[j] = new[i] /\ \A k \in 1..(j - 1) : new[k] # new[i]
      later == {i \in DOMAIN new : First(i) < i}
  IN [values |-> g.values \o new,
      dups |-> [i \in {n + j - 1 : j \in later} |-> n + First(i - n + 1) - 1] @@ g.dups]

Array(L, id) == LET source == ElementId(L.doc, "source", id)
                IN IF source = None \/ ~Has(source, "float_array") THEN << >>
                   ELSE Child(source, "float_array").text

\* A source read before is taken from the cache, with the transformation of
\* then; nothing is kept of one without values.
LoadPositions(L, id, t) ==
  IF id \in DOMAIN L.positions THEN [L EXCEPT !.here.verts = L.positions[id]]
  ELSE IF Array(L, id) = << >> THEN L
  ELSE LET g == Gather(L.here.verts, [i \in DOMAIN Array(L, id) |-> Moved(t, Array(L, id)[i])])
       IN [L EXCEPT !.here.verts = g, !.positions = (id :> g) @@ @]

LoadNormals(L, id, t) ==
  IF id \in DOMAIN L.normals THEN [L EXCEPT !.here.norms = L.normals[id]]
  ELSE IF Array(L, id) = << >> THEN L
  ELSE LET g == Gather(L.here.norms, [i \in DOMAIN Array(L, id) |-> Sign(t[1] * Array(L, id)[i])])
       IN [L EXCEPT !.here.norms = g, !.normals = (id :> g) @@ @]

\* The array, its count and its accessor must agree; only two of the values
\* of a coordinate are read, the second turned over.
LoadTexCoords(L, id) ==
  LET source == ElementId(L.doc, "source", id)
      array == Array(L, id)
      accessor == IF source # None /\ Has(source, "technique_common")
                     /\ Has(Child(source, "technique_common"), "accessor")
                  THEN Child(Child(source, "technique_common"), "accessor") ELSE None
  IN IF id \in DOMAIN L.texcoords THEN [L EXCEPT !.here.tex = L.texcoords[id]]
     ELSE IF \/ array = << >> \/ accessor = None
             \/ {"count", "stride"} \ DOMAIN accessor.at # {}
             \/ "count" \notin DOMAIN Child(source, "float_array").at
             \/ accessor.at.count * accessor.at.stride # Child(source, "float_array").at.count
          THEN L
     ELSE LET read(i) == (i - 1) * accessor.at.stride
              g == Gather(L.here.tex, [i \in 1..accessor.at.count |->
                                         <<At(array, read(i)), 1 - At(array, read(i) + 1)>>])
          IN [L EXCEPT !.here.tex = g, !.texcoords = (id :> g) @@ @]

LoadVertices(L, id, t) ==
  LET vertices == ElementId(L.doc, "vertices", id)
      Input(l, input) == CASE input.at.semantic = "NORMAL" -> LoadNormals(l, input.at.source, t)
                           [] input.at.semantic = "POSITION" -> LoadPositions(l, input.at.source, t)
                           [] OTHER -> l
  IN IF vertices = None THEN L ELSE FoldLeft(Input, L, Kids(vertices, "input"))
-----------------------------------------------------------------------------
\* A material: colours and factors are numbers, a texture the name of a file.
NewMaterial == [ambient |-> 4, emission |-> 0, diffuse |-> 5, specular |-> 0,
                texture |-> "", shininess |-> 0, transparency |-> 0, factors |-> <<1, 1>>]

\* The image behind the name of a texture: an element with that id, a sampler's
\* surface's image, or nothing.
Image(L, name, param, sampled) ==
  IF param = None THEN ElementId(L.doc, "image", name)
  ELSE IF param.tag = "image" THEN param
  ELSE IF sampled # None /\ Has(sampled, "surface") /\ Has(Child(sampled, "surface"), "init_from")
  THEN ElementId(L.doc, "image", Child(Child(sampled, "surface"), "init_from").text)
  ELSE None

TextureImage(L, name) ==
  LET Sampled(param) ==
        IF param # None /\ Has(param, "sampler2D")
        THEN ElementId(L.doc, "newparam", Child(Child(param, "sampler2D"), "source").text)
        ELSE None
      File(image) == IF image # None /\ Has(image, "init_from") THEN Child(image, "init_from").text ELSE ""
  IN The({File(image) : image \in
           {Image(L, name, param, Sampled(param)) : param \in {ElementId(L.doc, "newparam", name)}}})

\* Only the diffuse colour may be a texture; the colour is then white.
LoadColorOrTexture(L, shader, type, mat) ==
  IF ~Has(shader, type) THEN mat
  ELSE LET e == Child(shader, type)
       IN IF Has(e, "color") THEN [mat EXCEPT ![type] = Child(e, "color").text]
          ELSE IF Has(e, "texture") /\ type = "diffuse"
          THEN [mat EXCEPT !.diffuse = 1,
                  !.texture = LET file == TextureImage(L, Child(e, "texture").at.texture)
                              IN IF file = "" THEN @ ELSE file]
          ELSE mat

LoadFloat(e) == IF Has(e, "float") THEN Child(e, "float").text ELSE 0

\* By the opaque mode the transparency is that of the colour or the rest to 1,
\* the colour being the luminance or the alpha, here one number.
LoadTransparent(e, mat) ==
  LET color == Child(e, "color").text * mat.transparency
      through == IF e.at.opaque \in {"RGB_ZERO", "A_ZERO"} THEN color ELSE 1 - color
  IN IF "opaque" \notin DOMAIN e.at \/ Has(e, "texture") THEN [mat EXCEPT !.transparency = 0]
     ELSE IF ~Has(e, "color") THEN mat
     ELSE [mat EXCEPT !.transparency = through, !.factors = <<1 - through, through>>]

\* lambert has neither a specular colour nor shininess.
Shaded(L, shader, mat) ==
  LET types == IF shader.tag = "lambert" THEN <<"ambient", "emission", "diffuse">>
               ELSE <<"ambient", "emission", "specular", "diffuse">>
      Coloured(m, type) == LoadColorOrTexture(L, shader, type, m)
      Shiny(m) == IF shader.tag # "lambert" /\ Has(shader, "shininess")
                  THEN [m EXCEPT !.shininess = LoadFloat(Child(shader, "shininess"))] ELSE m
      Clear(m) == IF Has(shader, "transparency")
                  THEN [m EXCEPT !.transparency = LoadFloat(Child(shader, "transparency"))] ELSE m
      Through(m) == IF Has(shader, "transparent") THEN LoadTransparent(Child(shader, "transparent"), m)
                    ELSE [m EXCEPT !.transparency = 0]
  IN The({Through(m) : m \in {Clear(n) : n \in {Shiny(o) : o \in {FoldLeft(Coloured, mat, types)}}}})

\* The material an effect describes; None without one.
MaterialOf(L, name) ==
  LET Made(technique) ==
        LET shaders == SelectSeq(<<"lambert", "phong", "blinn">>, LAMBDA s : Has(technique, s))
        IN IF shaders = << >> THEN NewMaterial
           ELSE The({Shaded(L, shader, NewMaterial) : shader \in {Child(technique, shaders[1])}})
      OfEffect(effect) ==
        IF ~Has(effect, "profile_COMMON") THEN NewMaterial
        ELSE The({Made(technique) : technique \in {Child(Child(effect, "profile_COMMON"), "technique")}})
      OfMaterial(mat) ==
        IF mat = None \/ ~Has(mat, "instance_effect") THEN None
        ELSE The({OfEffect(effect) : effect \in
                    {ElementId(L.doc, "effect", Child(mat, "instance_effect").at.url)}})
  IN The({OfMaterial(mat) : mat \in {ElementId(L.doc, "material", name)}})

\* The material is made once; the mesh lists it when a primitive first uses it.
LoadMaterial(L, name) ==
  LET With(mat) == IF mat = None THEN L
                   ELSE [L EXCEPT !.materials = (name :> Len(L.mats)) @@ @,
                                  !.mats = Append(@, mat), !.here.sub.material = Len(L.mats)]
  IN IF name \in DOMAIN L.materials THEN [L EXCEPT !.here.sub.material = L.materials[name]]
     ELSE The({With(mat) : mat \in {MaterialOf(L, name)}})
-----------------------------------------------------------------------------
Semantics == {"VERTEX", "NORMAL", "TEXCOORD"}
SubMesh(name, type) == [name |-> name, type |-> type, verts |-> << >>, norms |-> << >>,
                        tex |-> << >>, indices |-> << >>, material |-> -1, weights |-> {}]

\* The locals of a primitive.
Local(L, type) ==
  [L EXCEPT !.here = [sub |-> SubMesh(L.name, type), verts |-> Gathered, norms |-> Gathered,
     tex |-> Gathered, combined |-> FALSE, seen |-> << >>,
     offsets |-> [s \in Semantics |-> {}], others |-> 0]]

\* A primitive of faces begins: its material, under the name it is bound to.
Begin(L, e) ==
  LET l == Local(L, "triangles")
      symbol == Attribute(e, "material")
  IN IF symbol = "" THEN l
     ELSE LoadMaterial(l, IF symbol \in DOMAIN L.materialMap THEN L.materialMap[symbol] ELSE symbol)

\* The inputs, in order.  Normals of the vertices count while no input brings
\* normals of its own.
LoadInputs(L, e, t) ==
  LET At1(l, input) == [l EXCEPT !.here.offsets[input.at.semantic] = @ \cup {input.at.offset}]
      Input(l, input) ==
        CASE input.at.semantic = "VERTEX" ->
               The({At1([after EXCEPT !.here.combined =
                           @ \/ Len(after.here.norms.values) > Len(l.here.norms.values)], input) :
                      after \in {LoadVertices(l, input.at.source, t)}})
          [] input.at.semantic = "NORMAL" ->
               At1([LoadNormals(l, input.at.source, t) EXCEPT !.here.combined = FALSE], input)
          [] input.at.semantic = "TEXCOORD" -> At1(LoadTexCoords(l, input.at.source), input)
          [] OTHER -> [l EXCEPT !.here.others = @ + 1]
  IN FoldLeft(Input, L, Kids(e, "input"))

\* How many indices belong to a corner.
InputSize(here) ==
  MapThenSumSet(LAMBDA s : Cardinality(here.offsets[s]), Semantics) + here.others

\* The nodes of a skeleton are in the order of the tree, which is that of their
\* handles; NodeByName is the first with the name.
NodeByName(nodes, name) == CHOOSE n \in DOMAIN nodes :
  nodes[n].name = name /\ \A m \in 1..(n - 1) : nodes[m].name # name

\* What a vertex of the source hangs on: pairs of a handle and a weight.
Weights(L, v) ==
  IF L.skeleton # None /\ v + 1 \in DOMAIN L.skeleton.weights
  THEN {<<NodeByName(L.skeleton.nodes, w[1]) - 1, w[2]>> : w \in L.skeleton.weights[v + 1]}
  ELSE {}

\* For the mutants: the texture is not compared.
CornerByNormal(L, v, n, x) == v \in DOMAIN L.here.seen /\ L.here.seen[v].normal = n
\* A corner may be shared when the last vertex added at its position has its
\* normal and its texture coordinate.
Shared(L, v, n, x) == v \in DOMAIN L.here.seen /\ L.here.seen[v].normal = n
                                               /\ L.here.seen[v].tex = x

\* One corner: the index of a vertex that can be shared, or a new vertex, with
\* the weights of the nodes it hangs on.  place is applied to the position.
AddCorner(L, place, values) ==
  LET here == L.here
      Index(s) == At(values, Min(here.offsets[s]))
      Mapped(g, i) == IF i \in DOMAIN g.dups THEN g.dups[i] ELSE i
      Given(s) == here.offsets[s] # {}
      v == IF Given("VERTEX") THEN Mapped(here.verts, Index("VERTEX")) ELSE 0
      n == IF Given("NORMAL") THEN Mapped(here.norms, Index("NORMAL")) ELSE -1
      x == IF Given("TEXCOORD") THEN Mapped(here.tex, Index("TEXCOORD")) ELSE -1
      count == Len(here.sub.verts)
      position == IF Given("VERTEX") THEN <<Moved(place, At(here.verts.values, v))>> ELSE << >>
      normal == (IF Given("VERTEX") /\ here.combined THEN <<At(here.norms.values, v)>> ELSE << >>)
                \o (IF Given("NORMAL") THEN <<At(here.norms.values, n)>> ELSE << >>)
      tex == IF Given("TEXCOORD") THEN <<At(here.tex.values, x)>> ELSE << >>
  IN IF Given("VERTEX") /\ Shared(L, v, n, x)
     THEN [L EXCEPT !.here.sub.indices = Append(@, here.seen[v].mapped)]
     ELSE [L EXCEPT
       !.here.sub = [@ EXCEPT !.verts = @ \o position, !.norms = @ \o normal, !.tex = @ \o tex,
          !.indices = IF Given("VERTEX") THEN Append(@, count) ELSE @,
          !.weights = @ \cup {<<count, w[1], w[2]>> : w \in Weights(L, v)}],
       !.here.seen = IF Given("VERTEX")
                     THEN (v :> [normal |-> n, tex |-> x, mapped |-> count]) @@ @ ELSE @]

Finish(L) == [L EXCEPT !.subs = Append(@, L.here.sub), !.here = None]

\* Triangles, their inputs loaded: corner after corner.  Nothing is added
\* without indices.
LoadTriangles(L, e) ==
  LET p == IF Has(e, "p") THEN Child(e, "p").text ELSE << >>
      Corners(size) == FoldLeft(LAMBDA l, k : AddCorner(l, Identity, SubSeq(p, k * size + 1, (k + 1) * size)),
                                L, [k \in 1..(Len(p) \div size) |-> k - 1])
  IN IF p = << >> THEN [L EXCEPT !.here = None] ELSE Finish(Corners(InputSize(L.here)))

\* A polygon is a fan of triangles round its first corner.
Fan(vcount) ==
  LET Start(i) == FoldLeft(LAMBDA a, b : a + b, 0, SubSeq(vcount, 1, i - 1))
  IN FlattenSeq([i \in DOMAIN vcount |->
       FlattenSeq([k \in 1..(vcount[i] - 2) |-> <<Start(i), Start(i) + k, Start(i) + k + 1>>])])

\* A mesh with a skeleton has its positions moved by the bind shape.
LoadPolylist(L, e) ==
  LET p == Child(e, "p").text
      place == IF L.skeleton = None THEN Identity ELSE L.skeleton.bind
      Corners(size) == FoldLeft(LAMBDA l, k : AddCorner(l, place, SubSeq(p, k * size + 1, (k + 1) * size)),
                                L, Fan(Child(e, "vcount").text))
  IN Finish(Corners(InputSize(L.here)))

\* Lines: pairs of indices into the first input, whatever the others are.
LoadLines(L, e, t) ==
  LET p == Child(e, "p").text
      used == SubSeq(p, 1, 2 * (Len(p) \div 2))
  IN The({Finish([l EXCEPT !.here.sub.verts = [i \in DOMAIN used |-> At(l.here.verts.values, used[i])],
                           !.here.sub.indices = [i \in DOMAIN used |-> i - 1]]) :
            l \in {LoadVertices(Local(L, "lines"), Child(e, "input").at.source, t)}})

\* The primitives of a geometry: all its triangles, then its polygons, its lines.
LoadPrimitive(L, e, t) ==
  IF e.tag = "lines" THEN LoadLines(L, e, t)
  ELSE The({IF e.tag = "triangles" THEN LoadTriangles(l, e) ELSE LoadPolylist(l, e) :
              l \in {LoadInputs(Begin(L, e), e, t)}})
LoadGeometry(L, e, t) ==
  IF ~Has(e, "mesh") THEN L
  ELSE LET mesh == Child(e, "mesh")
       IN FoldLeft(LAMBDA l, k : LoadPrimitive(l, k, t), L,
                   Kids(mesh, "triangles") \o Kids(mesh, "polylist") \o Kids(mesh, "lines"))
-----------------------------------------------------------------------------
(* Nodes, skeletons, controllers and animations.                           *)
Turned(angle) == <<IF angle = 1 THEN -1 ELSE 1, 0>>
Product(ts) == FoldLeft(Compose, Identity, ts)

LoadNodeTransform(e) ==
  IF Has(e, "matrix") THEN Child(e, "matrix").text
  ELSE Product((IF Has(e, "translate") THEN << <<1, Child(e, "translate").text>> >> ELSE << >>)
         \o [r \in DOMAIN Kids(e, "rotate") |-> Turned(Kids(e, "rotate")[r].text)]
         \o (IF Has(e, "scale") THEN << <<Child(e, "scale").text, 0>> >> ELSE << >>))
-----------------------------------------------------------------------------
Raw(kind, sid, source) == [kind |-> kind, sid |-> sid, source |-> source]

\* NodeTransform::RecalculateMatrix.
RecalculateMatrix(raw) ==
  CASE raw.kind = "matrix"    -> <<raw.source[0], raw.source[3]>>
    [] raw.kind = "translate" -> <<1, raw.source[0]>>
    [] raw.kind = "rotate"    -> Turned(raw.source[3])
    [] raw.kind = "scale"     -> <<raw.source[0], 0>>

\* The names of shifts and scales are only read next to a matrix, that is never.
SetSkeletonNodeTransform(e) ==
  IF Has(e, "matrix")
  THEN LET m == Child(e, "matrix")
       IN <<Raw("matrix", Attribute(m, "sid"), (0 :> m.text[1]) @@ (3 :> m.text[2]))>>
  ELSE (IF Has(e, "translate") THEN <<Raw("translate", "", 0 :> Child(e, "translate").text)>>
                               ELSE << >>)
    \o [r \in DOMAIN Kids(e, "rotate") |->
          Raw("rotate", Attribute(Kids(e, "rotate")[r], "sid"), 3 :> Kids(e, "rotate")[r].text)]
    \o (IF Has(e, "scale") THEN <<Raw("scale", "", 0 :> Child(e, "scale").text)>> ELSE << >>)

LoadSingleSkeletonNode(e, depth) ==
  [id |-> Attribute(e, "id"), depth |-> depth, inverse |-> None,
   name |-> SelectSeq(<<Attribute(e, "sid"), Attribute(e, "name"), Attribute(e, "id")>>,
                      LAMBDA n : n # "")[1],
   raw |-> SetSkeletonNodeTransform(e)]

RECURSIVE LoadSkeletonNodes(_, _)
LoadSkeletonNodes(e, depth) ==
  <<LoadSingleSkeletonNode(e, depth)>>
    \o FlattenSeq([k \in DOMAIN Kids(e, "node") |-> LoadSkeletonNodes(Kids(e, "node")[k], depth + 1)])

Deeper(nodes) == [n \in DOMAIN nodes |-> [nodes[n] EXCEPT !.depth = @ + 1]]
Ids(nodes) == {nodes[n].id : n \in DOMAIN nodes}
ChildIds(nodes) == {nodes[n].id : n \in {m \in DOMAIN nodes : nodes[m].depth = 1}}
DummyRoot == [id |-> "dummy-root", depth |-> 0, inverse |-> None, name |-> "dummy-root", raw |-> << >>]

\* For the mutants: a tree is known only by its root.
MergeRoots(nodes, merge) ==
  IF nodes[1].id = merge[1].id THEN nodes
  ELSE <<DummyRoot>> \o Deeper(nodes) \o Deeper(merge)

\* A tree that is part of the skeleton changes nothing; one whose children are
\* the skeleton's root, or all the children of its dummy root, replaces it;
\* any other is put beside it.
MergeSkeleton(nodes, merge) ==
  IF merge[1].id \in Ids(nodes) THEN nodes
  ELSE IF nodes[1].id \in ChildIds(merge) THEN merge
  ELSE IF nodes[1].id # "dummy-root" THEN <<DummyRoot>> \o Deeper(nodes) \o Deeper(merge)
  ELSE IF ChildIds(nodes) \subseteq ChildIds(merge) THEN merge
  ELSE nodes \o Deeper(merge)
-----------------------------------------------------------------------------
Input(e, semantic) == SelectSeq(Kids(e, "input"), LAMBDA i : i.at.semantic = semantic)
Source(L, id) == ElementId(L.doc, "source", id)
NodeById(nodes, id) == CHOOSE n \in DOMAIN nodes :
  nodes[n].id = id /\ \A m \in 1..(n - 1) : nodes[m].id # id

\* A channel writes one component of a key frame, or as many as the stride says.
Written(raw, part, values, i, stride) ==
  LET whole == SetToSortSeq(DOMAIN raw.source, <)
      index == CASE Len(part) = 1 -> part[1] [] Len(part) = 2 -> 4 * part[1] + part[2] [] OTHER -> -1
  IN [raw EXCEPT !.source = [c \in DOMAIN @ |->
        IF part # << >> THEN (IF c = index THEN At(values, i) ELSE @[c])
        ELSE LET k == (CHOOSE k \in DOMAIN whole : whole[k] = c) - 1
             IN IF k < stride THEN At(values, i * stride + k) ELSE @[c]]]

\* One channel: the key frames of its node at its times, made from the node's
\* own transformations.  A node that is not in the skeleton is loaded and merged
\* into it; one that is nowhere ends the whole set.
Keyed(a, node, nodes, channel, times, values, stride) ==
  LET Before1(i) == IF node.name \in DOMAIN a.frames /\ times[i] \in DOMAIN a.frames[node.name]
                    THEN a.frames[node.name][times[i]] ELSE node.raw
      After(raw, i) == IF raw.sid = channel.at.sid
                       THEN Written(raw, channel.at.part, values, i - 1, stride) ELSE raw
      Frame(i) == [r \in DOMAIN Before1(i) |-> After(Before1(i)[r], i)]
      written == [t \in ToSet(times) |-> Frame(CHOOSE i \in DOMAIN times : times[i] = t)]
  IN [a EXCEPT !.nodes = nodes,
        !.frames = (node.name :> (IF node.name \in DOMAIN @ THEN written @@ @[node.name]
                                  ELSE written)) @@ @]

LoadChannel(L, a, channel) ==
  LET bone == channel.at.bone
      Floats(source) == Child(source, "float_array").text
      Stride(accessor) == IF "stride" \in DOMAIN accessor.at THEN accessor.at.stride ELSE 1
      Times(sampler) == Floats(Source(L, Input(sampler, "INPUT")[1].at.source))
      Set(nodes, sampler, output) ==
        Keyed(a, nodes[NodeById(nodes, bone)], nodes, channel, Times(sampler), Floats(output),
              Stride(Child(Child(output, "technique_common"), "accessor")))
      Target(nodes) ==
        The({Set(nodes, sampler, Source(L, Input(sampler, "OUTPUT")[1].at.source)) :
               sampler \in {ElementId(L.doc, "sampler", channel.at.source)}})
      Add(target) ==
        IF target = None THEN [a EXCEPT !.ok = FALSE]
        ELSE The({Target(nodes) : nodes \in {MergeSkeleton(a.nodes, LoadSkeletonNodes(target, 0))}})
  IN IF ~a.ok THEN a
     ELSE IF bone \in Ids(a.nodes) THEN Target(a.nodes)
     ELSE The({Add(target) : target \in {ElementId(L.doc, "node", bone)}})

\* LoadAnimationSet: the channels of the animations below one element, then the
\* matrix of every key frame.
LoadAnimationSet(L, set) ==
  LET channels == FlattenSeq([k \in DOMAIN Kids(set, "animation") |->
                                Kids(Kids(set, "animation")[k], "channel")])
      Matrix(raws) == Product([r \in DOMAIN raws |-> RecalculateMatrix(raws[r])])
      Keys(frames) == [n \in DOMAIN frames |-> [t \in DOMAIN frames[n] |-> Matrix(frames[n][t])]]
  IN The({[L EXCEPT !.skeleton.nodes = a.nodes,
                    !.skeleton.anims = IF a.ok THEN Append(@, Keys(a.frames)) ELSE @] :
            a \in {FoldLeft(LAMBDA s, c : LoadChannel(L, s, c),
                           [nodes |-> L.skeleton.nodes, frames |-> << >>, ok |-> TRUE], channels)}})

\* Animations of animations are sets of their own, otherwise they are one set.
LoadAnimations(L, library) ==
  LET all == Kids(library, "animation")
  IN FoldLeft(LoadAnimationSet, L, IF Has(all[1], "animation") THEN all ELSE <<library>>)

NewSkeleton(nodes) == [nodes |-> nodes, bind |-> Identity, weights |-> << >>, anims |-> << >>]

\* The skeletons of a controller are merged.
AddRoot(L, root) ==
  The({IF L.skeleton = None THEN [L EXCEPT !.skeleton = NewSkeleton(nodes)]
       ELSE [L EXCEPT !.skeleton.nodes = MergeSkeleton(@, nodes)] : nodes \in {LoadSkeletonNodes(root, 0)}})

\* The joint and the weight of every vertex: as many pairs as its count says.
VertexWeights(L, joints, vw) ==
  LET jOffset == Input(vw, "JOINT")[1].at.offset
      wOffset == Input(vw, "WEIGHT")[1].at.offset
      weights == Array(L, Input(vw, "WEIGHT")[1].at.source)
      vcount == Child(vw, "vcount").text
      v == Child(vw, "v").text
      start(i) == FoldLeft(LAMBDA x, y : x + y, 0, SubSeq(vcount, 1, i - 1))
      Pair(k) == <<At(joints, At(v, k * (jOffset + wOffset + 1) + jOffset)),
                   At(weights, At(v, k * (jOffset + wOffset + 1) + wOffset))>>
  IN [i \in DOMAIN vcount |-> {Pair(start(i) + j) : j \in 0..(vcount[i] - 1)}]

\* A controller: its skeletons are loaded and merged, its bind shape, the
\* animations of the document, the inverse bind matrices of the joints and the
\* weights of the vertices are set.  (Its geometry is loaded next.)
LoadController(L, controller, roots) ==
  LET skin == Child(controller, "skin")
      Joints == Child(Source(L, Input(Child(skin, "joints"), "JOINT")[1].at.source), "Name_array").text
      Inverses == Array(L, Input(Child(skin, "joints"), "INV_BIND_MATRIX")[1].at.source)
      Bound(l) == [l EXCEPT !.skeleton.bind = Child(skin, "bind_shape_matrix").text]
      Animated(l) == IF Has(L.doc, "library_animations")
                     THEN LoadAnimations(l, Child(L.doc, "library_animations")) ELSE l
      Inverse1(nodes, p) == [nodes EXCEPT ![NodeByName(nodes, p[1])].inverse = p[2]]
      Posed(nodes, joints, inverses) == FoldLeft(Inverse1, nodes, [j \in DOMAIN joints |-> <<joints[j], inverses[j]>>])
      Skinned(l) == [l EXCEPT !.skeleton.nodes = Posed(@, Joints, Inverses),
                              !.skeleton.weights = VertexWeights(L, Joints, Child(skin, "vertex_weights"))]
  IN The({Skinned(l) : l \in {Animated(b) : b \in {Bound(m) : m \in {FoldLeft(AddRoot, L, roots)}}}})
-----------------------------------------------------------------------------
\* The materials bound to the symbols of one instance.
Bindings(instance) ==
  LET all == FlattenSeq([b \in DOMAIN Kids(instance, "bind_material") |->
               IF Has(Kids(instance, "bind_material")[b], "technique_common")
               THEN Kids(Child(Kids(instance, "bind_material")[b], "technique_common"), "instance_material")
               ELSE << >>])
  IN FoldLeft(LAMBDA m, i : (i.at.symbol :> i.at.target) @@ m, << >>, all)

InstanceGeometry(L, instance) ==
  [L EXCEPT !.materialMap = Bindings(instance),
            !.skeleton = IF @ = None THEN @ ELSE [@ EXCEPT !.weights = << >>]]

\* Without a skeleton of its own, the whole scene is the skeleton.
InstanceController(L, instance) ==
  LET named == Kids(instance, "skeleton")
      roots == IF named = << >> THEN L.scene.kids
               ELSE [s \in DOMAIN named |-> ElementId(L.scene, "node", named[s].text)]
  IN LoadController([L EXCEPT !.materialMap = Bindings(instance)],
                    ElementId(L.doc, "controller", instance.at.url), roots)

\* An instance, and the geometry it is of.
LoadInstance(L, instance, t) ==
  LET geometry == instance.tag = "instance_geometry"
      url == IF geometry THEN instance.at.url
             ELSE Child(ElementId(L.doc, "controller", instance.at.url), "skin").at.source
  IN The({LoadGeometry(l, ElementId(L.doc, "geometry", url), t) : l \in
            {IF geometry THEN InstanceGeometry(L, instance) ELSE InstanceController(L, instance)}})

\* What a node stands for: the node it is an instance of.
InstanceNode(L, e) ==
  IF ~Has(e, "instance_node") THEN << >>
  ELSE SelectSeq(<<ElementId(L.doc, "node", Child(e, "instance_node").at.url)>>, LAMBDA n : n # None)
Instances(e) == IF Has(e, "instance_node") THEN << >>
                ELSE Kids(e, "instance_geometry") \o Kids(e, "instance_controller")
Named(L, e) == [L EXCEPT !.name = IF Attribute(e, "name") # "" THEN Attribute(e, "name") ELSE @]

\* A node: its children first, then the node it stands for, or else its own
\* geometries and controllers, which bear the name that was read last.
RECURSIVE LoadNode(_, _, _)
LoadNode(L, e, above) ==
  The({FoldLeft(LAMBDA l, i : LoadInstance(l, i, t),
                FoldLeft(LAMBDA l, k : LoadNode(l, k, t), Named(L, e), Kids(e, "node") \o InstanceNode(L, e)),
                Instances(e)) : t \in {Compose(above, LoadNodeTransform(e))}})

LoadScene(L) ==
  The({IF scene = None THEN L
       ELSE FoldLeft(LAMBDA l, e : LoadNode(l, e, Identity), [L EXCEPT !.scene = scene], Kids(scene, "node")) :
         scene \in {ElementId(L.doc, "visual_scene",
                             Child(Child(L.doc, "scene"), "instance_visual_scene").at.url)}})

\* The transformation of every node under its parent once the joints are put
\* where the inverse of their inverse bind matrix has them: parents first, the
\* models of the nodes in between as they were read.
ApplyInvBindTransform(nodes) ==
  LET Parent(n) == CHOOSE m \in 1..(n - 1) : nodes[m].depth = nodes[n].depth - 1
                     /\ \A k \in (m + 1)..(n - 1) : nodes[k].depth # nodes[m].depth
      Inverted(t) == <<t[1], -t[1] * t[2]>>
      Below(models, n, t) == IF nodes[n].depth = 0 THEN t ELSE Compose(models[Parent(n)], t)
      Read(n) == Product([r \in DOMAIN nodes[n].raw |-> RecalculateMatrix(nodes[n].raw[r])])
      order == [n \in DOMAIN nodes |-> n]
      read == FoldLeft(LAMBDA models, n : Append(models, Below(models, n, Read(n))), << >>, order)
      models == [n \in DOMAIN nodes |-> IF nodes[n].inverse = None THEN read[n]
                                        ELSE Inverted(nodes[n].inverse)]
  IN [n \in DOMAIN nodes |->
        IF nodes[n].inverse = None THEN Read(n)
        ELSE IF nodes[n].depth = 0 THEN models[n]
        ELSE Compose(Inverted(models[Parent(n)]), models[n])]

\* The mesh and the skeleton are made unit times as large.
Scaled(L, unit) ==
  LET Larger(sub) == [sub EXCEPT !.verts = [v \in DOMAIN @ |-> unit * @[v]]]
      Longer(t) == <<t[1], unit * t[2]>>
      Placed(skeleton) == LET poses == ApplyInvBindTransform(skeleton.nodes)
                          IN [n \in DOMAIN poses |-> Longer(poses[n])]
      Animated(anim) == [b \in DOMAIN anim |-> [time \in DOMAIN anim[b] |-> Longer(anim[b][time])]]
  IN [L EXCEPT
        !.subs = [s \in DOMAIN @ |-> Larger(@[s])],
        !.skeleton = IF @ = None THEN None
                     ELSE [place |-> Placed(@), nodes |-> @.nodes, bind |-> @.bind, weights |-> @.weights,
                           anims |-> [a \in DOMAIN @.anims |-> Animated(@.anims[a])]]]

\* Load: everything but the name and the material map is new.
Load(L, doc) ==
  LET unit == IF Has(doc, "asset") /\ Has(Child(doc, "asset"), "unit")
              THEN Child(Child(doc, "asset"), "unit").at.meter ELSE 1
      Blank == [name |-> L.name, materialMap |-> L.materialMap, doc |-> doc] @@ Fresh
  IN The({Scaled(loaded, unit) : loaded \in {LoadScene(Blank)}})
=============================================================================
