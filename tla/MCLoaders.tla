----------------------------- MODULE MCLoaders ------------------------------
(* The loaders, the exporter and the manager of meshes: each behaviour is    *)
(* about one of them, which it chooses at the beginning; and the files, of   *)
(* lines, faces and paths, the shapes and the meshes they are given.         *)
EXTENDS Collada, MeshManager

CONSTANTS
  t1, t2,
  ObjFiles, ObjLines(_), MtlFiles, StlFiles, StlFaces(_), SvgFiles, Samples, ExtraStep, Tol

VARIABLES
  subject,                                               \* what the behaviour is about
  obj, objMesh, stl, stlMesh, svg, paths, polys          \* the loaders

Obj == INSTANCE OBJLoader
Stl == INSTANCE STLLoader
Svg == INSTANCE SVGLoader

-----------------------------------------------------------------------------
\* Lines of an .obj file, and of the files of materials it names: two sections
\* of one name, one without a colour, and a file that is not there.
ObjLine(tag, value) == [tag |-> tag, value |-> value]
MCMtlFiles ==
  [all |-> << ObjLine("newmtl", "red"), ObjLine("Kd", 9), ObjLine("Tr", 1), ObjLine("d", 0),
              ObjLine("newmtl", "wood"), ObjLine("map_Kd", "file"), ObjLine("Ns", 3),
              ObjLine("newmtl", "red"), ObjLine("Ka", 1) >>,
   sky |-> << ObjLine("newmtl", "sky"), ObjLine("map_Kd", "file"), ObjLine("d", 0), ObjLine("Tr", 0) >>]

ObjPoints == << <<0, 0>>, <<4, 0>>, <<4, 4>>, <<0, 4>>, <<2, 1>>, <<2, 0>> >>
\* with an ear that holds another corner, a flat corner, and too few corners
ObjPolygons == { <<1, 2, 3>>, <<4, 3, 2, 1>>, <<1, 2, 3, 5, 4>>, <<3, 5, 4, 1, 2>>,
                 <<1, 6, 2, 3, 4>>, <<1, 5, 2, 3>>, <<1, 2>> }

\* Two polygons, with something or nothing between them.  Bounds: counting from
\* the last vertex, and normals or coordinates, come with some choices only.
MCObjFiles ==
  { f \in [one : ObjPolygons, two : {<<1, 2, 3>>, <<1, 2, 3, 5, 4>>},
           between : {"none", "g", "o", "wood", "sky"}, from : {"first", "last"},
           with : {"v", "vn", "vt"}, start : {"red", "none", "sky"},
           libs : {<<"gone", "all">>, <<"sky">>}] :
      /\ f.from = "last" <=> f.with = "vn"
      /\ f.with # "v" => f.two = <<1, 2, 3>>
      /\ f.start = "none" => f.one = <<1, 2, 3>> }

MCObjLines(f) ==
  LET Ref(i) == IF f.from = "first" THEN i ELSE i - 7
      Corner(i) == [v |-> Ref(i),
                    vn |-> IF f.with = "vn" THEN <<IF i < 3 THEN 1 ELSE -1>> ELSE << >>,
                    vt |-> IF f.with = "vt" THEN <<IF i < 3 THEN 2 ELSE 1>> ELSE << >>]
      Face(p) == ObjLine("f", [c \in DOMAIN p |-> Corner(p[c])])
      Material(n) == IF n = "none" THEN << >> ELSE <<ObjLine("usemtl", n)>>
  IN [i \in DOMAIN ObjPoints |-> ObjLine("v", ObjPoints[i])]
     \o (IF f.with = "v" THEN << >> ELSE <<ObjLine(f.with, 7), ObjLine(f.with, 8)>>)
     \o <<ObjLine("mtllib", f.libs)>> \o Material(f.start) \o <<Face(f.one), ObjLine("l", <<1, 2>>)>>
     \o (CASE f.between = "none"       -> << >>
          [] f.between \in {"g", "o"} -> <<ObjLine(f.between, "next")>>
          [] OTHER                     -> <<ObjLine("mtllib", <<"sky">>)>> \o Material(f.between))
     \o <<Face(f.two)>>
-----------------------------------------------------------------------------
\* An .stl file in either form, undamaged or not.
StlPoints == << <<0, 0, 0>>, <<1, 0, 0>>, <<0, 1, 0>>, <<0, 0, 1>> >>
StlBodies == UNION {[1..n -> [corners : { <<1, 2, 3>>, <<3, 2, 4>>, <<1, 1, 2>> }, up : {0, 1}]] : n \in 0..2}
StlKinds == [body : StlBodies, form : {"lines", "bytes"},
             damage : {"none", "blank", "comment", "word", "short", "cut", "negative"}]

StlDescribed(d) == [i \in DOMAIN d.body |->
                  [normal |-> <<0, 0, d.body[i].up>>,
                   corners |-> [c \in 1..3 |-> StlPoints[d.body[i].corners[c]]]]]

StlLine(word, nums) == [word |-> word, nums |-> nums]
StlFacet(f) ==
  <<StlLine("facet", f.normal), StlLine("outer", << >>)>>
  \o [c \in 1..3 |-> StlLine("vertex", f.corners[c])]
  \o <<StlLine("endloop", << >>), StlLine("endfacet", << >>)>>
StlLines(d) ==
  <<StlLine("solid", << >>)>>
  \o (IF d.damage = "comment" THEN <<StlLine("#", << >>), StlLine("color", <<1, 1, 1, 1>>)>> ELSE << >>)
  \o FlattenSeq([i \in DOMAIN d.body |->
       StlFacet(StlDescribed(d)[i]) \o (IF d.damage = "blank" THEN <<StlLine("", << >>)>> ELSE << >>)])
  \o <<StlLine(IF d.damage = "word" THEN "junk" ELSE "endsolid", << >>)>>

StlFile(d) ==
  [form |-> d.form, damage |-> d.damage, from |-> StlDescribed(d),
   lines |-> IF d.form = "bytes" THEN <<StlLine("solid", << >>), StlLine("bytes", << >>)>>
             ELSE IF d.damage = "short" THEN Front(Front(Front(StlLines(d)))) ELSE StlLines(d),
   count |-> IF d.form = "lines" THEN 99
             ELSE IF d.damage = "negative" THEN -1 ELSE Len(d.body),
   faces |-> IF d.form = "lines" THEN << >>
             ELSE IF d.damage = "cut" /\ d.body # << >> THEN Front(StlDescribed(d)) ELSE StlDescribed(d)]
MCStlFiles == {StlFile(d) : d \in StlKinds}

\* What a file says, when it says anything: damaged lines are read all the same.
MCStlFaces(f) ==
  IF \/ f.form = "lines" /\ f.from # << >> /\ f.damage \notin {"cut", "negative"}
     \/ f.form = "bytes" /\ f.damage = "none"
  THEN <<f.from>> ELSE << >>
-----------------------------------------------------------------------------
\* A document with a path that is defined only, one in a group, and one more.
Letter(l, r) == [letter |-> l, relative |-> r, numbers |-> << >>]
Numbers(n) == [letter |-> "", relative |-> FALSE, numbers |-> n]
Cmd(l, r, n) == <<Letter(l, r)>> \o (IF n = << >> THEN << >> ELSE <<Numbers(n)>>)
SvgStarts == {Cmd("m", FALSE, <<0, 0, 2, 0>>), Cmd("m", TRUE, <<1, 0, 0, 1>>), Cmd("m", FALSE, << >>)}
SvgSteps ==
  { << >>, Cmd("l", TRUE, <<0, 2, -2, 0>>), Cmd("l", FALSE, <<2, 2>>), Cmd("l", FALSE, <<0, 2, 2>>),
    Cmd("c", TRUE, <<0, 1, 1, 2, 2, 2>>), Cmd("c", FALSE, <<0, 1, 1, 2, 2, 2, 1, 1, 0, 1, 0, 0>>),
    Cmd("a", FALSE, <<1, 1, 0, 0, 1, 2, 2>>), Cmd("a", TRUE, <<1, 1, 0, 0, 1, 2, 2>>),
    Cmd("h", TRUE, <<2>>), Cmd("q", TRUE, <<0, 0, 1, 1>>), Cmd("m", TRUE, <<0, -1, -1, 0>>) }
SvgEnds == { << >>, Cmd("z", TRUE, << >>), Cmd("l", FALSE, <<0, 0>>),
             Cmd("z", FALSE, << >>) \o Cmd("m", TRUE, <<0, 1, 1, 1>>) }

Move(kind, n) == [kind |-> kind, numbers |-> n]
SvgMoves == { Move("none", << >>), Move("matrix", <<0, 1, -1, 0, 2, 1>>), Move("scale", <<2>>),
              Move("scale", <<1, -1>>), Move("translate", <<1>>), Move("skewX", <<1>>),
              Move("skewY", <<1>>), Move("rotate", <<1>>), Move("rotate", <<1, 1, 1>>),
              Move("rotate", <<1, 1>>) }

Node(name, attribs, children) == [name |-> name, attribs |-> attribs, children |-> children]
PathNode(d, move) ==
  Node("path", <<[name |-> "d", value |-> d]>>
               \o (IF move.kind = "none" THEN << >> ELSE <<[name |-> "transform", value |-> move]>>), << >>)
Another == PathNode(Cmd("m", FALSE, <<2, 2, 2, 0>>) \o Cmd("m", FALSE, <<0, 0, 0, 2, 2, 2>>), Move("none", << >>))
MCSvgFiles ==
  { Node("svg", << >>, << Node("defs", << >>, <<PathNode(Cmd("l", TRUE, <<1, 1>>), move)>>),
                          Node("g", << >>, <<PathNode(start \o step \o end, move)>>) >> \o more) :
      start \in SvgStarts, step \in SvgSteps, end \in SvgEnds, move \in SvgMoves,
      more \in {<< >>, <<Another>>} }
-----------------------------------------------------------------------------
\* Round shapes in places four apart, so that Epsilon tells them apart.
Spread(shape) == Shapes!Scale(<<shape>>, <<4, 4, 4>>)[1]

Square == << <<0, 0>>, <<8, 0>>, <<8, 8>>, <<0, 8>> >>
Halves == << <<Square[1], Square[3], Square[2]>>, <<Square[1], Square[4], Square[3]>> >>
\* closed by the caller, or turned round, with a point given twice
Loops == { <<Square>>, <<Append(Square, <<0, 0>>)>>, <<Reverse(Square) \o <<(<<0, 0>>)>> >> }

MCMakeable ==
  { Spread(Shapes!CreateSphere(2, 3)), Spread(Shapes!CreateCylinder(1, 3)), Spread(Shapes!CreateCylinder(2, 4)),
    Spread(Shapes!CreateCone(1, 2)), Spread(Shapes!CreateCone(3, 4)), Spread(Shapes!CreateTube(0, 3, TRUE)),
    Spread(Shapes!CreateTube(2, 3, FALSE)), Shapes!CreateBox(<<2, 4, 6>>), Spread(Shapes!CreatePlane(1, 2)) }
  \cup { Shapes!CreateExtrudedPolyline(l, Halves, 4) : l \in Loops }

\* What a file may hold: one face with a corner given twice, nearly; two
\* submeshes; an empty one.
Face(vertices, indices) == Shapes!Shape("sheet", vertices, 0, 0, indices)
Nearly == Face(<< <<0, 0, 0>>, <<4, 0, 0>>, <<0, 4, 0>>, <<1, 0, 0>>, <<4, 4, 0>> >>,
               <<0, 1, 2, 3, 1, 4, 0, 3, 1>>)
Flat   == Face(<< <<0, 0, 0>>, <<4, 0, 0>>, <<0, 4, 0>> >>, <<0, 1, 2>>)
MCLoadable == { <<Nearly>>, <<Flat, Nearly>>, <<Face(<< >>, << >>)>> }

MCSolids == { Shapes!CreateCamera(2) }
MCOffsets == { <<2, 4, 0>> }
-----------------------------------------------------------------------------
(* Documents with one geometry in several places, or a skin on a skeleton.   *)
At0(tag, kids) == El(tag, << >>, kids)
In(semantic, source) == El("input", [semantic |-> semantic, source |-> source], << >>)
InAt(semantic, source, n) == El("input", [semantic |-> semantic, source |-> source, offset |-> n], << >>)
FloatSource(id, text) == El("source", [id |-> id], <<Leaf("float_array", text)>>)

\* Positions, normals and coordinates, some of them given twice.
Positions == <<1, 2, 1, 3>>
TexSource == El("source", [id |-> "tex"],
  <<E("float_array", [count |-> 9], <<0, 0, 7, 1, 0, 7, 0, 0, 7>>, << >>),
    At0("technique_common", <<El("accessor", [count |-> 3, stride |-> 3], << >>)>>)>>)

\* Corners: position, normal, coordinate, and a colour the loader leaves alone.
Corners == << <<0, 0, 0, 5>>, <<1, 1, 1, 5>>, <<3, 0, 0, 5>>, <<2, 2, 2, 5>>,
              <<1, 0, 1, 5>>, <<1, 1, 0, 5>>, <<0, 0, 0, 5>> >>

Prim(c) ==
  LET columns == <<1>> \o (IF c.normals = "own" THEN <<2>> ELSE << >>)
                 \o (IF c.tex THEN <<3>> ELSE << >>) \o (IF c.colour THEN <<4>> ELSE << >>)
      inputs == [k \in DOMAIN columns |->
        CASE columns[k] = 1 -> InAt("VERTEX", "vertices", k - 1)
          [] columns[k] = 2 -> InAt("NORMAL", "normals", k - 1)
          [] columns[k] = 3 -> InAt("TEXCOORD", "tex", k - 1)
          [] columns[k] = 4 -> InAt("COLOR", "colours", k - 1)]
      used == IF c.prim = "polylist" THEN Corners ELSE SubSeq(Corners, 1, 6)
      p == FlattenSeq([i \in DOMAIN used |-> [k \in DOMAIN columns |-> used[i][columns[k]]]])
  IN El(c.prim, IF c.material = "none" THEN << >> ELSE [material |-> IF c.material = "bound" THEN "symbol" ELSE "paint"],
        inputs \o (IF c.prim = "polylist" THEN <<Leaf("vcount", <<4, 3>>)>> ELSE << >>) \o <<Leaf("p", p)>>)

\* Texture coordinates come in threes: the third number is not read.
Geometry(c) ==
  El("geometry", [id |-> "geometry"], <<At0("mesh",
    <<FloatSource("positions", Positions), FloatSource("normals", IF c.normals = "own" THEN <<1, -1, 1>> ELSE <<1, -1, 1, 1>>),
      TexSource, El("vertices", [id |-> "vertices"],
        <<In("POSITION", "positions")>> \o (IF c.normals = "vertex" THEN <<In("NORMAL", "normals")>> ELSE << >>)),
      Prim(c)>> \o (IF c.twice THEN <<Prim(c)>> ELSE << >>))>>)

Paint(c) ==
  LET shader == IF c.tex THEN
        El("phong", << >>, <<At0("diffuse", <<El("texture", [texture |-> "sampler"], << >>)>>),
          At0("transparency", <<Leaf("float", 1)>>), El("transparent", [opaque |-> "RGB_ZERO"], <<Leaf("color", 1)>>)>>)
        ELSE At0("lambert", <<At0("ambient", <<Leaf("color", 2)>>), At0("diffuse", <<Leaf("color", 3)>>)>>)
  IN << At0("library_images", <<El("image", [id |-> "image"], <<Leaf("init_from", "file")>>)>>),
        At0("library_materials", <<El("material", [id |-> "paint"], <<El("instance_effect", [url |-> "effect"], << >>)>>)>>),
        At0("library_effects", <<El("effect", [id |-> "effect"], <<At0("profile_COMMON",
          <<El("newparam", [sid |-> "surface"], <<At0("surface", <<Leaf("init_from", "image")>>)>>),
            El("newparam", [sid |-> "sampler"], <<At0("sampler2D", <<Leaf("source", "surface")>>)>>),
            At0("technique", <<shader>>)>>)>>)>>) >>

Instance(c, tag, url, kids) ==
  El(tag, [url |-> url], kids \o (IF c.material # "bound" THEN << >>
    ELSE <<At0("bind_material", <<At0("technique_common",
           <<El("instance_material", [symbol |-> "symbol", target |-> "paint"], << >>)>>)>>)>>))

NodeEl(id, kids) == El("node", [id |-> id, name |-> id], kids)
Shift(n) == Leaf("translate", n)
Half == Leaf("rotate", 1)

\* Where the geometry is: in one node, below others, in a node that stands for
\* it, or in two places.
Placed(c) ==
  LET it == Instance(c, "instance_geometry", "geometry", << >>)
  IN CASE c.place = "flat"   -> <<NodeEl("a", <<Shift(1), Half, it>>)>>
       [] c.place = "nested" -> <<NodeEl("a", <<Shift(2), Half, Leaf("scale", 2),
                                    NodeEl("b", <<Leaf("matrix", <<-1, 1>>), it>>)>>)>>
       [] c.place = "node"   -> <<NodeEl("a", <<Shift(1), El("instance_node", [url |-> "kept"], << >>)>>)>>
       [] c.place = "both"   -> <<NodeEl("a", <<Shift(1), it, NodeEl("b", <<it>>)>>)>>
       [] c.place = "twice"  -> <<NodeEl("a", <<Shift(1), it>>), NodeEl("b", <<Half, it>>)>>

Assembled(c, more, nodes) ==
  El("COLLADA", [version |-> "1.4.1"],
    (IF c.colour THEN <<At0("asset", <<El("unit", [meter |-> 2], << >>)>>)>> ELSE << >>)
    \o Paint(c) \o <<At0("library_geometries", <<Geometry(c)>>)>> \o more
    \o <<At0("library_nodes", <<El("node", [id |-> "kept"],
           <<Shift(3), Instance(c, "instance_geometry", "geometry", << >>)>>)>>),
         At0("library_visual_scenes", <<El("visual_scene", [id |-> "scene"], nodes)>>),
         At0("scene", <<El("instance_visual_scene", [url |-> "scene"], << >>)>>)>>)

Plain == { c \in [prim : {"triangles", "polylist"}, normals : {"own", "vertex", "none"}, tex : BOOLEAN,
                  colour : BOOLEAN, twice : BOOLEAN, material : {"none", "bound", "named"},
                  place : {"flat", "nested", "node", "both", "twice"}] :
             \* bound: each choice with the simplest of some others
             /\ c.twice => c.place = "flat"
             /\ c.colour => c.tex /\ c.place \in {"flat", "nested"}
             /\ c.normals = "none" => c.material = "none"
             /\ c.material = "named" => c.place = "flat" /\ c.normals = "own" }

\* Skins: two joints, one below the other, and the weights of the four positions.
Upper(kids) == El("node", [id |-> "upper", sid |-> "u"],
  <<E("matrix", [sid |-> "m"], <<1, 2>>, << >>)>> \o kids)
Lower == El("node", [id |-> "lower", name |-> "l"],
  <<Shift(1), E("rotate", [sid |-> "r"], 1, << >>), E("rotate", [sid |-> "s"], 0, << >>)>>)
Side == El("node", [id |-> "side"], <<Shift(4)>>)

Skin(c, id, joints, inverses) ==
  El("controller", [id |-> id], <<El("skin", [source |-> "geometry"],
    <<Leaf("bind_shape_matrix", IF c.prim = "polylist" THEN <<-1, 1>> ELSE Identity),
      El("source", [id |-> id \o "_joints"], <<Leaf("Name_array", joints)>>),
      FloatSource(id \o "_inverses", inverses), FloatSource(id \o "_weights", <<1, 2>>),
      At0("joints", <<In("JOINT", id \o "_joints"), In("INV_BIND_MATRIX", id \o "_inverses")>>),
      At0("vertex_weights", <<InAt("JOINT", id \o "_joints", c.joint), InAt("WEIGHT", id \o "_weights", 1 - c.joint),
        Leaf("vcount", <<1, 2, 1, 0>>),
        Leaf("v", IF c.joint = 0 THEN <<0, 0, 0, 1, 1, 0, 0, 0>> ELSE <<0, 0, 1, 0, 0, 1, 0, 0>>)>>)>>)>>)

Output(id, text, stride) == El("source", [id |-> id], <<Leaf("float_array", text),
  At0("technique_common", <<El("accessor", IF stride = 0 THEN << >> ELSE [stride |-> stride], << >>)>>)>>)
Animation(id, bone, sid, part, text, stride) ==
  At0("animation", <<FloatSource(id \o "_times", <<1, 3>>), Output(id \o "_values", text, stride),
    El("sampler", [id |-> id], <<In("INPUT", id \o "_times"), In("OUTPUT", id \o "_values")>>),
    El("channel", [source |-> id, bone |-> bone, sid |-> sid, part |-> part], << >>)>>)

Animations(c) ==
  IF c.motion = "none" THEN << >>
  ELSE LET all == <<Animation("x", "upper", "m", << >>, <<1, 5, -1, 6>>, 2),
                    Animation("y", IF c.motion = "outside" THEN "side" ELSE "lower", "r", <<3>>, <<0, 1>>, 0),
                    Animation("z", "upper", "m", <<0, 3>>, <<7, 8>>, 0)>>
       IN <<At0("library_animations", IF c.motion = "nested" THEN <<At0("animation", all), At0("animation", SubSeq(all, 2, 3))>>
                                      ELSE all)>>

Skins == [prim : {"triangles", "polylist"}, normals : {"own"}, tex : {FALSE}, colour : BOOLEAN, twice : {FALSE},
          material : {"none"}, joint : {0, 1}, motion : {"none", "one", "nested", "outside"},
          roots : {"named", "scene", "two", "again", "under"}]

Skinned(c) ==
  LET controllers == <<Skin(c, "skin", <<"u", "l">>, << <<1, -1>>, <<-1, 4>> >>)>>
                     \o (IF c.roots = "again" THEN <<Skin(c, "skin2", <<"u", "l">>, << <<1, -1>>, <<-1, 4>> >>)>> ELSE << >>)
      Use(id, skeletons) == El("node", [id |-> id \o "_body", name |-> id], <<Shift(1), Instance(c, "instance_controller", id,
                              [k \in DOMAIN skeletons |-> Leaf("skeleton", skeletons[k])])>>)
      bones == Upper(<<Lower>>)
      names == CASE c.roots = "scene" -> << >> [] c.roots = "two" -> <<"upper", "side">>
                 [] c.roots = "under" -> <<"upper", "root">> [] OTHER -> <<"upper">>
      stand == IF c.roots = "under" THEN NodeEl("root", <<bones, Side>>) ELSE bones
  IN Assembled(c, <<At0("library_controllers", controllers)>> \o Animations(c),
       (IF c.roots = "under" THEN <<stand>> ELSE <<bones, Side>>)
       \o <<Use("skin", names)>>
       \o (IF c.roots = "again" THEN <<Use("skin2", names)>> ELSE << >>))

MCFiles == Plain \cup Skins
MCAgain == { CHOOSE c \in Plain : c.place = "twice" /\ c.tex /\ c.normals = "own" /\ c.material = "bound",
             CHOOSE c \in Skins : c.prim = "polylist" /\ c.roots = "two" /\ c.motion = "one" }
MCDocument(f) == IF "place" \in DOMAIN f THEN Assembled(f, << >>, Placed(f)) ELSE Skinned(f)
-----------------------------------------------------------------------------
lineVars == <<obj, objMesh, stl, stlMesh, svg, paths, polys>>

MCInit == /\ subject \in {"manager", "collada", "obj", "stl", "svg"}
          /\ Init /\ ManagerInit /\ Obj!ObjInit /\ Stl!StlInit /\ Svg!SvgInit

MCNext ==
  /\ UNCHANGED subject
  /\ \/ subject = "manager" /\ ManagerNext /\ UNCHANGED <<vars, lineVars>>
     \/ subject = "collada" /\ Next /\ UNCHANGED <<managerVars, lineVars>>
     \/ subject = "obj" /\ Obj!ObjNext /\ UNCHANGED <<vars, managerVars, stl, stlMesh, svg, paths, polys>>
     \/ subject = "stl" /\ Stl!StlNext /\ UNCHANGED <<vars, managerVars, obj, objMesh, svg, paths, polys>>
     \/ subject = "svg" /\ Svg!SvgNext /\ UNCHANGED <<vars, managerVars, obj, objMesh, stl, stlMesh>>

MCSpec == MCInit /\ [][MCNext]_<<subject, vars, managerVars, lineVars>>

\* Bounds: a mesh is changed while it is the only one and nobody loads; two
\* meshes are from files or the library, or the smallest that is made here.
Small == Loadable \cup {<<s>> : s \in Solids} \cup {<<CHOOSE s \in Makeable : s.kind = "box">>}
FewMeshes ==
  /\ content' # content /\ Len(content') = Len(content) => Len(content) = 1 /\ answers = {}
  /\ Len(content') = 2 => \A m \in 1..2 : content'[m] \in Small

Alike == Permutations(Threads)
-----------------------------------------------------------------------------
\* The solids of the Create functions stay closed, whatever moves or mirrors
\* them, and flat arrays and surfaces for the library of solids keep the
\* triangles of a mesh (MeshManager.cc, Mesh::FillArrays,
\* MeshCSG::ConvertMeshToGTS).
FacesAreKept == ShapesAreClosed /\ ArraysKeepFaces /\ SurfaceKeepsFaces

\* The faces and the skeleton that come out of a COLLADA document are those it
\* describes (ColladaLoader::Load).
DocumentsAreRead == FacesAreTheDocuments /\ SkeletonIsTheDocuments

\* The mesh of an .obj file is what its lines say, and that of an .stl file has
\* the corners the file was written from (LoadObj, STLLoader::ReadAscii).
CornersAreTheFiles == Obj!ObjKeepsFaces /\ Stl!CornersAreTheFiles

\* The commands of an .svg file draw the lines of its text, and every segment
\* of them is in one outline (SVGLoader::Parse, PathsToClosedPolylines).
OutlinesAreTheText == Svg!CommandsDrawTheLines /\ Svg!OutlinesAreTheSegments
=============================================================================
