------------------------------ MODULE OBJLoader ------------------------------
(***************************************************************************)
(* tiny_obj_loader.h: how the lines of an .obj file and of the material    *)
(* files it names become shapes of triangles; and OBJLoader.cc: how the    *)
(* shapes become submeshes, one for each material of a shape.  A line is a *)
(* record with its keyword; a position is a point of the plane its polygon *)
(* lies in; an index that is not written is << >>.  R is what LoadObj has  *)
(* read.                                                                   *)
(***************************************************************************)
EXTENDS Integers, Sequences, FiniteSets, SequencesExt, Functions, TLC

NewShape == [name |-> "", faces |-> << >>, lines |-> << >>]
NewReading == [v |-> << >>, vn |-> << >>, vt |-> << >>, faceGroup |-> << >>, lineGroup |-> << >>,
               name |-> "", map |-> << >>, material |-> -1, materials |-> << >>,
               shape |-> NewShape, shapes |-> << >>, ok |-> TRUE]
-----------------------------------------------------------------------------
\* Indices of corners: from 1, or back from what was read before; 0 is refused.
Valid(corner) == corner.v # 0 /\ corner.vt # <<0>> /\ corner.vn # <<0>>
FixIndex(idx, n) == IF idx > 0 THEN idx - 1 ELSE n + idx
ParseTriple(R, corner) ==
  LET Fixed(idx, n) == IF idx = << >> THEN -1 ELSE FixIndex(idx[1], n)
  IN [v |-> FixIndex(corner.v, Len(R.v)), vt |-> Fixed(corner.vt, Len(R.vt)),
      vn |-> Fixed(corner.vn, Len(R.vn))]
-----------------------------------------------------------------------------
\* A vertex beyond the list counts as the origin.
PointOf(v, corner) == IF corner.v + 1 \in DOMAIN v THEN v[corner.v + 1] ELSE <<0, 0>>
Cross(a, b, c) == (b[1] - a[1]) * (c[2] - b[2]) - (b[2] - a[2]) * (c[1] - b[1])

\* Twice the area of the polygon, without the edges of invalid vertices.
Area(v, face) ==
  LET In(k) == face[k].v + 1 \in DOMAIN v
      After(k) == (k % Len(face)) + 1
      Part(k) == IF In(k) /\ In(After(k))
                 THEN PointOf(v, face[k])[1] * PointOf(v, face[After(k)])[2]
                        - PointOf(v, face[k])[2] * PointOf(v, face[After(k)])[1]
                 ELSE 0
  IN FoldLeft(LAMBDA a, k : a + Part(k), 0, [k \in DOMAIN face |-> k])

\* Whether a ray to the right of p crosses an odd number of the triangle's edges.
Pnpoly(tri, p) ==
  LET Crossed(i, j) ==   \* from corner j to corner i
        /\ (tri[i][2] > p[2]) # (tri[j][2] > p[2])
        /\ LET left == (p[1] - tri[i][1]) * (tri[j][2] - tri[i][2])
               right == (tri[j][1] - tri[i][1]) * (p[2] - tri[i][2])
           IN IF tri[j][2] > tri[i][2] THEN left < right ELSE left > right
  IN Cardinality({i \in 1..3 : Crossed(i, IF i = 1 THEN 3 ELSE i - 1)}) % 2 = 1

\* For the mutants: an ear may have other corners inside.
EarByAngle(v, face, guess, area) ==
  LET C(k) == PointOf(v, face[((guess + k) % Len(face)) + 1])
  IN Cross(C(0), C(1), C(2)) * area >= 0
\* Three corners from guess on are an ear: they turn as the polygon does, and
\* none of the others lies inside.
Ear(v, face, guess, area) ==
  LET n == Len(face)
      C(k) == PointOf(v, face[((guess + k) % n) + 1])
  IN /\ Cross(C(0), C(1), C(2)) * area >= 0
     /\ \A k \in 3..(n - 1) : face[((guess + k) % n) + 1].v + 1 \in DOMAIN v
                               => ~Pnpoly(<<C(0), C(1), C(2)>>, C(k))

\* Ears are cut until a triangle is left, or none was found in a whole round.
RECURSIVE Triangulate(_, _, _, _, _, _)
Triangulate(v, face, area, guess0, iterations, previous) ==
  LET n == Len(face)
      guess == IF guess0 >= n THEN guess0 - n ELSE guess0
      left == IF previous # n THEN n ELSE iterations - 1
      At(k) == ((guess + k) % n) + 1
  IN IF n = 3 THEN <<face>>
     ELSE IF n < 3 \/ iterations = 0 THEN << >>
     ELSE IF Ear(v, face, guess, area)
     THEN << <<face[At(0)], face[At(1)], face[At(2)]>> >>
            \o Triangulate(v, RemoveAt(face, At(1)), area, guess, left, n)
     ELSE Triangulate(v, face, area, guess + 1, left, n)

Triangles(v, face) == Triangulate(v, face, Area(v, face), 0, Len(face), Len(face))

\* The faces read since the last time go into the shape, under the material and
\* the name there were; the lines change places with the shape's.
Grouped(R) == R.faceGroup # << >> \/ R.lineGroup # << >>
ExportGroupsToShape(R) ==
  LET tris == FlattenSeq([f \in DOMAIN R.faceGroup |-> Triangles(R.v, R.faceGroup[f])])
      new == [t \in DOMAIN tris |-> [corners |-> tris[t], material |-> R.material]]
  IN IF ~Grouped(R) THEN R
     ELSE [R EXCEPT
       !.shape = [name |-> IF R.faceGroup = << >> THEN @.name ELSE R.name, faces |-> @.faces \o new,
                  lines |-> IF R.lineGroup = << >> THEN @.lines ELSE R.lineGroup],
       !.lineGroup = IF @ = << >> THEN @ ELSE R.shape.lines]
-----------------------------------------------------------------------------
Textures == {"map_Ka", "map_Kd", "map_Ks", "map_Ns", "map_bump", "map_d", "disp", "refl", "map_Ke", "norm"}
Numbers == {"Ka", "Ks", "Kt", "Ke", "Ns", "Ni", "illum", "Pr", "Pm", "Ps"}
InitMaterial == [name |-> "", Kd |-> 0, d |-> 1, textures |-> [t \in Textures |-> ""],
                 numbers |-> [n \in Numbers |-> IF n \in {"Ns", "Ni"} THEN 1 ELSE 0]]

Flush(m) == [m EXCEPT !.map = IF m.mat.name \in DOMAIN @ THEN @ ELSE (m.mat.name :> Len(m.materials)) @@ @,
                      !.materials = Append(@, m.mat)]
NewMtl(m, name) == [(IF m.mat.name = "" THEN m ELSE Flush(m)) EXCEPT
                      !.mat = [InitMaterial EXCEPT !.name = name], !.d = FALSE]
Number(m, line) == IF line.tag = "Kd" THEN [m EXCEPT !.mat.Kd = line.value, !.kd = TRUE]
                   ELSE [m EXCEPT !.mat.numbers[line.tag] = line.value]
\* d wins over Tr, whichever comes first.
Opacity(m, line) == CASE line.tag = "d" -> [m EXCEPT !.mat.d = line.value, !.d = TRUE]
                      [] line.tag = "Tr" /\ ~m.d -> [m EXCEPT !.mat.d = 1 - line.value]
                      [] OTHER -> m
\* A texture without a colour makes the colour 6 (tenths), unless a colour was
\* read, of whatever material.
Texture(m, line) == [m EXCEPT !.mat.textures[line.tag] = line.value,
                              !.mat.Kd = IF m.kd \/ line.tag # "map_Kd" THEN @ ELSE 6]
MtlLine(m, line) ==
  CASE line.tag = "newmtl" -> NewMtl(m, line.value)
    [] line.tag \in Numbers \cup {"Kd"} -> Number(m, line)
    [] line.tag \in {"d", "Tr"} -> Opacity(m, line)
    [] line.tag \in Textures -> Texture(m, line)
    [] OTHER -> m

\* A material file: its materials are added, the last one at its end, with or
\* without a name; a name stands for the first material that had it.
LoadMtl(R, lines) ==
  LET m == Flush(FoldLeft(MtlLine, [map |-> R.map, materials |-> R.materials, mat |-> InitMaterial,
                                    d |-> FALSE, kd |-> FALSE], lines))
  IN [R EXCEPT !.map = m.map, !.materials = m.materials]
-----------------------------------------------------------------------------
\* The materials come from the first of the named files that there is.
MtlLib(R, names, mtl) ==
  LET found == SelectSeq(names, LAMBDA n : n \in DOMAIN mtl)
  IN IF found = << >> THEN R ELSE LoadMtl(R, mtl[found[1]])

UseMtl(R, name) ==
  LET new == IF name \in DOMAIN R.map THEN R.map[name] ELSE -1
  IN IF new = R.material THEN R
     ELSE [ExportGroupsToShape(R) EXCEPT !.faceGroup = << >>, !.material = new]

\* A group ends the shape, which is kept when it has faces; an object ends it
\* and keeps it when it had anything since the last change of material.
EndShape(R, keep(_, _), name) ==
  LET e == ExportGroupsToShape(R)
  IN [e EXCEPT !.shapes = IF keep(R, e) THEN Append(@, e.shape) ELSE @,
               !.shape = NewShape, !.faceGroup = << >>, !.name = name]
Group(R, name) == EndShape(R, LAMBDA r, e : e.shape.faces # << >>, name)
Object(R, name) == EndShape(R, LAMBDA r, e : Grouped(r), name)

Element(R, line) == IF line.tag = "l" THEN [R EXCEPT !.lineGroup = @ \o line.value]
                    ELSE [R EXCEPT ![line.tag] = Append(@, line.value)]
Face(R, corners) ==
  IF \E c \in DOMAIN corners : ~Valid(corners[c]) THEN [R EXCEPT !.ok = FALSE]
  ELSE [R EXCEPT !.faceGroup = Append(@, [c \in DOMAIN corners |-> ParseTriple(R, corners[c])])]

ObjLine(R, line, mtl) ==
  CASE ~R.ok -> R
    [] R.ok /\ line.tag \in {"v", "vn", "vt", "l"} -> Element(R, line)
    [] R.ok /\ line.tag = "f" -> Face(R, line.value)
    [] R.ok /\ line.tag = "usemtl" -> UseMtl(R, line.value)
    [] R.ok /\ line.tag = "mtllib" -> MtlLib(R, line.value, mtl)
    [] R.ok /\ line.tag = "g" -> Group(R, line.value)
    [] R.ok /\ line.tag = "o" -> Object(R, line.value)
    [] OTHER -> R

\* The last shape is kept when it has faces or had anything to be added.
LoadObj(lines, mtl) ==
  LET R == FoldLeft(LAMBDA r, line : ObjLine(r, line, mtl), NewReading, lines)
      e == ExportGroupsToShape(R)
  IN IF ~R.ok THEN R
     ELSE [e EXCEPT !.shapes = IF Grouped(R) \/ e.shape.faces # << >> THEN Append(@, e.shape) ELSE @]
-----------------------------------------------------------------------------

CONSTANTS ObjFiles,     \* the files there are
          ObjLines(_),  \* the lines of a file
          MtlFiles      \* the lines of the material files, by name

VARIABLES
  obj,      \* the file that is read, or Nothing
  objMesh   \* what Load returned: None before, or a mesh

objVars == <<obj, objMesh>>
Nothing == << >>
Outside == -99   \* what is read beyond a list
Item(s, i) == IF i + 1 \in DOMAIN s THEN s[i + 1] ELSE Outside

ObjMaterial(m) == [ambient |-> m.numbers["Ka"], diffuse |-> m.Kd, specular |-> m.numbers["Ks"],
                   emissive |-> m.numbers["Ke"], shininess |-> m.numbers["Ns"],
                   transparency |-> 1 - m.d, texture |-> m.textures["map_Kd"]]

\* The materials of a mesh are known by their names; those with one name are
\* the first of them.
AddMaterial(mesh, m) ==
  IF m.name \in DOMAIN mesh.ids THEN mesh
  ELSE [mesh EXCEPT !.ids = (m.name :> Len(mesh.mats)) @@ @, !.mats = Append(@, ObjMaterial(m))]

\* Corners are never shared.  Normals and coordinates are read of every corner
\* as soon as the file has any; a coordinate, of which only the height is kept,
\* counts from the other side of the texture.
Upside(vt) == IF vt = Outside THEN Outside ELSE 1 - vt
Corner(R, sub, c) ==
  [sub EXCEPT !.verts = Append(@, Item(R.v, c.v)),
              !.norms = IF R.vn = << >> THEN @ ELSE Append(@, Item(R.vn, c.vn)),
              !.tex = IF R.vt = << >> THEN @ ELSE Append(@, Upside(Item(R.vt, c.vt))),
              !.indices = Append(@, Len(@))]

\* One shape: a submesh for each material in the order of its first face, and
\* every face into the submesh of its own.
LoadShape(R, mesh, shape) ==
  LET first == SelectSeq([f \in DOMAIN shape.faces |-> f],
                 LAMBDA f : \A g \in 1..(f - 1) : shape.faces[g].material # shape.faces[f].material)
      known == FoldLeft(AddMaterial, mesh,
                 [i \in DOMAIN first |-> R.materials[shape.faces[first[i]].material + 1]])
      Sub(material) ==
        LET mine == SelectSeq(shape.faces, LAMBDA f : f.material = material)
            empty == [name |-> shape.name, material |-> known.ids[R.materials[material + 1].name],
                      verts |-> << >>, norms |-> << >>, tex |-> << >>, indices |-> << >>]
        IN FoldLeft(LAMBDA s, c : Corner(R, s, c), empty,
                    FlattenSeq([f \in DOMAIN mine |-> mine[f].corners]))
  IN [known EXCEPT !.subs = @ \o [i \in DOMAIN first |-> Sub(shape.faces[first[i]].material)]]

\* Faces without a material read one before the first.
Unpainted(R) == \E s \in DOMAIN R.shapes : \E f \in DOMAIN R.shapes[s].faces :
                  R.shapes[s].faces[f].material = -1

Load(R) == IF ~R.ok THEN [result |-> "null"]
           ELSE IF Unpainted(R) THEN [result |-> "undefined"]
           ELSE [FoldLeft(LAMBDA m, s : LoadShape(R, m, s), [ids |-> << >>, mats |-> << >>, subs |-> << >>], R.shapes)
                   EXCEPT !.ids = << >>] @@ [result |-> "mesh"]
-----------------------------------------------------------------------------
ObjInit == obj = Nothing /\ objMesh = Nothing
LoadFile == obj = Nothing /\ obj' \in ObjFiles /\ objMesh' = Load(LoadObj(ObjLines(obj'), MtlFiles))
ObjNext == LoadFile
ObjSpec == ObjInit /\ [][ObjNext]_objVars
-----------------------------------------------------------------------------
(* What the lines say, without triangles, groups of faces or numbers of      *)
(* materials: the polygons of a file in order, each with the shape it is in  *)
(* and the lines of its material.                                            *)

\* The material files read before line k, one after the other; the sections of
\* a file are from one newmtl to the next.
Sections(k) ==
  LET lines == ObjLines(obj)
      libs == SelectSeq(SubSeq(lines, 1, k), LAMBDA l : l.tag = "mtllib")
      files == [i \in DOMAIN libs |-> SelectSeq(libs[i].value, LAMBDA n : n \in DOMAIN MtlFiles)]
      one(file) == LET starts == SelectSeq([i \in DOMAIN file |-> i], LAMBDA i : file[i].tag = "newmtl")
                   IN [s \in DOMAIN starts |->
                        SubSeq(file, starts[s], IF s = Len(starts) THEN Len(file) ELSE starts[s + 1] - 1)]
  IN FlattenSeq([i \in DOMAIN files |-> IF files[i] = << >> THEN << >> ELSE one(MtlFiles[files[i][1]])])

\* A line of a section by its keyword, the last one counting.
Said(section, tag, default) ==
  LET all == SelectSeq(section, LAMBDA l : l.tag = tag)
  IN IF all = << >> THEN default ELSE Last(all).value

WantedLook(section) ==
  [ambient |-> Said(section, "Ka", 0), specular |-> Said(section, "Ks", 0),
   emissive |-> Said(section, "Ke", 0), shininess |-> Said(section, "Ns", 1),
   texture |-> Said(section, "map_Kd", ""),
   diffuse |-> Said(section, "Kd", IF Said(section, "map_Kd", "") = "" THEN 0 ELSE 6),
   transparency |-> 1 - Said(section, "d", 1 - Said(section, "Tr", 0))]

SectionOf(k) ==
  LET lines == ObjLines(obj)
      uses == SelectSeq([i \in 1..k |-> i], LAMBDA i : lines[i].tag = "usemtl")
      named == IF uses = << >> THEN << >>
               ELSE SelectSeq(Sections(Last(uses)), LAMBDA s : s[1].value = lines[Last(uses)].value)
  IN IF named = << >> THEN Nothing ELSE named[1]

WantedCorner(k, c) ==
  LET Before(tag) == LET s == SelectSeq(SubSeq(ObjLines(obj), 1, k), LAMBDA l : l.tag = tag)
                     IN [i \in DOMAIN s |-> s[i].value]
      All(tag) == LET s == SelectSeq(ObjLines(obj), LAMBDA l : l.tag = tag) IN [i \in DOMAIN s |-> s[i].value]
      Value(tag, i) == All(tag)[IF i > 0 THEN i ELSE Len(Before(tag)) + 1 + i]
  IN <<Value("v", c.v), IF c.vn = << >> THEN Nothing ELSE Value("vn", c.vn[1]),
       IF c.vt = << >> THEN Nothing ELSE 1 - Value("vt", c.vt[1])>>

\* The triangles of a submesh, corner by corner.
Corners(sub) ==
  [i \in DOMAIN sub.indices |->
    LET k == sub.indices[i] + 1
    IN <<sub.verts[k], IF sub.norms = << >> THEN Nothing ELSE sub.norms[k],
         IF sub.tex = << >> THEN Nothing ELSE sub.tex[k]>>]

\* Triangles cover a polygon: each of its corners is one of the polygon's, all
\* turn the way the polygon does, and their areas make up the polygon's.
Covers(tris, polygon) ==
  LET Doubled(ps) == FoldLeft(LAMBDA a, k : LET p == ps[k][1]
                                                q == ps[(k % Len(ps)) + 1][1]
                                            IN a + p[1] * q[2] - p[2] * q[1],
                              0, [k \in DOMAIN ps |-> k])
      Tri(t) == SubSeq(tris, 3 * t - 2, 3 * t)
      n == Len(tris) \div 3
  IN /\ n = Len(polygon) - 2
     /\ ToSet(tris) \subseteq ToSet(polygon)
     /\ \A t \in 1..n : Doubled(Tri(t)) * Doubled(polygon) >= 0
     /\ FoldLeft(LAMBDA a, t : a + Doubled(Tri(t)), 0, [t \in 1..n |-> t]) = Doubled(polygon)

\* The mesh of an .obj file is what its lines say: below every group and object
\* each material has one submesh, in the order of first use, whose triangles
\* cover the polygons drawn with it one after the other, with their normals and
\* coordinates (LoadObj and OBJLoader::Load).
KeepsFaces(Look(_)) ==
  objMesh # Nothing /\ objMesh.result = "mesh" =>
    LET lines == ObjLines(obj)
        faces == SelectSeq([k \in DOMAIN lines |-> k], LAMBDA k : lines[k].tag = "f" /\ Len(lines[k].value) > 2)
        ShapeOf(k) == Cardinality({j \in 1..k : lines[j].tag \in {"g", "o"}})
        same(j, k) == ShapeOf(j) = ShapeOf(k) /\ SectionOf(j) = SectionOf(k)
        heads == SelectSeq(faces, LAMBDA k : \A j \in ToSet(faces) : j < k => ~same(j, k))
    IN /\ Len(objMesh.subs) = Len(heads)
       /\ \A h \in DOMAIN heads :
            LET sub == objMesh.subs[h]
                mine == SelectSeq(faces, LAMBDA k : same(heads[h], k))
                Size(i) == 3 * (Len(lines[mine[i]].value) - 2)
                Start(i) == FoldLeft(LAMBDA a, j : a + Size(j), 0, [j \in 1..(i - 1) |-> j])
            IN /\ Look(objMesh.mats[sub.material + 1]) = Look(WantedLook(SectionOf(heads[h])))
               /\ \A i \in DOMAIN mine :
                    Covers(SubSeq(Corners(sub), Start(i) + 1, Start(i) + Size(i)),
                           [c \in DOMAIN lines[mine[i]].value |-> WantedCorner(mine[i], lines[mine[i]].value[c])])
               /\ Len(sub.indices) = FoldLeft(LAMBDA a, j : a + Size(j), 0, [j \in DOMAIN mine |-> j])

\* All but the diffuse colour: it is 6 tenths without a colour of its own only
\* while no material before it in the file had one.
ObjKeepsFaces == KeepsFaces(LAMBDA m : [w \in DOMAIN m \ {"diffuse"} |-> m[w]])

\* LoadMtl's comment: "Set a decent diffuse default value if a diffuse texture
\* is specified without a matching Kd value."
TexturesHaveAColour == KeepsFaces(LAMBDA m : m)
=============================================================================
