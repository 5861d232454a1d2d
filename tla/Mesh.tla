-------------------------------- MODULE Mesh --------------------------------
(***************************************************************************)
(* What Mesh.cc, SubMesh.cc and MeshCSG.cc compute, and the shapes         *)
(* MeshManager.cc builds, as index arithmetic.  A mesh is a sequence of    *)
(* submeshes.  A vertex is the place it stands for, a triple of integers:  *)
(* two vertices have the same place exactly when the code gives them the   *)
(* same coordinates.  On a round shape that is <<layer, ring, segment>>,   *)
(* where the last segment meets the first and a point of the axis has      *)
(* segment -1; on a box it is the corner itself.  Of normals and texture   *)
(* coordinates only the number counts.  Indices are 0-based, as in the code. *)
(***************************************************************************)
EXTENDS Integers, Sequences, SequencesExt, FiniteSets, FiniteSetsExt

\* kind is for the properties only: "solid", "box" or "sheet".
Shape(kind, vertices, normals, texCoords, indices) ==
  [kind |-> kind, vertices |-> vertices, normals |-> normals, texCoords |-> texCoords,
   indices |-> indices]

\* One place per ring 0..rings and per segment 0..segments, ring by ring.
Grid(rings, segments, Place(_, _)) ==
  [k \in 1..((rings + 1) * (segments + 1)) |->
     Place((k - 1) \div (segments + 1), (k - 1) % (segments + 1))]

Axis(layer, ring) == <<layer, ring, -1>>

\* Mutant: the second triangle turned round.
TwistedStrip(v, s) == <<v + s + 1, v, v + s>> \o <<v + s + 1, v, v + 1>>

\* The two triangles a vertex of a ring spans with its neighbours of the next.
Strip(v, s) == <<v + s + 1, v, v + s>> \o <<v + s + 1, v + 1, v>>

\* What f gives for 0, 1, ..., n - 1, one after the other.
Each(n, f(_)) == FlattenSeq([i \in 1..n |-> f(i - 1)])

CreateSphere(rings, segments) ==
  LET Place(ring, seg) ==
        IF ring \in {0, rings} THEN Axis(0, ring) ELSE <<0, ring, seg % segments>>
      vertices == Grid(rings, segments, Place)
  IN Shape("solid", vertices, Len(vertices), Len(vertices),
           Each(rings * (segments + 1), LAMBDA v : Strip(v, segments)))

CreateCylinder(rings, segments) ==
  LET Place(ring, seg) == <<0, ring, seg % segments>>
      side  == Grid(rings, segments, Place)
      cap(ring) == Append([k \in 1..(segments + 1) |-> Place(ring, k - 1)], Axis(0, ring))
      vertices == side \o cap(rings) \o cap(0)
      top   == Len(side) + segments + 1
      bottom == Len(vertices) - 1
  IN Shape("solid", vertices, Len(vertices), Len(vertices),
       Each(rings * (segments + 1), LAMBDA v : Strip(v, segments))
       \o Each(segments, LAMBDA seg : <<top, top - segments + seg, top - segments + seg - 1>>)
       \o Each(segments, LAMBDA seg : <<bottom, bottom - segments + seg - 1,
                                                bottom - segments + seg>>))

CreateCone(rings, wanted) ==
  LET segments == IF wanted < 3 THEN 3 ELSE wanted
      Place(ring, seg) == <<0, ring, seg % segments>>
      side == Grid(rings - 1, segments, Place)
      vertices == side \o <<Axis(0, rings), Axis(0, 0)>>
      top == (rings - 1) * (segments + 1) + segments + 1
  IN Shape("solid", vertices, Len(vertices), Len(vertices),
       Each((rings - 1) * (segments + 1), LAMBDA v : Strip(v, segments))
       \o Each(segments, LAMBDA seg : <<top, top - segments + seg, top - segments + seg - 1>>)
       \o Each(segments, LAMBDA seg : <<top + 1, seg, seg + 1>>))

\* The ends of a tube whose arc is no full circle, ring by ring.
TubeEnds(rings, s) ==
  Each(rings, LAMBDA ring :
    LET n == s + 1
        up == n * (ring + 1)             low == n * ring
        in == n * ((rings + 1) * 2 - 2 - ring)
        far == n * ((rings + 1) * 2 - 1 - ring)
    IN <<up, low, in, in, low, far>>
       \o <<in + s, far + s, up + s, up + s, far + s, low + s>>)

CreateTube(wantedRings, wantedSegments, full) ==
  LET rings == IF wantedRings < 1 THEN 1 ELSE wantedRings
      s == IF wantedSegments < 3 THEN 3 ELSE wantedSegments
      turn(seg) == IF full THEN seg % s ELSE seg
      outer == Grid(rings, s, LAMBDA ring, seg : <<1, ring, turn(seg)>>)
      inner == Grid(rings, s, LAMBDA ring, seg : <<0, rings - ring, turn(seg)>>)
      \* the triangles between ring and ring + 1 at the vertex v
      wall(ring, seg, v) ==
        (IF ring # rings /\ seg # 0 THEN <<v + s + 1, v, v + s>> ELSE << >>)
        \o (IF ring # rings /\ seg # s THEN <<v + s + 1, v + 1, v>> ELSE << >>)
      cap(ring, seg, v) ==
        IF ring = rings /\ seg # s
        THEN <<v, v + s + 1, v + 1, v + 1, v + s + 1, v + s + 2>> ELSE << >>
      base(ring, seg, v) ==
        LET last == v + (s + 1) * (((rings + 1) * 2) - 1)
        IN IF ring = 0 /\ seg < s
           THEN <<v + 1, last, v, last + 1, last, v + 1>> ELSE << >>
      corner(v) == <<v \div (s + 1), v % (s + 1)>>
      outside(v) == wall(corner(v)[1], corner(v)[2], v) \o cap(corner(v)[1], corner(v)[2], v)
                    \o base(corner(v)[1], corner(v)[2], v)
      inside(v) == wall(corner(v)[1], corner(v)[2], v + Len(outer))
  IN Shape("solid", outer \o inner, Len(outer) + Len(inner), Len(outer) + Len(inner),
           Each(Len(outer), outside) \o Each(Len(inner), inside)
           \o (IF full THEN << >> ELSE TubeEnds(rings, s)))

\* The triangles of a grid, row by row; the second side runs from the last row.
Tesselate2DMesh(width, height, doubleSided) ==
  LET cell(row, inc, u) ==
        LET this == row * width + u   next == (row + inc) * width + u
        IN <<next, this, next + 1, next + 1, this, this + 1>>
      side(first, inc) ==
        Each((height - 1) * (width - 1), LAMBDA c :
          cell(first + inc * (c \div (width - 1)), inc, c % (width - 1)))
  IN side(0, 1) \o (IF doubleSided THEN side(height - 1, -1) ELSE << >>)

\* Two layers of vertices; the triangles use the first.
CreatePlane(xs, ys) ==
  LET layer(i) == Grid(ys, xs, LAMBDA y, x : <<i, y, x>>)
      vertices == layer(0) \o layer(1)
  IN Shape("sheet", vertices, Len(vertices), Len(vertices),
           Tesselate2DMesh(xs + 1, ys + 1, FALSE))

Corners == << <<-1, -1, -1>>, <<-1, -1, 1>>, <<1, -1, 1>>, <<1, -1, -1>>,
              <<-1, 1, -1>>, <<-1, 1, 1>>, <<1, 1, 1>>, <<1, 1, -1>> >>
Faces == << <<2, 1, 0, 3>>, <<5, 6, 7, 4>>, <<2, 6, 5, 1>>,
            <<1, 5, 4, 0>>, <<0, 4, 7, 3>>, <<6, 2, 3, 7>> >>
BoxIndices ==
  <<0, 1, 2, 2, 3, 0,        4, 5, 7, 7, 5, 6,        11, 8, 9, 9, 10, 11,
    12, 13, 15, 15, 13, 14,  16, 17, 18, 18, 19, 16,  21, 22, 23, 23, 20, 21>>

\* sides are the halves of the sides.
BoxVertices(sides) ==
  Each(6, LAMBDA f : [k \in 1..4 |->
    [c \in 1..3 |-> Corners[Faces[f + 1][k] + 1][c] * sides[c]]])

CreateBox(sides) == Shape("box", BoxVertices(sides), 24, 24, BoxIndices)
CreateCamera(scale) == Shape("box", BoxVertices(<<scale, scale, scale>>), 24, 0, BoxIndices)
-----------------------------------------------------------------------------
(* Extruded polylines: points of the plane are pairs of integers.           *)

\* The loop ends where it starts.
CloseLoop(poly) == IF poly[1] = poly[Len(poly)] THEN poly ELSE Append(poly, poly[1])

AddUniquePointToVerticesTable(vertices, p) ==
  IF p \in ToSet(vertices) THEN vertices ELSE Append(vertices, p)

\* The distinct points of the loops, and the edges between them by number.
ConvertPolylinesToVerticesAndEdges(polys) ==
  LET add(table, edge) ==
        LET vertices == AddUniquePointToVerticesTable(
                          AddUniquePointToVerticesTable(table.vertices, edge[1]), edge[2])
            at(p) == CHOOSE i \in 1..Len(vertices) : vertices[i] = p
        IN [vertices |-> vertices,
            edges |-> IF edge[1] = edge[2] THEN table.edges
                      ELSE Append(table.edges, <<at(edge[1]), at(edge[2])>>)]
      sides(poly) == [i \in 1..(Len(poly) - 1) |-> <<poly[i], poly[i + 1]>>]
  IN FoldLeft(add, [vertices |-> << >>, edges |-> << >>],
              FlattenSeq([n \in DOMAIN polys |-> sides(polys[n])]))

\* Twice the signed area of a triangle of the plane.
Turn(a, b, c) == (b[1] - a[1]) * (c[2] - a[2]) - (b[2] - a[2]) * (c[1] - a[1])

\* For each edge and each triangle that has both its ends: is the outward
\* normal, away from the third corner, to the left of the edge?
EdgeNormals(vertices, edges, triangles) ==
  FlattenSeq([e \in DOMAIN edges |->
    LET a == vertices[edges[e][1]]   b == vertices[edges[e][2]]
        having == SelectSeq(triangles, LAMBDA t : {a, b} \subseteq ToSet(t))
    IN [k \in DOMAIN having |->
          LET third == CHOOSE p \in ToSet(having[k]) : p \notin {a, b}
          IN Turn(a, b, third) < 0]])

\* triangles: what the external triangulation made of the vertices and edges,
\* clockwise, as FillFace turns them.  "none": no mesh is kept.
CreateExtrudedPolyline(polys, triangles, height) ==
  LET table == ConvertPolylinesToVerticesAndEdges([n \in DOMAIN polys |-> CloseLoop(polys[n])])
      normals == EdgeNormals(table.vertices, table.edges, triangles)
      n == Len(table.vertices)
      at(p) == (CHOOSE i \in 1..n : table.vertices[i] = p) - 1
      lift(p, z) == <<p[1], p[2], z>>
      bottom == Each(Len(triangles), LAMBDA t : [c \in 1..3 |-> at(triangles[t + 1][c])])
      top == Each(Len(triangles), LAMBDA t :
               <<n + bottom[3 * t + 1], n + bottom[3 * t + 3], n + bottom[3 * t + 2]>>)
      side(e) ==
        LET a == table.vertices[table.edges[e + 1][1]]
            b == table.vertices[table.edges[e + 1][2]]
            a0 == lift(a, 0)   a1 == lift(a, height)
            b0 == lift(b, 0)   b1 == lift(b, height)
        IN IF normals[e + 1] THEN <<a0, a1, b1, a0, b1, b0>> ELSE <<a0, b1, a1, a0, b0, b1>>
      vertices == [i \in 1..n |-> lift(table.vertices[i], 0)]
                  \o [i \in 1..n |-> lift(table.vertices[i], height)]
                  \o Each(Len(table.edges), side)
  IN IF table.edges = << >> \/ Len(normals) # Len(table.edges) THEN "none"
     ELSE Shape("solid", vertices, Len(vertices), 0,
                bottom \o top \o [i \in 1..(6 * Len(table.edges)) |-> 2 * n + i - 1])
-----------------------------------------------------------------------------
\* The triangles of a shape by the places of their corners, without the flat ones.
Triangles(shape) ==
  LET corner(i) == shape.vertices[shape.indices[i] + 1]
      all == [t \in 1..(Len(shape.indices) \div 3) |->
                <<corner(3 * t - 2), corner(3 * t - 1), corner(3 * t)>>]
  IN SelectSeq(all, LAMBDA t : Cardinality(ToSet(t)) = 3)

DirectedEdges(triangles) ==
  Each(Len(triangles), LAMBDA t : [c \in 1..3 |->
    <<triangles[t + 1][c], triangles[t + 1][(c % 3) + 1]>>])

InRange(shape) == \A i \in DOMAIN shape.indices : shape.indices[i] \in 0..(Len(shape.vertices) - 1)

\* Every edge is walked once in each direction: the surface has no hole and
\* all its triangles face the same side.
IsClosed(shape) ==
  LET edges == DirectedEdges(Triangles(shape))
  IN /\ IsInjective(edges)
     /\ \A e \in ToSet(edges) : <<e[2], e[1]>> \in ToSet(edges)

\* The same surface turned inside out is closed too: the signed volume of a
\* shape with real coordinates, six times, tells them apart.
SignedVolume(shape) ==
  LET det(t) == t[1][1] * (t[2][2] * t[3][3] - t[2][3] * t[3][2])
              - t[1][2] * (t[2][1] * t[3][3] - t[2][3] * t[3][1])
              + t[1][3] * (t[2][1] * t[3][2] - t[2][2] * t[3][1])
  IN FoldLeft(LAMBDA sum, t : sum + det(t), 0, Triangles(shape))
-----------------------------------------------------------------------------
(* Meshes.                                                                 *)
CONSTANT Epsilon   \* how near two vertices must be for the surface to merge them

Zero == <<0, 0, 0>>
Plus(a, b) == [c \in 1..3 |-> a[c] + b[c]]
Minus(a, b) == [c \in 1..3 |-> a[c] - b[c]]
Times(a, b) == [c \in 1..3 |-> a[c] * b[c]]

\* SubMesh::Max and Min: the corner of a submesh without vertices is the origin.
SubMax(sub) == IF sub.vertices = << >> THEN Zero
               ELSE [c \in 1..3 |-> Max({v[c] : v \in ToSet(sub.vertices)})]
SubMin(sub) == IF sub.vertices = << >> THEN Zero
               ELSE [c \in 1..3 |-> Min({v[c] : v \in ToSet(sub.vertices)})]
MeshMax(mesh) == IF mesh = << >> THEN Zero
                 ELSE [c \in 1..3 |-> Max({SubMax(s)[c] : s \in ToSet(mesh)})]
MeshMin(mesh) == IF mesh = << >> THEN Zero
                 ELSE [c \in 1..3 |-> Min({SubMin(s)[c] : s \in ToSet(mesh)})]

Moved(sub, by) == [sub EXCEPT !.vertices = [v \in DOMAIN @ |-> Plus(@[v], by)]]
Translate(mesh, by) == [s \in DOMAIN mesh |-> Moved(mesh[s], by)]
Scale(mesh, factor) ==
  [s \in DOMAIN mesh |->
     [mesh[s] EXCEPT !.vertices = [v \in DOMAIN @ |-> Times(@[v], factor)]]]
Center(mesh, at) ==
  LET half == [c \in 1..3 |-> (MeshMax(mesh)[c] - MeshMin(mesh)[c]) \div 2]
  IN Translate(mesh, Minus(at, Plus(MeshMin(mesh), half)))

GenSphericalTexCoord(mesh) ==
  [s \in DOMAIN mesh |-> [mesh[s] EXCEPT !.texCoords = Len(mesh[s].vertices)]]

\* Fewer than three normals: a submesh is left as it is.
RecalculateNormals(mesh) ==
  [s \in DOMAIN mesh |->
     IF mesh[s].normals < 3 THEN mesh[s]
     ELSE [mesh[s] EXCEPT !.normals = Len(mesh[s].vertices)]]

\* Six times the volume: the tetrahedra to the origin, whatever their sign.
Volume(sub) ==
  LET six(t) == SignedVolume([vertices |-> t, indices |-> <<0, 1, 2>>])
      size(n) == IF n < 0 THEN -n ELSE n
  IN IF Len(sub.indices) % 3 # 0 THEN 0
     ELSE FoldLeft(LAMBDA sum, t : sum + size(six(t)), 0, Triangles(sub))

\* Mutant: the first index.
FirstIndex(sub) == IF sub.indices = << >> THEN 0 ELSE sub.indices[1]

MaxIndex(sub) == IF sub.indices = << >> THEN 0 ELSE Max(ToSet(sub.indices))

\* All the vertices, and the indices of each submesh shifted past those before
\* it.  A submesh with vertices and no indices hands memcpy a null pointer.
FillArrays(mesh) ==
  LET offset(s) == FoldLeft(LAMBDA sum, sub : sum + MaxIndex(sub) + 1, 0, SubSeq(mesh, 1, s - 1))
      shifted(s) == IF mesh[s].vertices = << >> THEN << >>
                    ELSE [i \in DOMAIN mesh[s].indices |-> mesh[s].indices[i] + offset(s)]
  IN IF \E s \in DOMAIN mesh : mesh[s].vertices # << >> /\ mesh[s].indices = << >>
     THEN "crash"
     ELSE [vertices |-> FlattenSeq([s \in DOMAIN mesh |-> mesh[s].vertices]),
           indices |-> FlattenSeq([s \in DOMAIN mesh |-> shifted(s)])]
-----------------------------------------------------------------------------
(* MeshCSG: the surface the library for solids is given.                    *)

Near(a, b) == \A c \in 1..3 : a[c] - b[c] \in -Epsilon..Epsilon

\* Mutant: vertices are merged with their neighbour in the array only.
MergeNeighbours(vertices) ==
  [i \in DOMAIN vertices |-> IF i > 1 /\ Near(vertices[i], vertices[i - 1])
                             THEN vertices[i - 1] ELSE vertices[i]]

\* In order, each vertex is kept or gives way to the first kept vertex near it;
\* the array then names, place by place, the vertex that is left.
MergeVertices(vertices) ==
  LET take(merged, v) ==
        LET near == SelectSeq(merged, LAMBDA m : Near(m, v))
        IN Append(merged, IF near = << >> THEN v ELSE near[1])
  IN FoldLeft(take, << >>, vertices)

\* The array of vertices grows from submesh to submesh, and the indices of
\* each are looked up in all of it.
ConvertMeshToGTS(mesh) ==
  LET convert(surface, sub) ==
        LET vertices == MergeVertices(surface.vertices \o sub.vertices)
            corners == [t \in 1..(Len(sub.indices) \div 3) |->
                          [c \in 1..3 |-> vertices[sub.indices[3 * (t - 1) + c] + 1]]]
        IN IF Len(sub.vertices) <= 2 THEN surface
           ELSE [vertices |-> vertices,
                 faces |-> surface.faces
                   \o SelectSeq(corners, LAMBDA t : Cardinality(ToSet(t)) = 3)]
  IN FoldLeft(convert, [vertices |-> << >>, faces |-> << >>], mesh).faces

\* The second operand of CreateBoolean: moved, without its small submeshes.
Placed(mesh, offset) ==
  IF offset = Zero THEN mesh
  ELSE LET large == SelectSeq(mesh, LAMBDA m : Len(m.vertices) > 2)
       IN Translate([s \in DOMAIN large |->
                       [large[s] EXCEPT !.normals = 0, !.texCoords = 0]], offset)
=============================================================================
