------------------------------ MODULE Collada -------------------------------
(***************************************************************************)
(* ColladaExporter.cc: the document a mesh is written to; and a loader and *)
(* an exporter in use: one loader reads several documents, and what it read *)
(* is written and read again.  Names with numbers in them are pairs: what  *)
(* they are the name of and a number.                                      *)
(***************************************************************************)
EXTENDS ColladaLoader

\* Names: "mesh_0-Positions" and the like are strings of two numbers' width.
Name(what, i) == what \o ToString(i)
El(tag, at, kids) == E(tag, at, << >>, kids)
Leaf(tag, text) == E(tag, << >>, text, << >>)

ExportGeometrySource(id, values, stride) ==
  El("source", [id |-> id, name |-> id],
     <<E("float_array", [count |-> Len(values), id |-> id \o "-array"], values, << >>),
       El("technique_common", << >>,
          <<El("accessor", [count |-> Len(values) \div stride, source |-> id \o "-array",
                            stride |-> stride], << >>)>>)>>)

\* For the mutants: coordinates are written as they are read.
TexCoordsAsRead(tex) == FlattenSeq(tex)
\* Coordinates are turned over once more.
TexCoords(tex) == FlattenSeq([i \in DOMAIN tex |-> <<tex[i][1], 1 - tex[i][2]>>])

\* A submesh is written as triangles over one list of indices, with the material
\* of its own number.
ExportGeometry(L, i) ==
  LET sub == L.subs[i]
      id == Name("mesh_", i)
      Of(what) == id \o what
      textured == sub.tex # << >>
      input(n, semantic, what) ==
        El("input", [offset |-> n, semantic |-> semantic, source |-> Of(what)], << >>)
      repeat == [k \in 1..(IF textured THEN 3 ELSE 2) |-> k]
      p == FlattenSeq([j \in DOMAIN sub.indices |-> [k \in DOMAIN repeat |-> sub.indices[j]]])
      at == [count |-> Len(sub.indices) \div 3]
  IN El("geometry", [id |-> id], <<El("mesh", << >>,
       <<ExportGeometrySource(Of("-Positions"), sub.verts, 1),
         ExportGeometrySource(Of("-Normals"), sub.norms, 1)>>
       \o (IF textured THEN <<ExportGeometrySource(Of("-UVMap"), TexCoords(sub.tex), 2)>> ELSE << >>)
       \o <<El("vertices", [id |-> Of("-Vertex"), name |-> Of("-Vertex")],
               <<El("input", [semantic |-> "POSITION", source |-> Of("-Positions")], << >>)>>),
            El("triangles", IF L.mats = << >> THEN at ELSE [material |-> Name("material_", i)] @@ at,
               <<input(0, "VERTEX", "-Vertex"), input(1, "NORMAL", "-Normals")>>
               \o (IF textured THEN <<input(2, "TEXCOORD", "-UVMap")>> ELSE << >>)
               \o <<Leaf("p", p)>>)>>)>>)

\* Only textures kept in a directory of meshes are written, under their last name.
\* Textures are "" or such a name here.
ExportImages(mats) ==
  LET textured == SelectSeq([i \in DOMAIN mats |-> i], LAMBDA i : mats[i].texture # "")
  IN [k \in DOMAIN textured |-> El("image", [id |-> Name("image_", textured[k])],
        <<Leaf("init_from", mats[textured[k]].texture)>>)]

ExportMaterials(mats) ==
  [i \in DOMAIN mats |-> El("material", [id |-> Name("material_", i)],
     <<El("instance_effect", [url |-> Name("material_", i) \o "_fx"], << >>)>>)]

\* Shininess is written as a colour, transparency without what says how it is
\* to be used: neither is read again.
ExportEffect(mats, i) ==
  LET mat == mats[i]
      Param(what, kid) == El("newparam", [sid |-> Name("image_", i) \o what], <<kid>>)
      Colour(what) == El(what, << >>, <<Leaf("color", mat[what])>>)
      sampled == IF mat.texture = "" THEN << >>
                 ELSE <<Param("_surface", El("surface", [type |-> "2D"],
                                             <<Leaf("init_from", Name("image_", i))>>)),
                        Param("_sampler", El("sampler2D", << >>,
                                             <<Leaf("source", Name("image_", i) \o "_surface")>>))>>
      diffuse == IF mat.texture = "" THEN Colour("diffuse")
                 ELSE El("diffuse", << >>,
                         <<El("texture", [texture |-> Name("image_", i), texcoord |-> "UVSET0"], << >>)>>)
      phong == El("phong", << >>,
        <<Colour("ambient"), Colour("emission"), diffuse, Colour("specular"),
          El("transparency", << >>, <<Leaf("float", mat.transparency)>>),
          El("shininess", << >>, <<Leaf("color", mat.shininess)>>)>>)
  IN El("effect", [id |-> Name("material_", i) \o "_fx"],
        <<El("profile_COMMON", << >>,
             sampled \o <<El("technique", [sid |-> "COMMON"], <<phong>>)>>)>>)

\* One node with an instance of every geometry, bound to the material of its number.
ExportVisualScenes(L) ==
  LET bind(i) == IF i \notin DOMAIN L.mats THEN << >>
                 ELSE <<El("bind_material", << >>, <<El("technique_common", << >>,
                          <<El("instance_material", [symbol |-> Name("material_", i),
                                                     target |-> Name("material_", i)], << >>)>>)>>)>>
  IN El("visual_scene", [id |-> "Scene", name |-> "Scene"],
        <<El("node", [id |-> "node", name |-> "node"],
             [i \in DOMAIN L.subs |-> El("instance_geometry", [url |-> Name("mesh_", i)], bind(i))])>>)

\* Export: the whole document.
Export(L) ==
  LET library == IF L.mats = << >> THEN << >>
                 ELSE (IF ExportImages(L.mats) = << >> THEN << >>
                       ELSE <<El("library_images", << >>, ExportImages(L.mats))>>)
                      \o <<El("library_materials", << >>, ExportMaterials(L.mats)),
                           El("library_effects", << >>,
                              [i \in DOMAIN L.mats |-> ExportEffect(L.mats, i)])>>
  IN El("COLLADA", [version |-> "1.4.1"],
       <<El("library_geometries", << >>, [i \in DOMAIN L.subs |-> ExportGeometry(L, i)])>>
       \o library
       \o <<El("library_visual_scenes", << >>, <<ExportVisualScenes(L)>>),
            El("scene", << >>, <<El("instance_visual_scene", [url |-> "Scene"], << >>)>>)>>)
-----------------------------------------------------------------------------
CONSTANTS Files,         \* the files there are
          Document(_),   \* what is in a file
          Again,         \* bound: the files read when another was read before
          MaxLoads       \* bound: documents read by one loader

VARIABLES
  loader,   \* the loader after the last document: what it made is in it
  doc,      \* the document that is or was read, or None
  opened,   \* whether it is still to be read
  expected, \* the faces the document was written from, or None
  loads     \* how many documents were opened

vars == <<loader, doc, opened, expected, loads>>

Init == /\ loader = [name |-> "", materialMap |-> << >>] @@ Fresh
        /\ doc = None /\ opened = FALSE /\ expected = None /\ loads = 0

\* What a reader of the mesh sees of its materials, and of what is kept of
\* them when they are written.
Look(mat) == [w \in {"ambient", "emission", "diffuse", "specular", "texture"} |-> mat[w]]

\* The corners of every submesh in order: position, normal, texture coordinate,
\* and the names and weights of the nodes; and the submesh's material.
Faces(L) ==
  [s \in DOMAIN L.subs |->
     LET sub == L.subs[s]
         One(seq, i) == IF seq = << >> THEN None ELSE <<At(seq, i)>>
         Hung(i) == {<<L.skeleton.nodes[w[2] + 1].name, w[3]>> : w \in {x \in sub.weights : x[1] = i}}
     IN [material |-> IF sub.material = -1 THEN None ELSE Look(L.mats[sub.material + 1]),
         corners |-> [c \in DOMAIN sub.indices |->
           LET i == sub.indices[c]
           IN <<At(sub.verts, i), One(sub.norms, i), One(sub.tex, i), Hung(i)>>]]]

Open(d) == /\ ~opened /\ loads < MaxLoads /\ loads' = loads + 1
           /\ doc' = d /\ opened' = TRUE /\ UNCHANGED loader

Read(f) == (loads > 0 => f \in Again) /\ Open(Document(f)) /\ expected' = None

\* The elements are gone when Load returns.
LoadIt ==
  /\ opened /\ opened' = FALSE
  /\ loader' = [Load(loader, doc) EXCEPT !.doc = None, !.scene = None]
  /\ UNCHANGED <<doc, expected, loads>>

\* A mesh of faces with normals, each submesh with the material of its number
\* or none at all, is written and read again.
Writable(L) ==
  \A s \in DOMAIN L.subs : L.subs[s].type = "triangles" /\ L.subs[s].verts # << >>
    /\ L.subs[s].norms # << >> /\ (L.mats = << >> \/ L.subs[s].material = s - 1)

Write ==
  /\ loads > 0 /\ Writable(loader) /\ Open(Export(loader))
  /\ expected' = [f \in DOMAIN Faces(loader) |-> [Faces(loader)[f] EXCEPT
                    !.corners = [c \in DOMAIN @ |-> [@[c] EXCEPT ![4] = {}]]]]

Next == (\E f \in Files : Read(f)) \/ LoadIt \/ Write

Spec == Init /\ [][Next]_vars
-----------------------------------------------------------------------------
(* What a document says, read from its elements alone: no cache, no index    *)
(* that is mapped, no vertex that is shared.                                 *)

SourceText(d, id) == Child(ElementId(d, "source", id), "float_array").text

\* The value an input gives a corner: None without the input.
WantedValue(d, prim, semantic, corner, Value(_, _)) ==
  LET given == Input(prim, semantic)
  IN IF given = << >> THEN None
     ELSE <<Value(SourceText(d, given[1].at.source), corner[given[1].at.offset + 1])>>

WantedCorner(d, prim, t, place, hung, corner) ==
  LET vertices == ElementId(d, "vertices", Input(prim, "VERTEX")[1].at.source)
      v == corner[Input(prim, "VERTEX")[1].at.offset + 1]
      own == Input(vertices, "NORMAL")
      Normal(text, i) == Sign(t[1] * At(text, i))
      Stride == Child(Child(ElementId(d, "source", Input(prim, "TEXCOORD")[1].at.source),
                            "technique_common"), "accessor").at.stride
      normal == WantedValue(d, prim, "NORMAL", corner, Normal)
  IN <<Moved(place, Moved(t, At(SourceText(d, Input(vertices, "POSITION")[1].at.source), v))),
       IF normal = None /\ own # << >> THEN <<Normal(SourceText(d, own[1].at.source), v)>> ELSE normal,
       WantedValue(d, prim, "TEXCOORD", corner,
                   LAMBDA text, i : <<At(text, Stride * i), 1 - At(text, Stride * i + 1)>>),
       IF v + 1 \in DOMAIN hung THEN hung[v + 1] ELSE {}>>

WantedMaterial(d, prim, bound) ==
  The({IF symbol = "" \/ mat = None THEN None ELSE Look(mat) :
         symbol \in {Attribute(prim, "material")},
         mat \in {MaterialOf([doc |-> d], IF Attribute(prim, "material") \in DOMAIN bound
                                         THEN bound[Attribute(prim, "material")]
                                         ELSE Attribute(prim, "material"))}})

\* The corners of the triangles by their number in the text, from 0.
WantedOrder(counts) ==
  LET start(k) == FoldLeft(LAMBDA a, b : a + b, 0, SubSeq(counts, 1, k - 1))
  IN FlattenSeq([k \in DOMAIN counts |-> FlattenSeq([j \in 1..(counts[k] - 2) |->
       <<start(k), start(k) + j, start(k) + 1 + j>>])])

WantedPrimitive(d, prim, t, place, hung, bound) ==
  The({[material |-> WantedMaterial(d, prim, bound),
        corners |-> [c \in DOMAIN order |->
          WantedCorner(d, prim, t, place, hung, SubSeq(p, order[c] * size + 1, (order[c] + 1) * size))]] :
         p \in {Child(prim, "p").text}, size \in {Len(Kids(prim, "input"))},
         order \in {WantedOrder(IF prim.tag = "polylist" THEN Child(prim, "vcount").text
                                 ELSE [k \in 1..(Len(Child(prim, "p").text) \div (3 * Len(Kids(prim, "input")))) |-> 3])}})

WantedGeometry(d, id, t, place, hung, bound) ==
  The({[k \in DOMAIN prims |-> WantedPrimitive(d, prims[k], t, place, hung, bound)] : prims \in
         {Kids(mesh, "triangles") \o Kids(mesh, "polylist") : mesh \in
            {Child(ElementId(d, "geometry", id), "mesh")}}})

\* The weights a skin gives its vertices, read as pairs.
WantedWeights(d, skin) ==
  LET vw == Child(skin, "vertex_weights")
      joints == Child(ElementId(d, "source", Input(Child(skin, "joints"), "JOINT")[1].at.source), "Name_array").text
      weights == SourceText(d, Input(vw, "WEIGHT")[1].at.source)
      j == Input(vw, "JOINT")[1].at.offset
      v == Child(vw, "v").text
      vcount == Child(vw, "vcount").text
      start(i) == FoldLeft(LAMBDA a, b : a + b, 0, SubSeq(vcount, 1, i - 1))
  IN [i \in DOMAIN vcount |-> { <<joints[v[2 * k + 1 + j] + 1], weights[v[2 * k + 2 - j] + 1]>> :
                                  k \in start(i)..(start(i) + vcount[i] - 1) }]

WantedInstance(d, i, t) ==
  IF i.tag = "instance_geometry" THEN WantedGeometry(d, i.at.url, t, Identity, << >>, Bindings(i))
  ELSE The({WantedGeometry(d, skin.at.source, t, Child(skin, "bind_shape_matrix").text,
                           WantedWeights(d, skin), Bindings(i)) :
              skin \in {Child(ElementId(d, "controller", i.at.url), "skin")}})

RECURSIVE WantedNode(_, _, _)
WantedNode(d, e, above) ==
  The({FlattenSeq([k \in DOMAIN below |-> WantedNode(d, below[k], t)]
                  \o [k \in DOMAIN Instances(e) |-> WantedInstance(d, Instances(e)[k], t)]) :
         t \in {Compose(above, LoadNodeTransform(e))},
         below \in {Kids(e, "node") \o [k \in DOMAIN Kids(e, "instance_node") |->
                      ElementId(d, "node", Kids(e, "instance_node")[k].at.url)]}})

Scene(d) == ElementId(d, "visual_scene",
                        Child(Child(d, "scene"), "instance_visual_scene").at.url)
Unit(d) == IF Has(d, "asset") THEN Child(Child(d, "asset"), "unit").at.meter ELSE 1
WantedFaces(d) ==
  The({[s \in DOMAIN all |-> [all[s] EXCEPT !.corners = [c \in DOMAIN @ |-> [@[c] EXCEPT ![1] = Unit(d) * @]]]] :
         all \in {FlattenSeq([k \in DOMAIN Kids(Scene(d), "node") |->
                                WantedNode(d, Kids(Scene(d), "node")[k], Identity)])}})
-----------------------------------------------------------------------------
Loaded == doc # None /\ ~opened

\* Where a geometry is used: by which nodes' transformations.
RECURSIVE Uses(_, _, _)
Uses(d, e, above) ==
  LET t == Compose(above, LoadNodeTransform(e))
  IN UNION ({Uses(d, k, t) : k \in ToSet(Kids(e, "node"))}
       \cup {Uses(d, ElementId(d, "node", k.at.url), t) : k \in ToSet(Kids(e, "instance_node"))})
     \cup {<<k.at.url, t>> : k \in ToSet(Kids(e, "instance_geometry"))}

\* Each geometry is placed once.
PlacedOnce(d) == LET all == UNION {Uses(d, e, Identity) : e \in ToSet(Kids(Scene(d), "node"))}
                   IN \A a, b \in all : a[1] = b[1] => a[2] = b[2]

\* The faces of the mesh are the document's: every corner has its position
\* where its node is, its normal, its texture coordinate and its weights, and
\* every submesh its material, whatever is shared, repeated or read earlier.
FacesAreTheDocuments ==
  Loaded /\ PlacedOnce(doc) => Faces(loader) = WantedFaces(doc)

\* LoadPositions and LoadNormals document their transformation as the one "to
\* apply to all positions" and "to all normals": wherever a geometry is placed.
EveryPlaceIsItsOwn == Loaded => Faces(loader) = WantedFaces(doc)

\* A mesh that was written and read again has the faces it had.
ExportReadsBack == Loaded /\ expected # None => Faces(loader) = expected
-----------------------------------------------------------------------------
\* A key frame as the channels of a set say it: each component of each
\* transformation of the node by name, from the last channel that writes it then.
WantedKey(d, set, node, time) ==
  LET channels == FlattenSeq([k \in DOMAIN Kids(set, "animation") |->
                                Kids(Kids(set, "animation")[k], "channel")])
      Of(c, semantic) == ElementId(d, "source",
                           Input(ElementId(d, "sampler", c.at.source), semantic)[1].at.source)
      Times(c) == Child(Of(c, "INPUT"), "float_array").text
      mine(raw) == SelectSeq(channels, LAMBDA c : /\ c.at.bone = node.id /\ c.at.sid = raw.sid
                                                  /\ time \in ToSet(Times(c)))
      Value(c, i, k, n) == Child(Of(c, "OUTPUT"), "float_array").text[n * (i - 1) + k]
      Set(raw, c) ==
        LET i == CHOOSE i \in DOMAIN Times(c) : Times(c)[i] = time
            whole == SetToSortSeq(DOMAIN raw.source, <)
        IN [raw EXCEPT !.source =
             IF c.at.part = << >>
             THEN [x \in DOMAIN @ |-> Value(c, i, CHOOSE k \in DOMAIN whole : whole[k] = x, Len(whole))]
             ELSE (IF Len(c.at.part) = 1 THEN c.at.part[1] ELSE 4 * c.at.part[1] + c.at.part[2])
                    :> Value(c, i, 1, 1) @@ @]
      written == [r \in DOMAIN node.raw |-> FoldLeft(Set, node.raw[r], mine(node.raw[r]))]
  IN Product([r \in DOMAIN written |-> RecalculateMatrix(written[r])])

Sets(d) == IF ~Has(d, "library_animations") THEN << >>
             ELSE LET all == Kids(Child(d, "library_animations"), "animation")
                  IN IF Has(all[1], "animation") THEN all ELSE <<Child(d, "library_animations")>>

\* The skeleton is the document's: a node is there once, under the one that
\* holds it in the scene; a joint's place in the model is the inverse of its
\* inverse bind matrix; and every key frame is what the channels say, with the
\* rest of its node's transformations.
SkeletonIsTheDocuments ==
  Loaded /\ loader.skeleton # None =>
    LET nodes == loader.skeleton.nodes
        unit == Unit(doc)
        Parent(n) == CHOOSE m \in 1..(n - 1) : nodes[m].depth = nodes[n].depth - 1
                       /\ \A k \in (m + 1)..(n - 1) : nodes[k].depth # nodes[m].depth
        models == FoldLeft(LAMBDA ms, n : Append(ms,
                    IF n = 1 THEN loader.skeleton.place[1]
                    ELSE Compose(ms[Parent(n)], loader.skeleton.place[n])),
                    << >>, [n \in DOMAIN nodes |-> n])
    IN /\ Cardinality(Ids(nodes)) = Len(nodes)
       /\ \A n, m \in DOMAIN nodes :
            LET e == ElementId(doc, "node", nodes[m].id)
            IN e # None /\ nodes[n].id \in {k.at.id : k \in ToSet(Kids(e, "node"))}
                 => n > 1 /\ Parent(n) = m
       /\ \A n \in DOMAIN nodes : nodes[n].inverse # None =>
            models[n] = <<nodes[n].inverse[1], unit * (-nodes[n].inverse[1] * nodes[n].inverse[2])>>
       /\ \A a \in DOMAIN loader.skeleton.anims :
            LET keys == loader.skeleton.anims[a]
                set == Sets(doc)[((a - 1) % Len(Sets(doc))) + 1]
            IN \A name \in DOMAIN keys : \A time \in DOMAIN keys[name] :
                 LET wanted == WantedKey(doc, set, nodes[NodeByName(nodes, name)], time)
                 IN keys[name][time] = <<wanted[1], unit * wanted[2]>>
=============================================================================
