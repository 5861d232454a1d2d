---------------------------- MODULE MeshManager -----------------------------
(***************************************************************************)
(* The MeshManager of MeshManager.cc: meshes by name, loaded by several    *)
(* threads at once, created and changed by one.  Load looks the name up    *)
(* before it takes the mutex and again under it; everything else leaves    *)
(* the mutex alone, so the other operations are those of one thread.  The  *)
(* map is read and written in one step: its own data races are outside the *)
(* model.                                                                  *)
(***************************************************************************)
EXTENDS Integers, Sequences, FiniteSets, SequencesExt, Functions

CONSTANTS
  Threads,     \* the threads that call Load
  MeshFiles,   \* names with a supported extension
  Others,      \* other names
  Makeable,    \* the shapes the Create functions are asked for here
  Loadable,    \* the meshes a loader may return
  Solids,      \* the shapes the library for solids may return
  Offsets,     \* where meshes are moved to
  MaxMeshes,   \* bound: meshes made in a behaviour
  Epsilon      \* how near two vertices of a surface may be

Shapes == INSTANCE Mesh

\* A name the client makes up is not that of a file, and no file is called "".
ASSUME NamesAssumption ==
  /\ MeshFiles \cap Others = {} /\ "" \notin MeshFiles
  /\ "none" \notin Threads /\ MaxMeshes \in Nat

VARIABLES
  meshes,    \* name -> the mesh kept under it, a function that grows
  content,   \* mesh -> its submeshes, for every mesh ever made
  owner,     \* the thread in the mutex of the manager, or "none"
  pc,        \* thread -> where its Load is: "idle", "lock", "loading"
  asked,     \* thread -> the name it loads
  answers,   \* the pairs of a name and what a Load returned for it
  crashed    \* a null mesh was dereferenced

managerVars == <<meshes, content, owner, pc, asked, answers, crashed>>
threads == <<owner, pc, asked, answers>>

Names == MeshFiles \cup Others
null == 0

ManagerInit ==
  /\ meshes = << >> /\ content = << >> /\ owner = "none"
  /\ pc = [t \in Threads |-> "idle"] /\ asked = [t \in Threads |-> ""]
  /\ answers = {} /\ crashed = FALSE

HasMesh(name) == name # "" /\ name \in DOMAIN meshes
MeshByName(name) == IF name \in DOMAIN meshes THEN meshes[name] ELSE null

\* std::map::insert: a name that is there keeps its mesh.
Insert(name, mesh) == IF name \in DOMAIN meshes THEN meshes
                      ELSE [n \in DOMAIN meshes \cup {name} |->
                              IF n = name THEN mesh ELSE meshes[n]]

Make(submeshes) ==
  /\ Len(content) < MaxMeshes
  /\ content' = Append(content, submeshes)

Answer(t, mesh) == answers' = answers \cup {<<asked[t], mesh>>}

\* Load, up to the mutex: a name with another extension has no mesh, one that
\* is loaded has its mesh, and findFile finds the file or not.
LookUp(t, name) ==
  /\ pc[t] = "idle"
  /\ asked' = [asked EXCEPT ![t] = name]
  /\ \/ /\ name \in MeshFiles /\ ~HasMesh(name)
        /\ pc' = [pc EXCEPT ![t] = "lock"] /\ UNCHANGED answers
     \/ /\ answers' = answers \cup
               {<<name, IF name \in MeshFiles THEN MeshByName(name) ELSE null>>}
        /\ UNCHANGED pc
  /\ UNCHANGED <<meshes, content, owner, crashed>>

\* Mutant: the name is not looked up again under the mutex.
LoadAnyway(t) ==
  /\ pc[t] = "lock" /\ owner = "none"
  /\ pc' = [pc EXCEPT ![t] = "loading"] /\ owner' = t
  /\ UNCHANGED <<answers, meshes, content, asked, crashed>>

LoadLocked(t) ==
  /\ pc[t] = "lock" /\ owner = "none"
  /\ IF HasMesh(asked[t])
     THEN /\ pc' = [pc EXCEPT ![t] = "idle"]
          /\ Answer(t, meshes[asked[t]]) /\ UNCHANGED owner
     ELSE /\ pc' = [pc EXCEPT ![t] = "loading"] /\ owner' = t /\ UNCHANGED answers
  /\ UNCHANGED <<meshes, content, asked, crashed>>

\* The loader returns, with a mesh or without, and the mutex is released.
LoadReturns(t) ==
  /\ pc[t] = "loading"
  /\ \/ /\ \E m \in Loadable : Make(m)
        /\ meshes' = Insert(asked[t], Len(content) + 1)
        /\ Answer(t, Len(content) + 1)
     \/ Answer(t, null) /\ UNCHANGED <<meshes, content>>
  /\ owner' = "none" /\ pc' = [pc EXCEPT ![t] = "idle"]
  /\ UNCHANGED <<asked, crashed>>

\* CreateSphere, CreateBox and the like.
Create(name, shape) ==
  /\ ~HasMesh(name) /\ Make(<<shape>>)
  /\ meshes' = Insert(name, Len(content) + 1)
  /\ UNCHANGED <<threads, crashed>>

\* A mesh the client made; a name that is taken leaves it to the client.
AddMesh(name, mesh) ==
  /\ Make(mesh)
  /\ meshes' = IF HasMesh(name) THEN meshes
               ELSE [n \in DOMAIN meshes \cup {name} |->
                       IF n = name THEN Len(content) + 1 ELSE meshes[n]]
  /\ UNCHANGED <<threads, crashed>>

\* The library gives a solid, or refuses the two surfaces: then there is no mesh to name.
CreateBoolean(name, first, second, offset) ==
  /\ ~HasMesh(name)
  /\ \/ /\ Shapes!ConvertMeshToGTS(content[first]) # << >>
        /\ Shapes!ConvertMeshToGTS(Shapes!Placed(content[second], offset)) # << >>
        /\ \E solid \in Solids : Make(<<solid>>)
        /\ meshes' = Insert(name, Len(content) + 1)
        /\ UNCHANGED crashed
     \/ crashed' = TRUE /\ UNCHANGED <<meshes, content>>
  /\ UNCHANGED threads

\* The mesh that is changed is the one kept under the name.
Textured(name) ==
  /\ HasMesh(name)
  /\ content' = [content EXCEPT ![meshes[name]] = Shapes!GenSphericalTexCoord(@)]
  /\ UNCHANGED <<meshes, threads, crashed>>

\* The operations of Mesh on a mesh at hand.
Changed(mesh, as) ==
  /\ content' = [content EXCEPT ![mesh] = as]
  /\ UNCHANGED <<meshes, threads, crashed>>
Moves(mesh, at)    == Changed(mesh, Shapes!Center(content[mesh], at))
Mirrors(mesh)      == Changed(mesh, Shapes!Scale(content[mesh], <<-1, 1, 1>>))
Recalculates(mesh) == Changed(mesh, Shapes!RecalculateNormals(content[mesh]))

ManagerNext ==
  /\ ~crashed
  /\ \/ \E t \in Threads : (\E n \in Names : LookUp(t, n)) \/ LoadLocked(t) \/ LoadReturns(t)
     \/ \E n \in Others :
          \/ \E shape \in Makeable : Create(n, shape)
          \/ \E m \in Loadable : AddMesh(n, m)
          \/ \E a, b \in DOMAIN content, o \in Offsets : CreateBoolean(n, a, b, o)
     \/ \E n \in Names : Textured(n)
     \/ \E m \in DOMAIN content :
          (\E o \in Offsets : Moves(m, o)) \/ Mirrors(m) \/ Recalculates(m)

ManagerSpec == ManagerInit /\ [][ManagerNext]_managerVars
-----------------------------------------------------------------------------
ManagerTypeOK ==
  /\ DOMAIN meshes \subseteq Names /\ \A n \in DOMAIN meshes : meshes[n] \in DOMAIN content
  /\ Len(content) <= MaxMeshes /\ owner \in Threads \cup {"none"}
  /\ pc \in [Threads -> {"idle", "lock", "loading"}] /\ asked \in [Threads -> Names \cup {""}]
  /\ answers \subseteq Names \X (0..Len(content)) /\ crashed \in BOOLEAN

\* A name stands for one mesh: whatever threads asked for it, and when, got
\* that mesh or none, and no mesh is kept under two names.
OneMeshPerName ==
  /\ ManagerTypeOK
  /\ \A a \in answers : a[2] # null => MeshByName(a[1]) = a[2]
  /\ IsInjective(meshes)

\* Every solid the Create functions build has its indices among its vertices,
\* is closed and faces one side everywhere, and stays so when it is moved or
\* mirrored; centred, a box has the volume its faces enclose.
ShapesAreClosed ==
  \A m \in DOMAIN content : \A s \in DOMAIN content[m] :
    LET sub == content[m][s]
        centred == Shapes!Center(<<sub>>, Shapes!Zero)[1]
    IN /\ Shapes!InRange(sub)
       /\ sub.kind \in {"solid", "box"} => Shapes!IsClosed(sub)
       /\ sub.kind = "box" => LET whole == Shapes!SignedVolume(sub)
                              IN Shapes!Volume(centred) \in {whole, -whole}

\* FillArrays keeps the triangles of every submesh.  It shifts by the highest
\* index, so this asks that each submesh but the last uses its last vertex,
\* and that none lacks indices.
ArraysKeepFaces ==
  \A m \in DOMAIN content :
    LET mesh == content[m]
        full(sub) == Len(sub.vertices) - 1 \in ToSet(sub.indices)
    IN (/\ \A s \in 1..(Len(mesh) - 1) : full(mesh[s])
        /\ \A s \in DOMAIN mesh : mesh[s].indices # << >>)
       => Shapes!Triangles(Shapes!FillArrays(mesh))
            = FlattenSeq([s \in DOMAIN mesh |-> Shapes!Triangles(mesh[s])])

\* The surface handed to the library for solids has the triangles of the mesh,
\* corner for corner to within Epsilon, without those that merging flattens,
\* and no two of its vertices are as near as that.  For a mesh with one
\* submesh: the indices of a second are looked up among the first's vertices.
SurfaceKeepsFaces ==
  \A m \in DOMAIN content : Len(content[m]) = 1 =>
    LET sub == content[m][1]
        faces == Shapes!ConvertMeshToGTS(content[m])
        apart == SelectSeq(Shapes!Triangles(sub), LAMBDA t :
                   \A a, b \in 1..3 : a # b => ~Shapes!Near(t[a], t[b]))
    IN /\ Len(faces) = Len(apart)
       /\ \A t \in DOMAIN apart : \A c \in 1..3 : Shapes!Near(apart[t][c], faces[t][c])
       /\ \A e, f \in ToSet(Shapes!DirectedEdges(faces)) : e[1] # f[1] => ~Shapes!Near(e[1], f[1])
=============================================================================
