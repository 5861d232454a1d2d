------------------------------ MODULE STLLoader ------------------------------
(***************************************************************************)
(* STLLoader.cc: a file of lines, or of faces behind a header.  A file has *)
(* both readings: lines, each with its first word and the numbers behind   *)
(* its second, and the faces it holds as bytes with the number it gives    *)
(* for them.                                                               *)
(***************************************************************************)
EXTENDS Integers, Sequences, SequencesExt, FiniteSets

CONSTANTS StlFiles,   \* [lines, count, faces, cut]: cut when the last face has no end
          StlFaces(_) \* of a well-formed file <<faces>>, what it was written from; or Nothing

VARIABLES stl, stlMesh
stlVars == <<stl, stlMesh>>
Nothing == << >>
NewSubMesh == [verts |-> << >>, norms |-> << >>, indices |-> << >>]

\* For the mutants: as if equal vertices were kept once.
IndexOfNew(sub, v) == Cardinality(ToSet(sub.verts)) - 1
\* The first vertex in the same place.
IndexOfVertex(sub, v) ==
  (CHOOSE i \in DOMAIN sub.verts : sub.verts[i] = v /\ \A j \in 1..(i - 1) : sub.verts[j] # v) - 1

\* Every vertex is kept; in a file of lines the index is of the first equal one.
AddCorner(sub, v, normal, Index(_, _)) ==
  LET more == [sub EXCEPT !.verts = Append(@, v), !.norms = Append(@, normal)]
  IN [more EXCEPT !.indices = Append(@, Index(more, v))]

\* What ReadAscii does with a line: at the top, on the line after a facet, on
\* the lines of its corners, and on the one after them.
AsciiLine(r, line) ==
  CASE r.at = "stop" -> r
    [] r.at = "top" /\ line.word \in {"", "#", "solid", "endsolid", "color"} -> r
    [] r.at = "top" /\ line.word = "facet" -> [r EXCEPT !.at = "outer", !.normal = line.nums]
    [] r.at = "top" -> [r EXCEPT !.at = "stop"]
    [] r.at = "outer" -> [r EXCEPT !.at = "corners"]
    [] r.at = "corners" /\ Len(line.nums) = 3 ->
         [r EXCEPT !.sub = AddCorner(@, line.nums, r.normal, IndexOfVertex)]
    [] r.at = "corners" -> [r EXCEPT !.at = "after"]
    [] r.at = "after" -> [r EXCEPT !.at = "top"]

\* However the lines ended, vertices make it a file of lines.
ReadAscii(lines) ==
  FoldLeft(AsciiLine, [at |-> "top", normal |-> << >>, sub |-> NewSubMesh], lines).sub

\* Faces without a shared vertex; a count below zero is no face.  Nothing is
\* kept of a file that ends too early.
ReadBinary(file) ==
  IF file.count > Len(file.faces) THEN Nothing
  ELSE LET Index(sub, v) == Len(sub.verts) - 1
           Face(sub, f) == FoldLeft(LAMBDA s, v : AddCorner(s, v, f.normal, Index), sub, f.corners)
       IN <<FoldLeft(Face, NewSubMesh, SubSeq(file.faces, 1, file.count))>>

\* The submeshes of the mesh Load returns, if any.
Load(file) == LET sub == ReadAscii(file.lines)
              IN IF sub.verts # << >> THEN <<sub>> ELSE ReadBinary(file)
-----------------------------------------------------------------------------
StlInit == stl = Nothing /\ stlMesh = Nothing
LoadFile == stl = Nothing /\ stl' \in StlFiles /\ stlMesh' = Load(stl')
StlNext == LoadFile
StlSpec == StlInit /\ [][StlNext]_stlVars
-----------------------------------------------------------------------------
\* In either form the corners of the mesh are, by way of the indices, those the
\* file was written from, in the order of its faces, and every vertex has a
\* normal (STLLoader::ReadAscii and ReadBinary).
CornersAreTheFiles ==
  stl # Nothing /\ StlFaces(stl) # Nothing =>
    LET faces == StlFaces(stl)[1]
        sub == stlMesh[1]
    IN /\ Len(stlMesh) = 1
       /\ [i \in DOMAIN sub.indices |-> sub.verts[sub.indices[i] + 1]]
            = FlattenSeq([f \in DOMAIN faces |-> faces[f].corners])
       /\ sub.norms = FlattenSeq([f \in DOMAIN faces |-> [c \in DOMAIN faces[f].corners |-> faces[f].normal]])
=============================================================================
