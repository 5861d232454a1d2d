------------------------------ MODULE SVGLoader ------------------------------
(***************************************************************************)
(* SVGLoader.cc: the path elements of a document become polylines, and     *)
(* the polylines of all paths closed and open outlines.  A command letter  *)
(* is its lower-case form and whether it is one, that is relative; a token *)
(* is a letter, or numbers; a point is a pair of integers in units of      *)
(* 1 / Samples^3.  Arcs keep their ends only.                              *)
(***************************************************************************)
EXTENDS Integers, Sequences, SequencesExt, FiniteSets, TLC

CONSTANTS SvgFiles,   \* the documents: trees of [name, attribs, children]
          Samples,    \* of a curve
          ExtraStep,  \* whether Samples steps of 1 / Samples stay below 1
          Tol         \* of ends that meet, in the points' unit

VARIABLES
  svg,     \* the document, or Nothing
  paths,   \* what Parse returned: [result, paths]
  polys    \* what PathsToClosedPolylines returned: [result, closed, open]

svgVars == <<svg, paths, polys>>
Nothing == << >>
Unit == Samples * Samples * Samples
Plus(p, q) == <<p[1] + q[1], p[2] + q[2]>>
Identity == << <<1, 0, 0>>, <<0, 1, 0>> >>
-----------------------------------------------------------------------------
\* Rows of the matrix without the last.  Skews are by their tangents, and turns
\* by quarters.  Anything else is no transformation.
Times(m, n) == [r \in 1..2 |-> [c \in 1..3 |->
                 m[r][1] * n[1][c] + m[r][2] * n[2][c] + (IF c = 3 THEN m[r][3] ELSE 0)]]
Shift(x, y) == << <<1, 0, x * Unit>>, <<0, 1, y * Unit>> >>
Turn(a) == LET sin == <<0, 1, 0, -1>>[(a % 4) + 1]
               cos == <<1, 0, -1, 0>>[(a % 4) + 1]
           IN << <<cos, -sin, 0>>, <<sin, cos, 0>> >>

ParseTransformMatrixStr(kind, n) ==
  CASE kind = "matrix" /\ Len(n) = 6 ->
         << <<n[1], n[3], n[5] * Unit>>, <<n[2], n[4], n[6] * Unit>> >>
    [] kind = "skewX" /\ Len(n) = 1 -> << <<1, n[1], 0>>, <<0, 1, 0>> >>
    [] kind = "skewY" /\ Len(n) = 1 -> << <<1, 0, 0>>, <<n[1], 1, 0>> >>
    [] kind = "scale" /\ Len(n) \in 1..2 -> << <<n[1], 0, 0>>, <<0, n[Len(n)], 0>> >>
    [] kind = "translate" /\ Len(n) \in 1..2 -> Shift(n[1], IF Len(n) = 2 THEN n[2] ELSE 0)
    [] kind = "rotate" /\ Len(n) = 1 -> Turn(n[1])
    [] kind = "rotate" /\ Len(n) = 3 ->
         Times(Times(Shift(n[2], n[3]), Turn(n[1])), Shift(-n[2], -n[3]))
    [] OTHER -> Identity

Apply(m, p) == [r \in 1..2 |-> m[r][1] * p[1] + m[r][2] * p[2] + m[r][3]]
-----------------------------------------------------------------------------
\* t is in units of 1 / Samples; the points are multiples of Unit.
bezierInterpolate(t, p) ==
  LET s == Samples - t
  IN [c \in 1..2 |-> (s * s * s * p[1][c] + 3 * t * s * s * p[2][c]
                        + 3 * t * t * s * p[3][c] + t * t * t * p[4][c]) \div Unit]

\* From the first sample on to the end, which may come twice.
cubicBezier(p) ==
  [t \in 1..(Samples - 1) |-> bezierInterpolate(t, p)]
    \o (IF ExtraStep THEN <<p[4]>> ELSE << >>) \o <<p[4]>>

\* Without its inner points.
arcPath(end) == <<end>>
-----------------------------------------------------------------------------
\* How many numbers a command takes at a time.
NumberCount(letter) == CASE letter = "a" -> 7 [] letter = "c" -> 6 [] letter \in {"m", "l"} -> 2
                         [] letter \in {"v", "h"} -> 1 [] letter \in {"z", "q"} -> 0

Groups(cmd) ==
  LET n == NumberCount(cmd.letter)
  IN [g \in 1..(Len(cmd.numbers) \div n) |-> SubSeq(cmd.numbers, n * (g - 1) + 1, n * g)]

\* The points a command adds to the line, after the last point there was.
Drawn(cmd, g, last) ==
  LET P(i) == Plus(<<g[i] * Unit, g[i + 1] * Unit>>, IF cmd.relative THEN last ELSE <<0, 0>>)
  IN CASE cmd.letter \in {"m", "l"} -> <<P(1)>>
       [] cmd.letter = "c" -> cubicBezier(<<last, P(1), P(3), P(5)>>)
       [] cmd.letter = "a" -> arcPath(P(6))

\* Back to where the line began.
Close(line) == IF Last(line) = line[1] THEN line ELSE Append(line, line[1])

\* A relative arc falls through to the closing of the path, which leaves the
\* last point where it is; lines by one coordinate and quadratic curves are
\* passed over.
DrawCommand(d, cmd) ==
  LET step(e, g) == LET new == Drawn(cmd, g, e.last) IN [line |-> e.line \o new, last |-> Last(new)]
      done == IF cmd.letter \in {"m", "l", "c", "a"} THEN FoldLeft(step, d, Groups(cmd)) ELSE d
  IN IF cmd.letter = "z" \/ (cmd.letter = "a" /\ cmd.relative)
     THEN [done EXCEPT !.line = Close(@)] ELSE done

SubpathToPolyline(subpath, last) == FoldLeft(DrawCommand, [line |-> << >>, last |-> last], subpath)

\* Every subpath begins where the one before it ended.
Polylines(subpaths) ==
  FoldLeft(LAMBDA d, s : LET next == SubpathToPolyline(s, d.last)
                         IN [lines |-> Append(d.lines, next.line), last |-> next.last],
           [lines |-> << >>, last |-> <<0, 0>>], subpaths).lines
-----------------------------------------------------------------------------
SplitSubpaths(cmds) ==
  FoldLeft(LAMBDA subs, cmd : IF cmd.letter = "m" THEN Append(subs, <<cmd>>)
                              ELSE [subs EXCEPT ![Len(subs)] = Append(@, cmd)],
           << >>, cmds)

\* For the mutants: all as they were read but relative ones made absolute.
ExpandedAsAbsolute(cmd) ==
  (IF cmd.letter = "z" THEN <<cmd>> ELSE << >>)
    \o (IF cmd.numbers = << >> THEN << >>
        ELSE [g \in DOMAIN Groups(cmd) |-> [cmd EXCEPT !.numbers = Groups(cmd)[g],
                                                       !.relative = @ /\ g = 1]])
\* A command of its own for every group of numbers.
Expanded(cmd) ==
  (IF cmd.letter = "z" THEN <<cmd>> ELSE << >>)
    \o (IF cmd.numbers = << >> THEN << >>
        ELSE [g \in DOMAIN Groups(cmd) |-> [cmd EXCEPT !.numbers = Groups(cmd)[g]]])
ExpandCommands(subpaths) ==
  [s \in DOMAIN subpaths |-> FlattenSeq([c \in DOMAIN subpaths[s] |-> Expanded(subpaths[s][c])])]

\* Numbers go to the letter before them, those before the first to nobody.
Commands(tokens) ==
  LET read(r, t) == IF t.letter = "" THEN [r EXCEPT !.numbers = @ \o t.numbers]
                    ELSE [cmds |-> IF r.cmd = Nothing THEN r.cmds
                                   ELSE Append(r.cmds, r.cmd[1] @@ [numbers |-> r.numbers]),
                          cmd |-> <<[letter |-> t.letter, relative |-> t.relative]>>, numbers |-> << >>]
      all == FoldLeft(read, [cmds |-> << >>, cmd |-> Nothing, numbers |-> << >>], tokens)
  IN IF all.cmd = Nothing THEN all.cmds ELSE Append(all.cmds, all.cmd[1] @@ [numbers |-> all.numbers])

\* What the code does not survive: a command before the first m, numbers that
\* are missing in a group, a path that begins by its end, and, for ever, a
\* curve or an end with numbers.
Endless(cmds) == \E c \in DOMAIN cmds : cmds[c].letter \in {"q", "z"} /\ cmds[c].numbers # << >>
Readable(cmds) ==
  /\ cmds = << >> \/ cmds[1].letter = "m"
  /\ \A c \in DOMAIN cmds : NumberCount(cmds[c].letter) > 0
                              => Len(cmds[c].numbers) % NumberCount(cmds[c].letter) = 0
  /\ \A c \in DOMAIN cmds : cmds[c].letter = "z" =>
       \E b \in 1..(c - 1) : /\ cmds[b].numbers # << >> /\ cmds[b].letter \notin {"h", "v"}
                             /\ \A m \in (b + 1)..c : cmds[m].letter # "m"

PathCommands(tokens, transform) ==
  LET subpaths == SplitSubpaths(Commands(tokens))
      lines == Polylines(subpaths)
  IN [subpaths |-> ExpandCommands(subpaths), transform |-> transform,
      polylines |-> IF transform = Identity THEN lines
                    ELSE [l \in DOMAIN lines |-> [k \in DOMAIN lines[l] |-> Apply(transform, lines[l][k])]]]

Attrib(e, name, default) ==
  LET all == SelectSeq(e.attribs, LAMBDA a : a.name = name)
  IN IF all = << >> THEN default ELSE Last(all).value
PathAttribs(e) ==
  LET t == Attrib(e, "transform", [kind |-> "none", numbers |-> << >>])
  IN PathCommands(Attrib(e, "d", << >>), ParseTransformMatrixStr(t.kind, t.numbers))

\* The path elements in the order of the document, but not those of a defs.
RECURSIVE PathElements(_)
PathElements(node) ==
  IF node.name = "defs" THEN << >>
  ELSE (IF node.name = "path" THEN <<node>> ELSE << >>)
         \o FlattenSeq([c \in DOMAIN node.children |-> PathElements(node.children[c])])
SvgPaths(root) ==
  LET elements == PathElements(root)
      cmds(e) == Commands(Attrib(elements[e], "d", << >>))
  IN IF \E e \in DOMAIN elements : ~Readable(cmds(e)) THEN [result |-> "undefined", paths |-> << >>]
     ELSE IF \E e \in DOMAIN elements : Endless(cmds(e)) THEN [result |-> "endless", paths |-> << >>]
     ELSE [result |-> "true", paths |-> [e \in DOMAIN elements |-> PathAttribs(elements[e])]]
-----------------------------------------------------------------------------
Vector2dCompare(a, b) ==
  (a[1] - b[1]) * (a[1] - b[1]) + (a[2] - b[2]) * (a[2] - b[2]) < Tol * Tol

\* Steps that are too short are passed over, together with those after them as
\* long as they stay near.
Segments(line) ==
  FoldLeft(LAMBDA r, p : IF Vector2dCompare(p, r.start) THEN r
                         ELSE [start |-> p, segs |-> Append(r.segs, <<r.start, p>>)],
           [start |-> line[1], segs |-> << >>], Tail(line)).segs

\* For the mutants: only the second end is looked at.
FarEndOfFirst(back, seg) == IF Vector2dCompare(back, seg[1]) THEN <<seg[2]>> ELSE Nothing
\* Where a segment leads on from the end of a line, its second end counting
\* before its first.
FarEnd(back, seg) == IF Vector2dCompare(back, seg[2]) THEN <<seg[1]>>
                     ELSE IF Vector2dCompare(back, seg[1]) THEN <<seg[2]>> ELSE Nothing

\* The line goes on with the first segment that fits, until it is closed.
RECURSIVE Outline(_, _)
Outline(line, segs) ==
  LET fits == SelectSeq([i \in DOMAIN segs |-> i], LAMBDA i : FarEnd(Last(line), segs[i]) # Nothing)
  IN IF fits = << >> THEN [line |-> line, left |-> segs, closed |-> FALSE]
     ELSE LET next == FarEnd(Last(line), segs[fits[1]])[1]
              left == RemoveAt(segs, fits[1])
          IN IF Vector2dCompare(next, line[1])
             THEN [line |-> Append(line, next), left |-> left, closed |-> TRUE]
             ELSE Outline(Append(line, next), left)

RECURSIVE Outlines(_, _)
Outlines(segs, done) ==
  IF segs = << >> THEN done
  ELSE LET o == Outline(segs[1], Tail(segs))
       IN Outlines(o.left, IF o.closed THEN [done EXCEPT !.closed = Append(@, o.line)]
                           ELSE [done EXCEPT !.open = Append(@, o.line)])

AllLines(ps) == FlattenSeq([p \in DOMAIN ps |-> ps[p].polylines])
AllSegments(ps) == FlattenSeq([l \in DOMAIN AllLines(ps) |-> Segments(AllLines(ps)[l])])

\* The first point of a line that has none is undefined.
PathsToClosedPolylines(ps) ==
  IF \E l \in DOMAIN AllLines(ps) : AllLines(ps)[l] = << >> THEN [result |-> "undefined"]
  ELSE [result |-> "done"] @@ Outlines(AllSegments(ps), [closed |-> << >>, open |-> << >>])
-----------------------------------------------------------------------------
SvgInit == svg = Nothing /\ paths = Nothing /\ polys = Nothing

Parse == svg = Nothing /\ svg' \in SvgFiles /\ paths' = SvgPaths(svg') /\ UNCHANGED polys

ToOutlines ==
  /\ svg # Nothing /\ polys = Nothing /\ paths.result = "true"
  /\ polys' = PathsToClosedPolylines(paths.paths)
  /\ UNCHANGED <<svg, paths>>

SvgNext == Parse \/ ToOutlines
SvgSpec == SvgInit /\ [][SvgNext]_svgVars
-----------------------------------------------------------------------------
\* The commands of a path, one for each group of numbers, draw the lines that
\* were drawn from the commands as they were read, moved by the path's
\* transformation (ExpandCommands beside SubpathToPolyline).  Relative arcs are
\* left out: each of them closes the path.
CommandsDrawTheLines ==
  svg # Nothing /\ paths.result = "true" =>
    \A k \in DOMAIN paths.paths :
      LET p == paths.paths[k]
          cmds == FlattenSeq(p.subpaths)
          redrawn == Polylines(p.subpaths)
      IN \/ \E c \in DOMAIN cmds : cmds[c].letter = "a" /\ cmds[c].relative
         \/ p.polylines = [l \in DOMAIN redrawn |->
              [i \in DOMAIN redrawn[l] |-> Apply(p.transform, redrawn[l][i])]]

\* Every segment of the paths becomes one step of one outline, in either
\* direction; an outline is closed when its end meets its beginning and not
\* before, and where an open one ends no later one passes
\* (PathsToClosedPolylines).
OutlinesAreTheSegments ==
  polys # Nothing /\ polys.result = "done" =>
    LET outlines == polys.closed \o polys.open
        Edges(l) == [i \in 1..(Len(l) - 1) |-> <<l[i], l[i + 1]>>]
        edges == FlattenSeq([o \in DOMAIN outlines |-> Edges(outlines[o])])
        segs == AllSegments(paths.paths)
        Along(e, s) == \/ Vector2dCompare(e[1], s[1]) /\ Vector2dCompare(e[2], s[2])
                       \/ Vector2dCompare(e[1], s[2]) /\ Vector2dCompare(e[2], s[1])
        Meets(l, i) == Vector2dCompare(l[i], l[1])
    IN /\ Len(edges) = Len(segs)
       /\ \A s \in DOMAIN segs : Cardinality({e \in DOMAIN edges : Along(edges[e], segs[s])})
                                   >= Cardinality({r \in DOMAIN segs : segs[r] = segs[s]})
       /\ \A o \in DOMAIN outlines : LET l == outlines[o] IN
            /\ Meets(l, Len(l)) <=> o <= Len(polys.closed)
            /\ \A i \in 3..(Len(l) - 1) : ~Meets(l, i)
       /\ \A o \in DOMAIN polys.open : \A later \in (o + 1)..Len(polys.open) :
            \A i \in DOMAIN polys.open[later] : ~Vector2dCompare(polys.open[later][i], Last(polys.open[o]))
=============================================================================
