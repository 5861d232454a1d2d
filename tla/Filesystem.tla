----------------------------- MODULE Filesystem -----------------------------
(***************************************************************************)
(* Filesystem.cc and FilesystemBoost.cc on a tree of directories and       *)
(* files.  A path is the sequence of the names on it; disk is what is at   *)
(* every path there is.  Some entries cannot be removed and in some        *)
(* directories nothing can be made; directories are read in any order.     *)
(***************************************************************************)
EXTENDS Integers, Sequences, SequencesExt, FiniteSets, Functions, TLC

CONSTANTS Disks,     \* the trees there may be at first
          Targets,   \* the paths the operations are asked for
          Stuck,     \* paths that cannot be removed
          Sealed,    \* directories in which nothing can be made or removed
          MaxCalls,  \* bound: operations on one disk
          Spellings  \* paths as characters, for the operations on names

VARIABLES
  disk,  \* path -> "dir" or what the file holds
  last,  \* the last operation: its name, arguments and result, and the disk before
  calls  \* how many operations there were

diskVars == <<disk, last, calls>>
Nothing == << >>
-----------------------------------------------------------------------------
Exists(d, p) == p \in DOMAIN d
IsDirectory(d, p) == Exists(d, p) /\ d[p] = "dir"
IsFile(d, p) == Exists(d, p) /\ d[p] # "dir"
Under(d, p) == {q \in DOMAIN d : IsPrefix(p, q)}
Without(d, ps) == [q \in DOMAIN d \ ps |-> d[q]]
With(d, p, what) == (p :> what) @@ d

\* What the system does for mkdir, remove and a file that is opened to be written.
CanMake(d, p) == Front(p) \notin Sealed /\ IsDirectory(d, Front(p))
CanRemove(p) == p \notin Stuck /\ Front(p) \notin Sealed

\* The entries a DirIter comes by, from a directory that can be read.
DirIter(d, p, backwards) ==
  LET entries == SetToSeq({q \in Under(d, p) : Len(q) = Len(p) + 1})
  IN IF backwards THEN Reverse(entries) ELSE entries
-----------------------------------------------------------------------------
(* Each operation yields the disk after it and what it returns.              *)

Result(d, ok) == [disk |-> d, ok |-> ok]

RemoveDirectory(d, p) ==
  IF IsDirectory(d, p) /\ Under(d, p) = {p} /\ CanRemove(p) THEN Result(Without(d, {p}), TRUE)
  ELSE Result(d, FALSE)
RemoveFile(d, p) ==
  IF Exists(d, p) /\ Under(d, p) = {p} /\ CanRemove(p) THEN Result(Without(d, {p}), TRUE)
  ELSE Result(d, FALSE)
RemoveDirectoryOrFile(d, p) ==
  IF IsDirectory(d, p) THEN RemoveDirectory(d, p)
  ELSE IF IsFile(d, p) THEN RemoveFile(d, p) ELSE Result(d, FALSE)

\* For the mutants: the first entry that stays keeps those after it.
RECURSIVE RemoveUntilOneStays(_, _, _)
RemoveUntilOneStays(d, p, backwards) ==
  LET entries == IF IsDirectory(d, p) THEN DirIter(d, p, backwards) ELSE << >>
      one(r, q) == IF r.ok THEN RemoveUntilOneStays(r.disk, q, backwards) ELSE r
      below == FoldLeft(one, Result(d, TRUE), entries)
  IN IF below.ok THEN RemoveDirectoryOrFile(below.disk, p) ELSE below
\* Whatever below cannot be removed only shows in the directory staying.
RECURSIVE RemoveAll(_, _, _)
RemoveAll(d, p, backwards) ==
  LET entries == IF IsDirectory(d, p) THEN DirIter(d, p, backwards) ELSE << >>
  IN RemoveDirectoryOrFile(FoldLeft(LAMBDA e, q : RemoveAll(e, q, backwards).disk, d, entries), p)

\* A file that is there is written over; a directory is read as if it were an
\* empty file.
Contents(d, p) == IF d[p] = "dir" THEN "" ELSE d[p]
CopyFile(d, from, to) ==
  IF from # to /\ Exists(d, from) /\ (IsFile(d, to) \/ (~Exists(d, to) /\ CanMake(d, to)))
  THEN Result(With(d, to, Contents(d, from)), TRUE) ELSE Result(d, FALSE)

\* Without the original removed the copy is, and what it was written over with it.
MoveFile(d, from, to) ==
  LET copied == CopyFile(d, from, to)
      removed == RemoveFile(copied.disk, from)
  IN IF ~copied.ok THEN copied
     ELSE IF removed.ok THEN removed
     ELSE Result(RemoveFile(copied.disk, to).disk, FALSE)

\* Always true, whatever was made.
CreateDirectories(d, p) ==
  FoldLeft(LAMBDA e, n : LET q == SubSeq(p, 1, n)
                         IN IF ~Exists(e, q) /\ CanMake(e, q) THEN With(e, q, "dir") ELSE e,
           d, [n \in DOMAIN p |-> n])

\* For the mutants: a destination that is there is copied into.
CopyOver(d, to, backwards) == Result(d, TRUE)
\* A destination that is there is removed first.
MakeRoom(d, to, backwards) == IF Exists(d, to) THEN RemoveAll(d, to, backwards) ELSE Result(d, TRUE)

\* Entry by entry, up to the first that fails.
RECURSIVE CopyDirectory(_, _, _, _)
CopyDirectory(d, from, to, backwards) ==
  LET room == MakeRoom(d, to, backwards)
      start == Result(CreateDirectories(room.disk, to), TRUE)
      copy(r, q) ==
        LET target == Append(to, Last(q))
        IN IF ~r.ok THEN r
           ELSE IF IsDirectory(r.disk, q) THEN CopyDirectory(r.disk, q, target, backwards)
           ELSE CopyFile(r.disk, q, target)
  IN IF ~IsDirectory(d, from) THEN Result(d, FALSE)
     ELSE IF ~room.ok THEN room
     ELSE FoldLeft(copy, start, DirIter(start.disk, from, backwards))

\* The first of a, a(1), a(2)... that is not there: a name beside its number.
UniquePath(d, p) ==
  LET Numbered(n) == IF n = 0 THEN p ELSE [p EXCEPT ![Len(p)] = @ \o ToString(n)]
      taken(n) == Exists(d, Numbered(n))
  IN Numbered(CHOOSE n \in 0..Cardinality(DOMAIN d) : ~taken(n) /\ \A m \in 0..(n - 1) : taken(m))
-----------------------------------------------------------------------------
(* Names of paths that are characters, "/" between the names.               *)

Slashes(s) == {i \in DOMAIN s : s[i] = "/"}
Largest(S) == IF S = {} THEN 0 ELSE CHOOSE i \in S : \A j \in S : j <= i

BaseName(s) ==
  LET read(r, i) ==
        IF s[i] = "/" /\ i < Len(s) THEN [r EXCEPT !.slash = TRUE]
        ELSE IF s[i] = "/" THEN [r EXCEPT !.name = IF @ = << >> THEN <<"/">> ELSE @]
        ELSE [r EXCEPT !.name = Append(IF r.slash THEN << >> ELSE @, s[i]), !.slash = FALSE]
  IN FoldLeft(read, [name |-> << >>, slash |-> FALSE], [i \in DOMAIN s |-> i]).name

\* For the mutants: a slash at the end counts.
ParentOfSpelling(s) == SubSeq(s, 1, Largest(Slashes(s)) - 1)
\* Up to the last slash, or the one before when that is at the end; without a
\* slash the path is its own parent.
ParentPath(s) ==
  LET end == Largest(Slashes(s))
      cut == IF end = Len(s) THEN Largest(Slashes(s) \ {end}) ELSE end
  IN IF cut = 0 THEN s ELSE SubSeq(s, 1, cut - 1)
------------------------------------------------------------------------------
DiskInit == disk \in Disks /\ last = Nothing /\ calls = 0

Did(op, from, to, r) ==
  /\ calls < MaxCalls /\ calls' = calls + 1
  /\ disk' = r.disk
  /\ last' = [op |-> op, from |-> from, to |-> to, ok |-> r.ok, before |-> disk]

\* A copy of a directory into itself never ends.
Apart(p, q) == ~IsPrefix(p, q) /\ ~IsPrefix(q, p)

DiskNext ==
  \E p, q \in Targets, backwards \in BOOLEAN :
    \/ (p = q \/ ~IsPrefix(p, q)) /\ Did("copyDirectory", p, q, CopyDirectory(disk, p, q, backwards))
    \/ Did("removeAll", p, p, RemoveAll(disk, p, backwards))
    \/ Did("removeDirectoryOrFile", p, p, RemoveDirectoryOrFile(disk, p))
    \/ Did("moveFile", p, q, MoveFile(disk, p, q))
    \/ Did("copyFile", p, q, CopyFile(disk, p, q))
    \/ Did("createDirectories", p, p, Result(CreateDirectories(disk, p), TRUE))
    \/ LET new == UniquePath(disk, p)
       IN CanMake(disk, new) /\ Did("unique", p, new, Result(With(disk, new, "new"), TRUE))

DiskSpec == DiskInit /\ [][DiskNext]_diskVars
-----------------------------------------------------------------------------
Is(op) == last # Nothing /\ last.op = op
Kept(ps) == \A q \in ps : Exists(disk, q) /\ disk[q] = last.before[q]
Rest(p) == {q \in DOMAIN last.before : ~IsPrefix(p, q)}

\* A copied directory has the files and directories of its source, which stays,
\* and nothing else of the disk is touched; with no file in it the copy need not
\* be there.  A moved file is where it was or where it goes, and a name that
\* nobody has takes nothing from anybody (copyDirectory, moveFile,
\* uniqueFilePath).
TransfersLoseNothing ==
  /\ Is("copyDirectory") /\ Apart(last.from, last.to) =>
       LET source == Under(last.before, last.from)
           Moved(q) == last.to \o SubSeq(q, Len(last.from) + 1, Len(q))
       IN /\ Kept(source \cup Rest(last.to))
          /\ last.ok /\ (\E q \in source : IsFile(last.before, q)) =>
               /\ Under(disk, last.to) = {Moved(q) : q \in source}
               /\ \A q \in source : disk[Moved(q)] = last.before[q]
  /\ Is("moveFile") /\ IsFile(last.before, last.from) =>
       LET at == IF last.ok THEN last.to ELSE last.from
       IN /\ Exists(disk, at) /\ disk[at] = last.before[last.from]
          /\ last.ok => ~Exists(disk, last.from)
          /\ Kept(Rest(last.from) \ {last.to})
  /\ Is("unique") => Kept(DOMAIN last.before)

\* removeAll is true when all of it is gone, which takes nothing else along; of
\* what is left something could not be removed, wherever it is (removeAll with
\* removeDirectoryOrFile).
RemovalsAreExact ==
  Is("removeAll") =>
    LET p == last.from
        all == Under(last.before, p)
    IN /\ Kept(Rest(p))
       /\ last.ok <=> Exists(last.before, p) /\ ~Exists(disk, p)
       /\ \A q \in Under(disk, p) : \E r \in Under(disk, q) : ~CanRemove(r)
       /\ \A q \in all : (\A r \in Under(last.before, q) : CanRemove(r)) => ~Exists(disk, q)

\* A path whose names stand one slash apart is its parent and its name, however
\* it begins and ends; a single name is its own parent (basename, parentPath).
NamesOf(s) == SelectSeq(s, LAMBDA c : c # "/")
NamesComeApart ==
  \A s \in Spellings :
    Len(NamesOf(s)) > 1 /\ (\A i \in 1..(Len(s) - 1) : s[i] # "/" \/ s[i + 1] # "/")
                      /\ (\A i \in 1..(Len(s) - 1) : s[i] = "/" \/ s[i + 1] = "/") =>
      /\ NamesOf(ParentPath(s)) \o BaseName(s) = NamesOf(s)
      /\ Last(ParentPath(s)) # "/"
=============================================================================
