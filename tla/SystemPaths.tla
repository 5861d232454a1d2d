----------------------------- MODULE SystemPaths -----------------------------
(***************************************************************************)
(* SystemPaths.cc: where files and libraries are looked for.  A directory  *)
(* is a name, and a place is a pair of a directory and the name of what is *)
(* in it: a record of how often it begins with lib, its stem and its       *)
(* endings.  A request has a kind and a name: "relative", "dotted" (it     *)
(* begins with a dot), "absolute" (the name is a place), and the URIs      *)
(* "file" and "other".                                                     *)
(***************************************************************************)
EXTENDS Integers, Sequences, SequencesExt, FiniteSets

CONSTANTS
  Here,         \* the working directory
  Worlds,       \* sets of places there may be
  Values,       \* of environment variables: sequences of directories, << >> for none
  Variables,    \* their names, the first the default of the files, none of them ""
  FileEnv, PluginEnv,  \* the default names
  Requests,     \* what is looked for
  Libraries,    \* the names of libraries looked for
  Callbacks,    \* the callbacks there are
  Answer(_, _), \* what a callback returns for a request: a place or NotFound
  MaxCalls      \* bound: calls and changes of the system

VARIABLES
  exist,         \* the places there are
  environ,       \* variable -> value
  pluginPathEnv, filePathEnv,   \* names of variables, or ""
  pluginPaths, filePaths,       \* lists of directories
  findFileCB, findFileURICB,    \* a callback, or ""
  findFileCbs, findFileURICbs,  \* lists of callbacks
  cleared,       \* whether the last step took paths or files away, or set a callback
  calls          \* how many steps there were

paths == <<pluginPaths, filePaths>>
callbacks == <<findFileCB, findFileURICB, findFileCbs, findFileURICbs>>
sysVars == <<exist, environ, pluginPathEnv, filePathEnv, paths, callbacks, cleared, calls>>
NotFound == << >>
Found(p) == IF p \in exist THEN p ELSE NotFound
First(seq) == IF seq = << >> THEN NotFound ELSE seq[1]
FirstOf(seq, Test(_)) == First(SelectSeq(seq, Test))
Some(seq) == FirstOf(seq, LAMBDA p : p # NotFound)
-----------------------------------------------------------------------------
\* For the mutants: the latest first.
insertFirst(list, dirs) == Reverse(SelectSeq(dirs, LAMBDA d : d \notin ToSet(list))) \o list
\* Each directory once, where it came first.
insertUnique(list, dirs) ==
  FoldLeft(LAMBDA l, d : IF d \in ToSet(l) THEN l ELSE Append(l, d), list, dirs)

\* The other file callbacks are asked once the directories are searched.
Ask(cbs, q) == Some([c \in DOMAIN cbs |-> Answer(cbs[c], q)])

\* A path, if there is one and what it leads to exists, and what is made of a
\* name along the directories; one callback is asked before them.  A path that
\* does not exist ends the search all the same.
FindIn(path, q) ==
  LET inDirs == FirstOf([d \in DOMAIN filePaths |-> <<filePaths[d], q.name>>], LAMBDA p : p \in exist)
  IN Found(Some(<<path, inDirs, Ask(findFileCbs, q)>>))

FindRelative(q, local) ==
  LET here == Found(<<Here, q.name>>)
  IN FindIn(IF (local \/ q.kind = "dotted") /\ here # NotFound THEN here
            ELSE IF findFileCB # "" THEN Answer(findFileCB, q) ELSE NotFound, q)

FindFileURI(q) ==
  LET path == IF q.kind = "file" THEN FindRelative([q EXCEPT !.kind = "relative"], TRUE)
              ELSE IF findFileURICB # "" THEN Answer(findFileURICB, q) ELSE NotFound
  IN Found(Some(<<path, Ask(findFileURICbs, q)>>))

FindFile(q, local) ==
  CASE q.kind \in {"file", "other"} -> FindIn(FindFileURI(q), [q EXCEPT !.name.stem = "uri"])
    [] q.kind = "absolute" -> Found(q.name)
    [] OTHER -> FindRelative(q, local)

LocateLocalFile(name, dirs) == FirstOf([d \in DOMAIN dirs |-> <<dirs[d], name>>], LAMBDA p : p \in exist)
-----------------------------------------------------------------------------
Lib(name) == [name EXCEPT !.lib = @ + 1]
Ends(name, end) == [name EXCEPT !.ends = Append(@, end)]
HasEnd(name, ends) == name.ends # << >> /\ Last(name.ends) \in ends
Cut(name) == [name EXCEPT !.ends = Front(@)]
Bare(name) == [Cut(name) EXCEPT !.lib = @ - 1]

\* For the mutants: names are only cut when they are of this platform.
initNamesOfLinux(name) == <<name>> \o (IF name.lib > 0 /\ HasEnd(name, {"so"}) THEN <<Bare(name)>> ELSE << >>)
initNames(name) ==
  <<name>> \o (IF name.lib > 0 /\ HasEnd(name, {"so", "SO"}) THEN <<Bare(name)>> ELSE << >>)
           \o (IF HasEnd(name, {"dll", "DLL"}) THEN <<Cut(name)>> ELSE << >>)
           \o (IF name.lib > 0 /\ HasEnd(name, {"dylib", "DYLIB"}) THEN <<Bare(name)>> ELSE << >>)

basenames(n) ==
  <<n, Ends(Lib(n), "so"), Ends(n, "so"), Ends(n, "dll"), Ends(Lib(n), "dylib"), Ends(n, "dylib"),
    Ends(Lib(n), "SO"), Ends(n, "SO"), Ends(n, "DLL"), Ends(Lib(n), "DYLIB"), Ends(n, "DYLIB")>>

GenerateLibraryPaths(dirs, name) ==
  LET names == FoldLeft(LAMBDA l, n : l \o basenames(n), << >>, initNames(name))
  IN FoldLeft(LAMBDA l, d : l \o [n \in DOMAIN names |-> <<d, names[n]>>], << >>, dirs)

\* The variable is read again whenever the paths are asked for.
PluginPathsNow ==
  insertUnique(pluginPaths, IF pluginPathEnv = "" THEN << >> ELSE environ[pluginPathEnv])
SharedLibrary(name) ==
  IF <<Here, name>> \in exist THEN <<Here, name>>
  ELSE FirstOf(GenerateLibraryPaths(PluginPathsNow, name), LAMBDA p : p \in exist)
-----------------------------------------------------------------------------
SysInit ==
  /\ exist \in Worlds /\ environ \in [Variables -> Values]
  /\ pluginPathEnv = PluginEnv /\ filePathEnv = FileEnv
  /\ pluginPaths = << >> /\ filePaths = insertUnique(<< >>, environ[FileEnv])
  /\ findFileCB = "" /\ findFileURICB = "" /\ findFileCbs = << >> /\ findFileURICbs = << >>
  /\ cleared = FALSE /\ calls = 0

\* The system: files come and go, variables are changed.
Exist(world) == /\ exist' = world /\ cleared' = TRUE
                /\ UNCHANGED <<environ, pluginPathEnv, filePathEnv, paths, callbacks>>
SetEnv(v, value) == /\ environ' = [environ EXCEPT ![v] = value] /\ cleared' = FALSE
                    /\ UNCHANGED <<exist, pluginPathEnv, filePathEnv, paths, callbacks>>

SetPluginPathEnv(v) == /\ pluginPathEnv' = v /\ cleared' = FALSE
                       /\ UNCHANGED <<exist, environ, filePathEnv, paths, callbacks>>

\* PluginPaths, and FindSharedLibrary unless there is a file of that name.
PluginPaths == /\ pluginPaths' = PluginPathsNow /\ cleared' = FALSE
               /\ UNCHANGED <<exist, environ, pluginPathEnv, filePathEnv, filePaths, callbacks>>

AddPluginPaths(dirs) ==
  /\ pluginPaths' = insertUnique(pluginPaths, dirs) /\ cleared' = FALSE
  /\ UNCHANGED <<exist, environ, pluginPathEnv, filePathEnv, filePaths, callbacks>>
ClearPluginPaths ==
  /\ pluginPaths' = << >> /\ cleared' = TRUE
  /\ UNCHANGED <<exist, environ, pluginPathEnv, filePathEnv, filePaths, callbacks>>

\* No name leaves the paths as they are.
SetFilePathEnv(v) ==
  /\ filePathEnv' = v /\ cleared' = TRUE
  /\ filePaths' = IF v = "" THEN filePaths ELSE insertUnique(<< >>, environ[v])
  /\ UNCHANGED <<exist, environ, pluginPathEnv, pluginPaths, callbacks>>
AddFilePaths(dirs) ==
  /\ filePaths' = insertUnique(filePaths, dirs) /\ cleared' = FALSE
  /\ UNCHANGED <<exist, environ, pluginPathEnv, filePathEnv, pluginPaths, callbacks>>
ClearFilePaths ==
  /\ filePaths' = << >> /\ cleared' = TRUE
  /\ UNCHANGED <<exist, environ, pluginPathEnv, filePathEnv, pluginPaths, callbacks>>

SetCallback(c) ==
  /\ \/ findFileCB' = c /\ UNCHANGED <<findFileURICB, findFileCbs, findFileURICbs>>
     \/ findFileURICB' = c /\ UNCHANGED <<findFileCB, findFileCbs, findFileURICbs>>
  /\ cleared' = TRUE /\ UNCHANGED <<exist, environ, pluginPathEnv, filePathEnv, paths>>
AddCallback(c) ==
  /\ \/ /\ findFileCbs' = Append(findFileCbs, c)
        /\ UNCHANGED <<findFileCB, findFileURICB, findFileURICbs>>
     \/ /\ findFileURICbs' = Append(findFileURICbs, c)
        /\ UNCHANGED <<findFileCB, findFileURICB, findFileCbs>>
  /\ cleared' = FALSE /\ UNCHANGED <<exist, environ, pluginPathEnv, filePathEnv, paths>>

SysNext ==
  /\ calls < MaxCalls /\ calls' = calls + 1
  /\ \/ \E world \in Worlds : Exist(world)
     \/ \E v \in Variables, value \in Values : SetEnv(v, value)
     \/ \E v \in Variables \cup {""} : SetPluginPathEnv(v) \/ SetFilePathEnv(v)
     \/ PluginPaths \/ ClearPluginPaths \/ ClearFilePaths
     \/ \E dirs \in Values : AddPluginPaths(dirs) \/ AddFilePaths(dirs)
     \/ \E c \in Callbacks : SetCallback(c) \/ AddCallback(c)

SysSpec == SysInit /\ [][SysNext]_sysVars
-----------------------------------------------------------------------------
\* What was found stays found in the same place while only directories,
\* callbacks and values of variables are added: a directory that comes later
\* does not hide an earlier one, a callback no directory and no other callback,
\* and a changed variable no library (insertUnique, FindFile, PluginPaths).
FindsSurvive ==
  ~cleared' =>
    /\ \A q \in Requests, local \in BOOLEAN :
         FindFile(q, local) # NotFound /\ (filePaths' # filePaths => findFileCbs \o findFileURICbs = << >>)
           => FindFile(q, local)' = FindFile(q, local)
    /\ \A name \in Libraries : pluginPaths' = insertUnique(pluginPaths, PluginPathsNow)
         => SharedLibrary(name)' = SharedLibrary(name) \/ SharedLibrary(name) = NotFound
FindsStay == [][FindsSurvive]_sysVars

\* What a find returns is there, the directories hold each other once, and a
\* library is found by the name it has on any platform (GenerateLibraryPaths).
FindsAreThere ==
  /\ IsInjective(filePaths) /\ IsInjective(pluginPaths)
  /\ \A q \in Requests, local \in BOOLEAN : FindFile(q, local) \in exist \cup {NotFound}
  /\ \A name \in Libraries : name.ends = << >> /\ name.lib = 0 =>
       \A alias \in {Ends(Lib(name), "so"), Ends(Lib(name), "dylib"), Ends(name, "dll"), Ends(Lib(name), "SO")} :
         \A d \in ToSet(PluginPathsNow) : <<d, Ends(Lib(name), "so")>> \in exist
            => SharedLibrary(alias) # NotFound
=============================================================================
