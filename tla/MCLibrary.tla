------------------------------ MODULE MCLibrary ------------------------------
(***************************************************************************)
(* The parts of the library that no thread shares: filters and times,      *)
(* plugins, files and where they are looked for, URIs, videos and sounds,  *)
(* batteries, and the log.  Each behaviour is about one of them, which it  *)
(* chooses at the beginning.                                               *)
(***************************************************************************)
EXTENDS MovingWindowFilter, Time, PluginLoader, Battery, Media, SequencesExt, TLC

CONSTANTS general, special1, special2

VARIABLES
  subject,                                                          \* what the behaviour is about
  disk, last, operations,                                           \* Filesystem
  exist, environ, pluginPathEnv, filePathEnv, pluginPaths, filePaths,
  findFileCB, findFileURICB, findFileCbs, findFileURICbs, cleared, calls,  \* SystemPaths
  uri, edits,                                                       \* URI
  home, verbosity, log                                              \* Console
-----------------------------------------------------------------------------
(* Filters and times.                                                      *)
MCValues == {-2, 1, 7}
MCSizes == {1, 2, 3}

MCOperands == {T(1, 3), T(0, 2), T(-1, -1), T(0, -3), T(7, 0)}
MCPairs    == {T(1, -5), T(-1, 4), T(3, 7), T(-2, 3), T(0, -7), T(1, -4)}
MCDoubles  == {-1, 1, -9, 15, -16}
MCReadings == {0, 5, 11}

(* A general pointer and two of a type specialised for one interface; two  *)
(* good libraries that register one plugin differently, and a newer one.   *)
MCPtrs == {general, special1, special2}
Plain(n) == [base |-> n, global |-> FALSE]
Global(n) == [base |-> n, global |-> TRUE]
MCSpecial == [p \in MCPtrs |-> IF p = general THEN {} ELSE {Global("f")}]
Good(v, regs) == [exists |-> TRUE, opens |-> TRUE, symbols |-> TRUE,
                  version |-> v, fits |-> TRUE, registers |-> regs]
Both == {<<Plain("X"), Plain("f")>>, <<Plain("X"), Plain("g")>>}
Other == {<<Plain("X"), Plain("g")>>, <<Plain("Y"), Plain("g")>>}
MCInterfaces == {Global("f"), Global("g")}
MCLibraries == ("both" :> Good(0, Both)) @@ ("other" :> Good(1, Other)) @@ ("newer" :> Good(2, Both))

(* What batteries are given.                                              *)
MCVoltages == {-1, 0, 2}

(* Trees that are copied and moved, with entries that stay.                *)
DirA == <<"a">>
DirB == <<"b">>
AB == <<"a", "b">>
RootDir == << >> :> "dir"
MCDisks ==
  { RootDir @@ (DirA :> "dir") @@ (<<"a", "c">> :> "x") @@ (AB :> "dir") @@ (<<"a", "b", "c">> :> "y"),
    RootDir @@ (DirA :> "dir") @@ (AB :> "dir") @@ (DirB :> "old"),
    RootDir @@ (DirA :> "dir") @@ (<<"a", "s">> :> "dir") @@ (<<"a", "s", "c">> :> "z")
            @@ (<<"a", "k">> :> "k") @@ (AB :> "b"),
    RootDir @@ (DirA :> "file") @@ (DirB :> "dir") @@ (<<"b", "c">> :> "old") @@ (<<"b", "k">> :> "kept") }
MCTargets == {DirA, DirB, AB, <<"a", "c">>, <<"b", "c">>, <<"b", "k">>, <<"a", "s">>}
MCNames == SeqOf({"a", "b", "/"}, 5)

(* Places a file and a library may be found in.                            *)
Libs(l, e) == [lib |-> l, stem |-> "p", ends |-> e]
File == [lib |-> 0, stem |-> "f", ends |-> << >>]
Places == {<<"here", File>>, <<"d1", File>>, <<"d2", File>>, <<"d2", Libs(1, <<"so">>)>>, <<"d1", Libs(0, <<"so">>)>>}
MCWorlds == {Places, Places \ {<<"here", File>>, <<"d1", File>>}, {<<"here", File>>, <<"d2", Libs(1, <<"so">>)>>}}
MCEnvironments == {<< >>, <<"d1">>, <<"d2", "d1">>}
Request(kind, name) == [kind |-> kind, name |-> name]
MCRequests == {Request("relative", File), Request("dotted", File), Request("absolute", <<"d1", File>>),
               Request("file", File), Request("other", File)}
MCAnswer(c, q) == IF c = "far" THEN <<"gone", File>> ELSE IF q.kind = "other" THEN <<"d1", File>>
                  ELSE IF c = "near" THEN <<"d2", File>> ELSE << >>

(* URIs with each component, and with none.                                *)
Host == <<"/", "/", "a">>
Schemes == {<<"a", ":">>, <<"file", ":">>}
Authorities == {<< >>, <<"/", "/">>, Host, <<"/", "/", "a", "@", "a">>, Host \o <<":", "7">>,
                <<"/", "/", "[", "7", "]", ":", "7">>, Host \o <<"@">>, <<"/", "/", "a", " ", "@", "7", ":">>}
UriPaths == {<< >>, <<"/">>, <<"/", "a">>, <<"a">>, <<"/", "a", "/">>, <<"a", "/", "/", "a">>, <<"a", " ", ":">>}
Queries == {<< >>, <<"?", "a", "&", "a", "=", "a", "=", "7">>, <<"?", "=", "a">>}
Fragments == {<< >>, <<"#", "a">>}
MCUris == {a \o b \o c \o d \o e : a \in Schemes, b \in Authorities, c \in UriPaths, d \in Queries, e \in Fragments}
MCReparsed == {<<"a", ":">> \o p : p \in UriPaths \cup {<<" ">>}}
MCParts == {<<"a">>, <<"/">>, <<"/", "a">>, <<"a", "/", "7">>}

(* Files of pictures and of sound that can be read, and one for each way   *)
(* in which they cannot.                                                   *)
Medium(streams, packets, fails) == [streams |-> streams, packets |-> packets, fails |-> fails]
MCVideoFiles ==
  {Medium(<<"audio", "video">>, <<1, 2, 2>>, ""), Medium(<<"video", "audio">>, <<1, 2>>, ""), Medium(<<"audio">>, <<1>>, "")}
    \cup {Medium(<<"video">>, <<1>>, s) : s \in {"open", "info", "codec", "context", "parameters", "decoder", "scaler"}}
Packet(s, frames) == [stream |-> s, frames |-> frames]
MCAudioFiles ==
  {Medium(<<"video", "audio">>, <<Packet(2, <<2, 2>>), Packet(1, <<9>>), Packet(2, <<12, 1, 3>>), Packet(2, <<1, 1>>)>>, ""),
   Medium(<<"audio", "audio">>, <<Packet(1, <<1, 1, 1, 1, 1, 1>>), Packet(2, <<7>>), Packet(1, <<20, 4>>)>>, ""),
   Medium(<<"video">>, << >>, "")}
    \cup {Medium(<<"audio">>, <<Packet(1, <<1>>)>>, s) : s \in {"open", "info", "codec", "decoder"}}
-----------------------------------------------------------------------------
Files == INSTANCE Filesystem WITH
  Disks <- MCDisks, Targets <- MCTargets, Stuck <- {<<"a", "k">>, <<"b", "k">>},
  Sealed <- {<<"a", "s">>}, Spellings <- MCNames, MaxCalls <- 2, calls <- operations
Finder == INSTANCE SystemPaths WITH
  Here <- "here", Worlds <- MCWorlds, Values <- MCEnvironments, Variables <- {"F", "P"},
  FileEnv <- "F", PluginEnv <- "P", Requests <- MCRequests,
  Libraries <- {Libs(0, << >>), Libs(0, <<"dll">>)},
  Callbacks <- {"near", "far"}, Answer <- MCAnswer, MaxCalls <- 2
Uris == INSTANCE URI WITH
  Spellings <- MCUris, Reparsed <- MCReparsed, Parts <- MCParts, MaxEdits <- 3
Messages == INSTANCE Console WITH
  Places <- {"auto", "own", "folder"}, DefaultPlace <- "auto", Relative <- {"auto"}, Folders <- {"folder"},
  Closed <- {"folder"}, NoPlace <- "none", Verbosities <- {1, 4}, MaxMessages <- 2

filesVars == <<disk, last, operations>>
finderVars == <<exist, environ, pluginPathEnv, filePathEnv, pluginPaths, filePaths,
                findFileCB, findFileURICB, findFileCbs, findFileURICbs, cleared, calls>>
urisVars == <<uri, edits>>
mediaVars == <<videoVars, audioVars>>
logVars == <<home, verbosity, log>>
smallVars == <<vars, timeVars>>

MCInit ==
  /\ subject \in {"filter", "time", "plugins", "files", "finder", "uris", "pictures", "sounds", "power", "log"}
  /\ Init /\ TimeInit /\ LoaderInit /\ Files!DiskInit /\ Finder!SysInit /\ Uris!UriInit
  /\ VideoInit /\ AudioInit /\ BatteryInit /\ Messages!ConsoleInit
  /\ subject # "time" => clock = 0
  /\ subject # "files" => disk = CHOOSE d \in MCDisks : TRUE
  /\ subject # "finder" => exist = Places /\ environ["F"] = << >> /\ environ["P"] = << >>
  /\ subject # "pictures" => newApi
  /\ subject # "power" => \A b \in Batteries : initVoltage[b] = 0 /\ updateFunc[b] = "default"
  /\ subject # "log" => home

MCNext ==
  /\ UNCHANGED subject
  /\ \/ /\ subject = "filter" /\ Next
        /\ UNCHANGED <<timeVars, loaderVars, filesVars, finderVars, urisVars, mediaVars, batteryVars, logVars>>
     \/ /\ subject = "time" /\ TimeNext
        /\ UNCHANGED <<vars, loaderVars, filesVars, finderVars, urisVars, mediaVars, batteryVars, logVars>>
     \/ /\ subject = "plugins" /\ LoaderNext
        /\ UNCHANGED <<smallVars, filesVars, finderVars, urisVars, mediaVars, batteryVars, logVars>>
     \/ /\ subject = "files" /\ Files!DiskNext
        /\ UNCHANGED <<smallVars, loaderVars, finderVars, urisVars, mediaVars, batteryVars, logVars>>
     \/ /\ subject = "finder" /\ Finder!SysNext
        /\ UNCHANGED <<smallVars, loaderVars, filesVars, urisVars, mediaVars, batteryVars, logVars>>
     \/ /\ subject = "uris" /\ Uris!UriNext
        /\ UNCHANGED <<smallVars, loaderVars, filesVars, finderVars, mediaVars, batteryVars, logVars>>
     \/ /\ subject = "pictures" /\ VideoNext
        /\ UNCHANGED <<smallVars, loaderVars, filesVars, finderVars, urisVars, batteryVars, logVars>>
        /\ UNCHANGED audioVars
     \/ /\ subject = "sounds" /\ AudioNext
        /\ UNCHANGED <<smallVars, loaderVars, filesVars, finderVars, urisVars, batteryVars, logVars>>
        /\ UNCHANGED videoVars
     \/ /\ subject = "power" /\ BatteryNext
        /\ UNCHANGED <<smallVars, loaderVars, filesVars, finderVars, urisVars, mediaVars, logVars>>
     \/ /\ subject = "log" /\ Messages!ConsoleNext
        /\ UNCHANGED <<smallVars, loaderVars, filesVars, finderVars, urisVars, mediaVars, batteryVars>>

MCSpec == MCInit /\ [][MCNext]_<<subject, smallVars, loaderVars, filesVars, finderVars,
                                 urisVars, mediaVars, batteryVars, logVars>>
-----------------------------------------------------------------------------
\* Copies and moves lose no file, and removals take what they are asked for,
\* entry by entry and whatever of them fails (Filesystem.cc); a path is its
\* parent and its name (parentPath, basename); and the file of a log whose
\* stream is good has all that was logged (FileLogger, Logger::Buffer::sync).
DiskIsKept ==
  /\ subject = "files" =>
       /\ Files!TransfersLoseNothing /\ Files!RemovalsAreExact
       /\ last = << >> => Files!NamesComeApart
  /\ subject = "log" => Messages!LogIsKept

\* What SystemPaths finds is there, and stays found while directories and
\* callbacks are added.
FindsAreStable == /\ [](subject = "finder" => Finder!FindsAreThere)
                  /\ [][subject = "finder" => Finder!FindsSurvive]_finderVars

\* A URI reads back from the text it is written as (URI::Parse, URI::Str).
UrisReadBack == subject = "uris" => Uris!UrisReadBack
=============================================================================
