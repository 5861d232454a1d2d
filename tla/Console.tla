------------------------------ MODULE Console -------------------------------
(***************************************************************************)
(* Console.cc: the loggers of the terminal, each of which also writes to   *)
(* the one log file, and FileLogger, an output stream over a file opened   *)
(* by Init or at the first use.  A message is one insertion (the streams   *)
(* flush after each) and stands for itself by the logger it was given to.  *)
(* An output stream that fails to flush is bad, and takes nothing more.    *)
(***************************************************************************)
EXTENDS Integers, Sequences, TLC

CONSTANTS
  Places,        \* the directories and names Init is told
  DefaultPlace,  \* .ignition/auto_default.log
  Relative,      \* those relative to the home directory, the default among them
  Folders,       \* those where there is a directory of that name
  Closed,        \* those where no file opens, the folders among them
  NoPlace,
  Verbosities,   \* the levels of verbosity a client sets
  MaxMessages    \* bound: messages since a file was opened, or since the start

VARIABLES
  home,       \* is the variable with the home directory set?
  verbosity,
  log         \* Console::log, the files and what is on the terminal

consoleVars == <<home, verbosity, log>>

Levels == [err |-> 1, warn |-> 2, msg |-> 3, dbg |-> 4]

\* due: history, the messages sent since a file was opened.
ConsoleInit ==
  /\ home \in BOOLEAN
  /\ verbosity = 1
  /\ log = [stream |-> NoPlace, bad |-> FALSE, initialized |-> FALSE, directory |-> << >>,
            files |-> << >>, shown |-> << >>, due |-> << >>]
-----------------------------------------------------------------------------
\* An insertion into the log, and the flush that follows it: it fails without a
\* stream, and what is written to one that did not open is lost.
Insert(s, m) ==
  CASE s.bad -> s
    [] ~s.bad /\ s.stream = NoPlace -> [s EXCEPT !.bad = TRUE]
    [] ~s.bad /\ s.stream \in Closed -> s
    [] OTHER -> [s EXCEPT !.files[s.stream] = Append(@, m)]

Logged(s, m) == [Insert(s, m) EXCEPT !.due = Append(@, m)]

\* A message of a logger: to the log whatever the verbosity, and to the terminal.
Said(s, m) == [Logged(s, m) EXCEPT !.shown = IF verbosity >= Levels[m] THEN Append(@, m) ELSE @]

\* A name that is a directory's is taken for the directory of the log.
LogDirectory(p) == [of |-> p, is |-> IF p \in Folders THEN "path" ELSE "parent"]

\* FileLogger::Init: the stream there was is closed, and a file that opens is empty.
Opened(s, p) ==
  IF p \in Relative /\ ~home THEN Said(s, "err")
  ELSE [s EXCEPT !.stream = p, !.initialized = TRUE, !.directory = LogDirectory(p),
                 !.files = IF p \notin Closed THEN (p :> << >>) @@ @ ELSE @,
                 !.shown = << >>, !.due = << >>]

\* The first use of ignlog opens the default file.
Ready(s) == IF s.initialized THEN s ELSE Opened(s, DefaultPlace)
-----------------------------------------------------------------------------
Room == Len(log.due) < MaxMessages

Message(m) == Room /\ log' = Said(log, m) /\ UNCHANGED <<home, verbosity>>
LogMessage == Room /\ log' = Logged(Ready(log), "log") /\ UNCHANGED <<home, verbosity>>
LogInit(p) == Room /\ log' = Opened(log, p) /\ UNCHANGED <<home, verbosity>>
SetVerbosity(v) == verbosity' = v /\ UNCHANGED <<home, log>>
SetHome == home' = ~home /\ UNCHANGED <<verbosity, log>>

ConsoleNext == \/ \E m \in DOMAIN Levels : Message(m)
               \/ LogMessage
               \/ \E p \in Places : LogInit(p)
               \/ \E v \in Verbosities : SetVerbosity(v)
               \/ SetHome

ConsoleSpec == ConsoleInit /\ [][ConsoleNext]_consoleVars
-----------------------------------------------------------------------------
Open == log.stream \in Places \ Closed

\* While the stream is good its file holds every message sent since it was
\* opened, those the terminal shows and those below the verbosity
\* (Logger::Buffer::sync, FileLogger::Init).
LogIsKept == Open /\ ~log.bad =>
  /\ log.files[log.stream] = log.due
  /\ \A i \in DOMAIN log.shown : \E j \in DOMAIN log.due : log.due[j] = log.shown[i]

\* Console.hh says ignLogInit initializes the log file and ignlog outputs a
\* message to it: an open log file holds every message sent since.
LogsReachTheirFile == Open => log.files[log.stream] = log.due
=============================================================================
