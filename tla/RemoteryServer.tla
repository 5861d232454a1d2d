--------------------------- MODULE RemoteryServer ---------------------------
(***************************************************************************)
(* The server thread of Remotery.c with its sockets, and the viewers that  *)
(* connect to it one at a time.  Server_Update makes the listening socket  *)
(* again when it was lost, accepts a viewer after a handshake, reads the   *)
(* frames it sends and pings it; the thread ends when it is asked to.  The *)
(* accepted socket blocks, as on Linux: a read of several bytes waits for  *)
(* them, and a socket is closed only when its peer has closed too.         *)
(* A frame is a head and so many bytes; a byte knows its frame and place.  *)
(***************************************************************************)
EXTENDS Integers, Sequences

CONSTANTS
  MaxFrames,    \* bound: frames the viewers send
  Lengths,      \* the lengths of frames
  MaxLength,    \* a message this long or longer is ignored: 1023 in the code
  MaxLost       \* bound: times the port is taken by someone else

ASSUME RemoteryServerAssumption == MaxFrames \in Nat /\ MaxLost \in Nat /\ Lengths \subseteq Nat

VARIABLES
  port,         \* whether the port is free or the server's, or taken
  lost,         \* how many times it was taken
  listen,       \* the listening socket: "none", "listening" or "broken"
  client,       \* whether the server has a client socket
  viewer,       \* the viewer: "away", "waiting", "open", "closed" or "reset"
  shut,         \* the server's half of the connection is shut down
  inbox,        \* what the viewer sent and the server did not read
  frames,       \* frames sent so far
  owed,         \* the rest of a frame the viewer has sent the start of
  remaining,    \* frame_bytes_remaining of the client socket
  length,       \* message_length, kept by the stack from turn to turn
  message,      \* the bytes of the message read so far
  at,           \* where the thread is
  due,          \* a second has passed since the last ping
  exit          \* request_exit

net == <<port, lost, viewer, inbox, frames, owed>>
vars == <<net, listen, client, shut, remaining, length, message, at, due, exit>>

Init ==
  /\ port = "free" /\ lost = 0 /\ listen = "listening" /\ client = FALSE
  /\ viewer = "away" /\ shut = FALSE /\ inbox = << >> /\ frames = 0 /\ owed = << >>
  /\ remaining = 0 /\ length = 0 /\ message = << >>
  /\ at = "update" /\ due = FALSE /\ exit = FALSE

Head1(n) == [kind |-> "head", n |-> n]
Byte(f, k, n) == [kind |-> "byte", frame |-> f, place |-> k, n |-> n]
Frame(f, n) == <<Head1(n)>> \o [k \in 1..n |-> Byte(f, k, n)]

\* Nothing more will be read, now or later.
Ended == viewer \in {"closed", "reset"}
-----------------------------------------------------------------------------
(* The viewers and the port.  A viewer sends frames, some with a bad head or *)
(* the head that says goodbye, and leaves; when the server has shut down its *)
(* half it sees that and closes too.                                         *)
Connect ==
  /\ viewer = "away" /\ viewer' = "waiting"
  /\ UNCHANGED <<port, lost, inbox, frames, owed, listen, client, shut, remaining, length, message, at, due, exit>>
Send(n, k) ==
  /\ viewer = "open" /\ owed = << >> /\ frames < MaxFrames
  /\ frames' = frames + 1
  /\ inbox' = inbox \o SubSeq(Frame(frames + 1, n), 1, k + 1)
  /\ owed' = SubSeq(Frame(frames + 1, n), k + 2, n + 1)
  /\ UNCHANGED <<port, lost, viewer, listen, client, shut, remaining, length, message, at, due, exit>>
SendRest ==
  /\ viewer = "open" /\ owed # << >>
  /\ inbox' = inbox \o owed /\ owed' = << >>
  /\ UNCHANGED <<port, lost, viewer, frames, listen, client, shut, remaining, length, message, at, due, exit>>
SendHead(kind) ==
  /\ viewer = "open" /\ owed = << >> /\ frames < MaxFrames
  /\ frames' = frames + 1 /\ inbox' = Append(inbox, [kind |-> kind])
  /\ UNCHANGED <<port, lost, viewer, owed, listen, client, shut, remaining, length, message, at, due, exit>>
Leave ==
  /\ viewer = "open" /\ viewer' = "closed" /\ owed' = << >>
  /\ UNCHANGED <<port, lost, inbox, frames, listen, client, shut, remaining, length, message, at, due, exit>>
SeesShutdown == shut /\ Leave
TakePort ==
  /\ port = "free" /\ listen = "none" /\ lost < MaxLost
  /\ port' = "taken" /\ lost' = lost + 1
  /\ UNCHANGED <<viewer, inbox, frames, owed, listen, client, shut, remaining, length, message, at, due, exit>>
FreePort ==
  /\ port = "taken" /\ port' = "free"
  /\ UNCHANGED <<lost, viewer, inbox, frames, owed, listen, client, shut, remaining, length, message, at, due, exit>>
Tick ==
  /\ due' = TRUE
  /\ UNCHANGED <<net, listen, client, shut, remaining, length, message, at, exit>>
-----------------------------------------------------------------------------
(* The sockets.                                                              *)
\* Server_CreateListenSocket: a socket whose port is taken is kept all the same.
CreateListenSocket ==
  /\ at = "update" /\ listen = "none"
  /\ listen' = IF port = "free" THEN "listening" ELSE "broken"
  /\ UNCHANGED <<net, client, shut, remaining, length, message, at, due, exit>>

\* For the mutants: the socket is closed without being shut down first.
DisconnectRudely ==
  /\ client' = FALSE /\ at' = "closing"
  /\ UNCHANGED <<shut, remaining, length, message>>

\* Server_DisconnectClient up to the socket's closing, which waits for the peer.
Disconnect ==
  /\ client' = FALSE /\ shut' = TRUE /\ at' = "closing"
  /\ UNCHANGED <<remaining, length, message>>

\* TCPSocket_Close: it reads until the viewer has closed.
Close ==
  /\ at = "closing"
  /\ IF inbox # << >>
     THEN inbox' = Tail(inbox) /\ UNCHANGED <<viewer, shut, at>>
     ELSE Ended /\ viewer' = "away" /\ shut' = FALSE /\ at' = "ping" /\ UNCHANGED inbox
  /\ UNCHANGED <<port, lost, frames, owed, listen, client, remaining, length, message, due, exit>>

\* For the mutants: the listening socket is kept after a failure.
Kept == "broken"

\* The listening socket after a failure to accept: the next turn makes another.
Destroyed == "none"

\* WebSocket_AcceptConnection: nobody waits, the handshake is well, or it fails:
\* then the viewer's socket is forgotten and the listening one destroyed.
AcceptConnection ==
  /\ at = "update" /\ listen # "none" /\ ~client
  /\ \/ /\ listen = "listening" /\ viewer # "waiting"
        /\ UNCHANGED <<viewer, listen, client, remaining>>
     \/ /\ listen = "listening" /\ viewer = "waiting"
        /\ viewer' = "open" /\ client' = TRUE /\ remaining' = 0 /\ UNCHANGED listen
     \/ /\ listen = "listening" /\ viewer = "waiting"
        /\ viewer' = "away" /\ listen' = Destroyed /\ UNCHANGED <<client, remaining>>
     \/ listen = "broken" /\ listen' = Destroyed /\ UNCHANGED <<viewer, client, remaining>>
  /\ at' = "ping"
  /\ UNCHANGED <<port, lost, inbox, frames, owed, shut, length, message, due, exit>>

StartReceiving ==
  /\ at = "update" /\ listen # "none" /\ client /\ at' = "first"
  /\ UNCHANGED <<net, listen, client, shut, remaining, length, message, due, exit>>

\* A head: goodbye and a bad one disconnect, an empty frame is passed over.
ReceiveFrameHeader ==
  /\ at = "first" /\ remaining = 0 /\ inbox # << >>
  /\ inbox' = Tail(inbox)
  /\ IF Head(inbox).kind = "head"
     THEN /\ remaining' = Head(inbox).n /\ length' = Head(inbox).n
          /\ UNCHANGED <<client, shut, at, message>>
     ELSE Disconnect
  /\ UNCHANGED <<port, lost, viewer, frames, owed, listen, due, exit>>

\* The first byte of a message, or of the rest of one that was ignored.
ReceiveFirst ==
  /\ at = "first" /\ remaining > 0 /\ inbox # << >>
  /\ inbox' = Tail(inbox) /\ message' = <<Head(inbox)>>
  /\ remaining' = remaining - 1
  /\ at' = IF length >= MaxLength THEN "first" ELSE "rest"
  /\ UNCHANGED <<port, lost, viewer, frames, owed, listen, client, shut, length, due, exit>>

\* Nothing to read: a viewer that closed looks the same, until it is reset.
ReceiveNothing ==
  /\ at = "first" /\ inbox = << >>
  /\ IF viewer = "reset" THEN Disconnect
     ELSE at' = "ping" /\ UNCHANGED <<client, shut, remaining, length, message>>
  /\ UNCHANGED <<net, listen, due, exit>>

\* For the mutants: as many bytes are read as the message is long.
OneMore == length + 1

\* How many bytes make the message.
Whole == length

\* Server_ReceiveMessage: the rest of the message; a viewer that goes in its
\* middle, or does not send any of it in time, is disconnected.
ReceiveRest ==
  /\ at = "rest" /\ Len(message) < Whole
  /\ \/ /\ inbox # << >>
        /\ inbox' = Tail(inbox) /\ message' = Append(message, Head(inbox))
        /\ remaining' = remaining - 1
        /\ UNCHANGED <<client, shut, length, at>>
     \/ inbox = << >> /\ (Ended \/ Len(message) = 1) /\ Disconnect /\ UNCHANGED inbox
  /\ UNCHANGED <<port, lost, viewer, frames, owed, listen, due, exit>>

\* For the mutants: the error of a failed answer is not passed on.
SwallowError(next) ==
  /\ viewer' = IF client /\ viewer = "closed" THEN "reset" ELSE viewer
  /\ client' = (client /\ viewer # "reset")
  /\ at' = next /\ UNCHANGED <<shut, remaining, length, message>>

\* Server_Send: a viewer that closed answers the first with a reset, after
\* which sending fails.
SendOn(next) ==
  IF client /\ viewer = "reset" THEN Disconnect /\ UNCHANGED viewer
  ELSE /\ viewer' = IF client /\ viewer = "closed" THEN "reset" ELSE viewer
       /\ at' = next /\ UNCHANGED <<client, shut, remaining, length, message>>

\* Remotery_ReceiveMessage: a request for a name is answered, others are not.
Dispatch ==
  /\ at = "rest" /\ Len(message) = Whole
  /\ \/ SendOn("first")
     \/ at' = "first" /\ UNCHANGED <<viewer, client, shut, remaining, length, message>>
  /\ UNCHANGED <<port, lost, inbox, frames, owed, listen, due, exit>>

\* For the mutants: the ping is not sent.
NoPing ==
  /\ at = "ping" /\ at' = "sleep"
  /\ UNCHANGED <<net, listen, client, shut, remaining, length, message, due, exit>>

\* The ping, the queue of samples (see SampleTree), and the end of the turn.
Ping ==
  /\ at = "ping"
  /\ IF due THEN due' = FALSE /\ SendOn("sleep")
     ELSE at' = "sleep" /\ UNCHANGED <<viewer, client, shut, remaining, length, message, due>>
  /\ UNCHANGED <<port, lost, inbox, frames, owed, listen, exit>>

Sleep ==
  /\ at = "sleep" /\ at' = IF exit THEN "ended" ELSE "update"
  /\ UNCHANGED <<net, listen, client, shut, remaining, length, message, due, exit>>

RequestExit ==
  /\ ~exit /\ exit' = TRUE
  /\ UNCHANGED <<net, listen, client, shut, remaining, length, message, at, due>>

Thread ==
  \/ CreateListenSocket \/ AcceptConnection \/ StartReceiving \/ Close
  \/ ReceiveFrameHeader \/ ReceiveFirst \/ ReceiveNothing \/ ReceiveRest
  \/ Dispatch \/ Ping \/ Sleep

Viewers ==
  \/ Connect \/ Leave \/ SeesShutdown
  \/ SendRest \/ (\E n \in Lengths : \E k \in 0..n : Send(n, k)) \/ (\E kind \in {"bad", "goodbye"} : SendHead(kind))

Next == Thread \/ Viewers \/ TakePort \/ FreePort \/ Tick \/ RequestExit

\* The thread and time go on, a viewer closes when the server did, and the
\* port is given back.
Fairness == WF_vars(Thread) /\ WF_vars(Tick) /\ WF_vars(SeesShutdown) /\ WF_vars(FreePort)
Spec == Init /\ [][Next]_vars /\ Fairness
-----------------------------------------------------------------------------
\* What is put together and passed on are the bytes of one frame, from its first
\* and in their order, whatever frames were empty, ignored or cut off before it.
DispatchIsWhole ==
  at = "rest" =>
    \A k \in DOMAIN message : message[k] = Byte(message[1].frame, k, length)

\* The client socket is not used when it is gone, though an answer to a message
\* may itself have disconnected it.
ReadsAreOfAClient == at \in {"first", "rest"} => client

\* What is dispatched is a whole message of the viewer that is there
\* (Server_Update, WebSocket_Receive, Server_ReceiveMessage).
ViewersGetTheirOwn == DispatchIsWhole /\ ReadsAreOfAClient

\* A viewer that has gone, with or without goodbye, is disconnected.
GoneViewersAreDropped == (client /\ Ended) ~> (~client \/ at = "ended")

\* A viewer that waits comes to be accepted or turned away, even if the port
\* was taken in between, unless the thread is to end.
WaitingViewersAreHeard == (viewer = "waiting") ~> (viewer # "waiting" \/ at = "ended")

\* The thread ends when it is asked to.
ExitIsHeard == exit ~> (at = "ended")
=============================================================================
