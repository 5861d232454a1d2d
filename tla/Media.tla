------------------------------- MODULE Media --------------------------------
(***************************************************************************)
(* Pictures and sounds read from files: the libav objects behind a Video   *)
(* (av/src/Video.cc) and behind an AudioDecoder (av/src/AudioDecoder.cc)   *)
(* over any number of files set one after the other, of which some fail    *)
(* half way, and what is read from them.  libav is external: a file says   *)
(* what becomes of it; decoding sound does not fail.                       *)
(***************************************************************************)
EXTENDS Integers, Sequences

CONSTANTS VideoFiles, \* [streams: their kinds, packets: the stream of each, fails: a stage or ""]
          Bytes,      \* of a packet
          MaxLoads,   \* bound: calls of Load
          AudioFiles, \* as VideoFiles, but packets: the stream of each and the sizes
                      \* of the frames in it
          MaxFiles    \* bound: calls of SetFile

VARIABLES video,     \* the members of VideoPrivate
          loaded,    \* what the last Load returned
          loadCalls, \* how many there were
          videoRead, \* packets read since
          bytesLeft, \* bytes left of the packet NextFrame is at; 0 outside of it
          shown,     \* the picture in the caller's buffer: its file and packet
          newApi,    \* whether libav is of version 57.48.101 or later
          audio,     \* the members of AudioDecoderPrivate
          audioSet,  \* what the last SetFile returned
          fileCalls, \* how many there were
          audioRead, \* packets read of the file
          decoded    \* the caller's buffer: its room, what was copied, whether that fitted

videoVars == <<video, loaded, loadCalls, videoRead, bytesLeft, shown, newApi>>
audioVars == <<audio, audioSet, fileCalls, audioRead, decoded>>

Nothing == << >>
VideoStages == <<"open", "info", "stream", "codec", "context", "parameters", "decoder", "scaler">>
AudioStages == <<"open", "info", "stream", "codec", "decoder">>

Opens(stages, f) ==
  f.streams \in Seq(STRING) /\ f.fails \in {stages[i] : i \in DOMAIN stages} \cup {""}

ASSUME MediaAssumption ==
  /\ Bytes \in Nat
  /\ \A f \in VideoFiles : Opens(VideoStages, f) /\ f.packets \in Seq(Nat)
  /\ \A f \in AudioFiles : /\ Opens(AudioStages, f)
                          /\ f.packets \in Seq([stream : Nat, frames : Seq(Nat)])
-----------------------------------------------------------------------------
(* What opening a file comes to, for either.                               *)

\* The first stream of a kind, or 0.
First(kind, f) ==
  LET all == {i \in DOMAIN f.streams : f.streams[i] = kind}
  IN IF all = {} THEN 0 ELSE CHOOSE i \in all : \A j \in all : i <= j

Stage(stages, s) == CHOOSE i \in DOMAIN stages : stages[i] = s

\* The last of the stages that opening a file gets past.
Past(stages, kind, f) ==
  LET fails == {Stage(stages, s) : s \in {f.fails} \ {""}}
                 \cup (IF First(kind, f) = 0 THEN {Stage(stages, "stream")} ELSE {})
  IN IF fails = {} THEN Len(stages) ELSE (CHOOSE i \in fails : \A j \in fails : i <= j) - 1
-----------------------------------------------------------------------------
(* Video.                                                                  *)

Freed == <<"freed", "">>
Closed == <<"closed", "">>
Unopened == <<"unopened", "">>
VideoPast(f) == Past(VideoStages, "video", f)

\* Everything but the scaler is given up; what was allocated for the picture is
\* freed but stays where it was, as does the closed decoder.
Cleanup(v) ==
  [v EXCEPT !.avFrame = Nothing, !.format = Nothing,
            !.codec = IF @ = Nothing THEN Nothing ELSE Closed,
            !.dst = IF @ = Nothing THEN Nothing ELSE Freed]

Loaded(v, f) ==
  LET old == IF v.format # Nothing \/ v.avFrame # Nothing \/ v.codec # Nothing THEN Cleanup(v) ELSE v
      past(stage) == VideoPast(f) >= Stage(VideoStages, stage)
      Now(stage, then) == IF past(stage) THEN <<f>> ELSE then
  IN [format |-> Now("open", Nothing), avFrame |-> <<"live">>,
      stream |-> IF past("info") THEN First("video", f) ELSE 0,
      codec |-> IF past("context") /\ ~past("decoder") THEN Unopened
                ELSE Now("decoder", IF past("codec") THEN Nothing ELSE old.codec),
      sws |-> Now("scaler", IF past("decoder") THEN Nothing ELSE old.sws),
      dst |-> Now("scaler", old.dst)]

\* Freed once more after a load that failed, dst is freed twice: the program
\* ends there, if not before.
DstFreedTwice(v) ==
  v.dst = Freed /\ (v.format # Nothing \/ v.avFrame # Nothing \/ v.codec # Nothing)
-----------------------------------------------------------------------------
NoVideo == [format |-> Nothing, avFrame |-> Nothing, stream |-> 0,
            codec |-> Nothing, sws |-> Nothing, dst |-> Nothing]
VideoInit == /\ video = NoVideo /\ loaded = FALSE /\ loadCalls = 0 /\ videoRead = 0 /\ bytesLeft = 0
             /\ shown = Nothing /\ newApi \in BOOLEAN

Load == /\ bytesLeft = 0 /\ loadCalls < MaxLoads /\ loadCalls' = loadCalls + 1
        /\ ~DstFreedTwice(video)
        /\ \E f \in VideoFiles :
             /\ video' = Loaded(video, f)
             /\ loaded' = (VideoPast(f) = Len(VideoStages))
        /\ videoRead' = 0 /\ shown' = Nothing /\ UNCHANGED <<bytesLeft, newApi>>

\* NextFrame is only asked of a video that was loaded.  It is at a packet of its
\* own stream until that is used up, and done with any other.
NextFrame ==
  /\ loaded /\ bytesLeft = 0 /\ videoRead < Len(video.format[1].packets)
  /\ videoRead' = videoRead + 1
  /\ bytesLeft' = IF video.format[1].packets[videoRead + 1] = video.stream THEN Bytes ELSE 0
  /\ UNCHANGED <<video, loaded, loadCalls, shown, newApi>>

\* AVCodecDecode: the packet is decoded anew by the new interface, which says
\* that nothing of it was used; the old one says how much was.
AVCodecDecode ==
  /\ bytesLeft > 0
  /\ \E used \in IF newApi THEN {0} ELSE 0..bytesLeft : bytesLeft' = bytesLeft - used
  /\ shown' \in {shown, <<video.format[1], videoRead>>}
  /\ UNCHANGED <<video, loaded, loadCalls, videoRead, newApi>>
DecodeFails == bytesLeft > 0 /\ bytesLeft' = 0 /\ UNCHANGED <<video, loaded, loadCalls, videoRead, shown, newApi>>

VideoNext == Load \/ NextFrame \/ AVCodecDecode \/ DecodeFails
VideoSpec == VideoInit /\ [][VideoNext]_videoVars
VideoFairSpec == VideoSpec /\ WF_videoVars(AVCodecDecode)
-----------------------------------------------------------------------------
\* However many loads there were and however they ended, a video that is loaded
\* has all of NextFrame's objects alive and of the same file, reads from a
\* stream of pictures, and shows none of another file or of a stream of sound.
PicturesAreOfTheVideo ==
  /\ loaded =>
       /\ \E f \in VideoFiles : \A m \in {"format", "codec", "sws", "dst"} : video[m] = <<f>>
       /\ video.avFrame = <<"live">> /\ video.format[1].streams[video.stream] = "video"
  /\ shown # Nothing => shown[1].streams[shown[1].packets[shown[2]]] = "video"

\* NextFrame returns: the loop over the data of a packet ends (Video.cc:241).
NextFrameReturns == bytesLeft > 0 ~> bytesLeft = 0
-----------------------------------------------------------------------------
(* AudioDecoder.                                                           *)

Empty == [room |-> 0, frames |-> << >>, size |-> 0, fits |-> TRUE]
AudioPast(f) == Past(AudioStages, "audio", f)

\* The file before is not closed.  Of one that cannot be decoded the context
\* stays, which is gone with the file.
FileSet(a, f) ==
  LET past(stage) == AudioPast(f) >= Stage(AudioStages, stage)
      ok == past("decoder")
  IN [format |-> IF ok THEN <<f>> ELSE Nothing,
      stream |-> IF past("info") THEN First("audio", f) ELSE a.stream,
      codecCtx |-> IF ok THEN <<f>> ELSE IF past("stream") THEN <<"gone", "">> ELSE a.codecCtx,
      codec |-> IF past("codec") THEN <<f>> ELSE IF past("stream") THEN Nothing ELSE a.codec,
      filename |-> IF ok THEN <<f>> ELSE a.filename]

\* For the mutants: as much room as five frames need, instead of five more.
RoomForFive(room, size) == size * 5
MoreRoom(room, size) == room + size * 5

Copy(o, size) ==
  LET room == IF o.size + size > o.room THEN MoreRoom(o.room, size) ELSE o.room
  IN [room |-> room, frames |-> Append(o.frames, size), size |-> o.size + size,
      fits |-> o.fits /\ o.size + size <= room]

Copied(sizes) ==
  LET upTo[n \in 0 .. Len(sizes)] == IF n = 0 THEN Empty ELSE Copy(upTo[n - 1], sizes[n])
  IN upTo[Len(sizes)]

\* What is in the packets of the stream after the first ones.
Frames(f, stream, first) ==
  LET upTo[p \in first .. Len(f.packets)] ==
        IF p = first THEN << >>
        ELSE upTo[p - 1]
             \o IF f.packets[p].stream = stream THEN f.packets[p].frames ELSE << >>
  IN upTo[Len(f.packets)]
-----------------------------------------------------------------------------
AudioInit ==
  /\ audio = [format |-> Nothing, stream |-> 1, codecCtx |-> Nothing, codec |-> Nothing, filename |-> Nothing]
  /\ audioSet = FALSE /\ fileCalls = 0 /\ audioRead = 0 /\ decoded = Empty

SetFile ==
  /\ fileCalls < MaxFiles /\ fileCalls' = fileCalls + 1
  /\ \E f \in AudioFiles : audio' = FileSet(audio, f) /\ audioSet' = (AudioPast(f) = Len(AudioStages))
  /\ audioRead' = 0 /\ UNCHANGED decoded

\* Without a decoder it is refused; with the decoder of a file that was closed
\* since it reads from nowhere, which no caller may ask for.  It reads to the end
\* and seeks back to the beginning.
Decode ==
  /\ audio.codec # Nothing /\ audio.format # Nothing
  /\ decoded' = Copied(Frames(audio.format[1], audio.stream, audioRead))
  /\ audioRead' = 0 /\ UNCHANGED <<audio, audioSet, fileCalls>>

AudioNext == SetFile \/ Decode
AudioSpec == AudioInit /\ [][AudioNext]_audioVars
-----------------------------------------------------------------------------
\* Decode copies all of the file that was set last and its first stream of
\* sound, each time again, and never more than there is room for, however its
\* frames differ in size and whatever failed before; the decoder is one of that
\* file.
DecodesAreWhole ==
  /\ audioSet => audio.codecCtx = audio.format /\ audio.filename = audio.format
              /\ audio.format[1].streams[audio.stream] = "audio"
  /\ decoded.fits
  /\ decoded # Empty => \E f \in AudioFiles : decoded.frames = Frames(f, First("audio", f), 0)

\* A Video that is loaded has its objects alive and of one file, and a decode
\* is all the sound of the file set last (Video::Load, AudioDecoder::SetFile).
MediaAreOfTheirFile == PicturesAreOfTheVideo /\ DecodesAreWhole
=============================================================================
