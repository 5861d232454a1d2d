---------------------------- MODULE VideoEncoder ----------------------------
(***************************************************************************)
(* ignition::common::VideoEncoder (av/src/VideoEncoder.cc) and the files   *)
(* it records to.  The members of VideoEncoderPrivate are the record enc.  *)
(* A file is the set of frames its muxer was given, and whether the        *)
(* trailer has been written; a frame is its pts and its timestamp.         *)
(* libav is external: the codec may keep up to Lookahead frames back, and  *)
(* when Lossy a frame or a packet may fail, which AddFrame only logs.      *)
(***************************************************************************)
EXTENDS Integers, FiniteSets, Functions

CONSTANTS Temps,       \* names Start is given for the recording
          Default,     \* cwd() + "/TMP_RECORDING." + format
          Device,      \* a video4linux loopback device
          Targets,     \* names SaveToFile is given
          Stamps,      \* timestamps of frames, 0 being the clock's epoch
          Period,      \* 1 / fps
          Sizes,       \* sizes of input frames
          BitRates,    \* does Start compute the bit rate or is it given one?
          Lookahead,   \* frames the codec may keep back
          Lossy,       \* may the codec or the muxer refuse a frame?
          Resizes,     \* may the size change right after sws_getContext failed?
          Concurrent,  \* may AddFrame overlap the calls that take no lock?
          MaxFrames,   \* bound: frames of a recording
          NoName, NoSize

\* What the constants are to be: the absence of a name or a size is none of
\* them, and time and frames are counted.
SoundConstants ==
  /\ NoName \notin Temps \cup Targets \cup {Default, Device} /\ NoSize \notin Sizes
  /\ Stamps \subseteq Int /\ Period \in Nat /\ MaxFrames \in Nat
  /\ BitRates \subseteq {"auto", "given"}

ASSUME EncoderAssumption == SoundConstants

VARIABLES enc,     \* the encoder's members
          disk,    \* the files that exist
          adding,  \* AddFrame is past its checks and has not returned
          answer   \* the last call to return and what it returned

encoderVars == <<enc, disk, adding, answer>>

Names   == Temps \cup Targets \cup {Default, Device}
Formats == {"mp4", "v4l", "v4l2"}
Frames  == [pts : 0 .. MaxFrames, stamp : Stamps]
Calls   == {"new", "start", "add", "stop", "save", "reset"}

\* frames: in the file; given: those AddFrame returned true for;
\* sealed: the trailer is written; kept: SaveToFile has had it.
Files == [frames : SUBSET Frames, given : SUBSET Frames,
          sealed : BOOLEAN, kept : BOOLEAN]

EncoderTypeOK ==
  /\ enc \in [encoding : BOOLEAN, format : {"mp4", "v4l2"}, filename : Names \cup {NoName},
              contexts : SUBSET {"format", "codec", "out", "sws"},
              inFrame : Sizes \cup {NoSize}, inSize : Sizes \cup {NoSize},
              timePrev : Stamps \cup {0}, frameCount : 0 .. MaxFrames,
              held : SUBSET Frames, bitRate : {"default", "auto", "given"}]
  /\ DOMAIN disk \subseteq Names
  /\ \A n \in DOMAIN disk : disk[n] \in Files
  /\ adding \in BOOLEAN
  /\ answer \in [call : Calls, ok : BOOLEAN]

NewEncoder == [encoding |-> FALSE, format |-> "mp4", filename |-> NoName,
               contexts |-> {}, inFrame |-> NoSize, inSize |-> NoSize,
               timePrev |-> 0, frameCount |-> 0, held |-> {},
               bitRate |-> "default"]

NewFile == [frames |-> {}, given |-> {}, sealed |-> FALSE, kept |-> FALSE]

Answer(c, ok) == answer' = [call |-> c, ok |-> ok]

EncoderInit ==
  /\ enc = NewEncoder
  /\ disk = [n \in {Device} |-> [NewFile EXCEPT !.kept = TRUE]]
  /\ adding = FALSE
  /\ answer = [call |-> "new", ok |-> TRUE]

-----------------------------------------------------------------------------
(* Stop and Reset, which the other calls are made of.                      *)

Recording(e) == e.encoding /\ e.format # "v4l2"

\* Faulty variant: the contexts are freed and the encoder goes on encoding.
StoppedEncoding(e) ==
  [e EXCEPT !.contexts = {}, !.inFrame = NoSize, !.held = {}]

\* Stop writes the trailer and frees everything; what the codec has kept
\* back goes with its context.  timePrev and filename stay.
Stopped(e) == [e EXCEPT !.encoding = FALSE, !.contexts = {},
                        !.inFrame = NoSize, !.held = {}]

Sealed(e, d) ==
  IF Recording(e) /\ "format" \in e.contexts /\ e.filename \in DOMAIN d
    THEN [d EXCEPT ![e.filename].sealed = TRUE]
    ELSE d

Without(d, n) == Restrict(d, DOMAIN d \ {n})

\* Reset stops, goes back to the defaults and removes the file of the
\* recording, whose name it keeps.
WasReset(e)     == [NewEncoder EXCEPT !.filename = e.filename]
ResetDisk(e, d) == Without(Sealed(e, d), e.filename)

\* The lock of AddFrame: the other calls do not take it.
Free == Concurrent \/ ~adding

Stop == /\ Free
        /\ enc' = Stopped(enc)
        /\ disk' = Sealed(enc, disk)
        /\ Answer("stop", TRUE)
        /\ UNCHANGED adding

Reset == /\ Free
         /\ enc' = WasReset(enc)
         /\ disk' = ResetDisk(enc, disk)
         /\ Answer("reset", TRUE)
         /\ UNCHANGED adding

\* ~VideoEncoder resets; the client may go on with a new one.
Destroy == /\ ~adding
           /\ enc' = NewEncoder
           /\ disk' = ResetDisk(enc, disk)
           /\ Answer("new", TRUE)
           /\ UNCHANGED adding
-----------------------------------------------------------------------------
(* Start.  What is left of an earlier recording goes first.                *)

Leftover(e) == e.inFrame # NoSize \/ e.contexts \cap {"format", "out", "sws"} # {}

Prepared(e, f, n, b) ==
  LET old == IF Leftover(e) THEN WasReset(e) ELSE e
  IN  [old EXCEPT !.format = IF f = "v4l" THEN "v4l2" ELSE f,
                  !.bitRate = b, !.frameCount = 0,
                  !.filename = IF n = NoName /\ f = "mp4" THEN Default ELSE n]

\* Faulty variant: the file of the last recording is left where it is.
LeaveOldTemp(e, d) == IF Leftover(e) THEN ResetDisk(e, d) ELSE d

\* Reset, when anything is allocated, and then "Remove old temp file".
Cleared(e, d) == Without(d, e.filename)

\* A second Start changes nothing.
StartAgain == /\ Free /\ enc.encoding
              /\ Answer("start", FALSE)
              /\ UNCHANGED <<enc, disk, adding>>

\* Every failure but the next calls Reset, which also removes the file that
\* avio_open may just have made.  v4l2 with no file name always fails.
StartFails(f, n, b) ==
  LET e == Prepared(enc, f, n, b)
  IN  /\ Free /\ ~enc.encoding
      /\ enc' = WasReset(e)
      /\ disk' = ResetDisk(e, Cleared(enc, disk))
      /\ Answer("start", FALSE)
      /\ UNCHANGED adding

\* avcodec_parameters_from_context fails: Start returns without a Reset.
StartHalfway(f, n, b) ==
  LET e == Prepared(enc, f, n, b)
  IN  /\ Free /\ ~enc.encoding /\ e.filename # NoName
      /\ enc' = [e EXCEPT !.contexts = {"format", "codec", "out"}]
      /\ disk' = Cleared(enc, disk)
      /\ Answer("start", FALSE)
      /\ UNCHANGED adding

\* v4l2 is AVFMT_NOFILE: nothing is created.
Start(f, n, b) ==
  LET e == Prepared(enc, f, n, b)
      d == Cleared(enc, disk)
  IN  /\ Free /\ ~enc.encoding /\ e.filename # NoName
      /\ enc' = [e EXCEPT !.encoding = TRUE,
                          !.contexts = {"format", "codec", "out"}]
      /\ disk' = IF e.format = "v4l2" THEN d
                 ELSE [x \in DOMAIN d \cup {e.filename} |->
                         IF x = e.filename THEN NewFile ELSE d[x]]
      /\ Answer("start", TRUE)
      /\ UNCHANGED adding
-----------------------------------------------------------------------------
(* AddFrame holds the mutex from its checks to its end.                    *)

TooEarly(t) == t - enc.timePrev < Period

AddRefused(t) == /\ ~adding
                 /\ ~enc.encoding \/ TooEarly(t)
                 /\ Answer("add", FALSE)
                 /\ UNCHANGED <<enc, disk, adding>>

\* Faulty variant: a frame of another size goes through the old scaler.
OldScaler(e, s) ==
  IF "sws" \in e.contexts THEN [e EXCEPT !.inSize = s]
  ELSE [e EXCEPT !.inSize = s,
                 !.inFrame = IF e.inFrame = NoSize THEN s ELSE e.inFrame]

\* A new size drops the scaler and its input frame; with no scaler the
\* size is noted, and an input frame is allocated if there is none.
Resized(e, s) ==
  LET dropped == "sws" \in e.contexts /\ e.inSize # s
      frame   == IF dropped THEN NoSize ELSE e.inFrame
  IN  IF "sws" \in e.contexts /\ ~dropped THEN e
      ELSE [e EXCEPT !.inSize = s, !.contexts = @ \ {"sws"},
                     !.inFrame = IF frame = NoSize THEN s ELSE frame]

\* After a failure the input frame is there and no scaler is.
MaySend(s) == Resizes \/ "sws" \in enc.contexts \/ enc.inFrame \in {NoSize, s}

\* Faulty variant: the frame's time is not noted.
Forgetful(e, t) == e

Noted(e, t) == [e EXCEPT !.timePrev = t]

AddFrame(s, t) ==
  LET e == Resized(Noted(enc, t), s)
  IN  /\ MaySend(s)
      /\ ~adding /\ enc.encoding /\ ~TooEarly(t) /\ enc.frameCount < MaxFrames
      /\ enc' = [e EXCEPT !.contexts = @ \cup {"sws"}]
      /\ adding' = TRUE
      /\ UNCHANGED <<disk, answer>>

\* sws_getContext fails for want of a scaler.
AddFails(s, t) ==
  LET e == Resized(Noted(enc, t), s)
  IN  /\ MaySend(s) /\ "sws" \notin e.contexts
      /\ ~adding /\ enc.encoding /\ ~TooEarly(t)
      /\ enc' = e
      /\ Answer("add", FALSE)
      /\ UNCHANGED <<disk, adding>>

\* The frame is numbered and sent; the packets the codec has ready are
\* written.  AddFrame returns true whatever becomes of them.
Encode ==
  LET frame == [pts |-> enc.frameCount, stamp |-> enc.timePrev]
  IN  /\ adding /\ {"format", "codec", "out", "sws"} \subseteq enc.contexts
      /\ \E sent \in BOOLEAN :
           LET held == IF sent THEN enc.held \cup {frame} ELSE enc.held
           IN  \E packets \in SUBSET held : \E written \in SUBSET packets :
                 /\ IF sent THEN Cardinality(held \ packets) <= Lookahead
                            ELSE packets = {}
                 /\ ~Lossy => sent /\ written = packets
                 /\ enc' = [enc EXCEPT !.frameCount = @ + 1,
                                       !.held = held \ packets]
                 /\ disk' = IF ~Recording(enc) THEN disk
                            ELSE [disk EXCEPT
                                    ![enc.filename].frames = @ \cup written,
                                    ![enc.filename].given = @ \cup {frame}]
      /\ adding' = FALSE
      /\ Answer("add", TRUE)
-----------------------------------------------------------------------------
(* SaveToFile moves the recording to its name, which moveFile does by      *)
(* copying it and removing the original.                                   *)

CanCopy(e, d, n) == e.filename \in DOMAIN d /\ n # e.filename

\* what remains when moveFile is done: it may move the file, fail to write
\* the new one, or fail to remove the old one and then remove the copy
MoveOutcomes(e, d, n) ==
  {"unwritten"} \cup (IF CanCopy(e, d, n) THEN {"moved", "unremoved"} ELSE {})

Moved(e, d, n, outcome) ==
  CASE outcome = "moved"     -> [x \in (DOMAIN d \ {e.filename}) \cup {n} |->
                                   IF x = n THEN [d[e.filename] EXCEPT !.kept = TRUE]
                                            ELSE d[x]]
    [] outcome = "unremoved" -> Without(d, n)
    [] OTHER                 -> d

\* The file a failed save leaves where it was is nobody's temporary file now.
Kept(e, d) == IF e.filename \in DOMAIN d THEN [d EXCEPT ![e.filename].kept = TRUE]
                                         ELSE d

\* Faulty variant: Reset still knows the name of the recording.
ForgetLate(e) == e

Forgotten(e) == [e EXCEPT !.filename = NoName]

SaveToFile(n, outcome) ==
  LET e == Stopped(enc)
      d == Sealed(enc, disk)
      m == IF e.format = "v4l2" THEN d ELSE Moved(e, d, n, outcome)
  IN  /\ Free
      /\ IF e.format = "v4l2" THEN outcome = "moved"
                              ELSE outcome \in MoveOutcomes(e, d, n)
      /\ enc' = WasReset(Forgotten(e))
      /\ disk' = ResetDisk(Forgotten(e), Kept(e, m))
      /\ Answer("save", outcome = "moved")
      /\ UNCHANGED adding
-----------------------------------------------------------------------------
EncoderNext ==
  \/ Stop \/ Reset \/ Destroy \/ StartAgain
  \/ \E f \in Formats, b \in BitRates :
       \E n \in {NoName} \cup (IF f = "mp4" THEN Temps ELSE {Device}) :
         StartFails(f, n, b) \/ StartHalfway(f, n, b) \/ Start(f, n, b)
  \/ \E s \in Sizes, t \in Stamps : AddFrame(s, t) \/ AddFails(s, t)
  \/ \E t \in Stamps : AddRefused(t)
  \/ Encode
  \/ \E n \in Targets, outcome \in {"moved", "unwritten", "unremoved"} :
       SaveToFile(n, outcome)

EncoderSpec == EncoderInit /\ [][EncoderNext]_encoderVars
-----------------------------------------------------------------------------
\* While it encodes, the encoder has its contexts, and the recording is a
\* file that is not finished: no failing Start, Reset or SaveToFile in
\* between leaves IsEncoding true over contexts that are gone.
EncodingIsOpen ==
  enc.encoding =>
    /\ {"format", "codec", "out"} \subseteq enc.contexts
    /\ Recording(enc) => /\ enc.filename \in DOMAIN disk
                         /\ ~disk[enc.filename].sealed

\* Whatever sizes come in whatever order over however many recordings, the
\* scaler and the input frame memcpy fills are those of the noted size.
ScalerFits == "sws" \in enc.contexts => /\ enc.inSize # NoSize
                                        /\ enc.inFrame = enc.inSize

\* In every file, also one recorded after a Stop or a failure, the frames
\* AddFrame took are numbered from 0 without a gap, follow each other by at
\* least the frame period, and are the only ones in the file.
VideoIsPaced ==
  \A n \in DOMAIN disk :
    LET given == disk[n].given
    IN  /\ disk[n].frames \subseteq given
        /\ {f.pts : f \in given} = 0 .. Cardinality(given) - 1
        /\ \A f, g \in given : f.pts < g.pts => g.stamp - f.stamp >= Period

\* SaveToFile moves the recording or leaves it where it was: no outcome of
\* the move, and not the Reset that follows, deletes the only copy.
SavesLoseNothing ==
  [][(answer'.call = "save" /\ answer' # answer /\ enc.filename \in DOMAIN disk) =>
       \E n \in DOMAIN disk' : disk'[n].frames = disk[enc.filename].frames
                            /\ disk'[n].given = disk[enc.filename].given
                            /\ disk'[n].kept]_encoderVars

\* A temporary file does not outlive its use: what is on the disk is the
\* recording the encoder knows the name of, or what SaveToFile has had.
NoStrayFiles ==
  \A n \in DOMAIN disk : n = enc.filename \/ disk[n].kept

\* While it encodes, the encoder has a file, a stream and a picture of the
\* size of its scaler, and its frames are as far apart as the frame rate says
\* (VideoEncoder::Start, AddFrame, Stop).
RecordingsAreSound == EncodingIsOpen /\ ScalerFits /\ VideoIsPaced

\* Reset and the destructor leave no file behind that nobody asked for, and
\* SaveToFile moves a recording without losing it (VideoEncoder::SaveToFile,
\* Reset).
RecordingsAreKept == []NoStrayFiles /\ SavesLoseNothing

\* "Add a single frame to be encoded ... True on success" and "Write the
\* video to disk" (VideoEncoder.hh:86-90,106): a finished file has every
\* frame AddFrame returned true for.
FramesReachFile ==
  \A n \in DOMAIN disk : disk[n].sealed => disk[n].frames = disk[n].given

\* "Mutex for thread safety" (VideoEncoder.cc:86): nothing frees the
\* contexts AddFrame is using.
ContextsAlive ==
  adding => {"format", "codec", "out", "sws"} \subseteq enc.contexts
=============================================================================
