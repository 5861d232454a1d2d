------------------------ MODULE VideoEncoder_proofs -------------------------
(***************************************************************************)
(* Proofs about VideoEncoder: whatever calls come in whatever order, of    *)
(* whatever sizes, times and names, and however libav, the codec and the   *)
(* moving of files fail, recordings are sound and are not lost.  The       *)
(* state is looked at as values: an encoder e, a disk d, and whether a     *)
(* frame is being added, a.                                                *)
(***************************************************************************)
EXTENDS VideoEncoder, FiniteSetTheorems, TLAPS

\* What is asked of the client: calls do not overlap, and the size does not
\* change right after the scaler could not be made.
Careful == ~Concurrent /\ ~Resizes

-----------------------------------------------------------------------------
(* The inductive invariant.                                                *)

Encoders ==
  [encoding : BOOLEAN, format : {"mp4", "v4l2"}, filename : Names \cup {NoName},
   contexts : SUBSET {"format", "codec", "out", "sws"},
   inFrame : Sizes \cup {NoSize}, inSize : Sizes \cup {NoSize},
   timePrev : Stamps \cup {0}, frameCount : 0 .. MaxFrames,
   held : SUBSET Frames, bitRate : {"default", "auto", "given"}]

\* The sets of its fields, each under a name of its own.
FieldSets(F, N, C, Z, T, K, H, B) ==
  /\ F = {"mp4", "v4l2"} /\ N = Names \cup {NoName}
  /\ C = SUBSET {"format", "codec", "out", "sws"}
  /\ Z = Sizes \cup {NoSize} /\ T = Stamps \cup {0} /\ K = 0 .. MaxFrames
  /\ H = SUBSET Frames /\ B = {"default", "auto", "given"}
  /\ Encoders = [encoding : BOOLEAN, format : F, filename : N, contexts : C, inFrame : Z,
                 inSize : Z, timePrev : T, frameCount : K, held : H, bitRate : B]

\* An encoder that encodes has its contexts, one that does not holds nothing
\* back and has no scaler; a frame is added only while it encodes.
Whole(e, a) ==
  /\ e \in Encoders /\ a \in BOOLEAN
  /\ e.encoding => {"format", "codec", "out"} \subseteq e.contexts
  /\ ~e.encoding => e.held = {} /\ e.inFrame = NoSize /\ "sws" \notin e.contexts
  /\ "sws" \in e.contexts => e.inSize # NoSize /\ e.inFrame = e.inSize
  /\ a => e.encoding /\ e.frameCount < MaxFrames /\ e.timePrev \in Stamps

\* The video of a file: what was to be in it, and what is.
Even(given) ==
  /\ IsFiniteSet(given)
  /\ {f.pts : f \in given} = 0 .. Cardinality(given) - 1
  /\ \A f, g \in given : f.pts < g.pts => g.stamp - f.stamp >= Period

Paced(frames, given) == frames \subseteq given /\ Even(given)

Stored(d) ==
  /\ DOMAIN d \subseteq Names
  /\ \A n \in DOMAIN d : d[n] \in Files /\ Paced(d[n].frames, d[n].given)

\* Nothing but the encoder's file and what was saved.
Tidy(d, name) == \A n \in DOMAIN d : n = name \/ d[n].kept

\* The recording that goes on: its frames are counted, lie behind the time
\* of the last one, and those held back are among them.
Going(e, given, a) ==
  /\ e.held \subseteq given /\ Cardinality(given) = e.frameCount
  /\ \A f \in given : /\ f.pts < e.frameCount
                      /\ f.stamp <= e.timePrev
                      /\ a => e.timePrev - f.stamp >= Period

Open(e, d, a) ==
  Recording(e) => /\ e.filename \in DOMAIN d /\ ~d[e.filename].sealed
                  /\ Going(e, d[e.filename].given, a)

Sound(e, d, a) == Whole(e, a) /\ Stored(d) /\ Tidy(d, e.filename) /\ Open(e, d, a)

Answers == [call : Calls, ok : BOOLEAN]
EncoderInv == Sound(enc, disk, adding) /\ answer \in Answers
-----------------------------------------------------------------------------
(* The disk.                                                               *)

LEMMA FieldsAre == \E F, N, C, Z, T, K, H, B : FieldSets(F, N, C, Z, T, K, H, B)
  BY Zenon DEF FieldSets, Encoders

\* Sealing a file changes neither what there is nor what is in it.
LEMMA SealedDisk ==
  ASSUME NEW e, NEW d, Stored(d), NEW s, s = Sealed(e, d)
  PROVE  /\ Stored(s) /\ DOMAIN s = DOMAIN d
         /\ \A n \in DOMAIN d : /\ s[n].kept = d[n].kept
                                /\ s[n].frames = d[n].frames /\ s[n].given = d[n].given
         /\ ~e.encoding => s = d
<1>1. CASE ~(Recording(e) /\ "format" \in e.contexts /\ e.filename \in DOMAIN d)
  BY <1>1 DEF Sealed
<1>2. CASE Recording(e) /\ "format" \in e.contexts /\ e.filename \in DOMAIN d
  <2>1. s = [d EXCEPT ![e.filename].sealed = TRUE] /\ e.encoding
    BY <1>2 DEF Sealed, Recording
  <2>2. DOMAIN s = DOMAIN d
    BY <2>1
  <2>3. ASSUME NEW n \in DOMAIN d
        PROVE  s[n] \in Files /\ s[n].kept = d[n].kept /\ s[n].frames = d[n].frames /\ s[n].given = d[n].given
    <3>1. d[n] \in Files
      BY DEF Stored
    <3>2. CASE n # e.filename
      BY <2>1, <3>1, <3>2
    <3>3. CASE n = e.filename
      <4>1. s[n] = [d[n] EXCEPT !.sealed = TRUE]
        BY <2>1, <3>3
      <4> QED
        BY <3>1, <4>1 DEF Files
    <3> QED
      BY <3>2, <3>3
  <2>4. Stored(s)
    BY <2>2, <2>3 DEF Stored
  <2> QED
    BY <2>1, <2>2, <2>3, <2>4
<1> QED
  BY <1>1, <1>2

\* A name less.
LEMMA WithoutDisk ==
  ASSUME NEW d, Stored(d), NEW n, NEW w, w = Without(d, n)
  PROVE  /\ Stored(w) /\ DOMAIN w = DOMAIN d \ {n}
         /\ \A m \in DOMAIN d : m # n => w[m] = d[m]
  BY DEF Without, Restrict, Stored

\* Reset seals, and removes the file the encoder knows the name of.
LEMMA DiskAfterReset ==
  ASSUME NEW e, NEW d, Stored(d), Tidy(d, e.filename), NEW w, w = ResetDisk(e, d)
  PROVE  /\ Stored(w) /\ DOMAIN w = DOMAIN d \ {e.filename} /\ \A n : Tidy(w, n)
         /\ \A m \in DOMAIN w : /\ w[m].kept = d[m].kept
                                /\ w[m].frames = d[m].frames /\ w[m].given = d[m].given
<1>1. PICK s, n : s = Sealed(e, d) /\ n = e.filename
  OBVIOUS
<1>2. w = Without(s, n)
  BY <1>1 DEF ResetDisk
<1>3. /\ Stored(s) /\ DOMAIN s = DOMAIN d
      /\ \A m \in DOMAIN d : /\ s[m].kept = d[m].kept
                              /\ s[m].frames = d[m].frames /\ s[m].given = d[m].given
  BY <1>1, SealedDisk
<1>4. Stored(w) /\ DOMAIN w = DOMAIN s \ {n}
  BY <1>2, <1>3, WithoutDisk
<1>5. \A m \in DOMAIN w : w[m] = s[m]
  BY <1>2 DEF Without, Restrict
<1>6. \A m \in DOMAIN w : w[m].kept
  BY <1>1, <1>3, <1>4, <1>5 DEF Tidy
<1>7. \A n1 : Tidy(w, n1)
  BY <1>6 DEF Tidy
<1>8. \A m \in DOMAIN w : /\ w[m].kept = d[m].kept
                          /\ w[m].frames = d[m].frames /\ w[m].given = d[m].given
  BY <1>3, <1>4, <1>5
<1> QED
  BY <1>1, <1>3, <1>4, <1>7, <1>8
-----------------------------------------------------------------------------
(* Stop, Reset and the destructor.                                         *)

LEMMA StopKeeps ==
  ASSUME NEW e, NEW d, Sound(e, d, FALSE),
         NEW e1, e1 = Stopped(e), NEW d1, d1 = Sealed(e, d), SoundConstants
  PROVE  Sound(e1, d1, FALSE)
<1>1. Whole(e, FALSE)
  BY DEF Sound
<1>2. /\ e1 \in Encoders /\ ~e1.encoding /\ e1.filename = e.filename
      /\ e1.held = {} /\ e1.inFrame = NoSize /\ e1.contexts = {}
  BY <1>1 DEF Stopped, Encoders, Whole
<1>3. Whole(e1, FALSE)
  BY <1>2 DEF Whole
<1>4. Stored(d1) /\ DOMAIN d1 = DOMAIN d /\ \A n \in DOMAIN d : d1[n].kept = d[n].kept
  BY SealedDisk DEF Sound
<1>5. Tidy(d1, e1.filename)
  <2>1. Tidy(d, e.filename)
    BY DEF Sound
  <2> QED
    BY <1>2, <1>4, <2>1 DEF Tidy
<1> QED
  BY <1>2, <1>3, <1>4, <1>5 DEF Sound, Open, Recording

\* An encoder just reset.
LEMMA ResetIsWhole ==
  ASSUME SoundConstants, NEW e \in Encoders, NEW e1, e1 = WasReset(e)
  PROVE  Whole(e1, FALSE) /\ ~e1.encoding /\ e1.filename = e.filename
<1>1. /\ e1 \in Encoders /\ ~e1.encoding /\ e1.filename = e.filename
      /\ e1.held = {} /\ e1.inFrame = NoSize /\ e1.contexts = {}
  <2>1. e1 = [NewEncoder EXCEPT !.filename = e.filename]
    BY DEF WasReset
  <2>2. e.filename \in Names \cup {NoName} /\ 0 \in 0 .. MaxFrames
    BY DEF Encoders, SoundConstants
  <2>3. e1 = [encoding |-> FALSE, format |-> "mp4", filename |-> e.filename,
              contexts |-> {}, inFrame |-> NoSize, inSize |-> NoSize,
              timePrev |-> 0, frameCount |-> 0, held |-> {}, bitRate |-> "default"]
    BY <2>1 DEF NewEncoder
  <2> QED
    BY <2>2, <2>3 DEF Encoders
<1> QED
  BY <1>1 DEF Whole

LEMMA NewIsWhole ==
  ASSUME SoundConstants
  PROVE  Whole(NewEncoder, FALSE) /\ ~NewEncoder.encoding /\ NewEncoder.filename = NoName
  BY DEF NewEncoder, Encoders, SoundConstants, Whole

LEMMA ResetKeeps ==
  ASSUME NEW e, NEW d, Sound(e, d, FALSE), SoundConstants, NEW e1, e1 \in {WasReset(e), NewEncoder},
         NEW d1, d1 = ResetDisk(e, d)
  PROVE  Sound(e1, d1, FALSE)
<1>1. Whole(e1, FALSE) /\ ~e1.encoding
  BY ResetIsWhole, NewIsWhole DEF Sound, Whole
<1>2. Stored(d1) /\ \A n : Tidy(d1, n)
  BY DiskAfterReset DEF Sound
<1> QED
  BY <1>1, <1>2 DEF Sound, Open, Recording
-----------------------------------------------------------------------------
(* Start.                                                                  *)

\* The encoder Start is about to set up: it is at rest, whatever was left.
AtRest(e) ==
  /\ e \in Encoders /\ ~e.encoding /\ e.frameCount = 0
  /\ e.held = {} /\ e.inFrame = NoSize /\ "sws" \notin e.contexts

LEMMA PreparedIsAtRest ==
  ASSUME SoundConstants, NEW e, Whole(e, FALSE), ~e.encoding,
         NEW f \in Formats, NEW b \in BitRates,
         NEW n \in {NoName} \cup Temps \cup {Device},
         NEW e1, e1 = Prepared(e, f, n, b)
  PROVE  AtRest(e1)
<1> DEFINE old == IF Leftover(e) THEN WasReset(e) ELSE e
<1>1. /\ old \in Encoders /\ ~old.encoding
      /\ old.held = {} /\ old.inFrame = NoSize /\ "sws" \notin old.contexts
  <2>1. CASE Leftover(e)
    <3>1. PICK r : r = WasReset(e)
      OBVIOUS
    <3>2. r \in Encoders /\ ~r.encoding /\ r.held = {} /\ r.inFrame = NoSize /\ "sws" \notin r.contexts
      BY <3>1, ResetIsWhole DEF Whole
    <3> QED
      BY <2>1, <3>1, <3>2
  <2>2. CASE ~Leftover(e)
    BY <2>2 DEF Whole
  <2> QED
    BY <2>1, <2>2
<1>2. PICK o : o = old
  OBVIOUS
<1>3. PICK name : name = IF n = NoName /\ f = "mp4" THEN Default ELSE n
  OBVIOUS
<1>4. e1 = [o EXCEPT !.format = IF f = "v4l" THEN "v4l2" ELSE f,
                     !.bitRate = b, !.frameCount = 0, !.filename = name]
  BY <1>2, <1>3 DEF Prepared
<1>5. name \in Names \cup {NoName} /\ b \in {"default", "auto", "given"} /\ 0 \in 0 .. MaxFrames
  BY <1>3 DEF Names, SoundConstants
<1>6. (IF f = "v4l" THEN "v4l2" ELSE f) \in {"mp4", "v4l2"}
  BY DEF Formats
<1>7. o \in Encoders /\ ~o.encoding /\ o.held = {} /\ o.inFrame = NoSize /\ "sws" \notin o.contexts
  BY <1>1, <1>2
<1> HIDE DEF old
<1>8. PICK form : form = IF f = "v4l" THEN "v4l2" ELSE f
  OBVIOUS
<1>9. form \in {"mp4", "v4l2"}
  BY <1>6, <1>8
<1>10. e1 = [o EXCEPT !.format = form, !.bitRate = b, !.frameCount = 0, !.filename = name]
  BY <1>4, <1>8
<1> PICK F, N, C, Z, T, K, H, B : FieldSets(F, N, C, Z, T, K, H, B)
  BY FieldsAre
<1>11. form \in F /\ name \in N /\ b \in B /\ 0 \in K
  BY <1>5, <1>9 DEF FieldSets
<1>12. Encoders = [encoding : BOOLEAN, format : F, filename : N, contexts : C, inFrame : Z,
                   inSize : Z, timePrev : T, frameCount : K, held : H, bitRate : B]
  BY DEF FieldSets
<1>13. e1 \in Encoders
  BY <1>7, <1>10, <1>11, <1>12
<1>14. /\ e1.encoding = o.encoding /\ e1.frameCount = 0 /\ e1.held = o.held
       /\ e1.inFrame = o.inFrame /\ e1.contexts = o.contexts
  BY <1>7, <1>10, <1>12
<1> QED
  BY <1>7, <1>13, <1>14 DEF AtRest

\* The disk without the file of the last recording.
LEMMA ClearedDisk ==
  ASSUME NEW e, NEW d, Stored(d), Tidy(d, e.filename), NEW d1, d1 = Cleared(e, d)
  PROVE  Stored(d1) /\ DOMAIN d1 = DOMAIN d \ {e.filename} /\ \A n : Tidy(d1, n)
<1>1. PICK n : n = e.filename
  OBVIOUS
<1>2. d1 = Without(d, n)
  BY <1>1 DEF Cleared
<1>3. Stored(d1) /\ DOMAIN d1 = DOMAIN d \ {n}
  BY <1>2, WithoutDisk
<1>4. \A m \in DOMAIN d1 : d1[m] = d[m]
  BY <1>2 DEF Without, Restrict
<1> QED
  BY <1>1, <1>3, <1>4 DEF Tidy

LEMMA StartFailsKeeps ==
  ASSUME SoundConstants, NEW e, NEW d, Sound(e, d, FALSE), NEW e1 \in Encoders, ~e1.encoding,
         NEW e2, e2 = WasReset(e1), NEW d2, d2 = ResetDisk(e1, Cleared(e, d))
  PROVE  Sound(e2, d2, FALSE)
<1>1. PICK c : c = Cleared(e, d)
  OBVIOUS
<1>2. Stored(c) /\ \A n : Tidy(c, n)
  <2>1. Stored(d) /\ Tidy(d, e.filename)
    BY DEF Sound
  <2> QED
    BY <1>1, <2>1, ClearedDisk
<1>3. d2 = ResetDisk(e1, c)
  BY <1>1
<1>4. Tidy(c, e1.filename)
  BY <1>2
<1>5. Stored(d2) /\ \A n : Tidy(d2, n)
  BY <1>2, <1>3, <1>4, DiskAfterReset
<1>6. Whole(e2, FALSE) /\ ~e2.encoding
  BY ResetIsWhole
<1> QED
  BY <1>5, <1>6 DEF Sound, Open, Recording

LEMMA StartHalfwayKeeps ==
  ASSUME SoundConstants, NEW e, NEW d, Sound(e, d, FALSE),
         NEW e1 \in Encoders, ~e1.encoding, e1.held = {}, e1.inFrame = NoSize,
         NEW e2, e2 = [e1 EXCEPT !.contexts = {"format", "codec", "out"}],
         NEW d2, d2 = Cleared(e, d)
  PROVE  Sound(e2, d2, FALSE)
<1>1. Stored(d2) /\ \A n : Tidy(d2, n)
  <2>1. Stored(d) /\ Tidy(d, e.filename)
    BY DEF Sound
  <2> QED
    BY <2>1, ClearedDisk
<1>2. e2 \in Encoders /\ ~e2.encoding /\ e2.held = {} /\ e2.inFrame = NoSize /\ "sws" \notin e2.contexts
  BY DEF Encoders
<1>3. Whole(e2, FALSE)
  BY <1>2 DEF Whole
<1> QED
  BY <1>1, <1>2, <1>3 DEF Sound, Open, Recording

\* A recording begins with an empty file that nobody else's is.
LEMMA NewFileIsPaced ==
  NewFile \in Files /\ Paced(NewFile.frames, NewFile.given)
    /\ NewFile.given = {} /\ Cardinality({}) = 0 /\ ~NewFile.sealed
<1>1. IsFiniteSet({}) /\ Cardinality({}) = 0
  BY FS_EmptySet
<1>2. {f.pts : f \in {}} = 0 .. Cardinality({}) - 1
  BY <1>1
<1>3. NewFile.frames = {} /\ NewFile.given = {} /\ NewFile \in Files /\ ~NewFile.sealed
  BY DEF NewFile, Files
<1> QED
  BY <1>1, <1>2, <1>3 DEF Paced, Even

\* What Start makes of an encoder and a disk.
Begun(p) == [p EXCEPT !.encoding = TRUE, !.contexts = {"format", "codec", "out"}]
WithNewFile(p, c) ==
  IF p.format = "v4l2" THEN c
  ELSE [x \in DOMAIN c \cup {p.filename} |-> IF x = p.filename THEN NewFile ELSE c[x]]

LEMMA StartKeeps ==
  ASSUME SoundConstants, NEW e, NEW d, Sound(e, d, FALSE),
         NEW e1 \in Encoders, e1.held = {}, e1.inFrame = NoSize, e1.frameCount = 0,
         e1.filename # NoName,
         NEW e2, e2 = Begun(e1), NEW c, c = Cleared(e, d), NEW d2, d2 = WithNewFile(e1, c)
  PROVE  Sound(e2, d2, FALSE)
<1>1. Stored(c) /\ \A n : Tidy(c, n)
  <2>1. Stored(d) /\ Tidy(d, e.filename)
    BY DEF Sound
  <2> QED
    BY <2>1, ClearedDisk
<1>2. /\ e2 \in Encoders /\ e2.encoding /\ e2.held = {} /\ e2.frameCount = 0
      /\ e2.contexts = {"format", "codec", "out"}
      /\ e2.filename = e1.filename /\ e2.format = e1.format
  BY DEF Encoders, Begun
<1>3. Whole(e2, FALSE)
  BY <1>2 DEF Whole
<1>4. CASE e1.format = "v4l2"
  BY <1>1, <1>2, <1>3, <1>4 DEF Sound, Open, Recording, WithNewFile
<1>5. CASE e1.format # "v4l2"
  <2>1. /\ DOMAIN d2 = DOMAIN c \cup {e1.filename} /\ d2[e1.filename] = NewFile
        /\ \A x \in DOMAIN c : x # e1.filename => d2[x] = c[x]
    BY <1>5 DEF WithNewFile
  <2>2. e1.filename \in Names
    BY DEF Encoders
  <2>3. Stored(d2)
    BY <1>1, <2>1, <2>2, NewFileIsPaced DEF Stored
  <2>4. Tidy(d2, e2.filename)
    <3>1. Tidy(c, e1.filename)
      BY <1>1
    <3> QED
      BY <1>2, <2>1, <3>1 DEF Tidy
  <2>5. Open(e2, d2, FALSE)
    <3>1. Going(e2, {}, FALSE)
      BY <1>2, NewFileIsPaced DEF Going
    <3>2. d2[e2.filename] = NewFile /\ e2.filename \in DOMAIN d2
      BY <1>2, <2>1
    <3>3. d2[e2.filename].given = {} /\ ~d2[e2.filename].sealed
      BY <3>2, NewFileIsPaced
    <3> QED
      BY <3>1, <3>2, <3>3 DEF Open
  <2> QED
    BY <1>3, <2>3, <2>4, <2>5 DEF Sound
<1> QED
  BY <1>4, <1>5
-----------------------------------------------------------------------------
(* AddFrame.                                                               *)

\* What e becomes for a frame of time t: its scaler, if any, fits.
Fitted(e, t, r) ==
  /\ r \in Encoders /\ r.encoding /\ {"format", "codec", "out"} \subseteq r.contexts
  /\ r.inSize # NoSize /\ r.inFrame = r.inSize
  /\ r.timePrev = t /\ r.frameCount = e.frameCount /\ r.held = e.held
  /\ r.filename = e.filename /\ r.format = e.format

\* For the size and the time of a frame the scaler and the input frame are
\* made anew where the last ones do not fit; the recording stays what it was.
LEMMA ResizedFits ==
  ASSUME SoundConstants, NEW e, Whole(e, FALSE), e.encoding, NEW s \in Sizes, NEW t \in Stamps,
         "sws" \in e.contexts \/ e.inFrame \in {NoSize, s},
         NEW r, r = Resized(Noted(e, t), s)
  PROVE  Fitted(e, t, r)
<1>1. PICK o : o = Noted(e, t)
  OBVIOUS
<1>2. /\ o \in Encoders /\ o.encoding /\ o.timePrev = t /\ o.frameCount = e.frameCount
      /\ o.held = e.held /\ o.filename = e.filename /\ o.format = e.format
      /\ o.contexts = e.contexts /\ o.inFrame = e.inFrame /\ o.inSize = e.inSize
  BY <1>1 DEF Noted, Whole, Encoders
<1>3. /\ {"format", "codec", "out"} \subseteq o.contexts
      /\ "sws" \in o.contexts => o.inSize # NoSize /\ o.inFrame = o.inSize
      /\ "sws" \in o.contexts \/ o.inFrame \in {NoSize, s}
  BY <1>2 DEF Whole
<1>4. r = Resized(o, s)
  BY <1>1
<1>5. CASE "sws" \in o.contexts /\ o.inSize = s
  <2>1. r = o
    BY <1>4, <1>5 DEF Resized
  <2> QED
    BY <1>2, <1>3, <1>5, <2>1 DEF Fitted
<1>6. CASE ~("sws" \in o.contexts /\ o.inSize = s)
  <2>1. r = [o EXCEPT !.inSize = s, !.contexts = @ \ {"sws"}, !.inFrame = s]
    BY <1>3, <1>4, <1>6 DEF Resized
  <2>2. /\ r \in Encoders /\ r.inSize = s /\ r.inFrame = s /\ r.contexts = o.contexts \ {"sws"}
        /\ r.encoding = o.encoding /\ r.timePrev = o.timePrev /\ r.frameCount = o.frameCount
        /\ r.held = o.held /\ r.filename = o.filename /\ r.format = o.format
    <3>1. PICK cs : cs = o.contexts \ {"sws"}
      OBVIOUS
    <3>2. cs \in SUBSET {"format", "codec", "out", "sws"}
      BY <1>2, <3>1 DEF Encoders
    <3>3. r = [o EXCEPT !.inSize = s, !.contexts = cs, !.inFrame = s]
      BY <2>1, <3>1
    <3> PICK F, N, C, Z, T, K, H, B : FieldSets(F, N, C, Z, T, K, H, B)
      BY FieldsAre
    <3>4. s \in Z /\ cs \in C
      BY <3>2 DEF FieldSets
    <3>5. Encoders = [encoding : BOOLEAN, format : F, filename : N, contexts : C, inFrame : Z,
                     inSize : Z, timePrev : T, frameCount : K, held : H, bitRate : B]
      BY DEF FieldSets
    <3>6. r \in Encoders
      BY <1>2, <3>3, <3>4, <3>5
    <3>7. /\ r.inSize = s /\ r.inFrame = s /\ r.contexts = cs
          /\ r.encoding = o.encoding /\ r.timePrev = o.timePrev /\ r.frameCount = o.frameCount
          /\ r.held = o.held /\ r.filename = o.filename /\ r.format = o.format
      BY <1>2, <3>3, <3>5
    <3> QED
      BY <3>1, <3>6, <3>7, Zenon
  <2> QED
    BY <1>2, <1>3, <2>2 DEF SoundConstants, Fitted
<1> QED
  BY <1>5, <1>6

LEMMA TimesAreNumbers ==
  SoundConstants => Period \in Nat /\ \A x \in Stamps \cup {0} : x \in Int
  BY DEF SoundConstants

\* The next frame is at least a period behind all others.
LEMMA TimeGoesOn ==
  ASSUME SoundConstants, NEW e \in Encoders, NEW given \in SUBSET Frames, Going(e, given, FALSE),
         NEW t \in Stamps, ~(t - e.timePrev < Period), NEW r, NEW a,
         r.timePrev = t, r.frameCount = e.frameCount, r.held = e.held
  PROVE  Going(r, given, a)
<1>1. t \in Int /\ e.timePrev \in Int /\ Period \in Nat
  <2>1. e.timePrev \in Stamps \cup {0} /\ t \in Stamps \cup {0}
    BY DEF Encoders
  <2> QED
    BY <2>1, TimesAreNumbers, Zenon
<1>2. ASSUME NEW f \in given
      PROVE  f.pts < e.frameCount /\ f.stamp <= t /\ t - f.stamp >= Period
  <2>1. f.stamp \in Int /\ f.stamp <= e.timePrev /\ f.pts < e.frameCount
    BY DEF Going, Frames, SoundConstants
  <2> QED
    BY <1>1, <2>1
<1> QED
  BY <1>2 DEF Going

LEMMA AddKeeps ==
  ASSUME SoundConstants, NEW e, NEW d, Sound(e, d, FALSE), e.encoding,
         NEW s \in Sizes, NEW t \in Stamps, ~(t - e.timePrev < Period),
         "sws" \in e.contexts \/ e.inFrame \in {NoSize, s},
         NEW r, r = Resized(Noted(e, t), s)
  PROVE  /\ "sws" \notin r.contexts => Sound(r, d, FALSE)
         /\ e.frameCount < MaxFrames => Sound([r EXCEPT !.contexts = @ \cup {"sws"}], d, TRUE)
<1>1. Whole(e, FALSE) /\ Stored(d) /\ Tidy(d, e.filename) /\ Open(e, d, FALSE)
  BY DEF Sound
<1>2. /\ r \in Encoders /\ r.encoding /\ {"format", "codec", "out"} \subseteq r.contexts
      /\ r.inSize # NoSize /\ r.inFrame = r.inSize
      /\ r.timePrev = t /\ r.frameCount = e.frameCount /\ r.held = e.held
      /\ r.filename = e.filename /\ r.format = e.format
  <2>1. Whole(e, FALSE)
    BY <1>1
  <2>2. Fitted(e, t, r)
    BY <2>1, ResizedFits
  <2> QED
    BY <2>2 DEF Fitted
<1>3. PICK q : q = [r EXCEPT !.contexts = @ \cup {"sws"}]
  OBVIOUS
<1>4. /\ q \in Encoders /\ q.encoding /\ q.contexts = r.contexts \cup {"sws"}
      /\ q.inSize = r.inSize /\ q.inFrame = r.inFrame
      /\ q.timePrev = t /\ q.frameCount = e.frameCount /\ q.held = e.held
      /\ q.filename = e.filename /\ q.format = e.format
  BY <1>2, <1>3 DEF Encoders
<1>5. ASSUME NEW p, NEW a, p.encoding, p.timePrev = t, p.frameCount = e.frameCount, p.held = e.held,
             p.filename = e.filename, p.format = e.format
      PROVE  Tidy(d, p.filename) /\ Open(p, d, a)
  <2>1. Tidy(d, p.filename)
    BY <1>1, <1>5
  <2>2. ASSUME Recording(p)
        PROVE  /\ p.filename \in DOMAIN d /\ ~d[p.filename].sealed
               /\ Going(p, d[p.filename].given, a)
    <3>1. /\ e.filename \in DOMAIN d /\ ~d[e.filename].sealed
          /\ Going(e, d[e.filename].given, FALSE)
      BY <1>1, <1>5, <2>2 DEF Open, Recording
    <3>2. d[e.filename].given \in SUBSET Frames /\ e \in Encoders
      BY <1>1, <3>1 DEF Stored, Files, Whole
    <3>3. PICK given : given = d[e.filename].given
      OBVIOUS
    <3>4. Going(p, given, a)
      BY <1>5, <3>1, <3>2, <3>3, TimeGoesOn
    <3> QED
      BY <1>5, <3>1, <3>3, <3>4
  <2> QED
    BY <2>1, <2>2 DEF Open
<1>6. ASSUME "sws" \notin r.contexts PROVE Sound(r, d, FALSE)
  <2>1. Whole(r, FALSE)
    BY <1>2, <1>6 DEF Whole
  <2>2. Tidy(d, r.filename) /\ Open(r, d, FALSE)
    BY <1>2, <1>5
  <2> QED
    BY <1>1, <2>1, <2>2 DEF Sound
<1>7. ASSUME e.frameCount < MaxFrames PROVE Sound(q, d, TRUE)
  <2>1. Whole(q, TRUE)
    BY <1>2, <1>4, <1>7 DEF Whole
  <2>2. Tidy(d, q.filename) /\ Open(q, d, TRUE)
    BY <1>4, <1>5
  <2> QED
    BY <1>1, <2>1, <2>2 DEF Sound
<1> QED
  BY <1>3, <1>6, <1>7

\* All frames are before the k-th, and a period before t.
Behind(given, k, t) == \A f \in given : f.pts < k /\ t - f.stamp >= Period

\* A frame more, numbered and timed behind the others.
LEMMA OneMoreFrame ==
  ASSUME NEW given, Even(given), given \subseteq [pts : Nat, stamp : Int],
         NEW k \in Nat, Cardinality(given) = k, NEW t \in Int, Period \in Nat,
         Behind(given, k, t), NEW frame, frame = [pts |-> k, stamp |-> t]
  PROVE  Even(given \cup {frame}) /\ Cardinality(given \cup {frame}) = k + 1
<1>1. frame \notin given /\ frame.pts = k /\ frame.stamp = t
  <2>1. frame.pts = k /\ frame.stamp = t
    OBVIOUS
  <2>2. ~(k < k)
    OBVIOUS
  <2> QED
    BY <2>1, <2>2, Zenon DEF Behind
<1>2. IsFiniteSet(given \cup {frame}) /\ Cardinality(given \cup {frame}) = k + 1
  <2>1. IsFiniteSet(given)
    BY DEF Even
  <2> QED
    BY <1>1, <2>1, FS_AddElement
<1>3. {f.pts : f \in given \cup {frame}} = 0 .. (k + 1) - 1
  <2>1. {f.pts : f \in given} = 0 .. k - 1
    BY DEF Even
  <2>2. {f.pts : f \in given \cup {frame}} = {f.pts : f \in given} \cup {k}
    BY <1>1
  <2>3. 0 .. (k + 1) - 1 = (0 .. k - 1) \cup {k}
    OBVIOUS
  <2> QED
    BY <2>1, <2>2, <2>3, Zenon
<1>4. ASSUME NEW f \in given \cup {frame}, NEW g \in given \cup {frame}, f.pts < g.pts
      PROVE  g.stamp - f.stamp >= Period
  <2>1. CASE f \in given /\ g \in given
    BY <1>4, <2>1 DEF Even
  <2>2. CASE f \in given /\ g = frame
    BY <1>1, <2>2 DEF Behind
  <2>3. CASE f = frame /\ g \in given
    <3>1. g.pts < k /\ k < g.pts /\ g.pts \in Nat
      BY <1>1, <1>4, <2>3 DEF Behind
    <3> QED
      BY <3>1
  <2>4. CASE f = frame /\ g = frame
    BY <1>1, <1>4, <2>4
  <2> QED
    BY <2>1, <2>2, <2>3, <2>4
<1> QED
  BY <1>2, <1>3, <1>4 DEF Even

\* What Encode makes of an encoder and a disk: rest is held back, written is
\* written.
Encoded(e, rest) == [e EXCEPT !.frameCount = @ + 1, !.held = rest]
WithFrames(e, d, frame, written) ==
  IF ~Recording(e) THEN d
  ELSE [d EXCEPT ![e.filename].frames = @ \cup written, ![e.filename].given = @ \cup {frame}]

LEMMA EncodeKeeps ==
  ASSUME SoundConstants, NEW e, NEW d, Sound(e, d, TRUE),
         NEW frame, frame = [pts |-> e.frameCount, stamp |-> e.timePrev],
         NEW rest \in SUBSET (e.held \cup {frame}), NEW written \in SUBSET (e.held \cup {frame}),
         NEW e1, e1 = Encoded(e, rest), NEW d1, d1 = WithFrames(e, d, frame, written)
  PROVE  Sound(e1, d1, FALSE)
<1>1. Whole(e, TRUE) /\ Stored(d) /\ Tidy(d, e.filename) /\ Open(e, d, TRUE)
  BY DEF Sound
<1>2. e \in Encoders /\ e.encoding /\ e.frameCount < MaxFrames /\ e.timePrev \in Stamps
  BY <1>1 DEF Whole
<1>3. e.frameCount \in 0 .. MaxFrames /\ e.frameCount + 1 \in 0 .. MaxFrames
  BY <1>2 DEF Encoders, SoundConstants
<1>4. frame \in Frames
  BY <1>2, <1>3 DEF Frames
<1>5. rest \in SUBSET Frames
  BY <1>2, <1>4 DEF Encoders
<1>6. /\ e1 \in Encoders /\ e1.encoding = e.encoding /\ e1.contexts = e.contexts
      /\ e1.inSize = e.inSize /\ e1.inFrame = e.inFrame /\ e1.timePrev = e.timePrev
      /\ e1.frameCount = e.frameCount + 1 /\ e1.held = rest
      /\ e1.filename = e.filename /\ e1.format = e.format
  BY <1>2, <1>3, <1>5 DEF Encoders, Encoded
<1>7. Whole(e1, FALSE)
  BY <1>1, <1>2, <1>6 DEF Whole
<1>8. CASE ~Recording(e)
  BY <1>1, <1>6, <1>7, <1>8 DEF Sound, Open, Recording, WithFrames
<1>9. CASE Recording(e)
  <2>1. PICK n, old : n = e.filename /\ old = d[n]
    OBVIOUS
  <2>2. n \in DOMAIN d /\ ~old.sealed /\ Going(e, old.given, TRUE)
    BY <1>1, <1>9, <2>1 DEF Open
  <2>3. old \in Files /\ Paced(old.frames, old.given)
    BY <1>1, <2>1, <2>2 DEF Stored
  <2>4. PICK file : file = [old EXCEPT !.frames = @ \cup written, !.given = @ \cup {frame}]
    OBVIOUS
  <2>5. DOMAIN d1 = DOMAIN d /\ d1[n] = file /\ \A m \in DOMAIN d : m # n => d1[m] = d[m]
    BY <1>9, <2>1, <2>2, <2>4 DEF WithFrames
  <2>6. written \subseteq old.given \cup {frame} /\ written \subseteq Frames
    BY <1>4, <2>2, <2>3 DEF Going, Files
  <2>7. /\ file \in Files /\ file.frames = old.frames \cup written
        /\ file.given = old.given \cup {frame} /\ file.sealed = old.sealed /\ file.kept = old.kept
    BY <1>4, <2>3, <2>4, <2>6 DEF Files
  <2>8. Paced(file.frames, file.given) /\ Cardinality(file.given) = e.frameCount + 1
    <3>1. PICK k, t : k = e.frameCount /\ t = e.timePrev
      OBVIOUS
    <3>2. k \in Nat /\ t \in Int /\ Period \in Nat
      BY <1>2, <1>3, <3>1, TimesAreNumbers
    <3>3. old.given \subseteq [pts : Nat, stamp : Int]
      BY <2>3, TimesAreNumbers DEF Files, Frames
    <3>4. Cardinality(old.given) = k /\ \A f \in old.given : f.pts < k /\ t - f.stamp >= Period
      BY <2>2, <3>1 DEF Going
    <3>5. frame = [pts |-> k, stamp |-> t]
      BY <3>1
    <3>6. PICK frames, given : frames = old.frames /\ given = old.given
      OBVIOUS
    <3>7. /\ Paced(frames, given) /\ given \subseteq [pts : Nat, stamp : Int] /\ Cardinality(given) = k
          /\ Behind(given, k, t) /\ Even(given)
          /\ written \subseteq given \cup {frame}
      BY <2>3, <2>6, <3>3, <3>4, <3>6 DEF Behind, Paced
    <3>8. Even(given \cup {frame}) /\ Cardinality(given \cup {frame}) = k + 1
      BY <3>2, <3>5, <3>7, OneMoreFrame
    <3> QED
      BY <2>7, <3>1, <3>6, <3>7, <3>8 DEF Paced
  <2>9. Stored(d1)
    BY <1>1, <2>5, <2>7, <2>8 DEF Stored
  <2>10. Tidy(d1, e1.filename)
    BY <1>1, <1>6, <2>1, <2>5 DEF Tidy
  <2>11. Going(e1, file.given, FALSE)
    <3>1. e1.held \subseteq file.given
      BY <1>6, <2>2, <2>7 DEF Going
    <3>2. ASSUME NEW f \in file.given
          PROVE  f.pts < e1.frameCount /\ f.stamp <= e1.timePrev
      <4>1. PICK k, t : k = e.frameCount /\ t = e.timePrev
        OBVIOUS
      <4>2. k \in Nat /\ t \in Int
        BY <1>2, <1>3, <4>1, TimesAreNumbers
      <4>3. CASE f \in old.given
        <5>1. f.pts \in Nat /\ f.pts < k /\ f.stamp <= t
          BY <2>2, <2>3, <4>1, <4>3 DEF Going, Files, Frames
        <5> QED
          BY <1>6, <4>1, <4>2, <5>1
      <4>4. CASE f = frame
        <5>1. f.pts = k /\ f.stamp = t
          BY <4>1, <4>4
        <5> QED
          BY <1>6, <4>1, <4>2, <5>1
      <4> QED
        BY <2>7, <4>3, <4>4
    <3>3. Cardinality(file.given) = e1.frameCount
      BY <1>6, <2>8
    <3> QED
      BY <3>1, <3>2, <3>3 DEF Going
  <2>12. Open(e1, d1, FALSE)
    BY <1>6, <2>1, <2>2, <2>5, <2>7, <2>11 DEF Open
  <2> QED
    BY <1>7, <2>9, <2>10, <2>12 DEF Sound
<1> QED
  BY <1>8, <1>9
-----------------------------------------------------------------------------
(* SaveToFile.                                                             *)

\* A file with the video of another.
SameVideo(f, g) == f.frames = g.frames /\ f.given = g.given

\* However the move ends, what there was is there: the recording under its
\* old name or under the new one.
LEMMA MovedDisk ==
  ASSUME NEW e, NEW d, Stored(d), Tidy(d, e.filename), NEW n \in Targets,
         NEW outcome, outcome \in MoveOutcomes(e, d, n),
         NEW m, m = Moved(e, d, n, outcome)
  PROVE  /\ Stored(m) /\ Tidy(m, e.filename)
         /\ e.filename \in DOMAIN d =>
              \/ e.filename \in DOMAIN m /\ SameVideo(m[e.filename], d[e.filename])
              \/ n \in DOMAIN m /\ m[n].kept /\ SameVideo(m[n], d[e.filename])
<1>1. CASE outcome = "moved"
  <2>1. e.filename \in DOMAIN d /\ n # e.filename
    BY <1>1 DEF MoveOutcomes, CanCopy
  <2>2. PICK old : old = d[e.filename]
    OBVIOUS
  <2>3. PICK file : file = [old EXCEPT !.kept = TRUE]
    OBVIOUS
  <2>4. /\ DOMAIN m = (DOMAIN d \ {e.filename}) \cup {n} /\ m[n] = file
        /\ \A x \in DOMAIN m : x # n => x \in DOMAIN d /\ x # e.filename /\ m[x] = d[x]
    BY <1>1, <2>1, <2>2, <2>3 DEF Moved
  <2>5. old \in Files /\ Paced(old.frames, old.given)
    BY <2>1, <2>2 DEF Stored
  <2>6. file \in Files /\ file.kept /\ file.frames = old.frames /\ file.given = old.given
    BY <2>3, <2>5 DEF Files
  <2>7. Stored(m)
    BY <2>4, <2>5, <2>6 DEF Stored, Names
  <2>8. Tidy(m, e.filename)
    BY <2>4, <2>6 DEF Tidy
  <2> QED
    BY <2>2, <2>4, <2>6, <2>7, <2>8 DEF SameVideo
<1>2. CASE outcome = "unremoved"
  <2>1. n # e.filename /\ m = Without(d, n)
    BY <1>2 DEF MoveOutcomes, CanCopy, Moved
  <2>2. Stored(m) /\ DOMAIN m = DOMAIN d \ {n}
    BY <2>1, WithoutDisk
  <2>3. \A x \in DOMAIN m : m[x] = d[x]
    BY <2>1 DEF Without, Restrict
  <2> QED
    BY <2>1, <2>2, <2>3 DEF Tidy, SameVideo
<1>3. CASE outcome \notin {"moved", "unremoved"}
  BY <1>3 DEF Moved, SameVideo
<1> QED
  BY <1>1, <1>2, <1>3

\* What SaveToFile leaves is somebody's.
LEMMA KeptDisk ==
  ASSUME NEW e, NEW d, Stored(d), Tidy(d, e.filename), NEW k, k = Kept(e, d)
  PROVE  /\ Stored(k) /\ DOMAIN k = DOMAIN d
         /\ \A x \in DOMAIN d : k[x].kept /\ SameVideo(k[x], d[x])
<1>1. CASE e.filename \notin DOMAIN d
  BY <1>1 DEF Kept, Tidy, SameVideo
<1>2. CASE e.filename \in DOMAIN d
  <2>1. k = [d EXCEPT ![e.filename].kept = TRUE]
    BY <1>2 DEF Kept
  <2>2. ASSUME NEW x \in DOMAIN d
        PROVE  k[x] \in Files /\ k[x].kept /\ k[x].frames = d[x].frames /\ k[x].given = d[x].given
    <3>1. d[x] \in Files
      BY DEF Stored
    <3>2. CASE x # e.filename
      BY <2>1, <3>1, <3>2 DEF Tidy
    <3>3. CASE x = e.filename
      <4>1. k[x] = [d[x] EXCEPT !.kept = TRUE]
        BY <2>1, <3>3
      <4> QED
        BY <3>1, <4>1 DEF Files
    <3> QED
      BY <3>2, <3>3
  <2>3. DOMAIN k = DOMAIN d
    BY <2>1
  <2> QED
    BY <2>2, <2>3 DEF Stored, SameVideo
<1> QED
  BY <1>1, <1>2

\* The video of the encoder, kept under some name.
Survives(e, d, d2) ==
  e.filename \in DOMAIN d =>
    \E x \in DOMAIN d2 : SameVideo(d2[x], d[e.filename]) /\ d2[x].kept

LEMMA SaveKeeps ==
  ASSUME SoundConstants, NEW e, NEW d, Sound(e, d, FALSE), NEW n \in Targets, NEW outcome,
         NEW e1, e1 = Stopped(e), NEW d1, d1 = Sealed(e, d),
         e1.format # "v4l2" => outcome \in MoveOutcomes(e1, d1, n),
         NEW m, m = IF e1.format = "v4l2" THEN d1 ELSE Moved(e1, d1, n, outcome),
         NEW e2, e2 = WasReset(Forgotten(e1)),
         NEW d2, d2 = ResetDisk(Forgotten(e1), Kept(e1, m))
  PROVE  Sound(e2, d2, FALSE) /\ Survives(e, d, d2)
<1>1. Whole(e, FALSE) /\ Stored(d) /\ Tidy(d, e.filename)
  BY DEF Sound
<1>2. e1 \in Encoders /\ ~e1.encoding /\ e1.filename = e.filename
  BY <1>1 DEF Stopped, Encoders, Whole
<1>3. /\ Stored(d1) /\ DOMAIN d1 = DOMAIN d
      /\ \A x \in DOMAIN d : /\ d1[x].kept = d[x].kept
                             /\ d1[x].frames = d[x].frames /\ d1[x].given = d[x].given
  BY <1>1, SealedDisk
<1>4. Tidy(d1, e1.filename)
  BY <1>1, <1>2, <1>3 DEF Tidy
<1>5. /\ Stored(m) /\ Tidy(m, e1.filename)
      /\ e1.filename \in DOMAIN d1 =>
           \/ e1.filename \in DOMAIN m /\ SameVideo(m[e1.filename], d1[e1.filename])
           \/ n \in DOMAIN m /\ m[n].kept /\ SameVideo(m[n], d1[e1.filename])
  <2>1. CASE e1.format = "v4l2"
    BY <1>3, <1>4, <2>1 DEF SameVideo
  <2>2. CASE e1.format # "v4l2"
    <3>1. outcome \in MoveOutcomes(e1, d1, n) /\ m = Moved(e1, d1, n, outcome)
      BY <2>2
    <3> QED
      BY <1>3, <1>4, <3>1, MovedDisk
  <2> QED
    BY <2>1, <2>2
<1>6. PICK k : k = Kept(e1, m)
  OBVIOUS
<1>7. /\ Stored(k) /\ DOMAIN k = DOMAIN m
      /\ \A x \in DOMAIN m : k[x].kept /\ SameVideo(k[x], m[x])
  BY <1>5, <1>6, KeptDisk
<1>8. PICK e3 : e3 = Forgotten(e1)
  OBVIOUS
<1>9. e3 \in Encoders /\ ~e3.encoding /\ e3.filename = NoName
  BY <1>2, <1>8 DEF Forgotten, Encoders
<1>10. d2 = ResetDisk(e3, k) /\ e2 = WasReset(e3)
  BY <1>6, <1>8
<1>11. Tidy(k, e3.filename)
  BY <1>7 DEF Tidy
<1>12. /\ Stored(d2) /\ DOMAIN d2 = DOMAIN k \ {NoName} /\ \A x : Tidy(d2, x)
       /\ \A x \in DOMAIN d2 : /\ d2[x].kept = k[x].kept
                               /\ d2[x].frames = k[x].frames /\ d2[x].given = k[x].given
  BY <1>7, <1>9, <1>10, <1>11, DiskAfterReset
<1>13. Whole(e2, FALSE) /\ ~e2.encoding
  BY <1>9, <1>10, ResetIsWhole
<1>14. Sound(e2, d2, FALSE)
  BY <1>12, <1>13 DEF Sound, Open, Recording
<1>15. ASSUME e.filename \in DOMAIN d
       PROVE  \E x \in DOMAIN d2 : SameVideo(d2[x], d[e.filename]) /\ d2[x].kept
  <2>1. PICK x \in DOMAIN m : SameVideo(m[x], d1[e1.filename])
    BY <1>2, <1>3, <1>5, <1>15
  <2>2. x \in Names /\ x # NoName
    BY <1>5, <2>1 DEF Stored, SoundConstants, Names
  <2>3. x \in DOMAIN d2 /\ d2[x].kept
    BY <1>7, <1>12, <2>2
  <2>4. SameVideo(d2[x], d[e.filename])
    BY <1>2, <1>3, <1>7, <1>12, <1>15, <2>1, <2>3 DEF SameVideo
  <2> QED
    BY <2>3, <2>4
<1> QED
  BY <1>14, <1>15 DEF Survives
-----------------------------------------------------------------------------
(* The steps.                                                              *)

\* One step from one sound state, seen as values, to the next.
Step(e, d, a, e1, d1, a1) ==
  e = enc /\ d = disk /\ a = adding /\ e1 = enc' /\ d1 = disk' /\ a1 = adding'

LEMMA InitIsSound == SoundConstants /\ EncoderInit => EncoderInv
<1> SUFFICES ASSUME SoundConstants, EncoderInit PROVE EncoderInv
  OBVIOUS
<1>1. PICK d, file : d = disk /\ file = [NewFile EXCEPT !.kept = TRUE]
  OBVIOUS
<1>2. file \in Files /\ file.kept /\ Paced(file.frames, file.given)
  <2>1. file.frames = NewFile.frames /\ file.given = NewFile.given /\ file.kept
    BY <1>1 DEF NewFile
  <2>2. file \in Files
    BY <1>1, NewFileIsPaced DEF Files
  <2> QED
    BY <2>1, <2>2, NewFileIsPaced
<1>3. DOMAIN d = {Device} /\ d[Device] = file
  BY <1>1 DEF EncoderInit
<1>4. Stored(d) /\ Tidy(d, NewEncoder.filename)
  BY <1>2, <1>3 DEF Stored, Tidy, Names
<1>5. Sound(NewEncoder, d, FALSE)
  BY <1>4, NewIsWhole DEF Sound, Open, Recording
<1>6. answer \in Answers
  BY DEF EncoderInit, Answers, Calls
<1> QED
  BY <1>1, <1>5, <1>6 DEF EncoderInv, EncoderInit

LEMMA StepIsSound ==
  ASSUME SoundConstants, Careful, EncoderInv, [EncoderNext]_encoderVars
  PROVE  EncoderInv'
<1>1. PICK e, d, a, e1, d1, a1 : Step(e, d, a, e1, d1, a1)
  BY DEF Step
<1>2. Sound(e, d, a) /\ Whole(e, a) /\ answer \in Answers
  BY <1>1 DEF EncoderInv, Step, Sound
<1>3. Sound(e1, d1, a1) /\ answer' \in Answers => EncoderInv'
  BY <1>1 DEF EncoderInv, Step
<1>4. \A c \in Calls, ok \in BOOLEAN : Answer(c, ok) => answer' \in Answers
  BY DEF Answer, Answers
<1>5. Free => ~a
  BY <1>1 DEF Free, Careful, Step
<1>6. a \in BOOLEAN
  BY <1>2 DEF Whole
<1>7. CASE UNCHANGED encoderVars
  BY <1>1, <1>2, <1>3, <1>7 DEF encoderVars, Step
<1>8. CASE Stop
  <2>1. e1 = Stopped(e) /\ d1 = Sealed(e, d) /\ a = FALSE /\ a1 = FALSE
    BY <1>1, <1>5, <1>6, <1>8 DEF Stop, Step
  <2>2. Sound(e1, d1, FALSE)
    BY <1>2, <2>1, StopKeeps
  <2> QED
    BY <1>3, <1>4, <1>8, <2>1, <2>2 DEF Stop, Calls
<1>9. CASE Reset
  <2>1. e1 = WasReset(e) /\ d1 = ResetDisk(e, d) /\ a = FALSE /\ a1 = FALSE
    BY <1>1, <1>5, <1>6, <1>9 DEF Reset, Step
  <2>2. Sound(e1, d1, FALSE)
    BY <1>2, <2>1, ResetKeeps
  <2> QED
    BY <1>3, <1>4, <1>9, <2>1, <2>2 DEF Reset, Calls
<1>10. CASE Destroy
  <2>1. e1 = NewEncoder /\ d1 = ResetDisk(e, d) /\ a = FALSE /\ a1 = FALSE
    BY <1>1, <1>6, <1>10 DEF Destroy, Step
  <2>2. Sound(e1, d1, FALSE)
    BY <1>2, <2>1, ResetKeeps
  <2> QED
    BY <1>3, <1>4, <1>10, <2>1, <2>2 DEF Destroy, Calls
<1>11. CASE StartAgain
  BY <1>1, <1>2, <1>3, <1>4, <1>11 DEF StartAgain, Step, Calls
<1>12. ASSUME NEW f \in Formats, NEW b \in BitRates,
              NEW n \in {NoName} \cup (IF f = "mp4" THEN Temps ELSE {Device}),
              StartFails(f, n, b) \/ StartHalfway(f, n, b) \/ Start(f, n, b)
       PROVE  EncoderInv'
  <2>1. PICK p : p = Prepared(e, f, n, b)
    OBVIOUS
  <2>2. ~e.encoding /\ a = FALSE /\ a1 = FALSE
    BY <1>1, <1>5, <1>6, <1>12 DEF StartFails, StartHalfway, Start, Step
  <2>3. n \in {NoName} \cup Temps \cup {Device}
    OBVIOUS
  <2>4. /\ p \in Encoders /\ ~p.encoding /\ p.frameCount = 0
        /\ p.held = {} /\ p.inFrame = NoSize /\ "sws" \notin p.contexts
    <3>1. Whole(e, FALSE)
      BY <1>2, <2>2 DEF Sound
    <3>2. AtRest(p)
      BY <1>2, <2>1, <2>2, <2>3, <3>1, PreparedIsAtRest, Zenon
    <3> QED
      BY <3>2 DEF AtRest
  <2>5. CASE StartFails(f, n, b)
    <3>1. e1 = WasReset(p) /\ d1 = ResetDisk(p, Cleared(e, d))
      BY <1>1, <2>1, <2>5 DEF StartFails, Step
    <3>2. SoundConstants /\ Sound(e, d, FALSE) /\ ~e.encoding
      BY <1>2, <2>2
    <3>3. Sound(e1, d1, FALSE)
      BY <2>4, <3>1, <3>2, StartFailsKeeps, Zenon
    <3> QED
      BY <1>3, <1>4, <2>2, <2>5, <3>3 DEF StartFails, Calls
  <2>6. CASE StartHalfway(f, n, b)
    <3>1. e1 = [p EXCEPT !.contexts = {"format", "codec", "out"}] /\ d1 = Cleared(e, d)
      BY <1>1, <2>1, <2>6 DEF StartHalfway, Step
    <3>2. Sound(e1, d1, FALSE)
      BY <1>2, <2>2, <2>4, <3>1, StartHalfwayKeeps
    <3> QED
      BY <1>3, <1>4, <2>2, <2>6, <3>2 DEF StartHalfway, Calls
  <2>7. CASE Start(f, n, b)
    <3>1. PICK c : c = Cleared(e, d)
      OBVIOUS
    <3>2. p.filename # NoName /\ e1 = Begun(p) /\ d1 = WithNewFile(p, c)
      <4>1. p = Prepared(enc, f, n, b) /\ c = Cleared(enc, disk)
        BY <1>1, <2>1, <3>1 DEF Step
      <4>2. p.filename # NoName /\ enc' = Begun(p) /\ disk' = WithNewFile(p, c)
        BY <2>7, <4>1, Zenon DEF Start, Begun, WithNewFile
      <4> QED
        BY <1>1, <4>2 DEF Step
    <3>3. Sound(e1, d1, FALSE)
      BY <1>2, <2>2, <2>4, <3>1, <3>2, StartKeeps
    <3> QED
      BY <1>3, <1>4, <2>2, <2>7, <3>3 DEF Start, Calls
  <2> QED
    BY <1>12, <2>5, <2>6, <2>7
<1>13. ASSUME NEW s \in Sizes, NEW t \in Stamps, AddFrame(s, t) \/ AddFails(s, t)
       PROVE  EncoderInv'
  <2>1. PICK r : r = Resized(Noted(e, t), s)
    OBVIOUS
  <2>2. /\ e.encoding /\ a = FALSE /\ ~(t - e.timePrev < Period) /\ d1 = d
        /\ "sws" \in e.contexts \/ e.inFrame \in {NoSize, s}
    BY <1>1, <1>6, <1>13 DEF AddFrame, AddFails, TooEarly, MaySend, Careful, Step
  <2>3. /\ "sws" \notin r.contexts => Sound(r, d, FALSE)
        /\ e.frameCount < MaxFrames => Sound([r EXCEPT !.contexts = @ \cup {"sws"}], d, TRUE)
    BY <1>2, <2>1, <2>2, AddKeeps
  <2>4. CASE AddFrame(s, t)
    <3>1. e.frameCount < MaxFrames /\ e1 = [r EXCEPT !.contexts = @ \cup {"sws"}] /\ a1 = TRUE
      BY <1>1, <2>1, <2>4 DEF AddFrame, Step
    <3> QED
      BY <1>2, <1>3, <2>2, <2>3, <2>4, <3>1 DEF AddFrame
  <2>5. CASE AddFails(s, t)
    <3>1. "sws" \notin r.contexts /\ e1 = r /\ a1 = FALSE
      BY <1>1, <2>1, <2>2, <2>5 DEF AddFails, Step
    <3> QED
      BY <1>3, <1>4, <2>2, <2>3, <2>5, <3>1 DEF AddFails, Calls
  <2> QED
    BY <1>13, <2>4, <2>5
<1>14. ASSUME NEW t \in Stamps, AddRefused(t)
       PROVE  EncoderInv'
  BY <1>1, <1>2, <1>3, <1>4, <1>14 DEF AddRefused, Step, Calls
<1>15. CASE Encode
  <2>1. PICK frame : frame = [pts |-> e.frameCount, stamp |-> e.timePrev]
    OBVIOUS
  <2>2. a = TRUE /\ a1 = FALSE /\ Answer("add", TRUE)
    BY <1>1, <1>6, <1>15 DEF Encode, Step
  <2>3. PICK sent \in BOOLEAN :
          \E packets \in SUBSET (IF sent THEN enc.held \cup {frame} ELSE enc.held) :
            \E written \in SUBSET packets :
              /\ enc' = Encoded(enc, (IF sent THEN enc.held \cup {frame} ELSE enc.held) \ packets)
              /\ disk' = WithFrames(enc, disk, frame, written)
    <3>1. frame = [pts |-> enc.frameCount, stamp |-> enc.timePrev]
      BY <1>1, <2>1 DEF Step
    <3> QED
      BY <1>15, <3>1, Zenon DEF Encode, Encoded, WithFrames
  <2>4. PICK held : held = IF sent THEN enc.held \cup {frame} ELSE enc.held
    OBVIOUS
  <2>5. PICK packets \in SUBSET held : \E written \in SUBSET packets :
          enc' = Encoded(enc, held \ packets) /\ disk' = WithFrames(enc, disk, frame, written)
    BY <2>3, <2>4, Zenon
  <2>6. PICK written \in SUBSET packets :
          enc' = Encoded(enc, held \ packets) /\ disk' = WithFrames(enc, disk, frame, written)
    BY <2>5
  <2>7. PICK rest : rest = held \ packets
    OBVIOUS
  <2>8. e1 = Encoded(e, rest) /\ d1 = WithFrames(e, d, frame, written)
    BY <1>1, <2>6, <2>7 DEF Step
  <2>9. rest \in SUBSET (e.held \cup {frame}) /\ written \in SUBSET (e.held \cup {frame})
    BY <1>1, <2>4, <2>7 DEF Step
  <2>10. Sound(e1, d1, FALSE)
    BY <1>2, <2>1, <2>2, <2>8, <2>9, EncodeKeeps
  <2> QED
    BY <1>3, <1>4, <2>2, <2>10 DEF Calls
<1>16. ASSUME NEW n \in Targets, NEW outcome \in {"moved", "unwritten", "unremoved"},
              SaveToFile(n, outcome)
       PROVE  EncoderInv'
  <2>1. PICK s, sd, m : s = Stopped(e) /\ sd = Sealed(e, d)
                     /\ m = IF s.format = "v4l2" THEN sd ELSE Moved(s, sd, n, outcome)
    OBVIOUS
  <2>2. a = FALSE /\ a1 = FALSE
    BY <1>1, <1>5, <1>6, <1>16 DEF SaveToFile, Step
  <2>3. /\ s.format # "v4l2" => outcome \in MoveOutcomes(s, sd, n)
        /\ e1 = WasReset(Forgotten(s)) /\ d1 = ResetDisk(Forgotten(s), Kept(s, m))
    BY <1>1, <1>16, <2>1 DEF SaveToFile, Step
  <2>4. Sound(e1, d1, FALSE)
    BY <1>2, <2>1, <2>2, <2>3, SaveKeeps
  <2>5. Answer("save", outcome = "moved")
    BY <1>16 DEF SaveToFile
  <2> QED
    BY <1>3, <1>4, <2>2, <2>4, <2>5 DEF Calls
<1> QED
  BY <1>7, <1>8, <1>9, <1>10, <1>11, <1>12, <1>13, <1>14, <1>15, <1>16 DEF EncoderNext

\* A step that returns from SaveToFile leaves what was there.
LEMMA SaveLosesNothing ==
  ASSUME SoundConstants, Careful, EncoderInv, [EncoderNext]_encoderVars,
         answer'.call = "save", answer' # answer, enc.filename \in DOMAIN disk
  PROVE  \E n \in DOMAIN disk' : /\ disk'[n].frames = disk[enc.filename].frames
                                 /\ disk'[n].given = disk[enc.filename].given
                                 /\ disk'[n].kept
<1>1. PICK n \in Targets, outcome \in {"moved", "unwritten", "unremoved"} : SaveToFile(n, outcome)
  <2>1. \A c, ok : Answer(c, ok) => answer'.call = c
    BY DEF Answer
  <2> QED
    BY <2>1 DEF EncoderNext, encoderVars, Stop, Reset, Destroy, StartAgain, StartFails, StartHalfway, Start,
                AddFrame, AddFails, AddRefused, Encode
<1>2. PICK e, d, a, e1, d1, a1 : Step(e, d, a, e1, d1, a1)
  BY DEF Step
<1>3. Sound(e, d, a) /\ Whole(e, a)
  BY <1>2 DEF EncoderInv, Step, Sound
<1>4. a = FALSE
  BY <1>1, <1>2, <1>3 DEF SaveToFile, Free, Careful, Step, Whole
<1>5. PICK s, sd, m : s = Stopped(e) /\ sd = Sealed(e, d)
                   /\ m = IF s.format = "v4l2" THEN sd ELSE Moved(s, sd, n, outcome)
  OBVIOUS
<1>6. /\ s.format # "v4l2" => outcome \in MoveOutcomes(s, sd, n)
      /\ e1 = WasReset(Forgotten(s)) /\ d1 = ResetDisk(Forgotten(s), Kept(s, m))
  BY <1>1, <1>2, <1>5 DEF SaveToFile, Step
<1>7. e.filename \in DOMAIN d
  BY <1>2 DEF Step
<1>8. SoundConstants /\ Sound(e, d, FALSE)
  BY <1>3, <1>4
<1>9. Survives(e, d, d1)
  BY <1>5, <1>6, <1>8, SaveKeeps, Zenon
<1>10. \E x \in DOMAIN d1 : SameVideo(d1[x], d[e.filename]) /\ d1[x].kept
  BY <1>7, <1>9 DEF Survives
<1> QED
  BY <1>2, <1>10 DEF Step, SameVideo
-----------------------------------------------------------------------------
(* The theorems.                                                           *)

\* Every member, the files and the answers keep their types
\* (VideoEncoderPrivate).
THEOREM TypeCorrect == Careful /\ EncoderSpec => []EncoderTypeOK
<1> SUFFICES ASSUME SoundConstants, Careful PROVE EncoderSpec => []EncoderTypeOK
  BY EncoderAssumption
<1>1. EncoderInit => EncoderInv
  BY InitIsSound
<1>2. EncoderInv /\ [EncoderNext]_encoderVars => EncoderInv'
  BY StepIsSound
<1>3. EncoderInv => EncoderTypeOK
  BY DEF EncoderInv, Sound, Whole, Stored, EncoderTypeOK, Encoders, Answers
<1> QED
  BY <1>1, <1>2, <1>3, PTL DEF EncoderSpec

\* While it encodes, the encoder has a file, a stream and a picture of the
\* size of its scaler, and the frames of every file are numbered without a gap
\* and as far apart as the frame rate says, for any names, sizes and times,
\* and however many frames the codec holds back or loses (VideoEncoder::Start,
\* AddFrame, Stop).
THEOREM RecordingsAreAlwaysSound == Careful /\ EncoderSpec => []RecordingsAreSound
<1> SUFFICES ASSUME SoundConstants, Careful PROVE EncoderSpec => []RecordingsAreSound
  BY EncoderAssumption
<1>1. EncoderInit => EncoderInv
  BY InitIsSound
<1>2. EncoderInv /\ [EncoderNext]_encoderVars => EncoderInv'
  BY StepIsSound
<1>3. EncoderInv => RecordingsAreSound
  <2> SUFFICES ASSUME EncoderInv PROVE RecordingsAreSound
    OBVIOUS
  <2>1. EncodingIsOpen
    BY DEF EncoderInv, Sound, Whole, Open, EncodingIsOpen
  <2>2. ScalerFits
    BY DEF EncoderInv, Sound, Whole, ScalerFits
  <2>3. VideoIsPaced
    BY DEF EncoderInv, Sound, Stored, Paced, Even, VideoIsPaced
  <2> QED
    BY <2>1, <2>2, <2>3 DEF RecordingsAreSound
<1> QED
  BY <1>1, <1>2, <1>3, PTL DEF EncoderSpec

\* No temporary file outlives its use, and SaveToFile loses no recording,
\* however the move of the file ends (VideoEncoder::SaveToFile, Reset).
THEOREM RecordingsAreAlwaysKept == Careful /\ EncoderSpec => RecordingsAreKept
<1> SUFFICES ASSUME SoundConstants, Careful PROVE EncoderSpec => RecordingsAreKept
  BY EncoderAssumption
<1>1. EncoderInit => EncoderInv
  BY InitIsSound
<1>2. EncoderInv /\ [EncoderNext]_encoderVars => EncoderInv'
  BY StepIsSound
<1>3. EncoderInv => NoStrayFiles
  BY DEF EncoderInv, Sound, Tidy, NoStrayFiles
<1>4. EncoderInv /\ [EncoderNext]_encoderVars =>
        [(answer'.call = "save" /\ answer' # answer /\ enc.filename \in DOMAIN disk) =>
           \E n \in DOMAIN disk' : disk'[n].frames = disk[enc.filename].frames
                                /\ disk'[n].given = disk[enc.filename].given
                                /\ disk'[n].kept]_encoderVars
  BY SaveLosesNothing
<1> QED
  BY <1>1, <1>2, <1>3, <1>4, PTL DEF EncoderSpec, RecordingsAreKept, SavesLoseNothing
=============================================================================
