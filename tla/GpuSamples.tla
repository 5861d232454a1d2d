----------------------------- MODULE GpuSamples -----------------------------
(***************************************************************************)
(* Samples of what the GPU does, in Remotery.c: one thread begins and ends *)
(* them, which issues queries that the GPU answers later and in order.  A  *)
(* finished tree waits in a queue of its own until all of its answers have *)
(* come, then goes on to the queue of the server thread, which sends it to *)
(* a viewer and gives its samples back.  Unbinding waits for all of that.  *)
(* The queues discard a tree they have no room for.                        *)
(***************************************************************************)
EXTENDS Integers, Sequences, SequencesExt, FiniteSetsExt

CONSTANTS
  Kinds,        \* of {"OpenGL", "D3D11", "Metal"}
  MaxSamples,   \* bound: samples allocated
  MaxTrees,     \* bound: trees begun
  Capacity,     \* trees either queue holds
  ViewerStays   \* whether a viewer is connected all the time

VARIABLES
  kind,         \* the kind of GPU
  gpu,          \* queries issued and not answered: sample, name and use
  answer,       \* sample -> query -> the use it was answered for, or 0
  uses,         \* sample -> how often it was begun
  free,         \* samples given back, the last first
  open, built,  \* samples begun and not ended; those of the tree that grows
  trees,        \* trees begun so far
  toUpdate, toServer,   \* the two queues of trees
  sent,         \* the last tree that was sent
  at, then,     \* where the thread is, and where it goes when it has updated
  viewer,       \* a viewer is connected
  stray         \* a tree was discarded before its answers came

samples == <<answer, uses, free>>
vars == <<kind, gpu, samples, open, built, trees, toUpdate, toServer, sent, at, then, viewer, stray>>

Queries == {"disjoint", "start", "end"}
None == [q \in Queries |-> 0]

Init ==
  /\ kind \in Kinds /\ gpu = << >> /\ answer = << >> /\ uses = << >> /\ free = << >>
  /\ open = << >> /\ built = << >> /\ trees = 0 /\ toUpdate = << >> /\ toServer = << >>
  /\ sent = 0 /\ at = "idle" /\ then = "idle" /\ viewer = ViewerStays /\ stray = FALSE
-----------------------------------------------------------------------------
(* The queries of a kind of GPU.                                             *)
OpenGLTimestamp_Begin == <<"start">>
OpenGLTimestamp_End == <<"end">>
D3D11Timestamp_Begin == <<"disjoint", "start">>
D3D11Timestamp_End == <<"end", "disjoint">>
\* A handler of the command buffer, which writes all and is not told of its end.
MetalTimestamp_Begin == <<"start">>
MetalTimestamp_End == << >>

AtBegin == CASE kind = "OpenGL" -> OpenGLTimestamp_Begin
             [] kind = "D3D11" -> D3D11Timestamp_Begin
             [] kind = "Metal" -> MetalTimestamp_Begin
AtEnd == CASE kind = "OpenGL" -> OpenGLTimestamp_End
           [] kind = "D3D11" -> D3D11Timestamp_End
           [] kind = "Metal" -> MetalTimestamp_End

\* Queries of a sample are issued: the answers they had are forgotten.
Issue(s, n, names, answers) ==
  /\ gpu' = gpu \o [k \in DOMAIN names |-> [s |-> s, q |-> names[k], use |-> n]]
  /\ answer' = [answers EXCEPT ![s] = [q \in Queries |-> IF q \in ToSet(names) THEN 0 ELSE @[q]]]

OpenGLTimestamp_GetData(s) == answer[s]["start"] # 0 /\ answer[s]["end"] # 0
D3D11Timestamp_GetData(s) == \A q \in Queries : answer[s][q] # 0
MetalTimestamp_GetData(s) == answer[s]["start"] # 0

Ready(s) == CASE kind = "OpenGL" -> OpenGLTimestamp_GetData(s)
              [] kind = "D3D11" -> D3D11Timestamp_GetData(s)
              [] kind = "Metal" -> MetalTimestamp_GetData(s)

\* For the mutants: the top of a tree alone is asked.
TopIsReady(tree) == Ready(tree.samples[1])

\* Get...SampleTimes: the sample and everything under it.
TreeIsReady(tree) == \A k \in DOMAIN tree.samples : Ready(tree.samples[k])

\* The GPU answers the oldest query.  A query issued again meanwhile waits for
\* its last issue; a handler of a command buffer writes when it is called.
Latest(c) == \A k \in 2..Len(gpu) : gpu[k].s # c.s \/ gpu[k].q # c.q
GpuAnswers ==
  /\ gpu # << >> /\ gpu' = Tail(gpu)
  /\ LET c == Head(gpu)
     IN answer' = IF c.s \in DOMAIN answer /\ (kind = "Metal" \/ Latest(c))
                  THEN [answer EXCEPT ![c.s][c.q] = c.use] ELSE answer
  /\ UNCHANGED <<kind, uses, free, open, built, trees, toUpdate, toServer, sent, at, then, viewer, stray>>
-----------------------------------------------------------------------------
(* The thread that samples.                                                  *)
BeginSample ==
  /\ at = "idle" /\ (open # << >> \/ trees < MaxTrees)
  /\ free # << >> \/ Len(uses) < MaxSamples
  /\ LET s == IF free = << >> THEN Len(uses) + 1 ELSE Head(free)
         n == IF free = << >> THEN 1 ELSE uses[s] + 1
     IN /\ free' = IF free = << >> THEN free ELSE Tail(free)
        /\ uses' = IF free = << >> THEN Append(uses, 1) ELSE [uses EXCEPT ![s] = n]
        /\ Issue(s, n, AtBegin, IF free = << >> THEN Append(answer, None) ELSE answer)
        /\ open' = Append(open, s) /\ built' = Append(built, s)
  /\ trees' = IF open = << >> THEN trees + 1 ELSE trees
  /\ UNCHANGED <<kind, toUpdate, toServer, sent, at, then, viewer, stray>>

\* AddSampleTreeMessage: a tree that does not fit is given back.
Tree == [number |-> trees, samples |-> built]
Back(tree) == tree.samples \o free
Unanswered(tree) == \E k \in DOMAIN gpu : gpu[k].s \in ToSet(tree.samples)

\* The end of the top sample hands the tree over and looks for answers.
EndSample ==
  /\ at = "idle" /\ open # << >>
  /\ Issue(Last(open), uses[Last(open)], AtEnd, answer) /\ open' = Front(open)
  /\ IF Len(open) > 1 THEN UNCHANGED <<built, toUpdate, free, stray, at, then>>
     ELSE /\ built' = << >> /\ at' = "updating" /\ then' = "idle"
          /\ IF Len(toUpdate) < Capacity
             THEN toUpdate' = Append(toUpdate, Tree) /\ UNCHANGED <<free, stray>>
             ELSE free' = Back(Tree) /\ stray' = (stray \/ gpu' # << >>) /\ UNCHANGED toUpdate
  /\ UNCHANGED <<kind, uses, trees, toServer, sent, viewer>>

\* For the mutants: trees that are ready pass those that are not.
AnyReady == { k \in DOMAIN toUpdate : TreeIsReady(toUpdate[k]) }

\* The trees that may go on: the oldest, which holds up the others.
Ahead == { k \in DOMAIN toUpdate : k = 1 /\ TreeIsReady(toUpdate[k]) }

\* Update...Frame, one tree at a time.
UpdateFrame ==
  /\ at = "updating"
  /\ \/ /\ Ahead = {} /\ at' = then /\ UNCHANGED <<toUpdate, toServer, free>>
     \/ \E k \in Ahead :
          /\ toUpdate' = RemoveAt(toUpdate, k) /\ UNCHANGED at
          /\ IF Len(toServer) < Capacity
             THEN toServer' = Append(toServer, toUpdate[k]) /\ UNCHANGED free
             ELSE free' = Back(toUpdate[k]) /\ UNCHANGED toServer
  /\ UNCHANGED <<kind, gpu, answer, uses, open, built, trees, sent, then, viewer, stray>>

\* For the mutants: the thread does not look for answers while it waits for them.
JustWait == "draining"

\* What the thread does while trees wait for the GPU.
WhileDraining == "updating"

\* Unbind..., with no sample open: first the queue of trees is emptied, then the
\* thread waits until every sample is back, then it deletes them.  Metal has none.
UnbindDrains ==
  /\ kind # "Metal"
  /\ \/ at = "idle" /\ open = << >>
     \/ at = "draining"
  /\ IF toUpdate # << >> THEN at' = WhileDraining /\ then' = "draining"
     ELSE at' = "waiting" /\ UNCHANGED then
  /\ UNCHANGED <<kind, gpu, samples, open, built, trees, toUpdate, toServer, sent, viewer, stray>>

BlockingDeleteSampleTree ==
  /\ at = "waiting" /\ Len(free) = Len(uses)
  /\ at' = "unbound" /\ answer' = << >> /\ uses' = << >> /\ free' = << >>
  /\ UNCHANGED <<kind, gpu, open, built, trees, toUpdate, toServer, sent, then, viewer, stray>>
-----------------------------------------------------------------------------
\* The server thread sends a tree to its viewer and gives the samples back;
\* without a viewer it leaves the queue alone.
SendSampleTreeMessage ==
  /\ viewer /\ toServer # << >>
  /\ sent' = Head(toServer).number
  /\ free' = Back(Head(toServer)) /\ toServer' = Tail(toServer)
  /\ UNCHANGED <<kind, gpu, answer, uses, open, built, trees, toUpdate, at, then, viewer, stray>>

ViewerComesAndGoes ==
  /\ ~ViewerStays /\ viewer' = ~viewer
  /\ UNCHANGED <<kind, gpu, samples, open, built, trees, toUpdate, toServer, sent, at, then, stray>>

Thread == UpdateFrame \/ UnbindDrains \/ BlockingDeleteSampleTree
Next == BeginSample \/ EndSample \/ Thread \/ GpuAnswers \/ SendSampleTreeMessage \/ ViewerComesAndGoes

\* The GPU and the server go on, and so does the thread once it unbinds.
Fairness ==
  /\ WF_vars(GpuAnswers) /\ WF_vars(SendSampleTreeMessage)
  /\ WF_vars(at # "idle" /\ Thread)
Spec == Init /\ [][Next]_vars /\ Fairness
-----------------------------------------------------------------------------
\* What the server is given has the times of its own samples, all of them,
\* whatever was discarded and used again before; for Metal, whose handlers know
\* no uses, as long as nothing was discarded before its handlers were called.
TimesAreOfTheTree ==
  \A t \in DOMAIN toServer : \A k \in DOMAIN toServer[t].samples :
    LET s == toServer[t].samples[k]
    IN \/ s \in DOMAIN answer /\ answer[s]["start"] = uses[s] /\ (kind # "Metal" => answer[s]["end"] = uses[s])
       \/ kind = "Metal" /\ stray

\* Trees come to the viewer in the order they were sampled in, those that were
\* not discarded: a tree that is not ready holds up later ones.
TreesInOrder ==
  LET coming == toServer \o toUpdate
  IN /\ \A k \in DOMAIN coming : coming[k].number > sent
     /\ \A j, k \in DOMAIN coming : j < k => coming[j].number < coming[k].number

\* "Wait around until the Remotery server thread has sent all sample trees of this
\* type to the client": the wait of Unbind... ends, and finds all samples back.
UnbindReturns == (at \in {"draining", "waiting"}) ~> (at = "unbound")
=============================================================================
