-------------------------- MODULE MCRemoteryServer --------------------------
(* The server with its viewers, and the samples of the GPU that wait for it.  *)
EXTENDS RemoteryServer

CONSTANT ViewerStays

VARIABLES
  subject,
  kind, gpu, answer, uses, free, open, built, trees, toUpdate, toServer, sent,
  stage, then, watched, stray

gpuVars == <<kind, gpu, answer, uses, free, open, built, trees, toUpdate, toServer, sent,
             stage, then, watched, stray>>

Gpu == INSTANCE GpuSamples WITH
  Kinds <- {"OpenGL", "D3D11", "Metal"}, MaxSamples <- 3, MaxTrees <- 3, Capacity <- 2,
  at <- stage, viewer <- watched

MCInit == Init /\ Gpu!Init /\ subject \in {"server", "gpu"}
MCNext ==
  /\ UNCHANGED subject
  /\ \/ subject = "server" /\ Next /\ UNCHANGED gpuVars
     \/ subject = "gpu" /\ Gpu!Next /\ UNCHANGED vars
MCSpec == MCInit /\ [][MCNext]_<<subject, vars, gpuVars>>
          /\ (subject = "server" => Fairness) /\ (subject = "gpu" => Gpu!Fairness)

\* A viewer that went is dropped and the next one is heard, and the thread of
\* the server ends when it is asked to (Server_Update, rmtThread_Destructor).
ViewersAreServed == GoneViewersAreDropped /\ WaitingViewersAreHeard /\ ExitIsHeard

\* A tree of the GPU comes to the viewer once, after those before it, with the
\* times of its own samples (the GPU backends), and so the wait of Unbind...
\* ends: "Wait around until the Remotery server thread has sent all sample
\* trees of this type to the client".
TreesReachTheViewer ==
  [](Gpu!TimesAreOfTheTree /\ Gpu!TreesInOrder) /\ Gpu!UnbindReturns
=============================================================================
