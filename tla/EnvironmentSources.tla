-------------------------- MODULE EnvironmentSources ---------------------------
(***************************************************************************)
(* What the sources of the environment come to in the end: the baked one   *)
(* (BakedEnvironment), the streaming one (StreamingEnvironment, of which   *)
(* StreamingEnvironment's own runs check the safety) and the threads under *)
(* it (WorkerPool).  A behaviour follows one of them, and the others are   *)
(* as they were at the start.                                              *)
(***************************************************************************)
EXTENDS BakedEnvironment, Naturals, Sequences

CONSTANTS
  Tile, Asset, NoAsset, FailureLimit, PumpBound,   \* StreamingEnvironment's
  Task, Worker, Nobody                             \* WorkerPool's

ASSUME SourcesConstants ==
  /\ FailureLimit \in Nat \ {0} /\ PumpBound \in Nat \ {0}
  /\ NoAsset \notin Asset
  /\ Nobody \notin Task \union Worker /\ Worker # {}

VARIABLES
  part,   \* which source is followed
  pc, streamVisible, fallenBack, tornDown, closed, failures, pumps, leakedBound,
  tile, res, toRender, live, pendingFrees, inScene, scene, fallback,
  bTorn, bVisible, bLoaded, bFailed, bDrawn, bZone,
  mutex, queue, stop, at, task, owner, signals, started, done

Stream == INSTANCE StreamingEnvironment WITH visible <- streamVisible
Pool == INSTANCE WorkerPool

streamVars == <<pc, streamVisible, fallenBack, tornDown, closed, failures, pumps, leakedBound,
                tile, res, toRender, live, pendingFrees, inScene, scene, fallback,
                bTorn, bVisible, bLoaded, bFailed, bDrawn, bZone>>
poolVars == <<mutex, queue, stop, at, task, owner, signals, started, done>>
sourcesVars == <<part, bakedVars, streamVars, poolVars>>

\* A source that is not followed has the ego far from its chunks.
SourcesInit ==
  /\ part \in {"baked", "stream", "pool"}
  /\ Init /\ (part # "baked" => \A c \in Chunk : zone[c] = "far")
  /\ Stream!Init /\ (part # "stream" => \A c \in Chunk : bZone[c] = "far")
  /\ Pool!PoolInit

SourcesNext ==
  \/ part = "baked" /\ Next /\ UNCHANGED <<part, streamVars, poolVars>>
  \/ part = "stream" /\ Stream!Next /\ UNCHANGED <<part, bakedVars, poolVars>>
  \/ part = "pool" /\ Pool!PoolNext /\ UNCHANGED <<part, bakedVars, streamVars>>

SourcesSpec == SourcesInit /\ [][SourcesNext]_sourcesVars

\* The fairness of each source, for the steps it takes when it is followed.
SourcesFairSpec ==
  /\ SourcesSpec
  /\ WF_bakedVars(part = "baked" /\ ReadyFrame)
  /\ WF_streamVars(part = "stream" /\ Stream!UpdateStep)
  /\ WF_streamVars(part = "stream" /\ Stream!TeardownStep)
  /\ \A w \in Worker : WF_poolVars(part = "pool" /\ Pool!WorkerStep(w))
  /\ WF_poolVars(part = "pool" /\ Pool!Notify)
  /\ WF_poolVars(part = "pool" /\ (Pool!NotifyAll \/ Pool!Join))

-----------------------------------------------------------------------------
\* A network that stays lost ends in the fallback (stated in StreamingEnvironment, of
\* update and fall_back).
NetworkLossFallsBack == Stream!NetworkLossFallsBack

\* teardown returns though no worker may ever finish (stated in StreamingEnvironment, of
\* its bounded pump).
TeardownReturns == Stream!TeardownReturns

\* Every task that is started runs and the destructor of the pool returns (stated in
\* WorkerPool, of SimpleTaskProcessor).
PoolDrains == Pool!PoolDrains
=============================================================================
