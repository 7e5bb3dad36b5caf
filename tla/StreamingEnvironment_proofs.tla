---------------------- MODULE StreamingEnvironment_proofs --------------------
(***************************************************************************)
(* Machine-checked proofs about StreamingEnvironment, for every set of     *)
(* tiles, asset addresses and chunks and every limit.                      *)
(***************************************************************************)
EXTENDS StreamingEnvironment, TLAPS

-----------------------------------------------------------------------------
(* Type correctness *)

\* The fallback's part of the state keeps its type under each of its actions
\* (BakedEnvironmentSource::update, set_visible, teardown).
LEMMA BakedType ==
  ASSUME Baked!TypeOK,
         \/ Baked!Frame
         \/ \E v \in BOOLEAN : Baked!SetVisible(v)
         \/ Baked!Teardown
         \/ UNCHANGED bakedVars
  PROVE  Baked!TypeOK'
<1>1. CASE Baked!Frame
  <2>1. PICK z \in [Chunk -> Baked!Zone], readable \in SUBSET Chunk, ready \in BOOLEAN :
             Baked!Update(z, readable, ready)
    BY <1>1 DEF Baked!Frame
  <2>2. QED BY <2>1 DEF Baked!Update, Baked!TypeOK, Baked!Wanted, Baked!Evict
<1>2. CASE \E v \in BOOLEAN : Baked!SetVisible(v)
  BY <1>2 DEF Baked!SetVisible, Baked!Toggle, Baked!TypeOK
<1>3. CASE Baked!Teardown
  BY <1>3 DEF Baked!Teardown, Baked!TypeOK
<1>4. CASE UNCHANGED bakedVars
  BY <1>4 DEF bakedVars, Baked!TypeOK
<1>5. QED BY <1>1, <1>2, <1>3, <1>4

\* The first half of teardown, whoever calls it.
LEMMA TeardownBeginType ==
  ASSUME StreamTypeOK, NEW next \in Pc, NEW kept, TeardownBegin(next, kept),
         fallback' \in BOOLEAN
  PROVE  StreamTypeOK'
<1> USE LimitsAssumption DEF StreamTypeOK, TeardownBegin
<1>1. Dispatched(tile) \in [Tile -> TileState]
  BY DEF Dispatched, TileState
<1>2. tile' \in [Tile -> TileState]
  BY <1>1 DEF TileState
<1>3. res' \in [Tile -> Asset \cup {NoAsset}]
  BY <1>1
<1>4. /\ live' \subseteq Asset
      /\ pendingFrees' \subseteq Asset
      /\ scene' \subseteq Asset
  BY DEF Drain
<1>5. QED BY <1>2, <1>3, <1>4

LEMMA PumpStepType ==
  ASSUME StreamTypeOK, PumpStep
  PROVE  /\ tile' \in [Tile -> TileState]
         /\ res' \in [Tile -> Asset \cup {NoAsset}]
         /\ Freed({res[t] : t \in Settled(tile)}) \subseteq Asset
BY DEF StreamTypeOK, PumpStep, Settled, Freed, TileState

LEMMA StreamType ==
  ASSUME StreamTypeOK, Phases, Next
  PROVE  StreamTypeOK'
<1> USE LimitsAssumption DEF StreamTypeOK, mainVars, tileVars, assetVars, Pc, TileState
<1>1. ASSUME NEW selected \in SUBSET Tile, UpdateBegin(selected)
      PROVE  StreamTypeOK'
  BY <1>1 DEF UpdateBegin, Drain
<1>2. CASE Dispatch
  BY <1>2 DEF Dispatch, Dispatched
<1>3. ASSUME NEW reach \in [Tile -> Reach], SyncScene(reach)
      PROVE  StreamTypeOK'
  <2>1. StillPresent(reach) \subseteq Asset
    BY DEF StillPresent
  <2>2. QED BY <1>3, <2>1 DEF SyncScene
<1>4. ASSUME NEW kept \in SUBSET Tile, FallBackBegin(kept)
      PROVE  StreamTypeOK'
  BY <1>4, TeardownBeginType DEF FallBackBegin
<1>5. CASE FallbackUpdate
  BY <1>5 DEF FallbackUpdate
<1>6. CASE Pump
  BY <1>6, PumpStepType DEF Pump
<1>7. CASE TeardownEnd
  BY <1>7, PumpStepType DEF TeardownEnd, Drain, Phases
<1>8. ASSUME NEW opened \in BOOLEAN, OpenFallback(opened)
      PROVE  StreamTypeOK'
  BY <1>8 DEF OpenFallback
<1>9. ASSUME NEW t \in Tile, StartLoad(t)
      PROVE  StreamTypeOK'
  BY <1>9 DEF StartLoad
<1>10. ASSUME NEW t \in Tile, NEW a \in Asset \cup {NoAsset}, PrepareInMainThread(t, a)
       PROVE  StreamTypeOK'
  BY <1>10 DEF PrepareInMainThread
<1>11. ASSUME NEW t \in Tile, UnloadTile(t)
       PROVE  StreamTypeOK'
  BY <1>11 DEF UnloadTile, Freed
<1>12. ASSUME NEW t \in Tile, NEW ok \in BOOLEAN, Reply(t, ok)
       PROVE  StreamTypeOK'
  BY <1>12 DEF Reply, Note
<1>13. ASSUME NEW ok \in BOOLEAN, OtherReply(ok)
       PROVE  StreamTypeOK'
  BY <1>13 DEF OtherReply, Note
<1>14. ASSUME NEW v \in BOOLEAN, SetVisible(v)
       PROVE  StreamTypeOK'
  BY <1>14 DEF SetVisible, Baked!Toggle
<1>15. ASSUME NEW kept \in SUBSET Tile, CloseBegin(kept)
       PROVE  StreamTypeOK'
  BY <1>15, TeardownBeginType DEF CloseBegin
<1>16. ASSUME NEW t \in Tile, LateFree(t)
       PROVE  StreamTypeOK'
  BY <1>16 DEF LateFree, Freed
<1>17. CASE Done
  BY <1>17 DEF Done, vars
<1>18. QED BY <1>1, <1>2, <1>3, <1>4, <1>5, <1>6, <1>7, <1>8, <1>9, <1>10, <1>11, <1>12,
              <1>13, <1>14, <1>15, <1>16, <1>17 DEF Next, UpdateStep, TeardownStep

-----------------------------------------------------------------------------
(* Ownership of assets: every asset has at most one owner, and no owner an
   asset that is destroyed or about to be. *)

Owned == OneOwner /\ Accounted /\ ResourcesAreDone /\ PendingIsLive

\* The owner of every asset a tile gives up is the pending list, or nobody after
\* teardown.
LEMMA TeardownBeginOwned ==
  ASSUME StreamTypeOK, Owned, Phases, ~tornDown,
         NEW next \in Pc, NEW kept, TeardownBegin(next, kept)
  PROVE  Owned'
<1> DEFINE ts    == Dispatched(tile)
           loose == {t \in Tile : ts[t] \in {"content", "done"}} \ kept
           freed == pendingFrees \cup ({res[t] : t \in loose} \ {NoAsset})
<1>1. /\ pendingFrees' = {}
      /\ live' = live \ freed
      /\ tile' = [t \in Tile |-> IF t \in loose THEN "unloaded" ELSE ts[t]]
      /\ res' = [t \in Tile |-> IF t \in loose THEN NoAsset ELSE res[t]]
      /\ tornDown' = tornDown
  BY DEF TeardownBegin, Drain
<1>2. \A t \in Tile : res[t] # NoAsset => ts[t] = "done"
  BY DEF Owned, ResourcesAreDone, Dispatched
<1>3. \A t \in Tile : res'[t] # NoAsset => t \notin loose /\ res'[t] = res[t] /\ tile'[t] = "done"
  BY <1>1, <1>2
<1>4. OneOwner'
  BY <1>1, <1>3 DEF Owned, OneOwner
<1>5. Accounted'
  BY <1>1 DEF Owned, Accounted
<1>6. QED BY <1>1, <1>3, <1>4, <1>5 DEF Owned, ResourcesAreDone, PendingIsLive

LEMMA StreamOwned ==
  ASSUME StreamTypeOK, Owned, Phases, Next
  PROVE  Owned'
<1> USE LimitsAssumption
        DEF StreamTypeOK, Owned, OneOwner, Accounted, ResourcesAreDone, PendingIsLive,
            mainVars, tileVars, assetVars
<1>1. ASSUME NEW selected \in SUBSET Tile, UpdateBegin(selected)
      PROVE  Owned'
  BY <1>1 DEF UpdateBegin, Drain
<1>2. CASE Dispatch
  BY <1>2 DEF Dispatch, Dispatched
<1>3. ASSUME NEW reach \in [Tile -> Reach], SyncScene(reach)
      PROVE  Owned'
  BY <1>3 DEF SyncScene
<1>4. ASSUME NEW kept \in SUBSET Tile, FallBackBegin(kept)
      PROVE  Owned'
  BY <1>4, TeardownBeginOwned DEF FallBackBegin, Phases, Pc
<1>5. CASE FallbackUpdate
  BY <1>5 DEF FallbackUpdate
<1>6. CASE Pump
  BY <1>6 DEF Pump, PumpStep, Settled, Freed, Phases
<1>7. CASE TeardownEnd
  BY <1>7 DEF TeardownEnd, PumpStep, Settled, Freed, Phases, Drain
<1>8. ASSUME NEW opened \in BOOLEAN, OpenFallback(opened)
      PROVE  Owned'
  BY <1>8 DEF OpenFallback
<1>9. ASSUME NEW t \in Tile, StartLoad(t)
      PROVE  Owned'
  BY <1>9 DEF StartLoad
<1>10. ASSUME NEW t \in Tile, NEW a \in Asset \cup {NoAsset}, PrepareInMainThread(t, a)
       PROVE  Owned'
  BY <1>10 DEF PrepareInMainThread
<1>11. ASSUME NEW t \in Tile, UnloadTile(t)
       PROVE  Owned'
  BY <1>11 DEF UnloadTile, Freed, Phases
<1>12. ASSUME NEW t \in Tile, NEW ok \in BOOLEAN, Reply(t, ok)
       PROVE  Owned'
  BY <1>12 DEF Reply
<1>13. ASSUME NEW ok \in BOOLEAN, OtherReply(ok)
       PROVE  Owned'
  BY <1>13 DEF OtherReply
<1>14. ASSUME NEW v \in BOOLEAN, SetVisible(v)
       PROVE  Owned'
  BY <1>14 DEF SetVisible
<1>15. ASSUME NEW kept \in SUBSET Tile, CloseBegin(kept)
       PROVE  Owned'
  BY <1>15, TeardownBeginOwned DEF CloseBegin, Pc
<1>16. ASSUME NEW t \in Tile, LateFree(t)
       PROVE  Owned'
  BY <1>16 DEF LateFree, Freed
<1>17. CASE Done
  BY <1>17 DEF Done, vars
<1>18. QED BY <1>1, <1>2, <1>3, <1>4, <1>5, <1>6, <1>7, <1>8, <1>9, <1>10, <1>11, <1>12,
              <1>13, <1>14, <1>15, <1>16, <1>17 DEF Next, UpdateStep, TeardownStep

-----------------------------------------------------------------------------
(* The scene follows the tracked assets, and those are alive and owned. *)

SceneRight == SceneFollowsTracking /\ NothingDestroyedIsShown /\ TrackedIsOwned

LEMMA StreamScene ==
  ASSUME StreamTypeOK, Owned, SceneRight, Phases, FallbackTakesOver, Next
  PROVE  SceneRight'
<1> USE DEF StreamTypeOK, SceneRight, SceneFollowsTracking, NothingDestroyedIsShown,
            TrackedIsOwned, mainVars, tileVars, assetVars
<1> USE DEF Owned, OneOwner, PendingIsLive, Pumping
<1>1. ASSUME NEW selected \in SUBSET Tile, UpdateBegin(selected)
      PROVE  SceneRight'
  BY <1>1 DEF UpdateBegin, Drain
<1>2. CASE Dispatch
  BY <1>2 DEF Dispatch, Dispatched
<1>3. ASSUME NEW reach \in [Tile -> Reach], SyncScene(reach)
      PROVE  SceneRight'
  <2> DEFINE present == StillPresent(reach)
  <2>1. \A a \in present : /\ a \in live /\ a \notin pendingFrees
                            /\ \E t \in Tile : tile[t] = "done" /\ res[t] = a
    BY DEF StillPresent
  <2>2. scene' = IF visible THEN present ELSE {}
    BY <1>3 DEF SyncScene
  <2>3. /\ inScene' = present
        /\ UNCHANGED <<visible, live, pendingFrees, tile, res>>
    BY <1>3 DEF SyncScene
  <2> HIDE DEF present
  <2>4. QED BY <2>1, <2>2, <2>3
<1>4. ASSUME NEW kept \in SUBSET Tile, FallBackBegin(kept)
      PROVE  SceneRight'
  BY <1>4 DEF FallBackBegin, TeardownBegin, Drain
<1>5. CASE FallbackUpdate
  BY <1>5 DEF FallbackUpdate, Phases
<1>6. CASE Pump
  BY <1>6 DEF Pump, PumpStep, Pumping
<1>7. CASE TeardownEnd
  BY <1>7 DEF TeardownEnd, Drain, Phases
<1>8. ASSUME NEW opened \in BOOLEAN, OpenFallback(opened)
      PROVE  SceneRight'
  BY <1>8 DEF OpenFallback
<1>9. ASSUME NEW t \in Tile, StartLoad(t)
      PROVE  SceneRight'
  BY <1>9 DEF StartLoad
<1>10. ASSUME NEW t \in Tile, NEW a \in Asset \cup {NoAsset}, PrepareInMainThread(t, a)
       PROVE  SceneRight'
  BY <1>10 DEF PrepareInMainThread
<1>11. ASSUME NEW t \in Tile, UnloadTile(t)
       PROVE  SceneRight'
  BY <1>11 DEF UnloadTile
<1>12. ASSUME NEW t \in Tile, NEW ok \in BOOLEAN, Reply(t, ok)
       PROVE  SceneRight'
  BY <1>12 DEF Reply
<1>13. ASSUME NEW ok \in BOOLEAN, OtherReply(ok)
       PROVE  SceneRight'
  BY <1>13 DEF OtherReply
<1>14. ASSUME NEW v \in BOOLEAN, SetVisible(v)
       PROVE  SceneRight'
  BY <1>14 DEF SetVisible, Baked!Toggle, FallbackTakesOver, Phases
<1>15. ASSUME NEW kept \in SUBSET Tile, CloseBegin(kept)
       PROVE  SceneRight'
  BY <1>15 DEF CloseBegin, TeardownBegin, Drain
<1>16. ASSUME NEW t \in Tile, LateFree(t)
       PROVE  SceneRight'
  BY <1>16 DEF LateFree, Phases
<1>17. CASE Done
  BY <1>17 DEF Done, vars
<1>18. QED BY <1>1, <1>2, <1>3, <1>4, <1>5, <1>6, <1>7, <1>8, <1>9, <1>10, <1>11, <1>12,
              <1>13, <1>14, <1>15, <1>16, <1>17 DEF Next, UpdateStep, TeardownStep

-----------------------------------------------------------------------------
(* The phases of a source's life, and what teardown and fallback leave. *)

PhaseRight == Phases /\ TeardownReclaims /\ FallbackTakesOver

LEMMA StreamPhases ==
  ASSUME StreamTypeOK, Owned, SceneRight, PhaseRight, Next
  PROVE  PhaseRight'
<1> USE DEF StreamTypeOK, PhaseRight, Phases, TeardownReclaims, FallbackTakesOver, Pumping,
            mainVars, tileVars, assetVars, bakedVars
<1>1. ASSUME NEW selected \in SUBSET Tile, UpdateBegin(selected)
      PROVE  PhaseRight'
  BY <1>1 DEF UpdateBegin, Drain
<1>2. CASE Dispatch
  BY <1>2 DEF Dispatch
<1>3. ASSUME NEW reach \in [Tile -> Reach], SyncScene(reach)
      PROVE  PhaseRight'
  BY <1>3 DEF SyncScene
<1>4. ASSUME NEW kept \in SUBSET Tile, FallBackBegin(kept)
      PROVE  PhaseRight'
  BY <1>4 DEF FallBackBegin, TeardownBegin, Drain
<1>5. CASE FallbackUpdate
  <2>1. bVisible' = bVisible
    BY <1>5 DEF FallbackUpdate, Baked!Frame, Baked!Update
  <2>2. QED BY <1>5, <2>1 DEF FallbackUpdate, SceneRight, SceneFollowsTracking
<1>6. CASE Pump
  BY <1>6 DEF Pump
<1>7. CASE TeardownEnd
  <2>1. ~tornDown /\ inScene = {} /\ scene = {} /\ leakedBound = 0
    BY <1>7 DEF TeardownEnd, SceneRight, SceneFollowsTracking
  <2>2. live' = live \ Freed({res[t] : t \in Settled(tile)})
    BY <1>7 DEF TeardownEnd, Drain
  <2>3. AllDestroyed => live \subseteq pendingFrees
    BY <2>1, LimitsAssumption DEF AllDestroyed, Owned, Accounted, ResourcesAreDone
  <2>4. pendingFrees \subseteq Freed({res[t] : t \in Settled(tile)})
    BY DEF Freed
  <2>5. live' # {} => leakedBound' = 1
    BY <1>7, <2>1, <2>2, <2>3, <2>4 DEF TeardownEnd
  <2>6. inScene' = {} /\ scene' = {} /\ pendingFrees' = {} /\ tornDown'
    BY <1>7, <2>1 DEF TeardownEnd, Drain
  <2>7. UNCHANGED <<fallenBack, fallback, visible, bVisible>>
    BY <1>7 DEF TeardownEnd
  <2>8. /\ ~fallenBack /\ ~fallback
        /\ pc' \in {"idle", "open"}
        /\ pc' = "idle" => closed'
        /\ closed' => pc' = "idle"
    BY <1>7, <2>1 DEF TeardownEnd
  <2>9. QED BY <2>5, <2>6, <2>7, <2>8
<1>8. ASSUME NEW opened \in BOOLEAN, OpenFallback(opened)
      PROVE  PhaseRight'
  BY <1>8 DEF OpenFallback, Baked!SetVisible, SceneRight, SceneFollowsTracking
<1>9. ASSUME NEW t \in Tile, StartLoad(t)
      PROVE  PhaseRight'
  BY <1>9 DEF StartLoad
<1>10. ASSUME NEW t \in Tile, NEW a \in Asset \cup {NoAsset}, PrepareInMainThread(t, a)
       PROVE  PhaseRight'
  BY <1>10 DEF PrepareInMainThread
<1>11. ASSUME NEW t \in Tile, UnloadTile(t)
       PROVE  PhaseRight'
  BY <1>11 DEF UnloadTile
<1>12. ASSUME NEW t \in Tile, NEW ok \in BOOLEAN, Reply(t, ok)
       PROVE  PhaseRight'
  BY <1>12 DEF Reply
<1>13. ASSUME NEW ok \in BOOLEAN, OtherReply(ok)
       PROVE  PhaseRight'
  BY <1>13 DEF OtherReply
<1>14. ASSUME NEW v \in BOOLEAN, SetVisible(v)
       PROVE  PhaseRight'
  BY <1>14 DEF SetVisible, Baked!SetVisible, Baked!Toggle
<1>15. ASSUME NEW kept \in SUBSET Tile, CloseBegin(kept)
       PROVE  PhaseRight'
  BY <1>15 DEF CloseBegin, TeardownBegin, Drain, Baked!Teardown
<1>16. ASSUME NEW t \in Tile, LateFree(t)
       PROVE  PhaseRight'
  BY <1>16 DEF LateFree, Freed
<1>17. CASE Done
  BY <1>17 DEF Done, vars
<1>18. QED BY <1>1, <1>2, <1>3, <1>4, <1>5, <1>6, <1>7, <1>8, <1>9, <1>10, <1>11, <1>12,
              <1>13, <1>14, <1>15, <1>16, <1>17 DEF Next, UpdateStep, TeardownStep

-----------------------------------------------------------------------------
(* The fallback's chunks are in the scene exactly while it is visible. *)

LEMMA BakedShown ==
  ASSUME FallbackShown, Baked!TypeOK,
         \/ Baked!Frame
         \/ \E v \in BOOLEAN : Baked!SetVisible(v)
         \/ Baked!Teardown
         \/ UNCHANGED bakedVars
  PROVE  bDrawn' = IF bVisible' THEN bLoaded' ELSE {}
<1> USE DEF FallbackShown, Baked!TypeOK
<1>1. CASE Baked!Frame
  BY <1>1 DEF Baked!Frame, Baked!Update, Baked!Wanted, Baked!Evict
<1>2. CASE \E v \in BOOLEAN : Baked!SetVisible(v)
  BY <1>2 DEF Baked!SetVisible, Baked!Toggle
<1>3. CASE Baked!Teardown
  BY <1>3 DEF Baked!Teardown
<1>4. CASE UNCHANGED bakedVars
  BY <1>4 DEF bakedVars
<1>5. QED BY <1>1, <1>2, <1>3, <1>4

\* Every step of the stream is one of the fallback's, or leaves it alone.
LEMMA StreamStepsBaked ==
  ASSUME StreamTypeOK, Next
  PROVE  \/ Baked!Frame
         \/ \E v \in BOOLEAN : Baked!SetVisible(v)
         \/ Baked!Teardown
         \/ UNCHANGED bakedVars
<1>1. CASE UpdateStep
  BY <1>1 DEF UpdateStep, UpdateBegin, Dispatch, SyncScene, FallBackBegin, FallbackUpdate
<1>2. CASE TeardownStep
  BY <1>2 DEF TeardownStep, Pump, TeardownEnd, OpenFallback, StreamTypeOK
<1>3. CASE \/ \E t \in Tile : StartLoad(t)
           \/ \E t \in Tile, a \in Asset \cup {NoAsset} : PrepareInMainThread(t, a)
           \/ \E t \in Tile : UnloadTile(t)
           \/ \E t \in Tile, ok \in BOOLEAN : Reply(t, ok)
           \/ \E ok \in BOOLEAN : OtherReply(ok)
           \/ \E t \in Tile : LateFree(t)
           \/ Done
  BY <1>3 DEF StartLoad, PrepareInMainThread, UnloadTile, Reply, OtherReply, LateFree, Done,
              vars, bakedVars
<1>4. CASE \/ \E v \in BOOLEAN : SetVisible(v)
           \/ \E kept \in SUBSET Tile : CloseBegin(kept)
  BY <1>4 DEF SetVisible, CloseBegin
<1>5. QED BY <1>1, <1>2, <1>3, <1>4 DEF Next

LEMMA StreamFallback ==
  ASSUME StreamTypeOK, Baked!TypeOK, Phases, FallbackShown, Next
  PROVE  FallbackShown'
<1>1. bDrawn' = IF bVisible' THEN bLoaded' ELSE {}
  BY BakedShown, StreamStepsBaked
<1>2. (~fallback => bLoaded = {})'
  <2> USE DEF FallbackShown
  <2>1. CASE UpdateStep
    BY <2>1 DEF UpdateStep, UpdateBegin, Dispatch, SyncScene, FallBackBegin, FallbackUpdate,
                bakedVars
  <2>2. CASE TeardownStep
    BY <2>2 DEF TeardownStep, Pump, TeardownEnd, OpenFallback, Phases, bakedVars
  <2>3. CASE \/ \E t \in Tile : StartLoad(t)
             \/ \E t \in Tile, a \in Asset \cup {NoAsset} : PrepareInMainThread(t, a)
             \/ \E t \in Tile : UnloadTile(t)
             \/ \E t \in Tile, ok \in BOOLEAN : Reply(t, ok)
             \/ \E ok \in BOOLEAN : OtherReply(ok)
             \/ \E t \in Tile : LateFree(t)
             \/ Done
    BY <2>3 DEF StartLoad, PrepareInMainThread, UnloadTile, Reply, OtherReply, LateFree, Done,
                vars, bakedVars
  <2>4. ASSUME NEW v \in BOOLEAN, SetVisible(v)
        PROVE  (~fallback => bLoaded = {})'
    BY <2>4 DEF SetVisible, Baked!SetVisible, bakedVars
  <2>5. ASSUME NEW kept \in SUBSET Tile, CloseBegin(kept)
        PROVE  (~fallback => bLoaded = {})'
    BY <2>5 DEF CloseBegin, Baked!Teardown, bakedVars
  <2>6. QED BY <2>1, <2>2, <2>3, <2>4, <2>5 DEF Next
<1>3. QED BY <1>1, <1>2 DEF FallbackShown

-----------------------------------------------------------------------------
(* The inductive invariant and what follows from it *)

LEMMA InitInv ==
  ASSUME Init
  PROVE  StreamInv
<1> USE LimitsAssumption DEF Init, Baked!Init
<1>1. TypeOK
  <2>1. pc \in Pc /\ failures \in 0 .. FailureLimit /\ pumps \in 0 .. PumpBound
    BY DEF Pc
  <2>2. tile \in [Tile -> TileState] /\ res \in [Tile -> Asset \cup {NoAsset}]
    BY DEF TileState
  <2>3. StreamTypeOK
    BY <2>1, <2>2 DEF StreamTypeOK
  <2>4. Baked!TypeOK
    BY DEF Baked!TypeOK
  <2>5. QED BY <2>3, <2>4 DEF TypeOK
<1>2. SceneFollowsTracking /\ NothingDestroyedIsShown /\ TrackedIsOwned
  BY DEF SceneFollowsTracking, NothingDestroyedIsShown, TrackedIsOwned
<1>3. OneOwner /\ Accounted /\ ResourcesAreDone /\ PendingIsLive
  BY DEF OneOwner, Accounted, ResourcesAreDone, PendingIsLive
<1>4. TeardownReclaims /\ FallbackTakesOver /\ Phases /\ FallbackShown
  BY DEF TeardownReclaims, FallbackTakesOver, Phases, Pumping, FallbackShown
<1>5. QED BY <1>1, <1>2, <1>3, <1>4 DEF StreamInv

LEMMA StepInv ==
  ASSUME StreamInv, Next
  PROVE  StreamInv'
<1> USE DEF StreamInv
<1>1. StreamTypeOK'
  BY StreamType DEF TypeOK
<1>2. Baked!TypeOK'
  BY BakedType, StreamStepsBaked DEF TypeOK
<1>3. Owned'
  BY StreamOwned DEF TypeOK, Owned
<1>4. SceneRight'
  BY StreamScene DEF TypeOK, Owned, SceneRight
<1>5. PhaseRight'
  BY StreamPhases DEF TypeOK, Owned, SceneRight, PhaseRight
<1>6. FallbackShown'
  BY StreamFallback DEF TypeOK
<1>7. QED BY <1>1, <1>2, <1>3, <1>4, <1>5, <1>6 DEF TypeOK, Owned, SceneRight, PhaseRight

LEMMA StutterInv ==
  ASSUME StreamInv, UNCHANGED vars
  PROVE  StreamInv'
BY DEF StreamInv, vars, mainVars, tileVars, assetVars, bakedVars, TypeOK, StreamTypeOK,
       Baked!TypeOK, SceneFollowsTracking, NothingDestroyedIsShown, TrackedIsOwned, OneOwner,
       TeardownReclaims, FallbackTakesOver, Accounted, ResourcesAreDone, PendingIsLive, Phases,
       Pumping, FallbackShown

\* The inductive invariant holds in every reachable state, whatever cesium, the
\* network, the workers and the owner do, and whatever order they do it in.
THEOREM StreamInvariant == Spec => []StreamInv
<1>1. Init => StreamInv
  BY InitInv
<1>2. StreamInv /\ [Next]_vars => StreamInv'
  BY StepInv, StutterInv
<1>3. QED BY <1>1, <1>2, PTL DEF Spec

\* The stream and its fallback keep their types.
THEOREM StreamTypeCorrect == Spec => []TypeOK
BY StreamInvariant, PTL DEF StreamInv

\* What is drawn is what is tracked, exists, and belongs to one Done tile
\* (sync_scene, set_visible, free, drain_pending_frees and teardown agree, for
\* any interleaving with the workers and with addresses reused).
THEOREM StreamSceneIsSound == Spec => []SceneIsSound
<1>1. StreamInv => SceneIsSound
  BY DEF StreamInv, SceneIsSound, Ownership
<1>2. QED BY <1>1, StreamInvariant, PTL

\* teardown destroys every asset or has counted the leak.
THEOREM StreamTeardownReclaims == Spec => []TeardownReclaims
BY StreamInvariant, PTL DEF StreamInv

\* After a fallback the stream shows nothing and the fallback obeys set_visible.
THEOREM StreamFallbackTakesOver == Spec => []FallbackTakesOver
BY StreamInvariant, PTL DEF StreamInv

-----------------------------------------------------------------------------
(* Refinement *)

\* The streaming source implements EnvironmentSource: to its owner, an update that
\* takes many steps, a fallback and a teardown that pumps are one source whose
\* pieces are in the scene exactly while it is visible, and gone once closed.
THEOREM StreamImplements == Spec => Implements
<1>1. Init => Abstract!Init
  BY DEF Init, Baked!Init, Abstract!Init
<1>2. ASSUME StreamInv, StreamInv', [Next]_vars
      PROVE  [Abstract!Next]_(Abstract!vars)
  <2> DEFINE aLoaded == inScene \cup bLoaded
             aDrawn  == scene \cup bDrawn
  <2>1. aLoaded' \in SUBSET (Asset \cup Chunk)
    BY <1>2 DEF StreamInv, TypeOK, StreamTypeOK, Baked!TypeOK
  <2>2. aDrawn' = IF visible' THEN aLoaded' ELSE {}
    BY <1>2 DEF StreamInv, SceneFollowsTracking, FallbackShown, FallbackTakesOver, Phases
  <2>3. CASE UNCHANGED <<closed, visible, aLoaded>>
    BY <1>2, <2>2, <2>3 DEF Abstract!vars, StreamInv, SceneFollowsTracking, FallbackShown,
                            FallbackTakesOver, Phases
  <2>4. CASE ~closed /\ UNCHANGED <<closed, visible>>
    BY <2>1, <2>2, <2>4 DEF Abstract!Next, Abstract!Update, Abstract!Shown
  <2>5. CASE ~closed /\ UNCHANGED <<closed, aLoaded>>
    BY <1>2, <2>2, <2>5 DEF Abstract!Next, Abstract!SetVisible, Abstract!Shown, StreamInv,
                            TypeOK, StreamTypeOK
  <2>6. CASE ~closed /\ closed' /\ UNCHANGED visible
    <3>1. aLoaded' = {} /\ aDrawn' = {}
      BY <1>2, <2>2, <2>6 DEF StreamInv, FallbackShown, Phases
    <3>2. closed' = TRUE
      BY <1>2, <2>6 DEF StreamInv, TypeOK, StreamTypeOK
    <3>3. QED BY <2>6, <3>1, <3>2 DEF Abstract!Next, Abstract!Teardown
  <2>7. \/ UNCHANGED <<closed, visible, aLoaded>>
        \/ ~closed /\ UNCHANGED <<closed, visible>>
        \/ ~closed /\ UNCHANGED <<closed, aLoaded>>
        \/ ~closed /\ closed' /\ UNCHANGED visible
    <3> USE DEF StreamInv, Phases
    <3>1. CASE UpdateStep
      BY <1>2, <3>1 DEF UpdateStep, UpdateBegin, Dispatch, SyncScene, FallBackBegin,
                        TeardownBegin, FallbackUpdate
    <3>2. CASE TeardownStep
      BY <1>2, <3>2 DEF TeardownStep, Pump, TeardownEnd, OpenFallback, Pumping, TypeOK,
                        StreamTypeOK
    <3>3. CASE \/ \E t \in Tile : StartLoad(t)
               \/ \E t \in Tile, a \in Asset \cup {NoAsset} : PrepareInMainThread(t, a)
               \/ \E t \in Tile : UnloadTile(t)
               \/ \E t \in Tile, ok \in BOOLEAN : Reply(t, ok)
               \/ \E ok \in BOOLEAN : OtherReply(ok)
               \/ \E t \in Tile : LateFree(t)
               \/ Done
      BY <3>3 DEF StartLoad, PrepareInMainThread, UnloadTile, Reply, OtherReply, LateFree, Done,
                  vars, mainVars, assetVars, bakedVars
    <3>4. ASSUME NEW v \in BOOLEAN, SetVisible(v)
          PROVE  ~closed /\ UNCHANGED <<closed, aLoaded>>
      BY <3>4 DEF SetVisible, Baked!SetVisible, bakedVars
    <3>5. ASSUME NEW kept \in SUBSET Tile, CloseBegin(kept)
          PROVE  ~closed /\ UNCHANGED visible /\ (closed' \/ UNCHANGED closed)
      BY <3>5 DEF CloseBegin, TeardownBegin
    <3>6. CASE UNCHANGED vars
      BY <3>6 DEF vars, mainVars, assetVars, bakedVars
    <3>7. QED BY <1>2, <3>1, <3>2, <3>3, <3>4, <3>5, <3>6 DEF Next
  <2>8. QED BY <2>3, <2>4, <2>5, <2>6, <2>7
<1>3. QED BY <1>1, <1>2, StreamInvariant, PTL DEF Spec, Implements, Abstract!Spec
=============================================================================
