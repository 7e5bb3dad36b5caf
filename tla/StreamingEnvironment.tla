------------------------- MODULE StreamingEnvironment ------------------------
(***************************************************************************)
(* StreamingEnvironmentSource and its StreamRendererResources              *)
(* (environment_stream.cpp): tiles stream in through cesium-native, become *)
(* Filament assets on the main thread, are shown while cesium selects them *)
(* inside the tile radius, and are destroyed by deferred frees.  After     *)
(* kNetworkLossConsecutiveFailures failed requests the source tears its    *)
(* tilesets down and shows a baked directory instead, for good.            *)
(*                                                                         *)
(* The main thread is a program counter over the steps of update() and     *)
(* teardown(); worker and network threads take their steps between any two *)
(* of them.  Content and terrain tiles run the same code over two maps     *)
(* (inScene_, terrainInScene_) and are one set Tile here.                   *)
(*                                                                         *)
(* cesium-native is external: a tile it selected this frame, or whose      *)
(* children are still loading, is not unloaded; a tile becomes Done only   *)
(* in loadTiles; destroying a tileset unloads every tile that is not       *)
(* pinned by a load in flight, and the rest when that load ends.           *)
(***************************************************************************)
EXTENDS Naturals

CONSTANTS
  Tile,                 \* tiles of the content and the terrain tileset
  Asset,                \* addresses a FilamentAsset can have: reused once destroyed
  NoAsset,              \* nullptr
  Chunk,                \* the baked fallback's chunks
  FailureLimit,         \* kNetworkLossConsecutiveFailures
  PumpBound             \* kTeardownPumpBound

ASSUME LimitsAssumption ==
  /\ FailureLimit \in Nat \ {0}
  /\ PumpBound \in Nat \ {0}
  /\ NoAsset \notin Asset

VARIABLES
  pc,           \* where the main thread is in update() or teardown()
  visible,      \* visible_
  fallenBack,   \* fallenBack_
  tornDown,     \* tornDown_
  closed,       \* the owner has called teardown
  failures,     \* consecutiveFailures_, counted up to FailureLimit
  pumps,        \* pumps, the local of teardown
  leakedBound,  \* leakedOnTeardownBound_ (teardown runs once: 0 or 1)
  tile,         \* cesium's load state of each tile
  res,          \* its main-thread render resources
  toRender,     \* tilesToRenderThisFrame
  live,         \* assets created and not destroyed
  pendingFrees, \* pendingFrees_
  inScene,      \* inScene_ and terrainInScene_
  scene,        \* stream assets whose entities are in the Filament scene
  fallback,     \* fallbackSource_ != nullptr
  bTorn, bVisible, bLoaded, bFailed, bDrawn, bZone  \* the fallback source's state

mainVars   == <<pc, visible, fallenBack, tornDown, closed, pumps, leakedBound>>
tileVars   == <<tile, res, toRender>>
assetVars  == <<live, pendingFrees, inScene, scene>>
bakedVars  == <<bTorn, bVisible, bLoaded, bFailed, bDrawn, bZone>>
vars == <<mainVars, failures, tileVars, assetVars, fallback, bakedVars>>

\* The fallback is a BakedEnvironmentSource of its own.
Baked == INSTANCE BakedEnvironment WITH
  torn <- bTorn, visible <- bVisible, loaded <- bLoaded, failed <- bFailed,
  drawn <- bDrawn, zone <- bZone

\* Unloaded, a request or worker running, the worker's result waiting for the
\* main thread, ContentLoaded (LoadThreadGlb held), Done.
TileState == {"unloaded", "loading", "fetched", "content", "done"}

\* idle: in the owner's hands.  load, sync: inside update().  pump: inside
\* teardown(), fallback and close telling who called it.  open, fbUpdate: the
\* rest of fall_back and of update.
Pc == {"idle", "load", "sync", "pumpFallback", "pumpClose", "open", "fbUpdate"}

\* Distance of a tile to the ego: within the radius, within the radius times
\* kTileRadiusUnloadRatio, beyond.
Reach == {"inside", "edge", "outside"}

StreamTypeOK ==
  /\ pc \in Pc
  /\ visible \in BOOLEAN
  /\ fallenBack \in BOOLEAN
  /\ tornDown \in BOOLEAN
  /\ closed \in BOOLEAN
  /\ failures \in 0 .. FailureLimit
  /\ pumps \in 0 .. PumpBound
  /\ leakedBound \in {0, 1}
  /\ tile \in [Tile -> TileState]
  /\ res \in [Tile -> Asset \cup {NoAsset}]
  /\ toRender \subseteq Tile
  /\ live \subseteq Asset
  /\ pendingFrees \subseteq Asset
  /\ inScene \subseteq Asset
  /\ scene \subseteq Asset
  /\ fallback \in BOOLEAN

TypeOK == StreamTypeOK /\ Baked!TypeOK

Init ==
  /\ pc = "idle"
  /\ visible = TRUE
  /\ fallenBack = FALSE
  /\ tornDown = FALSE
  /\ closed = FALSE
  /\ failures = 0
  /\ pumps = 0
  /\ leakedBound = 0
  /\ tile = [t \in Tile |-> "unloaded"]
  /\ res = [t \in Tile |-> NoAsset]
  /\ toRender = {}
  /\ live = {}
  /\ pendingFrees = {}
  /\ inScene = {}
  /\ scene = {}
  /\ fallback = FALSE
  /\ Baked!Init

-----------------------------------------------------------------------------
(* Worker and network threads *)

\* CountingAssetAccessor::note
Note(ok) ==
  failures' = IF ok THEN 0
              ELSE IF failures < FailureLimit THEN failures + 1 ELSE FailureLimit

\* A request's answer: the worker runs prepareInLoadThread on what it brought,
\* or the tile is back to unloaded and cesium retries it later.
Reply(t, ok) ==
  /\ tile[t] = "loading"
  /\ Note(ok)
  /\ tile' = [tile EXCEPT ![t] = IF ok THEN "fetched" ELSE "unloaded"]
  /\ UNCHANGED <<mainVars, res, toRender, assetVars, fallback, bakedVars>>

\* Other requests (tileset.json, layer.json, rasters) count as well.
OtherReply(ok) ==
  /\ ~tornDown
  /\ Note(ok)
  /\ UNCHANGED <<mainVars, tileVars, assetVars, fallback, bakedVars>>

-----------------------------------------------------------------------------
(* update() *)

\* dispatchMainThreadTasks: what workers finished reaches the tiles.
Dispatched(ts) == [t \in Tile |-> IF ts[t] = "fetched" THEN "content" ELSE ts[t]]

\* Mutant: the pending list is copied, not swapped.
DrainKeepsList(frees, alive, shown) ==
  /\ pendingFrees' = frees
  /\ live' = alive \ frees
  /\ scene' = shown \ frees

\* drain_pending_frees: out of the scene, then destroyed.
Drain(frees, alive, shown) ==
  /\ pendingFrees' = {}
  /\ live' = alive \ frees
  /\ scene' = shown \ frees

\* update, the streaming path: drain, then updateViewGroup selects tiles.
UpdateBegin(selected) ==
  /\ pc = "idle" /\ ~closed /\ ~fallenBack
  /\ failures < FailureLimit
  /\ selected \subseteq {t \in Tile : tile[t] \in {"content", "done"}}
  /\ Drain(pendingFrees, live, scene)
  /\ inScene' = inScene \ pendingFrees
  /\ toRender' = selected
  /\ pc' = "load"
  /\ UNCHANGED <<visible, fallenBack, tornDown, closed, pumps, leakedBound, failures, tile,
                 res, fallback, bakedVars>>

\* loadTiles starts a tile's load.
StartLoad(t) ==
  /\ pc = "load"
  /\ tile[t] = "unloaded"
  /\ tile' = [tile EXCEPT ![t] = "loading"]
  /\ UNCHANGED <<mainVars, failures, res, toRender, assetVars, fallback, bakedVars>>

\* prepareInMainThread: nullptr for a bad GLB, a loader or createAsset or
\* loadResources failure; otherwise a new asset at a free address.
PrepareInMainThread(t, a) ==
  /\ pc = "load"
  /\ tile[t] = "content"
  /\ a \in (Asset \ live) \cup {NoAsset}
  /\ tile' = [tile EXCEPT ![t] = "done"]
  /\ res' = [res EXCEPT ![t] = a]
  /\ live' = live \cup ({a} \ {NoAsset})
  /\ UNCHANGED <<mainVars, failures, toRender, pendingFrees, inScene, scene, fallback, bakedVars>>

\* free: deferred, so that the asset outlives the frame that still shows it.
\* After note_torn_down the asset is dropped.
Freed(assets) == IF tornDown THEN pendingFrees ELSE pendingFrees \cup (assets \ {NoAsset})

\* Mutant: free destroys at once.
UnloadTileAtOnce(t) ==
  /\ pc = "load"
  /\ tile[t] \in {"content", "done"}
  /\ t \notin toRender
  /\ tile' = [tile EXCEPT ![t] = "unloaded"]
  /\ res' = [res EXCEPT ![t] = NoAsset]
  /\ live' = live \ {res[t]}
  /\ UNCHANGED <<mainVars, failures, toRender, pendingFrees, inScene, scene, fallback, bakedVars>>

\* loadTiles unloads a tile that is not in use this frame.
UnloadTile(t) ==
  /\ pc = "load"
  /\ tile[t] \in {"content", "done"}
  /\ t \notin toRender
  /\ tile' = [tile EXCEPT ![t] = "unloaded"]
  /\ res' = [res EXCEPT ![t] = NoAsset]
  /\ pendingFrees' = Freed({res[t]})
  /\ UNCHANGED <<mainVars, failures, toRender, live, inScene, scene, fallback, bakedVars>>

\* The dispatch that ends synthesize_view_and_pump's loading half.
Dispatch ==
  /\ pc = "load"
  /\ tile' = Dispatched(tile)
  /\ pc' = "sync"
  /\ UNCHANGED <<visible, fallenBack, tornDown, closed, pumps, leakedBound, failures, res,
                 toRender, assetVars, fallback, bakedVars>>

\* Mutant: what the scene shows already stays, selected or not.
StillPresentSticky(reach) ==
  inScene \cup {res[t] : t \in {u \in toRender : tile[u] = "done" /\ res[u] # NoAsset}}

\* sync_scene's stillPresent: selected, Done, with an asset, and near enough,
\* the unload radius applying to what is in the scene already.
StillPresent(reach) ==
  {res[t] : t \in {u \in toRender : /\ tile[u] = "done"
                                    /\ res[u] # NoAsset
                                    /\ \/ reach[u] = "inside"
                                       \/ reach[u] = "edge" /\ res[u] \in inScene}}

\* Mutant: new tiles enter the scene of a hidden source.
SyncSceneHidden(reach) ==
  LET present == StillPresent(reach)
  IN /\ pc = "sync"
     /\ scene' = (scene \cup (present \ inScene)) \ (inScene \ present)
     /\ inScene' = present
     /\ pc' = "idle"
     /\ UNCHANGED <<visible, fallenBack, tornDown, closed, pumps, leakedBound, failures, tileVars,
                    live, pendingFrees, fallback, bakedVars>>

SyncScene(reach) ==
  LET present == StillPresent(reach)
  IN /\ pc = "sync"
     /\ scene' = IF visible THEN (scene \cup (present \ inScene)) \ (inScene \ present)
                            ELSE scene
     /\ inScene' = present
     /\ pc' = "idle"
     /\ UNCHANGED <<visible, fallenBack, tornDown, closed, pumps, leakedBound, failures, tileVars,
                    live, pendingFrees, fallback, bakedVars>>

-----------------------------------------------------------------------------
(* set_visible *)

SetVisible(v) ==
  /\ pc = "idle" /\ ~closed
  /\ visible' = v
  /\ IF fallenBack
       THEN /\ scene' = scene
            /\ IF fallback THEN Baked!SetVisible(v) ELSE UNCHANGED bakedVars
       ELSE /\ scene' = IF v = visible THEN scene ELSE Baked!Toggle(v, scene, inScene)
            /\ UNCHANGED bakedVars
  /\ UNCHANGED <<pc, fallenBack, tornDown, closed, pumps, leakedBound, failures, tileVars, live,
                 pendingFrees, inScene, fallback>>

-----------------------------------------------------------------------------
(* teardown() and fall_back() *)

InFlight(ts) == {t \in Tile : ts[t] \in {"loading", "fetched"}}

\* The first half of teardown: untrack everything, drain, dispatch, destroy the
\* tilesets, drain what that freed.  A Done tile that a load in flight was
\* derived from stays; it is one of "kept".
TeardownBegin(next, kept) ==
  LET ts    == Dispatched(tile)
      loose == {t \in Tile : ts[t] \in {"content", "done"}} \ kept
      freed == pendingFrees \cup ({res[t] : t \in loose} \ {NoAsset})
  IN /\ kept \subseteq {t \in Tile : ts[t] = "done"}
     /\ kept # {} => InFlight(ts) # {}
     /\ Drain(freed, live, IF visible THEN scene \ inScene ELSE scene)
     /\ inScene' = {}
     /\ tile' = [t \in Tile |-> IF t \in loose THEN "unloaded" ELSE ts[t]]
     /\ res' = [t \in Tile |-> IF t \in loose THEN NoAsset ELSE res[t]]
     /\ toRender' = {}
     /\ pumps' = 0
     /\ pc' = next
     /\ UNCHANGED <<visible, fallenBack, tornDown, closed, leakedBound, failures>>

\* Mutant: the limit is exceeded, not reached.
FallBackBeginLate(kept) ==
  /\ pc = "idle" /\ ~closed /\ ~fallenBack
  /\ failures > FailureLimit
  /\ TeardownBegin("pumpFallback", kept)
  /\ UNCHANGED <<fallback, bakedVars>>

\* update, network lost: fall_back calls teardown.
FallBackBegin(kept) ==
  /\ pc = "idle" /\ ~closed /\ ~fallenBack
  /\ failures >= FailureLimit
  /\ TeardownBegin("pumpFallback", kept)
  /\ UNCHANGED <<fallback, bakedVars>>

\* Mutant: teardown returns early on tornDown_, before it sees the fallback.
CloseBeginEarlyReturn(kept) ==
  /\ pc = "idle" /\ ~closed
  /\ UNCHANGED <<fallback, bakedVars>>
  /\ IF tornDown
       THEN /\ closed' = TRUE
            /\ UNCHANGED <<pc, visible, fallenBack, tornDown, pumps, leakedBound, failures,
                           tileVars, assetVars>>
       ELSE TeardownBegin("pumpClose", kept)

\* The owner's teardown: the fallback goes first, then the stream, unless
\* fall_back has torn it down already.
CloseBegin(kept) ==
  /\ pc = "idle" /\ ~closed
  /\ IF fallback THEN Baked!Teardown ELSE UNCHANGED bakedVars
  /\ fallback' = FALSE
  /\ IF tornDown
       THEN /\ closed' = TRUE
            /\ UNCHANGED <<pc, visible, fallenBack, tornDown, pumps, leakedBound, failures,
                           tileVars, assetVars>>
       ELSE TeardownBegin("pumpClose", kept)

Pumping == pc \in {"pumpFallback", "pumpClose"}

\* All destruction-complete events are ready.
AllDestroyed == \A t \in Tile : tile[t] = "unloaded"

\* The tiles one dispatch unloads once the tilesets are gone: what a worker
\* finished, and what no load in flight pins any more.
Settled(ts) == {t \in Tile : ts[t] # "loading" /\ \/ ts[t] = "fetched"
                                                  \/ \A u \in Tile : ts[u] # "loading"}

\* One dispatch after the tilesets are gone.
PumpStep ==
  LET s == Settled(tile)
  IN /\ tile' = [t \in Tile |-> IF t \in s THEN "unloaded" ELSE tile[t]]
     /\ res' = [t \in Tile |-> IF t \in s THEN NoAsset ELSE res[t]]

Pump ==
  /\ Pumping
  /\ pumps < PumpBound
  /\ ~AllDestroyed
  /\ PumpStep
  /\ pendingFrees' = Freed({res[t] : t \in Settled(tile)})
  /\ pumps' = pumps + 1
  /\ UNCHANGED <<pc, visible, fallenBack, tornDown, closed, leakedBound, failures, toRender, live,
                 inScene, scene, fallback, bakedVars>>

\* Mutant: the last drain is missing.
TeardownEndNoDrain ==
  /\ Pumping
  /\ AllDestroyed \/ pumps = PumpBound
  /\ leakedBound' = IF AllDestroyed THEN leakedBound ELSE leakedBound + 1
  /\ PumpStep
  /\ pendingFrees' = Freed({res[t] : t \in Settled(tile)})
  /\ tornDown' = TRUE
  /\ pc' = IF pc = "pumpClose" THEN "idle" ELSE "open"
  /\ closed' = (pc = "pumpClose")
  /\ UNCHANGED <<visible, fallenBack, pumps, failures, toRender, live, inScene, scene, fallback,
                 bakedVars>>

\* Mutant: teardown waits for the tilesets, however long that takes.
TeardownEndWaits ==
  /\ Pumping
  /\ AllDestroyed
  /\ leakedBound' = leakedBound
  /\ PumpStep
  /\ Drain(Freed({res[t] : t \in Settled(tile)}), live, scene)
  /\ tornDown' = TRUE
  /\ pc' = IF pc = "pumpClose" THEN "idle" ELSE "open"
  /\ closed' = (pc = "pumpClose")
  /\ UNCHANGED <<visible, fallenBack, pumps, failures, toRender, inScene, fallback, bakedVars>>

\* The end of teardown: count a leak if the bound was hit, dispatch once more,
\* drain, note_torn_down.
TeardownEnd ==
  /\ Pumping
  /\ AllDestroyed \/ pumps = PumpBound
  /\ leakedBound' = IF AllDestroyed THEN leakedBound ELSE leakedBound + 1
  /\ PumpStep
  /\ Drain(Freed({res[t] : t \in Settled(tile)}), live, scene)
  /\ tornDown' = TRUE
  /\ pc' = IF pc = "pumpClose" THEN "idle" ELSE "open"
  /\ closed' = (pc = "pumpClose")
  /\ UNCHANGED <<visible, fallenBack, pumps, failures, toRender, inScene, fallback, bakedVars>>

\* Mutant: the fallback starts visible, whatever was asked before.
OpenFallbackVisible(opened) ==
  /\ pc = "open"
  /\ fallenBack' = TRUE
  /\ fallback' = opened
  /\ UNCHANGED bakedVars
  /\ pc' = "fbUpdate"
  /\ UNCHANGED <<visible, tornDown, closed, pumps, leakedBound, failures, tileVars, assetVars>>

\* The rest of fall_back: open_baked_environment_source, if there is a
\* directory and it opens, and pass the visibility on.
OpenFallback(opened) ==
  /\ pc = "open"
  /\ fallenBack' = TRUE
  /\ fallback' = opened
  /\ IF opened THEN Baked!SetVisible(visible) ELSE UNCHANGED bakedVars
  /\ pc' = "fbUpdate"
  /\ UNCHANGED <<visible, tornDown, closed, pumps, leakedBound, failures, tileVars, assetVars>>

\* update, fallen back (or just now): the fallback's update, if there is one.
FallbackUpdate ==
  /\ \/ pc = "fbUpdate"
     \/ pc = "idle" /\ ~closed /\ fallenBack
  /\ IF fallback THEN Baked!Frame ELSE UNCHANGED bakedVars
  /\ pc' = "idle"
  /\ UNCHANGED <<visible, fallenBack, tornDown, closed, pumps, leakedBound, failures, tileVars,
                 assetVars, fallback>>

\* A kept tile whose last load ends after teardown is freed late: free()
\* drops its asset instead of queueing it.
LateFree(t) ==
  /\ tornDown
  /\ tile[t] = "done"
  /\ \A u \in Tile : tile[u] # "loading"
  /\ tile' = [tile EXCEPT ![t] = "unloaded"]
  /\ res' = [res EXCEPT ![t] = NoAsset]
  /\ pendingFrees' = Freed({res[t]})
  /\ UNCHANGED <<mainVars, failures, toRender, live, inScene, scene, fallback, bakedVars>>

\* The owner destroys a closed source: nothing is left to do.
Done == closed /\ UNCHANGED vars

-----------------------------------------------------------------------------
UpdateStep ==
  \/ \E selected \in SUBSET Tile : UpdateBegin(selected)
  \/ Dispatch
  \/ \E reach \in [Tile -> Reach] : SyncScene(reach)
  \/ \E kept \in SUBSET Tile : FallBackBegin(kept)
  \/ FallbackUpdate

TeardownStep == Pump \/ TeardownEnd \/ \E opened \in BOOLEAN : OpenFallback(opened)

Next ==
  \/ UpdateStep
  \/ TeardownStep
  \/ \E t \in Tile : StartLoad(t)
  \/ \E t \in Tile, a \in Asset \cup {NoAsset} : PrepareInMainThread(t, a)
  \/ \E t \in Tile : UnloadTile(t)
  \/ \E t \in Tile, ok \in BOOLEAN : Reply(t, ok)
  \/ \E ok \in BOOLEAN : OtherReply(ok)
  \/ \E v \in BOOLEAN : SetVisible(v)
  \/ \E kept \in SUBSET Tile : CloseBegin(kept)
  \/ \E t \in Tile : LateFree(t)
  \/ Done

Spec == Init /\ [][Next]_vars

\* The render loop calls update() every frame and the main thread does not
\* stop inside a call.  Nothing is assumed of the network or the workers.
FairSpec == Spec /\ WF_vars(UpdateStep) /\ WF_vars(TeardownStep)

-----------------------------------------------------------------------------
(* Properties *)

\* The Filament scene holds exactly what the source tracks, while it is visible,
\* at every step of every frame: set_visible toggles the tracked assets, so an
\* asset in one set only would stay on screen, or off it, for good.
SceneFollowsTracking == scene = IF visible THEN inScene ELSE {}

\* The renderer never draws an entity of a destroyed asset: what is tracked or in
\* the scene has not been through destroyAsset.
NothingDestroyedIsShown == inScene \cup scene \subseteq live

\* Between frames nothing tracked is waiting to be destroyed: each tracked asset
\* belongs to a Done tile, so set_visible and teardown may use its entities.
TrackedIsOwned ==
  pc = "idle" => \A a \in inScene : /\ a \notin pendingFrees
                                    /\ \E t \in Tile : tile[t] = "done" /\ res[t] = a

\* Addresses are reused, maps are keyed by address: no two tiles hold the same
\* asset, and none holds one that waits to be destroyed (a double free).
OneOwner ==
  \A t \in Tile : res[t] # NoAsset =>
    /\ res[t] \in live
    /\ res[t] \notin pendingFrees
    /\ \A u \in Tile : res[u] = res[t] => u = t

\* Every asset has one owner and one end: a tile, or the list of deferred frees
\* (free, drain_pending_frees and sync_scene agree on whose it is).
Ownership == TrackedIsOwned /\ OneOwner

\* The hand-over between the workers, which free and prepare assets at any time,
\* and the frame, which shows, hides and destroys them: what is drawn is what is
\* tracked, still exists, and belongs to the one tile that cesium has as Done.
SceneIsSound == SceneFollowsTracking /\ NothingDestroyedIsShown /\ Ownership

\* teardown destroys every asset, or counts the leak it gave up on.
TeardownReclaims ==
  tornDown => /\ pendingFrees = {}
              /\ live # {} => leakedBound = 1

\* Once fallen back, the stream shows nothing, and a fallback source shows or
\* hides its chunks as the renderer last asked, whenever it asked.
FallbackTakesOver ==
  fallenBack => /\ tornDown
                /\ scene = {}
                /\ fallback => bVisible = visible

\* What makes the invariants above inductive.  While the tilesets live, every
\* asset is some tile's or waits to be destroyed; nothing is tracked while
\* teardown pumps, nor after it, when only a counted leak is left.
Accounted == ~tornDown => \A a \in live : a \in pendingFrees \/ \E t \in Tile : res[t] = a
ResourcesAreDone == \A t \in Tile : res[t] # NoAsset => tile[t] = "done"
PendingIsLive == pendingFrees \subseteq live
Phases ==
  /\ Pumping => ~tornDown /\ inScene = {}
  /\ pc \in {"open", "fbUpdate"} => tornDown
  /\ tornDown => inScene = {} /\ pc \in {"idle", "open", "fbUpdate"}
  /\ tornDown /\ pc = "idle" => fallenBack \/ closed
  /\ ~tornDown => leakedBound = 0
  /\ fallback => fallenBack
  /\ pc = "open" => ~fallback
  /\ pc = "fbUpdate" => fallenBack
  /\ closed => pc = "idle" /\ tornDown /\ ~fallback
FallbackShown ==
  /\ bDrawn = IF bVisible THEN bLoaded ELSE {}
  /\ ~fallback => bLoaded = {}

StreamInv ==
  /\ TypeOK
  /\ SceneFollowsTracking
  /\ NothingDestroyedIsShown
  /\ TrackedIsOwned
  /\ OneOwner
  /\ TeardownReclaims
  /\ FallbackTakesOver
  /\ Accounted
  /\ ResourcesAreDone
  /\ PendingIsLive
  /\ Phases
  /\ FallbackShown

\* A network that stays lost leads to the fallback, whatever the tiles in flight
\* do, unless the owner closes the source first.
NetworkLossFallsBack == <>[](failures >= FailureLimit) => <>(fallenBack \/ closed)

\* teardown returns even if no worker ever finishes: its pump is bounded.
TeardownReturns == Pumping ~> tornDown

\* The source implements EnvironmentSource: its tracked assets or, fallen back,
\* the fallback's chunks, are its pieces.
Abstract == INSTANCE EnvironmentSource WITH
  Piece <- Asset \cup Chunk, loaded <- inScene \cup bLoaded, drawn <- scene \cup bDrawn
Implements == Abstract!Spec
=============================================================================
