# Overlume in TLA+

Overlume renders a robot's surroundings with Google Filament. It has two parts: a C++ library
(`overlume/`) and a ROS 2 lifecycle node (`ros/src/overlume_ros/`) that feeds it. This directory
holds TLA+ models of the parts of both in which order, concurrency or failure decide whether the
picture is right, TLC configurations that check them on small instances, and TLAPS proofs of their
safety properties for every value of the constants.

Paths below are relative to the repository; `tla/PROJECT.json` maps each definition to its lines.

## The system

### Parts, their state, and what makes them correct

| Part | State | Operations | Correct when |
|---|---|---|---|
| Environment source (`environment.hpp`) | the loaded pieces, visibility | `update`, `set_visible`, `teardown` | the scene holds the loaded pieces of a visible source and nothing after teardown |
| Baked source (`environment.cpp`) | loaded chunks, failed chunks | load within 300 m, evict beyond 350 m | no flicker, one attempt per visit, in the end loaded |
| Streaming source (`environment_stream.*`) | tracked assets, pending frees, failure counter, fallback | the same, over cesium-native's workers and the network | nothing destroyed is drawn, nothing is lost, a lost network ends in the fallback |
| Terrain imagery (`StreamRendererResources`) | a material instance per terrain tile, a texture per raster | prepare, attach, detach, free, recolour | no live instance holds a destroyed texture; imagery and colour are current |
| Worker pool (`environment_stream.hpp`) | a queue, a mutex, a condition variable, the stop flag | `startTask`, the worker loop, the destructor | every task that is started runs, and the destructor returns |
| Environment slot (`environment.cpp`, `renderer.cpp`) | the source, the remembered visibility, the ground plane | swap, hide, `render_frame` | only the slot is drawn; no frame is without a floor |
| Scene buffer, theme transition (`scene_buffer.cpp`, `theme.cpp`, `theme_transition.cpp`) | two scenes; the active theme, its transition, the materials that have it | `set_scene`, `set_theme`, `render_frame` | a frame reads the scene as it was published; the theme asked for arrives everywhere |
| Life of the renderer (`renderer.cpp`) | some seventy kinds of resources of the engine | `create_renderer`, making on demand, `destroy_renderer` | nothing is freed while something is left that needs it |
| Node lifecycle and environment (`overlume_node.cpp`) | lifecycle state, parameters, a renderer, credits | transitions, `on_params`, topics, the 33 ms timer | each published image carries the attribution of its tiles; the environment follows the mode |
| Profile loader (`profile.cpp`) | rows, errors | parsing and checking of a file | what is accepted has one reading |
| Topic rows and adapters (`adapters/*.cpp`, the timer) | what is stored, the times of the last message, of the last receipt and of each item | subscriptions, the timer | what is silent fades before its timeout and ends; what is fresh shows |
| Quality governor (`quality_governor.cpp`) | a window of render times, the preset, dwell and run of good windows | once per frame | neither flaps nor sleeps; the renderer has its preset |
| Virtual camera (`vcam.cpp`) | the view, the ends of a tween | service, topic, tick | never jumps; ends at the preset it reports |
| Geo anchor (`geo_anchor.cpp`) | pairs of a fix and a pose, the solution | fixes, parameters | solved once, and true within the lag of its samples |
| Surround view (`camera_ingest.cpp`, `camera_textures.cpp`, `hybrid_splats.cpp`, `bowl.cpp`) | calibrations, images, the bowl, the lidar's cloud, the backdrop's stencil | subscriptions, parameters, the timer | the bowl is made of the current calibration; splats have their pixels to themselves |
| Motion compensation (`camera_ingest.cpp`, `lidar_colorize.cpp`) | stamps, twists, a motion per camera in the renderer and in the ingest, images kept for the colours | images, odometry, the timer | a picture is of one moment, its cloud coloured accordingly |
| Object pools (`objects.cpp`) | entities per id, model instances and a free list per class | `update_objects` every frame | an instance has one owner and goes back to its pool; it is drawn with the material of its user |
| Map and slot layers (`map_elements.cpp`, `ribbon.cpp`, `alert_polygons.cpp`, `height_grid.cpp`, `generic_markers.cpp`, `trajectory_carpet.cpp`, `point_cloud.cpp`) | meshes by signature, or a slot per item, each with a fade instance | `update_*` every frame | a frame draws its own scene, with nothing left of the one before; no destroyed instance is drawn |
| Grids on the ground (`ground_grid.cpp`) | a quad, a texture and the last upload per slot; an instance per kind | `update_ground_grids` every frame | a grid shows its latest cells; no texture is lost or sampled after its end |
| Mapbox DEM cache and loaders (`mapbox_*`) | an LRU of requests, the reference height, attempts per tile | `get`, `reference_z`, `rebase_of`, `loadTileContent` | all tiles stand on one zero, a temporary failure is retried and never taken for an answer |
| The rest: meshes, transforms, HUD, back ends, tools, packaging | geometry, text, files | | not about order or failure |

### How they interact

The node runs every callback - transitions, parameters, subscriptions, the timer - on one
single-threaded executor (`main.cpp`), so each is atomic against the others but they come in any
order; subscriptions and parameters also run while the node is inactive. The timer assembles a
scene, hands it to the library and calls `render_frame`, which drives the environment source in its
slot. The library is called from one thread. Inside a streaming source cesium-native adds worker and
network threads: they run between any two steps of the main thread, free assets through a locked
list, and return to the main thread only where `dispatchMainThreadTasks` is called - in `update` and
in `teardown`.

Hard, therefore: deferred frees against tracking; visibility changed while loading; a teardown that
is bounded and may leave work in flight; a fallback in the middle of a frame; state of the node that
repeats state of the renderer (URI, visibility, credits) and can drift from it when a call fails;
dirty flags set by one callback and consumed by another; and configurations in which two places
decide from different conditions. `PROJECT.json` lists these hazards one by one, with the properties
that cover them.

## The modules

```
EnvironmentSource          what any source promises
  ^ implemented by
  |-- BakedEnvironment <----- INSTANCE ---- StreamingEnvironment   (its fallback)
  |-- StreamingEnvironment
EnvironmentSources         what sources come to in the end
  |-- EXTENDS BakedEnvironment
  |-- INSTANCE StreamingEnvironment, WorkerPool
MapboxSource               a source with terrain and buildings
  |-- EXTENDS MapboxTiles      the loaders, EXTENDS DemCache, their cache of terrain heights
  |-- EXTENDS TerrainImagery   the terrain and raster half of the streaming source's resources
RendererParts              the renderer
  |-- EXTENDS EnvironmentSlot  slot, visibility, ground plane, sources by their interface
  |-- INSTANCE RendererFrame   scene buffer and theme
  |-- INSTANCE RendererLife    creation and destruction
SceneLayers                the layers of a frame
  |-- EXTENDS ObjectPools      the tracked objects
  |-- INSTANCE SceneSlots      ribbons, alerts, height grids, markers, carpets, point clouds
  |-- INSTANCE MapElements     the map
  |-- INSTANCE GroundGrids     the grids on the ground
NodeParts                  the node; EXTENDS
  |-- OverlumeNode             around the slot: lifecycle, parameters, attribution
  |-- TopicRows                a row of the profile: its adapter and the timer
  |-- ProfileLoader            the profile
  |-- QualityGovernor, VirtualCamera, GeoAnchorSolver
  |-- SurroundMotion           the moments the surround view's images are moved to
SurroundView               the node's cameras, bowl and lidar
```

`X_proofs` holds the theorems about `X`; `MCX` instantiates it for TLC.

Five modules put parts beside each other that run in one process but keep their state to themselves:
`EnvironmentSources`, `MapboxSource`, `RendererParts`, `SceneLayers` and `NodeParts`. In all of them
a variable `part` says which part a behaviour follows; the others stay as they were at the start. That
is sound because no part reads what another keeps, and it lets one run check all of them without the
product of their states. Where one part does read another - the streaming source its fallback, the
slot its source, the loaders their cache, a tile its raster - the two are in one behaviour.

**EnvironmentSource** is the abstract specification: a set of loaded pieces, a set of drawn ones, a
visibility and a closed flag; after every update, visibility change or teardown the drawn pieces are
the loaded ones, or none.

**BakedEnvironment** has one action for `update` (with the ego's distance to each chunk as an input
and which files can be read), one for `set_visible`, one for `teardown`. Distances are three zones.

**StreamingEnvironment** gives the main thread a program counter over the steps of `update` and
`teardown`, because workers run between them: `UpdateBegin` (the deferred frees), `Dispatch`
(loading and `prepareInMainThread`), `SyncScene`, and for teardown `CloseBegin` or `FallBackBegin`,
`Pump`, `TeardownEnd`, `OpenFallback`, `FallbackUpdate`. A tile is unloaded, loading, fetched,
content or done. Addresses of assets are reused after destruction, as an allocator does. Workers'
replies and cesium's unloads are steps of their own. The fallback is an instance of
`BakedEnvironment`.

**TerrainImagery** keeps, for every terrain tile, its material instance - with the texture the
material samples *and* the texture Filament's map of mutable textures still holds, which the code's
comment on detaching is about - and, for every raster, its texture.

**WorkerPool** takes `SimpleTaskProcessor` apart at its mutex: `StartTask` pushes under the lock and
leaves its `notify_one` to `Notify`, a worker finds the queue empty in one step and waits in the next
(still holding the lock in between), may wake up on its own, runs a task, which may start others. The
destructor is `Stop`, `NotifyAll`, `Join`.

**EnvironmentSources** is about what must happen in the end, of the baked source, the streaming one
and its pool, each under the fairness it has.

**EnvironmentSlot** abstracts sources to their interface and adds the height samples: one in flight,
answered in the dispatch with a hit, a miss or an error. `Frame` is `render_frame` up to its early
return for a wrong size.

**RendererFrame** is the copy of a scene into the slot that is not shown, as the memory its pointers
lead to (its own or the caller's, which the caller overwrites at any time), and the theme: `SetTheme`
starts a transition from what is shown, `RenderFrame` blends, ends it and pushes the result
(`PushShared`, `PushFading`, `PushLight`). A theme is its name, its tone, the ribbons' length fade and
the height ramp's stops; a value on the way is `Between`.

**RendererLife** has one step per kind of resource of `create_renderer` and `destroy_renderer`, in the
code's order, and `Make` and `SetEgoModel` for what is made on demand in between. `Uses` says what a
kind is made of or destroyed through, with the fades of stale slots (`Fades`) as instances of their
material; `BoundTo` what it may have been bound to since it was made: a stale object, ribbon, alert,
marker, map element or height grid to its fade, a model to the renderer's instances, an instance to
textures. `destroy_renderer` does not take everything that is bound to a thing down before the thing:
`Late` names the eleven places where it does not, with their lines, among them the fades of objects,
markers and map elements, which go first so that they are gone before their material. No frame is
drawn between the two, and what filament makes of a binding to something freed is not this code's to
say; `Late` keeps the list from growing unseen.

**RendererParts** puts the slot, the frame and the life beside each other.

**OverlumeNode** has one action per lifecycle transition, topic and parameter that touches the
environment, and `Tick` for the timer, in which the frame may fail to render. The published image is
reduced to whose tiles it shows, the credits and the attribution. A second of node time is `Second`
ticks. Left out: parameters that only store a value, other layers, `environment_attribution` off.

**TopicRows** is one row with one of nine adapters. Each message is an action; an array is taken apart
into its markers (`BeginArray`, one `Add...` or `Delete` each, `EndArray`), since deletions, boxes and
texts may come in any order in it. The node's clock advances in the timer only, so a time is kept as
the number of timers since, and `Timer` makes everything older, decides whether the row is filled, and
records how each stored thing is drawn: opaque, fading or gone. `railAge` is history: when the timer
last saw both boundaries of a lane, whose surface the map's cache keeps longer.

**ProfileLoader** reads a file row by row: parsing, the checks of the row, the rules of its namespaces,
then the checks between rows. A row is a record of what the checks tell apart.

**QualityGovernor** keeps a window as the number of its fast, middling and slow frames, `Judge` is the
evaluation of a full one, and the timer passes the preset on to the renderer and the parameter, which
a user sets as well. The code's README calls the quality launch-only, so a user's value is no input of
the governor. `judged` is history: the last windows and the presets after them.

**VirtualCamera** has the service's preset, the topic's free look and the tick; a pose is one number on
the line of the tween, and the smooth step is the code's polynomial in integers.

**GeoAnchorSolver** drives along a street whose place on the earth is known to the model alone. `OnFix`
pairs a fix with a pose at most `Lag` away or drops both, `TrySolve` runs when there are enough
samples over a long enough base line; the datum's parameters and the height are the node's.

**SurroundView** has an action per subscription (calibration, image, cloud, row), per group of
parameters, and `Tick` with its four cases (first bake, re-bake for a calibration, re-bake for a
parameter, none), the stencil of the backdrop included: which the layer switches and a new bowl
instance has to take over. It fixes one profile: `pointcloud_topic` is set and a row of the profile is
on it.

**SurroundMotion** has stamps in any order for images and clouds, odometry or none, and a timer that
bakes, then moves: a motion is the pair of stamps it leads between, kept by the renderer per camera
slot and by the ingest in a copy. What is kept of an image for the cloud's colours is whether it is
the camera's last.

**NodeParts** puts the seven beside each other: the executor runs them one at a time. The rows may
get messages and timers in any order, also those the lifecycle rules out.

**DemCache** is the cache as operators on a record of what one call changes (`Get`, `ReferenceZ`) and
the answer that a worker reads (`Answered`). A request is a shared future; its slot is used again
once nobody holds it. The memo `reference_` without a value counts as none, since the code then asks
again.

**MapboxTiles** puts the two loaders on it: `Load` is `loadTileContent` with everything it calls on
the main thread; `Resolve` runs on the thread of the later of two answers and reads `failing()`
there; `SendBack` and `Settle` are the two outcomes of a build; `Tick` is time, in halves of
`kRetryWaitS`. The terrain layer is on. The buildings' own seventeen requests are one choice at the
build (one of them failed for now, or none did). A settled entry of the `AttemptBook` counts as no
entry, and the last attempt's wait, which nobody reads, is not kept.

**MapboxSource** composes the loaders with the terrain's imagery as NodeParts composes the node: they
meet only in cesium, between a tile that is loaded and a tile that is prepared.

**ObjectPools** takes `update_objects` apart into its iterations: `UpdateObject` for an object of the
frame, `EndObjects`, `ReleaseVanished` for one that is gone, `EndFrame`, where the new map replaces
the old. The frame's list is not kept; an object of it is chosen as it is met, with an id that may
come twice. `Acquire`, `Release`, `UpdatePath` and `UpdateStaleness` are the functions of those names,
on a record of the pools and the material instances that exist.

**SceneSlots** is the six layers that draw the i-th item of the scene by the i-th slot, whatever the
slot drew before: `BeginFrame` drops the slots too many, `UpdateSlot` meets the next item, `EndFrame`
lets the carpets share one of their two instances, and the height grid cut its hole into the ground.
What differs between the layers - when a mesh is built again, when the fade instance goes - is an
operator each; point clouds never fade.

**MapElements** keys a chunk's mesh by the signature of its points. The key does not hold the
element's kind, so an adopted mesh keeps the material of its old kind until it has been faded.

**GroundGrids** keeps a texture and its last upload per slot, while texture and alpha are parameters of
one instance per kind: `UpdateGrid` reuses, uploads again or makes anew, and binds. Two rows of one
kind would overwrite each other's parameters; the shipped profiles have one row per kind, and
`LayerConstants` assumes it.

**SceneLayers** puts the four beside each other. They share the engine and the theme.

## What the runs check

| Run | Bounds | Checks |
|---|---|---|
| `streaming` | 3 tiles, 4 addresses, 1 fallback chunk, failure limit 2, pump bound 2, symmetry | tracking, ownership, teardown and fallback; refinement of EnvironmentSource |
| `sources_live` | 2 baked chunks; 1 tile, 2 addresses; 3 tasks, 2 workers | hysteresis, eventual loading, refinement; the fallback is reached, teardown returns; the pool drains |
| `renderer` | 3 sources (streaming and replacing the ground; streaming and not; baked), 1 piece; 3 themes (without a ramp and with a length fade; three stops; no file) and the fallback, duration 4, 3 requests; 2 contents; 4 kinds made on demand | drawing, floor, ground is found; frozen scenes, themes arrive; order of creation and destruction |
| `node` | lifecycle: 4 URIs (one per kind of attribution), 2 credits, 2 ticks a second; a row of each adapter: 2 keys, 1 lane, timeout 3, rate limit 2, lifetimes 1 and 2; governor: window 4, percentile 75, dwell 3, 2 good windows; camera: 5 presets, 2 looks, duration 15 in steps of 4; anchor: a street of 3, lag 1, 2 samples over 3 metres, 3 fixes; files of up to two rows; 2 cameras, stamps 1 to 4, history 2, cloud span 1 | attribution, visibility, credits; fading, cut-off and end of what a row draws, complete tracks; steadiness; gliding; a true anchor; one reading; one moment, colours settle |
| `reconfigure` | the lifecycle alone | *violated*: see Findings |
| `silent_map` | the row of the map alone | *violated*: see Findings |
| `surround` | 2 cameras, 2 calibrations, 2 sets of parameters | bowl, images, lidar, backdrop, and that the bowl settles |
| `suppressed_row` | the same | *violated*: see Findings |
| `mapbox` | anchor's tile and two more, one per loader, capacity 2, 2 attempts, 3 requests of a tile alive; 2 terrain tiles, 3 addresses, 2 rasters, 3 textures, 2 colours | LRU, one zero, no early surrender; sampling, attachment, colour, leaks of the imagery |
| `asked_again` | anchor's tile and one more, 3 attempts | *violated*: see Findings |
| `layers` | 2 ids, 3 classes of which 2 have a model, a pool grown from 0 to a cap of 1, 2 paths (one of which no strip comes of); 2 slots of 6 layers, 2 shapes and the empty one; 3 chunks, 2 kinds; 3 fade instances; 2 rows of grids, 2 sizes, 2 places, 2 stamps, 3 textures | ownership and limits of the pools, materials of every mesh, frames that draw their own scene |
| `theme_settles` | as `renderer` | *violated*: see Findings |

Why the bounds are enough. Three tiles allow one to be loaded, one to be freed and one to hold a
reused address; a fourth address is spare. Failure limit and pump bound 2 reach "below", "at" and
"after". Two chunks show one failing beside one loading. Two workers and three tasks leave one waiting
while the other runs a task that starts a third. Two rasters and three textures show a replacement
while the old texture waits to be freed. In `renderer` every pair of sources can follow one another; a
transition of 4 is interrupted at its start, in its middle and at its end, twice, with requests for
3; and four kinds made on demand are every combination of a loader, what it loaded, the
fade of that and another.
`Second = 2` separates "now" from "a tick ago"; the proof is for any. A row's timeout of 3 has room
for an opaque frame, a fading one and the last before the cut-off, a gap of 2 timers for a message
that is turned down; ages stop at `Horizon`, 7, one more than the two timeouts that the oldest drawn
thing can reach, and are not told apart beyond. A window of 4 judged at 75 leaves room for one slow
frame, as 20 at 95 does; dwell 3 and 2 good windows differ, so that one is not taken for the other. A
tween of 15 in steps of 4 does not end on a step, as half a second does not in ticks of 33 ms. A
street of 3 with a lag of 1 gives pairs too near each other, just far enough and out of step. Two
rows in a file meet each fault alone, twice, and beside a legal row. Four stamps with a history of 2
are equal, near, at the limit and beyond it, the cloud's limit inside. Two cameras separate "all
ready" from "one ready". Capacity 2 under three tiles evicts the anchor's request in flight; two
attempts are one that may be sent back and one that may not; with a fourth request per tile the
number of states is the same. In `layers` two objects of one class compete for the one instance, so
that pools are empty, grow and are used up; a frame may meet an id twice; two slots take over each
other's items, and three fade instances are one for each of them and one to spare; two slots of grids
exchange rows of the same place, size and time, with a third texture for a change of size.
`CHECK_DEADLOCK FALSE` stands where a finalized node or a destroyed renderer stops for good.

The properties, by what they guard against:

* *Two records of one thing drift apart*: `SceneIsSound`, `OnlyTheSlotIsDrawn`, `FramesMatchTheMode`,
  `TilesShowImageryAndTheme`, `ObjectsAreBacked`, `BoxesAreNamed`, `OneMoment`, `SplatsStandAlone`.
* *Use after destruction, double free, loss*: `SceneIsSound`, `TexturesLiveAsLongAsUsed`,
  `TeardownReclaims`, `ObjectsAreBacked`, `MeshesAreBound`, `UsersGoFirst`, `SceneIsFrozen`.
* *Evidence that outlives what it was about*: `GroundUnderEveryFrame`, `ViewIsOfOneCalibration`,
  `CreditsSettle`, `DrawsTheScene`, `RowsLast`, `ColoursSettle`.
* *An update that gets lost between two callbacks*: `BowlSettles`, `BowlFollowsMode`,
  `FallbackTakesOver`, `GroundIsFound`, `ThemeArrives`, `PoolDrains`.
* *A failure taken for an answer, or the other way round*: `NoEarlyGiveUp`, `OneZero`, `AnchorIsTrue`.
* *Two clocks for one thing*: `FadesBeforeTheCut`, `RowsLast`, `OneMoment`.
* *A request in the middle of another*: `ViewGlides`, `ThemeArrives`, `FallbackTakesOver`.
* *Limits, boundaries and ends*: `BoxOnlyWhenAllInUse`, `CacheConsistent`, `Hysteresis`, `NearIsLoaded`,
  `GovernorIsSteady`, `NetworkLossFallsBack`, `TeardownReturns`.
* *What is legal piece by piece and contradictory as a whole*: `ProfileIsUnambiguous`, `Implements`.

Each of them is known to fail on a plausible fault: `PROJECT.json` names, for every property of every
passing run, a mutated definition with which TLC finds it violated.

### Fairness

* `sources_live`: the render loop calls `update` every frame and the main thread does not stop inside
  a call (weak fairness of `UpdateStep` and `TeardownStep`). Nothing is assumed of the network or the
  workers there: `TeardownReturns` must hold although no reply ever comes, which is why the code
  bounds its pump. For the baked source frames keep coming, and some of them find the glTF loader
  (weak fairness of `ReadyFrame`). For the pool threads are scheduled and tasks end (weak fairness of
  each worker's steps, but not of spurious wake-ups), a call that has pushed goes on to notify, and
  so does the destructor.
* `surround`: the timer fires while the node is active (weak fairness of `Tick`).
* `node`: for the images' moments alone, the timer fires and each camera sends (weak fairness of
  `MotionFrame` and of `Sent(c)`).
* `renderer`: frames keep coming with a valid ego (weak fairness of `TriggeringFrame`), and cesium,
  asked again and again while there is geometry under the ego, answers with a hit in the end (strong
  fairness of `HitFrame`). The latter is an assumption about the world; the property then says that
  the code *keeps asking*, which the mutant that forgets an error does not. For the theme: the
  program publishes scenes on a clock that advances and renders them (weak fairness of
  `SceneAdvances` and `TransitionIsDrawn`).

## Findings

1. `reconfigure`: `docs/runbooks/profile_authoring.md` tells its reader that a new row takes effect
   on the next `on_configure()`, "node restart or lifecycle reconfigure". `on_configure` declares its
   parameters unconditionally and nothing undeclares them, so configure, cleanup, configure throws at
   the first `declare_parameter`, and rclcpp, without an `on_error` of the node's own, finalizes the
   node. Only the restart works.
2. `suppressed_row`: the hybrid profile leaves the lidar's row out because "hybrid draws this cloud as
   splats". The row is left out on `hybrid_enabled`, `cloud_sub_` and the mode; splats also need
   `camera_ingest_`, which exists only with `bowl_enabled`. The run has the bowl off, `hybrid_enabled`
   on, free look, stitching on with the hybrid profile, and a row with a cloud in time: the frame
   leaves the row out and hands no splats over, and `HybridStarvedReason` gives no reason. Only free
   look counts: the other modes clear or mask the rows of clouds anyway.
3. `asked_again`: the warning about a DEM request that failed for now ends in "asked again on the
   tile's next attempt", and `docs/plans/2026-10-15-imagery-terrain.md` explains that the next attempt
   starts at least 2 s later and therefore always asks. The wait runs from the *start* of the attempt
   and the share of a failure (1 s) from the *failure*: after a request that was slow to fail, the next
   attempt shares the old failure. It is one of three, and makes no request.
4. `silent_map`: `docs/plans/2026-08-18-visual-mode-epic3.md` has a map that goes silent ramp out "right
   before" the node stops filling it. The fade follows the last message *received* (`last_recv_sec_`),
   the cut-off the last one *accepted* (`last_msg_sec`); a message inside the rate limit moves only the
   first. When it is the last, the map is still opaque at the cut-off and pops. `FadesBeforeTheCut`
   says that this is the only case, and `RowsLast` that a map that keeps coming is safe.
5. `theme_settles`: `docs/design/2026-08-18-visual-mode-design.md` says that `set_theme` "eases all tokens
   from the current theme to the target". The ribbons' length fade is taken from whichever of the two
   themes has one, at any weight (`theme_transition.cpp`), and the last blend, at weight one, becomes
   the active theme: from a theme with a fade to one without, the fade stays, through every theme that
   follows. `ThemeArrives` says that everything else arrives.

## What is proved

Each proof module has the same shape: an inductive invariant made of named parts, a lemma that it
holds initially, a lemma per action (or group) that it is preserved, `Spec => []Inv` by PTL, and the
properties as consequences. The assumptions are the named `ASSUME`s of the modules, which TLC
evaluates on every run. A theorem about a part is stated of the part's own specification; where a
module puts parts beside each other, a behaviour of the whole is shown to be one of each part
(`SourcesAreSources`, `PartsAreParts`, `LayersKeepThePools`, `RendererImplementsSlot`), so that the
results hold of the very specifications the runs check (`PartsAreSafe`, `PartsStepsAreSafe`,
`SourceIsSafe`, `RendererIsSafe`, `SourcesBakedIsSafe`). Every invariant and every action property of
a passing run is proved.

* **BakedEnvironment**: `LoadedOrFailed`, `Hysteresis` - an action property: a chunk neither flickers
  between 300 m and 350 m nor is tried again before the ego has left it - and that it implements
  `EnvironmentSource`.
* **WorkerPool** (in `BakedEnvironment_proofs`): `NobodyIsForgotten`, the safety that `PoolDrains` stands
  on, for any tasks and workers. It rests on the monitor: a worker that found nothing holds the mutex until it
  waits (`MonitorIsExclusive`), so neither a task nor the stop arrives unseen in between; what the
  destructor has done so far bounds where a worker can be (`StopIsSeen`); and each started task is in
  one place, once (`EveryTaskHasItsPlace`). That there is a worker (`SourcesConstants`) is the default
  of two threads, which every caller takes. What is left to fairness is that who can come does come.
* **StreamingEnvironment**: `SceneIsSound`, `TeardownReclaims`, `FallbackTakesOver`, and the
  implementation of `EnvironmentSource`. The strengthening is `Accounted` (every live asset is a
  tile's or waits to be freed), `ResourcesAreDone`, `PendingIsLive` and `Phases` (what holds at each
  place of the main thread); `TeardownReclaims` is not inductive without `Phases`, the ownership in
  `SceneIsSound` not without `Accounted`.
* **TerrainImagery** (in `MapboxSource_proofs`): `TexturesLiveAsLongAsUsed` and
  `TilesShowImageryAndTheme`, from links that are one to one between tiles, instances, rasters and
  textures (`Linked`), from the instance's mutable map repeating its imagery, and from `ColourPushed`.
* **MapboxTiles** (in `MapboxSource_proofs`): `OneZero` and `NoEarlyGiveUp`. They need the life of a
  request: while somebody holds it, its slot is not used again and its answer stays; the memoised one
  is in flight or has a height; and a tile that gives up had, when it decided, a reason that still
  holds.
* **DemCache** (in `MapboxSource_proofs`): `CacheConsistent` for any capacity. The list is removed from
  and prepended to at places that the code's iterators name; the lemmas say which tiles a list names
  after that, once each (`WithoutIs`, `ToFrontIs`), and `GetAgrees` that eviction keeps them the map's.
* **EnvironmentSlot** (in `RendererParts_proofs`): `OnlyTheSlotIsDrawn` and `GroundUnderEveryFrame`.
  The floor needs that only sampled sources are ever hit, and its steadiness that a picture without
  the plane is evidence of a hit by its own source.
* **RendererFrame** (in `RendererParts_proofs`): `SceneIsFrozen` for any contents. Each slot's
  pointers lead into the slot's own copy, and the slot shown holds what was published last. There too, that the renderer as a
  whole implements the slot: whatever the frame or the life does is a stutter to it.
* **RendererLife** (in `RendererParts_proofs`): `UsersGoFirst`. The code's lists are numbered (`Place`,
  `Born`), the numbers are shown to be the lists' (`DestroyListsAll`, `CreateListsAll`) and every use
  to point to a later place (`UsesComeLater`). What is alive while the renderer comes up is what was
  born before the step, and while it goes down nothing before the step is alive (`LifeInv`). For the
  bindings, `BoundComesLater` shows that a place is earlier than what is bound to it exactly where
  `Late` says so, so that the list is neither too short nor too long; no step of `Next` frees a thing out of order
  (`LeftBound`), and a teardown has a next step until nothing is left (`TeardownGoesOn`).
* **OverlumeNode** (in `NodeParts_proofs`): `FramesMatchTheMode` and `CreditsSettle`. Attribution
  needs that the source in the slot was opened from the node's own URI whenever it streams, and that
  the renderer shows what the node believes it shows; credits need that the copy is as old as its last
  reading.
* **TopicRows** (in `NodeParts_proofs`): `FadesBeforeTheCut`, `RowsLast` and `BoxesAreNamed`. What is
  drawn was judged by ages that the messages since have changed, so the invariant `RowInv` bounds
  every age by the age of the last message: nothing stored is younger between messages (`NoYounger`),
  a map's receipt is at most a gap younger (`Receipts`), a marker has outlived its lifetime by less
  (`Outlives`), a lane's boundaries were seen no later than its cache says (`Rails`).
* **QualityGovernor** (in `NodeParts_proofs`): `GovernorIsSteady` for every dwell and number of good
  windows. The two counters are bounds on the history of judgements, which is what the invariant says.
* **VirtualCamera** (in `NodeParts_proofs`): `ViewGlides`, for any presets, duration and step. That a
  tween leads to the preset that is reported and has arrived when it has run out is an invariant
  (`HeadsForTheActive`); that a tick comes nearer, and by how much at most, are facts about the smooth
  step as a rounded cubic, proved of integers.
* **GeoAnchorSolver** (in `NodeParts_proofs`): `AnchorIsTrue`, for any true anchor, lag and number of
  samples. Every pair is a point of one drive and a fix at most the lag behind it; the heading comes
  out of the first and the last pair, and each pair implies an origin no further off than the lag
  (`ImpliedIsNear`). The sum over the pairs (`OriginSumIsNear`) is an induction over data, which the
  library's theorems do not give here: it is done on the least counterexample, by the
  well-foundedness of `<` on the naturals, which also gives that the recursive sum exists.
* **ProfileLoader** (in `NodeParts_proofs`): `ProfileIsUnambiguous`, for any files of rows and any names.
  While rows are read, those kept are legal (`KeptRowIsGood`) and, without a hard failure, all of the
  file's so far, and a hard failure has an error that names a row. Two rows of one adapter that share a
  subscription other than a grid's updates have the same topic, which is an error (`SharedSubscriptions`);
  a legal rule that names a kind draws it (`KindIsDrawn`). Since the prefixes that match a name are prefixes of one another and no two rules
  are the same, the longest is one (`LongestIsOne`), in whatever order (`OrderDoesNotMatter`).
* **SurroundMotion** (in `NodeParts_proofs`): `OneMoment`. It needs that nothing is moved before there
  are a bowl and an image, that the ingest's copy and the renderer's are written together, and that
  the newest stamp is one.
* **SurroundView**: `ViewIsOfOneCalibration`, `SplatsStandAlone`, `BowlFollowsMode`; they need that
  the bowl exists exactly when the configuration has been applied, and that images come after it.
* **ObjectPools**: `ObjectsAreBacked` and `BoxOnlyWhenAllInUse`. The helpers of an update pass states
  in which neither map holds the entity under update, so the invariant (`World`) is stated of any
  pools `g` and any assignment `E` of entities to the places of both maps, and each helper takes a
  world to a world. Its parts are `FreeListsRight`, `BodiesRight`, `NoneLost`, `Bindings` and `Fades`;
  `PoolConserved` alone is not inductive, since an instance given back must have been made.
  `BoxesAreLastResort` counts the holders of a used-up pool through a bijection with `1..Cap`.
* **SceneLayers**: `MeshesAreBound` and `DrawsTheScene`, for any number of slots, chunks, shapes, fade
  instances and rows of grids. Of a slot the invariant says that what is built, bound and uploaded is
  what its record says, so that an update may skip what its record repeats; that no two slots, and no
  two elements of the map, have one fade instance, and that what none has is not alive; of a grid that
  its textures are its own.

Only model-checked: the liveness properties (`NetworkLossFallsBack`, `TeardownReturns`,
`NearIsLoaded`, `PoolDrains`, `GroundIsFound`, `ThemeArrives`, `BowlSettles`, `ColoursSettle`), which
rest on fairness and `ENABLED`.
That a Mapbox tile that is asked for settles in the end is neither checked nor proved: three attempts
bound it, and the state space under fairness exceeds what a run can cover.

## Plan

Done: environment source, imagery, slot, node and surround view, from the place where the program's
concurrency is to the place where its users see it; the Mapbox tiles, the second place with workers
and a network; the layers of a frame; the topic rows; then what the node keeps beside them (governor,
camera, anchor, profile, motion compensation), what the renderer keeps beside the slot (scene buffer,
theme, the life of its resources), the worker pool's stop, and the grids and clouds.

Next, in this order:

1. The lifecycle and the rows in one behaviour: stamps kept across a deactivation, when the node's
   clock stands still.
2. A parameter set that fails in its middle, once the repository says what it should leave behind.
3. That a Mapbox tile that is asked for settles, on a smaller instance.
4. The TF adapter, whose buffer has a history and an order of its own.
5. The sources beside the streaming one in one statement: its theorems are of its own specification,
   which `SourcesAreSources` shows the composed one to follow, but in a module of their own.

## Not modelled

Of the layers: what a signature does not tell apart (it reads the count, the first and the last point),
clipping at the ego, the colours of markers, transforms and theme parameters of materials. Two rows of
ground grids of one kind, which share an instance: no shipped profile has them. Colours that are built
into a mesh or a texture (a grid's fade, the vertices of carpets and clouds) and so do not follow a
theme until they are built again.

Of the rows: which markers a rule or a bad number turns down, the counters of diagnostics, transforms,
and the row of TF axes, which keeps nothing. Of the profile: the checks that a rate limit
is not negative and a colour mode is a known one (`profile.cpp:334-341`), without which the model accepts
more than the code.

Of the images: twists integrated to a motion, the bowl's exposure and masks, the arithmetic of
colouring a cloud. Also sizes of the images kept for the colours: `IngestState::rgb` compares the number
of bytes only (`camera_ingest.cpp`), while `test_camera_ingest.cpp` has mismatched dimensions read as no
image; this was read in the code, not checked by a run.

Of the renderer: the wait for a readback, whose callback only the driver bounds, and the platform back
ends under it.

Geometry and other arithmetic (meshes, projections, decoding of tiles, plane fits, the anchor's least
squares), text (HUD, callouts, diagnostics, the syntax of profiles and themes), packaging, tools and
tests. Security, performance and the contents of images are outside these models. `PROJECT.json` gives
the reason for each component.
