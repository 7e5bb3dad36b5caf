-------------------------- MODULE BakedEnvironment ---------------------------
(***************************************************************************)
(* BakedEnvironmentSource (environment.cpp): the chunks of a directory on  *)
(* disk, loaded around the ego with a 300 m load and a 400 m unload        *)
(* radius.  One Filament asset per loaded chunk, named here by its chunk.  *)
(*                                                                         *)
(* Abstracted: the distance of a chunk to the ego is one of three zones;   *)
(* whether a chunk's file can be read and becomes an asset, and whether    *)
(* the renderer's glTF loader can be made, are inputs of each update.      *)
(***************************************************************************)
CONSTANT Chunk

\* distance to the ego: <= kLoadRadiusM, up to kUnloadRadiusM, beyond it
Zone == {"near", "between", "far"}

VARIABLES
  torn,                     \* teardown has run: the owner drops the source
  visible,                  \* visible_
  loaded,                   \* loaded_: chunks with an asset
  failed,                   \* failed_: chunks whose load failed
  drawn,                    \* chunks whose entities are in the scene
  zone                      \* the ego position of the last update

bakedVars == <<torn, visible, loaded, failed, drawn, zone>>

TypeOK ==
  /\ torn \in BOOLEAN
  /\ visible \in BOOLEAN
  /\ loaded \subseteq Chunk
  /\ failed \subseteq Chunk
  /\ drawn \subseteq Chunk
  /\ zone \in [Chunk -> Zone]

\* open_baked_environment_source
Init ==
  /\ torn = FALSE
  /\ visible = TRUE
  /\ loaded = {}
  /\ failed = {}
  /\ drawn = {}
  /\ zone \in [Chunk -> Zone]

\* Mutants: failed_ is not consulted; a hidden source loads nothing.
WantedAgain(z) == {c \in Chunk : c \notin loaded /\ z[c] = "near"}
WantedIfVisible(z) == {c \in Chunk : visible /\ c \notin loaded /\ c \notin failed /\ z[c] = "near"}

\* The chunks the first loop of update tries to load.
Wanted(z) == {c \in Chunk : c \notin loaded /\ c \notin failed /\ z[c] = "near"}

\* Mutant: one radius for loading and unloading.
EvictOneRadius(chunks, z) == {c \in chunks : z[c] = "near"}

\* Both eviction loops of update, over a chunk set of any kind.
Evict(chunks, z) == {c \in chunks : z[c] # "far"}

\* Mutant: a chunk loaded while hidden enters the scene.
UpdateShowsHidden(z, readable, loaderReady) ==
  LET fresh == IF loaderReady THEN Wanted(z) \cap readable ELSE {}
      bad   == IF loaderReady THEN Wanted(z) \ readable ELSE {}
      left  == loaded \cup fresh
      gone  == left \ Evict(left, z)
  IN /\ ~torn
     /\ zone' = z
     /\ loaded' = left \ gone
     /\ failed' = Evict(failed \cup bad, z)
     /\ drawn' = (drawn \cup fresh) \ gone
     /\ UNCHANGED <<torn, visible>>

\* update(r, ego): load what is near and not known bad, then unload, then
\* forgive, what is far.  Without a loader nothing is tried and nothing is
\* marked failed.
Update(z, readable, loaderReady) ==
  LET fresh == IF loaderReady THEN Wanted(z) \cap readable ELSE {}
      bad   == IF loaderReady THEN Wanted(z) \ readable ELSE {}
      left  == loaded \cup fresh
      gone  == left \ Evict(left, z)
  IN /\ ~torn
     /\ zone' = z
     /\ loaded' = left \ gone
     /\ failed' = Evict(failed \cup bad, z)
     /\ drawn' = IF visible THEN (drawn \cup fresh) \ gone ELSE drawn
     /\ UNCHANGED <<torn, visible>>

\* Entities enter or leave the scene with the flag.
Toggle(v, shown, pieces) == IF v THEN shown \cup pieces ELSE shown \ pieces

\* set_visible: an early return when nothing changes
SetVisible(v) ==
  /\ ~torn
  /\ visible' = v
  /\ drawn' = IF v = visible THEN drawn ELSE Toggle(v, drawn, loaded)
  /\ UNCHANGED <<torn, loaded, failed, zone>>

\* Mutant: teardown destroys the assets and leaves their entities.
TeardownLeavesEntities ==
  /\ ~torn
  /\ torn' = TRUE
  /\ loaded' = {}
  /\ UNCHANGED <<visible, failed, drawn, zone>>

Teardown ==
  /\ ~torn
  /\ torn' = TRUE
  /\ loaded' = {}
  /\ drawn' = IF visible THEN drawn \ loaded ELSE drawn
  /\ UNCHANGED <<visible, failed, zone>>

Frame == \E z \in [Chunk -> Zone], readable \in SUBSET Chunk, ready \in BOOLEAN :
            Update(z, readable, ready)

\* A frame whose ensure_gltf_loader succeeds, wherever the ego is.
ReadyFrame == \E z \in [Chunk -> Zone], readable \in SUBSET Chunk : Update(z, readable, TRUE)

\* The owner destroys a torn-down source: nothing is left to do.
Done == torn /\ UNCHANGED bakedVars

Next == Frame \/ (\E v \in BOOLEAN : SetVisible(v)) \/ Teardown \/ Done

Spec == Init /\ [][Next]_bakedVars

\* The render loop calls update every frame, and the loader can be made in the end.
FairSpec == Spec /\ WF_bakedVars(ReadyFrame)

-----------------------------------------------------------------------------
\* A chunk is never both shown and written off, so that no later pass of
\* update can skip a chunk the scene shows, or reload one it shows already.
LoadedOrFailed == loaded \cap failed = {}

\* The scene holds exactly what the source tracks, while it is visible and not
\* otherwise, however visibility and loading interleave (environment_test_hooks
\* compares the same two counts).
SceneFollowsVisibility == drawn = IF visible THEN loaded ELSE {}

\* A chunk between the two radii neither comes nor goes, so an ego that drives along the
\* edge cannot make a chunk flicker.
Steady == \A c \in Chunk : zone'[c] = "between" /\ ~torn' => (c \in loaded') = (c \in loaded)

\* A chunk that failed is not read again until the ego has left its unload radius: an
\* unreadable file costs one attempt per visit, not one per frame.
WrittenOff == \A c \in failed : c \notin loaded' /\ (c \notin failed' => zone'[c] = "far")

\* Hysteresis of both kinds: what is in the end loaded, or written off, stays so until the
\* ego has really left.
Hysteresis == [][Steady /\ WrittenOff]_bakedVars

\* A chunk the ego stays near, and whose load does not fail, is in the end loaded,
\* hidden or shown: frames without a loader only delay it.
NearIsLoaded ==
  \A c \in Chunk : <>[](~torn /\ zone[c] = "near" /\ c \notin failed) => <>[](c \in loaded)

\* The source implements EnvironmentSource, with its chunks as pieces.
Abstract == INSTANCE EnvironmentSource WITH Piece <- Chunk, closed <- torn
Implements == Abstract!Spec
=============================================================================
