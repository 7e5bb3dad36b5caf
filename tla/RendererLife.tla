----------------------------- MODULE RendererLife ------------------------------
(***************************************************************************)
(* The life of a renderer (renderer.cpp): create_renderer makes the engine *)
(* and what every renderer has of it, the layers and the models make more  *)
(* when the scene first asks for it, and destroy_renderer frees all of it  *)
(* in one fixed order.  A step of the model frees or makes one kind of     *)
(* resource, with all of its pieces.                                       *)
(*                                                                         *)
(* filament, external, panics over a material destroyed before its         *)
(* instances, and over anything that outlives the engine; an asset is      *)
(* destroyed through the loader, and a loader frees what its materials     *)
(* need.                                                                   *)
(***************************************************************************)
EXTENDS Naturals, Sequences, FiniteSets

CONSTANT MaxMade   \* bound on the kinds a scene or a model has made

VARIABLES
  life,    \* what becomes of the renderer
  alive,   \* the kinds of resources there are
  pc       \* the next step of create_renderer or destroy_renderer

vars == <<life, alive, pc>>

\* create_renderer up to the engine, and then what depends on it.
CreateCore == <<"platform", "engine", "swapChain", "renderer", "scene", "view",
  "colorGrading", "camera", "sun">>

CreateMaterials == <<
  "clay", "clayFaded", "groundClay", "groundLines", "groundInstances", "clayInstances",
  "clayTranslucent", "objectClassInstances", "ribbonEmissive", "ribbonFaded",
  "ribbonInstances", "groundGrid", "groundGridInstances", "groundGridRamps", "heightGrid",
  "heightGridFaded", "heightGridInstance", "heightGridRamp", "pointCloud",
  "pointCloudInstance", "splat", "splatInstance", "carpet", "carpetInstance", "carpetFaded",
  "carpetFadedInstance", "alertInstances", "markerInstance", "buildingInstance", "terrain",
  "placeholder", "ambient">>

CreateOrder == CreateMaterials \o <<"ground", "grid">>

\* What set_ego_model makes: the model, or a box in its place.
Ego == {"egoAsset", "egoFallback"}

\* What is made on demand: by ensure_gltf_loader, by the layers and by the environment.
\* A layer's slots hold what draws them; their fades are the instances of the stale ones.
Fades == {"objectFades", "ribbonFades", "alertFades", "markerFades", "mapFades",
  "heightGridFades"}

OnDemand == Fades \cup {"loader", "objectPools", "objectInstances", "arrowMesh", "ribbonSlots",
  "alertSlots", "markerEntities", "markerAssets", "markerColors", "markerMeshes", "mapMeshes",
  "environment", "groundGridSlots", "groundGridTextures", "heightGridSlots", "bowl",
  "cameraTextures", "splats", "pointClouds", "carpets"}

\* What a kind is made of, in the call that makes it, or destroyed through.
Uses(k) ==
  CASE k = "platform" -> {}
    [] k = "engine" -> {"platform"}
    [] k = "view" -> {"scene", "engine"}
    [] k = "groundInstances" -> {"groundClay", "groundLines", "engine"}
    [] k \in {"clayInstances", "objectClassInstances", "markerInstance", "buildingInstance",
              "markerColors"} -> {"clay", "engine"}
    [] k = "ribbonInstances" -> {"clay", "ribbonEmissive", "engine"}
    [] k \in {"alertInstances", "objectFades", "alertFades", "markerFades", "mapFades"} ->
         {"clayTranslucent", "engine"}
    [] k = "ribbonFades" -> {"ribbonFaded", "engine"}
    [] k = "groundGridInstances" -> {"groundGrid", "engine"}
    [] k = "heightGridInstance" -> {"heightGrid", "engine"}
    [] k = "heightGridFades" -> {"heightGridFaded", "engine"}
    [] k = "pointCloudInstance" -> {"pointCloud", "engine"}
    [] k = "splatInstance" -> {"splat", "engine"}
    [] k = "carpetInstance" -> {"carpet", "engine"}
    [] k = "carpetFadedInstance" -> {"carpetFaded", "engine"}
    [] k \in {"objectPools", "egoAsset", "markerAssets"} -> {"loader", "scene", "engine"}
    [] k = "environment" -> {"loader", "terrain", "scene", "engine"}
    [] k = "objectInstances" -> {"objectClassInstances", "scene", "engine"}
    [] k \in {"egoFallback", "mapMeshes"} -> {"clayInstances", "scene", "engine"}
    [] k = "ribbonSlots" -> {"ribbonInstances", "scene", "engine"}
    [] k = "alertSlots" -> {"alertInstances", "scene", "engine"}
    [] k = "markerEntities" -> {"markerInstance", "scene", "engine"}
    [] k \in {"ground", "grid"} -> {"groundInstances", "scene", "engine"}
    [] k = "groundGridSlots" -> {"groundGridInstances", "scene", "engine"}
    [] k = "heightGridSlots" -> {"heightGridInstance", "scene", "engine"}
    [] k = "splats" -> {"splatInstance", "scene", "engine"}
    [] k = "pointClouds" -> {"pointCloudInstance", "scene", "engine"}
    [] k = "carpets" -> {"carpetInstance", "scene", "engine"}
    [] k = "bowl" -> {"scene", "engine"}
    [] OTHER -> {"engine"}

\* What a kind may have come to be bound to since: a stale slot to its fade, an asset's
\* primitives to the renderer's instances, an entity to shared buffers or a pooled
\* asset, an instance to textures, the view and the scene to what they show.
BoundTo(k) ==
  CASE k = "objectInstances" -> {"objectFades", "objectPools", "arrowMesh"}
    [] k = "objectPools" -> {"objectClassInstances", "objectFades"}
    [] k = "ribbonSlots" -> {"ribbonFades"}
    [] k = "alertSlots" -> {"alertFades"}
    [] k = "markerEntities" -> {"markerColors", "markerFades", "markerMeshes", "arrowMesh"}
    [] k = "markerAssets" -> {"markerInstance", "markerColors", "markerFades"}
    [] k = "mapMeshes" -> {"mapFades"}
    [] k = "heightGridSlots" -> {"heightGridFades"}
    [] k = "carpets" -> {"carpetFadedInstance"}
    [] k = "egoAsset" -> {"clayInstances"}
    [] k = "environment" -> {"buildingInstance", "placeholder"}
    [] k = "terrain" -> {"placeholder"}
    [] k = "bowl" -> {"cameraTextures"}
    [] k = "groundGridInstances" -> {"groundGridRamps", "groundGridTextures"}
    [] k \in {"heightGridInstance", "heightGridFades"} -> {"heightGridRamp"}
    [] k = "view" -> {"colorGrading", "camera"}
    [] k = "scene" -> {"ambient", "egoAsset"}
    [] OTHER -> {}

\* Mutant: the translucent material goes before the instances of stale map elements.
DestroyLayersMaterialFirst == <<"objectFades", "objectInstances", "objectPools", "arrowMesh",
  "objectClassInstances", "ribbonSlots", "ribbonFades", "alertSlots", "alertFades",
  "alertInstances", "markerFades", "markerEntities", "markerAssets", "markerColors",
  "markerInstance", "markerMeshes", "clayTranslucent", "mapFades">>

\* destroy_renderer, in its order (a layer's slots one after the other, each with its own
\* pieces in this order): the layers' slots and instances first,
DestroyLayers == <<"objectFades", "objectInstances", "objectPools", "arrowMesh",
  "objectClassInstances", "ribbonSlots", "ribbonFades", "alertSlots", "alertFades",
  "alertInstances", "markerFades", "markerEntities", "markerAssets", "markerColors",
  "markerInstance", "markerMeshes", "mapFades", "clayTranslucent">>

\* the environment, the models and the map,
DestroyModels == <<"environment", "egoAsset", "loader", "egoFallback", "ground", "grid",
  "mapMeshes", "clayInstances", "buildingInstance", "terrain", "placeholder">>

\* the ribbons' materials, the grids, the bowl, the clouds and the carpets,
DestroyGrids == <<"ribbonInstances", "ribbonEmissive", "ribbonFaded", "groundGridSlots",
  "groundGridTextures", "groundGridInstances", "groundGridRamps", "groundGrid",
  "heightGridSlots", "heightGridFades", "heightGridInstance", "heightGridRamp", "heightGrid",
  "heightGridFaded", "bowl",
  "cameraTextures", "splats", "splatInstance", "splat", "pointClouds", "pointCloudInstance",
  "pointCloud", "carpets", "carpetInstance", "carpet", "carpetFadedInstance", "carpetFaded">>

\* and the engine with what is left of it.
DestroyCore == <<"groundInstances", "groundClay", "groundLines", "clay", "clayFaded",
  "ambient", "colorGrading", "sun", "camera", "view", "scene", "renderer", "swapChain",
  "engine", "platform">>

DestroyOrder == DestroyLayers \o DestroyModels \o DestroyGrids \o DestroyCore

Init == life = "none" /\ alive = {} /\ pc = 1

\* create_renderer returns nullptr for a zero size, without a platform, and without an
\* engine, when it destroys the platform.
CreateFails ==
  /\ life = "creating" /\ alive = {"platform"}
  /\ life' = "failed" /\ alive' = {} /\ pc' = 1

Create ==
  \/ /\ life \in {"none", "failed"}
     /\ life' = "creating" /\ pc' = 2 /\ alive' = {"platform"}
  \/ LET order == CreateCore \o CreateOrder IN
     /\ life = "creating" /\ pc <= Len(order)
     /\ alive' = alive \cup {order[pc]}
     /\ life' = IF pc = Len(order) THEN "up" ELSE life
     /\ pc' = IF pc = Len(order) THEN 1 ELSE pc + 1

\* A layer, a model or the environment makes what it needs the first time.
Make(k) ==
  /\ life = "up" /\ k \in OnDemand \ alive
  /\ Uses(k) \subseteq alive
  /\ k \in Fades => \E slots \in alive \ {"objectPools"} : k \in BoundTo(slots)
  /\ Cardinality(alive \cap OnDemand) < MaxMade
  /\ alive' = alive \cup {k}
  /\ UNCHANGED <<life, pc>>

\* set_ego_model, once: without a file there is no need of a loader, and with one that
\* does not parse or whose resources are missing the box is built all the same.
SetEgoModel ==
  /\ life = "up" /\ alive \cap Ego = {}
  /\ alive' \in {alive \cup {"egoFallback"}, alive \cup {"loader", "egoFallback"},
                alive \cup {"loader", "egoAsset"}}
  /\ UNCHANGED <<life, pc>>

\* What was never made is skipped: one step of destroy_renderer frees the next there is.
Destroy ==
  /\ life \in {"up", "destroying"}
  /\ alive # {}
  /\ \E i \in DOMAIN DestroyOrder :
       /\ i >= pc /\ DestroyOrder[i] \in alive
       /\ \A j \in pc..(i - 1) : DestroyOrder[j] \notin alive
       /\ alive' = alive \ {DestroyOrder[i]}
       /\ pc' = i + 1
  /\ life' = IF alive' = {} THEN "gone" ELSE "destroying"

Next ==
  \/ Create \/ CreateFails \/ SetEgoModel \/ Destroy
  \/ \E k \in OnDemand : Make(k)

Spec == Init /\ [][Next]_vars

-----------------------------------------------------------------------------
\* Where destroy_renderer frees a thing before what may still be bound to it.  The fade of
\* a stale object, marker or map element goes before its renderable (objects.cpp:350,
\* renderer.cpp:920, 951), the arrow's buffers before a marker's arrow (899, 923), a
\* ground grid's texture before the instance it was set on (997, 1001), the ego's
\* entities while the scene lists them (963), and what the view and the scene show
\* before them (1047-1059).  No frame is drawn in between.
Late == {
  <<"objectInstances", "objectFades">>, <<"objectPools", "objectFades">>,
  <<"markerEntities", "markerFades">>, <<"markerAssets", "markerFades">>,
  <<"mapMeshes", "mapFades">>, <<"markerEntities", "arrowMesh">>,
  <<"groundGridInstances", "groundGridTextures">>, <<"scene", "egoAsset">>,
  <<"scene", "ambient">>, <<"view", "colorGrading">>, <<"view", "camera">>}

\* Nothing is freed while something is left that is made of it or destroyed through it, nor
\* while something may be bound to it but in the places named above; this be the renderer
\* coming up, in use or going down and whatever of the lazy resources a scene had made.
\* The teardown always finds its next step, and the renderer's end, like a creation that
\* fails, leaves nothing (create_renderer, destroy_renderer).
FreesInOrder ==
  /\ \A u \in alive' : Uses(u) \subseteq alive'
  /\ \A u \in alive', v \in alive \ alive' : v \in BoundTo(u) => <<u, v>> \in Late
  /\ life' \in {"failed", "gone"} => alive' = {}
  /\ life' = "destroying" =>
       \E i \in DOMAIN DestroyOrder : i >= pc' /\ DestroyOrder[i] \in alive'

UsersGoFirst == [][FreesInOrder]_vars
=============================================================================
