------------------------------- MODULE SceneLayers -------------------------------
(***************************************************************************)
(* The layers render_frame updates from the published scene, one after the *)
(* other: the map, the objects, the grids on the ground, and the other     *)
(* layers, all drawn slot by slot.  They                                   *)
(* share the engine, each with material instances of its own, and the      *)
(* theme; no layer reads what another has left, so a behaviour follows one *)
(* of them, and the others are as they were at the start.                  *)
(***************************************************************************)
EXTENDS ObjectPools

CONSTANTS
  MaxSlots, Shape, Empty, Loadable, Layer,   \* those of SceneSlots
  Points, Degenerate, MapKind,               \* those of MapElements
  Row, GridKind, KindOf, Dims, Place, Stamp, Texture, MaxGrids   \* those of GroundGrids

VARIABLES
  part,   \* what the behaviour follows
  layer, theme, slots, slotLive, scene, count, at, hole, busy,
  meshes, nextMeshes, mapLive,
  gridSlots, sampler, cells, grids, left

Slots == INSTANCE SceneSlots WITH live <- slotLive
Map == INSTANCE MapElements WITH live <- mapLive, next <- nextMeshes
Grids == INSTANCE GroundGrids

\* What the layers call by name: kinds, shared geometry, shared instances.
Word == {"BEHAVIOR", "GLOBAL", "info", "critical", "CUBE", "LINE_STRIP", "MESH", "unknown",
         "one", "box", "opaque", "faded"}

ASSUME LayerConstants ==
  /\ MaxSlots \in Nat \ {0}
  /\ Layer \subseteq {"ribbon", "alert", "height", "marker", "carpet", "cloud"}
  /\ Loadable \subseteq Shape /\ Empty \notin Shape
  /\ Degenerate \subseteq Points
  /\ None \notin Shape \cup Fade \cup MapKind \cup {Empty}
  /\ None \notin [material : MapKind \cup Fade, fade : Fade \cup {None}]
  /\ KindOf \in [Row -> GridKind]
  /\ \A r, q \in Row : KindOf[r] = KindOf[q] => r = q
  /\ None \notin Texture \cup Dims \cup Place
  /\ Word \cap (Fade \cup {None, Empty}) = {}
  /\ None \notin (Word \X Slots!SlotShape) \cup (Word \X Slots!SlotShape \X BOOLEAN)
               \cup (Slots!SlotShape \X BOOLEAN)

slotVars == <<layer, theme, slots, slotLive, scene, count, at, hole, busy>>
mapVars == <<meshes, nextMeshes, mapLive>>
gridVars == <<gridSlots, sampler, cells, grids, left>>
layerVars == <<part, vars, slotVars, mapVars, gridVars>>

LayersInit ==
  /\ part \in {"map", "objects", "slots", "grids"}
  /\ Init /\ Slots!Init /\ Map!Init /\ Grids!Init
  /\ part # "slots" => layer = "ribbon" /\ theme = [opaque |-> TRUE, lengthFade |-> FALSE]

LayersNext ==
  \/ part = "map" /\ Map!Next /\ UNCHANGED <<part, vars, slotVars, gridVars>>
  \/ part = "objects" /\ Next /\ UNCHANGED <<part, mapVars, slotVars, gridVars>>
  \/ part = "slots" /\ Slots!Next /\ UNCHANGED <<part, vars, mapVars, gridVars>>
  \/ part = "grids" /\ Grids!Next /\ UNCHANGED <<part, vars, mapVars, slotVars>>

LayersSpec == LayersInit /\ [][LayersNext]_layerVars

-----------------------------------------------------------------------------
\* A mesh of a slot or of the map is bound to what its slot or element holds,
\* no other material instance is alive, and no texture of a grid is lost (stated
\* in SceneSlots, of ribbon.cpp, alert_polygons.cpp, height_grid.cpp and
\* generic_markers.cpp, in MapElements, of map_elements.cpp, and in GroundGrids).
MeshesAreBound == Slots!SlotMaterial /\ Map!MeshMaterial /\ Grids!TexturesAreOwned

\* After a frame the slots draw the items of the scene as their ages and the
\* theme ask, and the grids on the ground their latest cells, whatever the slots
\* drew before (stated in SceneSlots and GroundGrids, of the update_ functions).
DrawsTheScene == Slots!DrawsTheScene /\ Grids!GridsShowTheirCells
=============================================================================
