---------------------------- MODULE TerrainImagery ----------------------------
(***************************************************************************)
(* Raster overlays on streamed terrain: the terrain half of                *)
(* StreamRendererResources (environment_stream.cpp).  Each terrain tile    *)
(* owns a material instance; cesium attaches a raster's texture to it and  *)
(* detaches it again; assets, instances and textures are destroyed by the  *)
(* next drain only.                                                        *)
(*                                                                         *)
(* cesium-native is external: it attaches a loaded raster to a Done tile   *)
(* without one, detaches it before it frees the tile, and frees a raster   *)
(* no tile uses.  So is Filament: an instance keeps a mipmapped texture in *)
(* a map of its own that only a nullptr bind clears, and commits that map  *)
(* at every frame.                                                         *)
(***************************************************************************)
CONSTANTS
  TerrainTile, \* tiles of the terrain tileset
  Asset,       \* addresses of FilamentAssets, reused once destroyed
  Raster,      \* raster overlay tiles
  Texture,     \* addresses of Filament textures, reused once destroyed
  Colour,      \* values of the theme's environment.terrain_color
  Null         \* nullptr, and terrainColor_ before its first push

Placeholder == "placeholder"   \* r_->terrainPlaceholderTexture

\* A material instance: its terrainColor, the texture it samples, the entry of
\* its mutable-texture map, and hasImagery.
Instance == [colour : Colour, imagery : Texture \cup {Placeholder},
             mutable : Texture \cup {Null}, hasImagery : BOOLEAN]

ASSUME DistinctValues ==
  /\ Null \notin Asset \cup Texture \cup Raster \cup Colour \cup Instance
  /\ Placeholder \notin Texture \cup {Null}

VARIABLES
  phase,        \* where the main thread is: see Phase
  theme,        \* terrainColor of terrain.mat's default instance
  pushed,       \* terrainColor_
  res,          \* each tile's asset
  inst,         \* terrainInstances_: each asset's material instance
  mapped,       \* cesium: the raster attached to each tile
  texOf,        \* main-thread result of each loaded raster
  loaded,       \* rasters prepared in the main thread and not freed
  alive,        \* textures created and not destroyed
  freeAssets,   \* pendingFrees_
  freeTextures  \* pendingTextureFrees_

imageryVars == <<phase, theme, pushed, res, inst, mapped, texOf, loaded, alive,
                 freeAssets, freeTextures>>

\* idle: between update()s, which a frame renders in.  load: cesium's callbacks
\* run.  destroying, pumping: inside teardown, the tilesets going and gone.
\* closed: tornDown_.
Phase == {"idle", "load", "destroying", "pumping", "closed"}

ImageryTypeOK ==
  /\ phase \in Phase
  /\ theme \in Colour
  /\ pushed \in Colour \cup {Null}
  /\ res \in [TerrainTile -> Asset \cup {Null}]
  /\ inst \in [Asset -> Instance \cup {Null}]
  /\ mapped \in [TerrainTile -> Raster \cup {Null}]
  /\ texOf \in [Raster -> Texture \cup {Null}]
  /\ loaded \subseteq Raster
  /\ alive \subseteq Texture
  /\ freeAssets \subseteq Asset
  /\ freeTextures \subseteq Texture

ImageryInit ==
  /\ phase = "idle"
  /\ theme \in Colour
  /\ pushed = Null
  /\ res = [t \in TerrainTile |-> Null]
  /\ inst = [a \in Asset |-> Null]
  /\ mapped = [t \in TerrainTile |-> Null]
  /\ texOf = [r \in Raster |-> Null]
  /\ loaded = {}
  /\ alive = {}
  /\ freeAssets = {}
  /\ freeTextures = {}

-----------------------------------------------------------------------------
\* Mutant: an early return when no asset waits forgets the textures.
DrainAssetsOnly(instances) ==
  /\ inst' = [a \in Asset |-> IF a \in freeAssets THEN Null ELSE instances[a]]
  /\ alive' = IF freeAssets = {} THEN alive ELSE alive \ freeTextures
  /\ freeAssets' = {}
  /\ freeTextures' = {}

\* drain_pending_frees: the assets, each with its instance, then the textures.
Drain(instances) ==
  /\ inst' = [a \in Asset |-> IF a \in freeAssets THEN Null ELSE instances[a]]
  /\ alive' = alive \ freeTextures
  /\ freeAssets' = {}
  /\ freeTextures' = {}

\* An instance with the theme's colour.
Coloured(i) == [colour |-> theme, imagery |-> i.imagery, mutable |-> i.mutable,
                hasImagery |-> i.hasImagery]

\* Mutant: only the first push reaches live instances.
RecolouredOnce ==
  [a \in Asset |-> IF inst[a] = Null \/ pushed # Null THEN inst[a]
                   ELSE Coloured(inst[a])]

\* sync_terrain_color: live instances take the theme's colour when it changed.
Recoloured ==
  [a \in Asset |-> IF inst[a] = Null \/ pushed = theme THEN inst[a]
                   ELSE Coloured(inst[a])]

\* push_theme_to_scene: the default instance only.
SetTheme(c) ==
  /\ phase = "idle"
  /\ theme' = c
  /\ UNCHANGED <<phase, pushed, res, inst, mapped, texOf, loaded, alive, freeAssets,
                 freeTextures>>

\* update, up to updateViewGroup: recolour, then drain.
UpdateBegin ==
  /\ phase = "idle"
  /\ phase' = "load"
  /\ Drain(Recoloured)
  /\ pushed' = theme
  /\ UNCHANGED <<theme, res, mapped, texOf, loaded>>

UpdateEnd ==
  /\ phase = "load"
  /\ phase' = "idle"
  /\ UNCHANGED <<theme, pushed, res, inst, mapped, texOf, loaded, alive, freeAssets,
                 freeTextures>>

-----------------------------------------------------------------------------
(* cesium's callbacks *)

\* What createInstance copies from the default instance.
NewInstance == [colour |-> theme, imagery |-> Placeholder, mutable |-> Null, hasImagery |-> FALSE]

\* prepareInMainThread, Kind::Terrain
PrepareInMainThread(t, a) ==
  /\ phase = "load"
  /\ res[t] = Null
  /\ inst[a] = Null
  /\ res' = [res EXCEPT ![t] = a]
  /\ inst' = [inst EXCEPT ![a] = NewInstance]
  /\ UNCHANGED <<phase, theme, pushed, mapped, texOf, loaded, alive, freeAssets,
                 freeTextures>>

\* prepareRasterInLoadThread and prepareRasterInMainThread: an image in an
\* unknown layout, or one that arrives after teardown, gives no texture.
PrepareRaster(r, x) ==
  /\ phase \in {"load", "destroying", "pumping"}
  /\ r \notin loaded
  /\ x \in (Texture \ alive) \cup {Null}
  /\ loaded' = loaded \cup {r}
  /\ texOf' = [texOf EXCEPT ![r] = x]
  /\ alive' = alive \cup ({x} \ {Null})
  /\ UNCHANGED <<phase, theme, pushed, res, inst, mapped, freeAssets, freeTextures>>

\* An instance with the texture bound: Filament also enters it in the map.
Bound(i, x) == [colour |-> i.colour, imagery |-> x, mutable |-> x, hasImagery |-> TRUE]

\* Mutant: the placeholder goes in, but not the nullptr before it.
UnboundOverMap(i) ==
  [colour |-> i.colour, imagery |-> Placeholder, mutable |-> i.mutable, hasImagery |-> FALSE]

\* Mutant: hasImagery stays on.
UnboundStillOn(i) ==
  [colour |-> i.colour, imagery |-> Placeholder, mutable |-> Null, hasImagery |-> i.hasImagery]

\* Back to the placeholder, through nullptr, which clears the map's entry.
Unbound(i) ==
  [colour |-> i.colour, imagery |-> Placeholder, mutable |-> Null, hasImagery |-> FALSE]

\* attachRasterInMainThread: ignored without a texture.
Attach(t, r) ==
  /\ phase = "load"
  /\ res[t] # Null
  /\ mapped[t] = Null
  /\ r \in loaded
  /\ mapped' = [mapped EXCEPT ![t] = r]
  /\ inst' = IF texOf[r] = Null THEN inst
             ELSE [inst EXCEPT ![res[t]] = Bound(inst[res[t]], texOf[r])]
  /\ UNCHANGED <<phase, theme, pushed, res, texOf, loaded, alive, freeAssets,
                 freeTextures>>

\* The instances once detachRasterInMainThread has run for the tile's raster.
DetachedFrom(t) ==
  IF mapped[t] = Null \/ texOf[mapped[t]] = Null THEN inst
  ELSE [inst EXCEPT ![res[t]] = Unbound(inst[res[t]])]

Detach(t) ==
  /\ phase = "load"
  /\ mapped[t] # Null
  /\ mapped' = [mapped EXCEPT ![t] = Null]
  /\ inst' = DetachedFrom(t)
  /\ UNCHANGED <<phase, theme, pushed, res, texOf, loaded, alive, freeAssets,
                 freeTextures>>

\* A tile unloaded, its raster detached first, then free(): deferred, or
\* dropped after teardown.
UnloadTile(t) ==
  /\ phase # "idle"
  /\ res[t] # Null
  /\ mapped' = [mapped EXCEPT ![t] = Null]
  /\ inst' = DetachedFrom(t)
  /\ res' = [res EXCEPT ![t] = Null]
  /\ freeAssets' = IF phase = "closed" THEN freeAssets ELSE freeAssets \cup {res[t]}
  /\ UNCHANGED <<phase, theme, pushed, texOf, loaded, alive, freeTextures>>

\* freeRaster: deferred, or dropped after teardown.
FreeRaster(r) ==
  /\ phase # "idle"
  /\ r \in loaded
  /\ \A t \in TerrainTile : mapped[t] # r
  /\ loaded' = loaded \ {r}
  /\ texOf' = [texOf EXCEPT ![r] = Null]
  /\ freeTextures' = IF phase = "closed" THEN freeTextures
                     ELSE freeTextures \cup ({texOf[r]} \ {Null})
  /\ UNCHANGED <<phase, theme, pushed, res, inst, mapped, alive, freeAssets>>

-----------------------------------------------------------------------------
(* teardown: drain, destroy the tilesets, drain, pump, drain *)

\* One part of teardown ends in a drain.  The pump is bounded, so that tiles and
\* rasters a load in flight pins may be left when it is over.
TeardownStep(from, to) ==
  /\ phase = from
  /\ phase' = to
  /\ Drain(inst)
  /\ UNCHANGED <<theme, pushed, res, mapped, texOf, loaded>>

Teardown ==
  \/ TeardownStep("idle", "destroying")
  \/ TeardownStep("destroying", "pumping")
  \/ TeardownStep("pumping", "closed")

Closed == phase = "closed" /\ UNCHANGED imageryVars

ImageryNext ==
  \/ \E c \in Colour : SetTheme(c)
  \/ UpdateBegin
  \/ UpdateEnd
  \/ \E t \in TerrainTile, a \in Asset : PrepareInMainThread(t, a)
  \/ \E r \in Raster, x \in Texture \cup {Null} : PrepareRaster(r, x)
  \/ \E t \in TerrainTile, r \in Raster : Attach(t, r)
  \/ \E t \in TerrainTile : Detach(t)
  \/ \E t \in TerrainTile : UnloadTile(t)
  \/ \E r \in Raster : FreeRaster(r)
  \/ Teardown
  \/ Closed

ImagerySpec == ImageryInit /\ [][ImageryNext]_imageryVars

-----------------------------------------------------------------------------
(* Properties *)

\* "Never while a frame may sample it" (terrain_imagery.md): Filament commits
\* every live instance at every frame, its texture and its map's entry, and
\* neither may be a texture that has been destroyed, or is about to be.
NothingDestroyedIsSampled ==
  \A a \in Asset : inst[a] # Null =>
    {inst[a].imagery, inst[a].mutable} \subseteq (alive \ freeTextures) \cup {Placeholder, Null}

\* A tile shows imagery exactly while cesium has a raster with a texture
\* attached to it, and then that one's.
ImageryIsAttached ==
  \A t \in TerrainTile : res[t] # Null =>
    LET i == inst[res[t]]
        x == IF mapped[t] = Null THEN Null ELSE texOf[mapped[t]]
    IN  /\ i.hasImagery <=> x # Null
        /\ i.imagery = IF x = Null THEN Placeholder ELSE x

\* Whatever order themes change and tiles load in, every tile a frame's update
\* leaves has the theme's colour, the recoloured ones and the new ones alike.
TerrainFollowsTheme ==
  phase = "load" => \A a \in Asset : inst[a] # Null => inst[a].colour = theme

\* Nothing is lost on a long drive: until teardown gives up on what is in flight,
\* every instance belongs to a tile and every texture to a loaded raster, or
\* they wait for the next drain.
NothingLeaks ==
  phase # "closed" =>
    /\ \A a \in Asset : inst[a] # Null => a \in freeAssets \/ \E t \in TerrainTile : res[t] = a
    /\ \A x \in alive : x \in freeTextures \/ \E r \in loaded : texOf[r] = x

\* The whole life of a texture and of an instance: neither used after its end
\* nor kept for ever.
TexturesLiveAsLongAsUsed == NothingDestroyedIsSampled /\ NothingLeaks

\* What a tile looks like after a frame's update follows from what is attached to
\* it and from the theme, whatever the order in which they came.
TilesShowImageryAndTheme == ImageryIsAttached /\ TerrainFollowsTheme

\* What makes them inductive: tiles, assets, rasters and textures are linked one
\* to one, and only a tile's instance has a texture bound.
TilesOwnInstances ==
  /\ \A t \in TerrainTile : res[t] # Null => inst[res[t]] # Null /\ res[t] \notin freeAssets
  /\ \A a \in freeAssets : inst[a] # Null
OneTilePerAsset == \A t, u \in TerrainTile : res[t] = res[u] /\ res[t] # Null => t = u
MappedIsLoaded == \A t \in TerrainTile : mapped[t] # Null => res[t] # Null /\ mapped[t] \in loaded
TexturesAreLive ==
  /\ freeTextures \subseteq alive
  /\ \A r \in Raster : texOf[r] # Null => r \in loaded /\ texOf[r] \in alive \ freeTextures
OneRasterPerTexture == \A r, s \in Raster : texOf[r] = texOf[s] /\ texOf[r] # Null => r = s
LooseIsUnbound ==
  \A a \in Asset :
    inst[a] # Null /\ (\A t \in TerrainTile : res[t] # a) => inst[a].imagery = Placeholder
Linked ==
  /\ TilesOwnInstances
  /\ OneTilePerAsset
  /\ MappedIsLoaded
  /\ TexturesAreLive
  /\ OneRasterPerTexture
  /\ LooseIsUnbound
MapHoldsImagery ==
  \A a \in Asset : inst[a] # Null =>
    inst[a].mutable = IF inst[a].imagery = Placeholder THEN Null ELSE inst[a].imagery
ColourPushed == pushed # Null =>
  \A a \in Asset : inst[a] # Null => inst[a].colour = pushed
NoneBeforePush == pushed = Null => phase # "load" /\ \A a \in Asset : inst[a] = Null

PushedIsTheme == phase = "load" => pushed = theme

ImageryInv ==
  /\ ImageryTypeOK
  /\ NothingDestroyedIsSampled
  /\ ImageryIsAttached
  /\ TerrainFollowsTheme
  /\ NothingLeaks
  /\ Linked
  /\ MapHoldsImagery
  /\ ColourPushed
  /\ NoneBeforePush
  /\ PushedIsTheme
=============================================================================
