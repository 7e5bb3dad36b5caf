----------------------------- MODULE MapboxSource -----------------------------
(***************************************************************************)
(* A Mapbox source with the terrain layer: its tiles, asked for, built and *)
(* sent back by their loaders (MapboxTiles), and the rasters draped over   *)
(* the terrain tiles that are loaded (TerrainImagery).  cesium runs the    *)
(* two apart, and neither reads what the other keeps, so a behaviour       *)
(* follows one of them and the other is as it was at the start.            *)
(***************************************************************************)
EXTENDS MapboxTiles, TerrainImagery

VARIABLE part   \* what the behaviour follows

sourceVars == <<part, vars, imageryVars>>

SourceInit == part \in {"tiles", "imagery"} /\ Init /\ ImageryInit

SourceNext ==
  \/ part = "tiles" /\ Next /\ UNCHANGED <<part, imageryVars>>
  \/ part = "imagery" /\ ImageryNext /\ UNCHANGED <<part, vars>>

SourceSpec == SourceInit /\ [][SourceNext]_sourceVars
=============================================================================
