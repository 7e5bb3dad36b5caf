---------------------------- MODULE MCMapboxSource ----------------------------
(* MapboxTiles over the anchor's tile and two more in a cache of two, and   *)
(* TerrainImagery over two tiles, two rasters and one spare address of each. *)
EXTENDS MapboxSource

MCSlot == 1..3
=============================================================================
