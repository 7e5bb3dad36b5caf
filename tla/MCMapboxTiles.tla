----------------------------- MODULE MCMapboxTiles -----------------------------
(* MapboxTiles over the anchor's tile and one more.                         *)
EXTENDS MapboxTiles

MCSlot == 1..3
=============================================================================
