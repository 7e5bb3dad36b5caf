----------------------- MODULE MCStreamingEnvironment ------------------------
(* StreamingEnvironment on a small instance: its safety properties. *)
EXTENDS StreamingEnvironment, TLC

Symmetry == Permutations(Tile) \cup Permutations(Asset)
=============================================================================
