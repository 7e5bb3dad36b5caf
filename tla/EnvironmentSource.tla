-------------------------- MODULE EnvironmentSource --------------------------
(***************************************************************************)
(* What every EnvironmentSource (environment.hpp) promises the renderer,   *)
(* whatever it loads and wherever from.  A source tracks a set of pieces   *)
(* (loaded_count) and puts them into the Filament scene exactly while it   *)
(* is visible (scene_membership_count); teardown takes everything out and  *)
(* nothing ever comes back.  BakedEnvironment and StreamingEnvironment     *)
(* implement this specification.                                           *)
(***************************************************************************)
CONSTANT Piece              \* the glTF assets a source can show

VARIABLES
  closed,                   \* the owner has called teardown
  visible,                  \* the flag set_visible last received
  loaded,                   \* the pieces the source tracks
  drawn                     \* the pieces whose entities are in the scene

vars == <<closed, visible, loaded, drawn>>

Shown(v, pieces) == IF v THEN pieces ELSE {}

Init ==
  /\ closed = FALSE
  /\ visible = TRUE
  /\ loaded = {}
  /\ drawn = {}

\* update: the source may track any other set; the scene follows.
Update ==
  /\ ~closed
  /\ loaded' \in SUBSET Piece
  /\ drawn' = Shown(visible, loaded')
  /\ UNCHANGED <<closed, visible>>

\* set_visible: the whole tracked set enters or leaves the scene at once.
SetVisible ==
  /\ ~closed
  /\ visible' \in BOOLEAN
  /\ drawn' = Shown(visible', loaded)
  /\ UNCHANGED <<closed, loaded>>

\* teardown: the source lets go of everything, for good.
Teardown ==
  /\ ~closed
  /\ closed' = TRUE
  /\ loaded' = {}
  /\ drawn' = {}
  /\ UNCHANGED visible

Next == Update \/ SetVisible \/ Teardown

Spec == Init /\ [][Next]_vars
=============================================================================
