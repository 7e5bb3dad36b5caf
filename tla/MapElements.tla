------------------------------- MODULE MapElements -------------------------------
(***************************************************************************)
(* The map of the scene (map_elements.cpp).  A chunk of an element is      *)
(* known by a signature of its points, not of its kind: the mesh of the    *)
(* last frame with the same signature is adopted, and one that no element  *)
(* of the frame asks for is destroyed.  A mesh is faded through a material *)
(* instance of its own while its element is stale or the ego unknown.      *)
(*                                                                         *)
(* update_map_elements is taken apart into its steps, the chunks of the    *)
(* frame and then the end; a chunk is chosen as it is met.                 *)
(***************************************************************************)
EXTENDS Integers, FiniteSets

CONSTANTS
  Points,     \* what chunk_signature tells apart
  Degenerate, \* points no triangle comes of, or more than the indices reach
  MapKind,    \* the kinds of elements, up to the material of a kind
  Fade,       \* material instances the engine may hand out
  None

VARIABLES
  meshes,   \* VisualRenderer::mapElementMeshes
  next,     \* the map update_map_elements is building
  live      \* the material instances that exist

vars == <<meshes, next, live>>

Chunk == [points : Points, kind : MapKind, faded : BOOLEAN]

Init ==
  /\ meshes = [k \in Points |-> None]
  /\ next = [k \in Points |-> None]
  /\ live = {}

NewFade == CHOOSE f \in Fade : f \notin live

\* Mutant: the instance is kept for the next time the element is stale.
StalenessKeepsFade(mesh, e) ==
  IF ~e.faded
  THEN [mesh |-> [mesh EXCEPT !.material = e.kind], live |-> live]
  ELSE IF mesh.fade # None THEN [mesh |-> mesh, live |-> live]
  ELSE [mesh |-> [material |-> NewFade, fade |-> NewFade], live |-> live \cup {NewFade}]

\* An adopted mesh keeps its material, whatever the element's kind is now,
\* until the mesh has been faded and is fresh again.
Staleness(mesh, e) ==
  IF ~e.faded
  THEN IF mesh.fade = None THEN [mesh |-> mesh, live |-> live]
       ELSE [mesh |-> [material |-> e.kind, fade |-> None], live |-> live \ {mesh.fade}]
  ELSE IF mesh.fade # None THEN [mesh |-> mesh, live |-> live]
  ELSE [mesh |-> [material |-> NewFade, fade |-> NewFade], live |-> live \cup {NewFade}]

\* adopt_or_build: a chunk whose signature the frame has had is dropped.
UpdateChunk(e) ==
  LET k == e.points
      old == meshes[k]
      s == Staleness(IF old # None THEN old ELSE [material |-> e.kind, fade |-> None], e)
  IN /\ next[k] = None
     /\ old = None => k \notin Degenerate
     /\ Fade \ live # {}
     /\ next' = [next EXCEPT ![k] = s.mesh]
     /\ meshes' = [meshes EXCEPT ![k] = None]
     /\ live' = s.live

\* destroy_mesh takes the fade instance with the mesh.
EndMap ==
  /\ live' = live \ {meshes[k].fade : k \in {q \in Points : meshes[q] # None}}
  /\ meshes' = next
  /\ next' = [k \in Points |-> None]

Next ==
  \/ \E e \in Chunk : UpdateChunk(e)
  \/ EndMap

Spec == Init /\ [][Next]_vars

-----------------------------------------------------------------------------
Drawn == {m \in {meshes[k] : k \in Points} \cup {next[k] : k \in Points} : m # None}

\* Every mesh of the map is bound to its own instance while it has one and to
\* a kind's material otherwise, the instances that exist are those the meshes
\* hold, one each, and a mesh adopted by the new frame has left the old one
\* (map_elements.cpp update_map_elements, apply_map_element_staleness).
MeshMaterial ==
  /\ \A m \in Drawn : IF m.fade = None THEN m.material \in MapKind ELSE m.material = m.fade
  /\ live = {m.fade : m \in Drawn} \ {None}
  /\ \A m \in {meshes, next}, k, q \in Points : k # q /\ m[k] # None /\ m[q] # None =>
       (m[k].fade = m[q].fade => m[k].fade = None)
  /\ \A k, q \in Points : meshes[k] # None /\ next[q] # None =>
       k # q /\ (meshes[k].fade = next[q].fade => meshes[k].fade = None)
=============================================================================
