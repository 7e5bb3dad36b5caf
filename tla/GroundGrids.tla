------------------------------ MODULE GroundGrids ------------------------------
(***************************************************************************)
(* The occupancy grids on the ground (ground_grid.cpp).  The i-th grid of  *)
(* the scene is drawn by the i-th slot, which keeps its quad, its texture  *)
(* and the last upload while the grid's placement, size and time stay what *)
(* they were; but the texture and the alpha are parameters of one material *)
(* instance per kind, shared by all slots.                                 *)
(*                                                                         *)
(* The grids of a scene come from rows of a profile, each of one kind, and *)
(* OgmAdapter::ingest turns empty ones down.  A placement stands for the   *)
(* origin, the heading and the resolution, the cells for the last message  *)
(* of a row: a row's stamp moves on with its cells.                        *)
(***************************************************************************)
EXTENDS Integers, Sequences, FiniteSets

CONSTANTS
  Row,        \* the rows with occupancy grids
  GridKind,   \* what groundGridMaterialInstance has an instance for
  KindOf,     \* the kind of each row: no two rows have one kind (SceneLayers' LayerConstants)
  Dims,       \* sizes in cells
  Place,
  Stamp,      \* last_update_sec
  Texture,    \* textures the engine may hand out
  MaxGrids,   \* bound on the slots
  None

VARIABLES
  gridSlots,   \* VisualRenderer::groundGridSlots; those above the count are not there
  sampler,     \* the texture bound to each kind's instance
  cells,       \* what has been uploaded to each texture that exists
  grids,       \* the grids of the frame that have been met
  left         \* the grids the frame still has to meet

gridVars == <<gridSlots, sampler, cells, grids, left>>

Grid == [row : Row, place : Place, dims : Dims, stamp : Stamp]

NoSlot == [quad |-> None, kind |-> None, place |-> None, dims |-> None, texture |-> None,
           stamp |-> None]

Init ==
  /\ gridSlots = <<>>
  /\ sampler = [k \in GridKind |-> None]
  /\ cells = [x \in {} |-> None]
  /\ grids = <<>> /\ left = 0

-----------------------------------------------------------------------------
\* Slots above the new count go, with their quads and their textures.
BeginFrame(n) ==
  /\ left = 0
  /\ gridSlots' = [i \in 1..n |-> IF i \in DOMAIN gridSlots THEN gridSlots[i] ELSE NoSlot]
  /\ LET gone == {gridSlots[i].texture : i \in {j \in DOMAIN gridSlots : j > n}} IN
     cells' = [x \in DOMAIN cells \ gone |-> cells[x]]
  /\ grids' = <<>> /\ left' = n
  /\ UNCHANGED sampler

\* Mutant: a quad is built anew when the grid has moved, not when it is another's.
GeomChangedByPlace(s, g) == s.place # g.place \/ s.dims # g.dims

GeomChanged(s, g) == s.kind # KindOf[g.row] \/ s.place # g.place \/ s.dims # g.dims

\* A texture of another size cannot take the upload.
DimsChanged(s, g) == s.texture = None \/ s.dims # g.dims

NewTexture == CHOOSE x \in Texture : x \notin DOMAIN cells

\* The slot's quad is bound to its kind's instance when it is built.
Quad(s, g) ==
  IF GeomChanged(s, g)
  THEN [s EXCEPT !.quad = KindOf[g.row], !.kind = KindOf[g.row], !.place = g.place]
  ELSE s

\* A new texture replaces the slot's; the cells are uploaded when it, the quad or the
\* stamp is new.
Uploaded(s, g) ==
  LET x == IF DimsChanged(s, g) THEN NewTexture ELSE s.texture
      kept == [y \in DOMAIN cells \ (IF DimsChanged(s, g) THEN {s.texture} ELSE {}) |-> cells[y]]
  IN IF DimsChanged(s, g) \/ GeomChanged(s, g) \/ s.stamp # g.stamp
     THEN [y \in DOMAIN kept \cup {x} |-> IF y = x THEN <<g.row, g.stamp>> ELSE kept[y]]
     ELSE kept

UpdateGrid(g) ==
  LET i == Len(grids) + 1
      s == gridSlots[i]
      x == IF DimsChanged(s, g) THEN NewTexture ELSE s.texture
  IN /\ left > 0 /\ Texture \ DOMAIN cells # {}
     /\ \A j \in DOMAIN grids : grids[j].row # g.row
     /\ gridSlots' = [gridSlots EXCEPT
                        ![i] = [Quad(s, g) EXCEPT !.dims = g.dims, !.texture = x, !.stamp = g.stamp]]
     /\ cells' = Uploaded(s, g)
     /\ sampler' = [sampler EXCEPT ![KindOf[g.row]] = x]
     /\ grids' = Append(grids, g)
     /\ left' = left - 1

Next ==
  \/ \E n \in 0..MaxGrids : BeginFrame(n)
  \/ \E g \in Grid : UpdateGrid(g)

-----------------------------------------------------------------------------
\* After a frame each quad is where its grid is, and what the instance it is bound to
\* samples is a texture that exists, of the grid's size, with the grid's latest cells;
\* whatever row the slot belonged to before (update_ground_grids).
GridsShowTheirCells ==
  left = 0 => \A i \in DOMAIN grids :
    LET s == gridSlots[i] g == grids[i] x == sampler[s.quad] IN
    /\ s.place = g.place /\ s.dims = g.dims
    /\ x \in DOMAIN cells /\ cells[x] = <<g.row, g.stamp>>

\* No texture is lost: those that exist are the slots', one each.
TexturesAreOwned ==
  /\ DOMAIN cells = {gridSlots[i].texture : i \in DOMAIN gridSlots} \ {None}
  /\ \A i, j \in DOMAIN gridSlots :
       gridSlots[i].texture = gridSlots[j].texture /\ i # j => gridSlots[i].texture = None
=============================================================================
