--------------------------- MODULE SceneLayers_proofs ---------------------------
(***************************************************************************)
(* Safety of the layers that are drawn slot by slot, of the map and of the *)
(* grids on the ground, for any number of slots, shapes, chunks, textures  *)
(* and material instances.                                                 *)
(***************************************************************************)
EXTENDS SceneLayers, TLAPS

-----------------------------------------------------------------------------
(* The map.  A mesh stands in the map of the last frame or in the one that is *)
(* being built, never in both, and has its instance to itself wherever it is. *)

MapMesh == [material : MapKind \cup Fade, fade : Fade \cup {None}]

\* The material of a mesh is its own instance, or a kind's.
Bound(m) == IF m.fade = None THEN m.material \in MapKind ELSE m.material = m.fade

Holds(map, k, f) == map[k] # None /\ map[k].fade = f

FadesApart ==
  /\ \A k, q \in Points, f \in Fade : Holds(meshes, k, f) /\ Holds(meshes, q, f) => k = q
  /\ \A k, q \in Points, f \in Fade : Holds(nextMeshes, k, f) /\ Holds(nextMeshes, q, f) => k = q
  /\ \A k, q \in Points, f \in Fade : ~(Holds(meshes, k, f) /\ Holds(nextMeshes, q, f))

MapInv ==
  /\ meshes \in [Points -> MapMesh \cup {None}]
  /\ nextMeshes \in [Points -> MapMesh \cup {None}]
  /\ \A k \in Points : meshes[k] # None => Bound(meshes[k]) /\ nextMeshes[k] = None
  /\ \A k \in Points : nextMeshes[k] # None => Bound(nextMeshes[k])
  /\ mapLive \subseteq Fade
  /\ \A f \in Fade : f \in mapLive <=> \E k \in Points : Holds(meshes, k, f) \/ Holds(nextMeshes, k, f)
  /\ FadesApart

LEMMA Nowhere == None \notin MapMesh \cup Fade \cup MapKind
BY LayerConstants DEF MapMesh

LEMMA MapInitInv == Map!Init => MapInv
BY Nowhere DEF Map!Init, MapInv, FadesApart, Holds

\* What staleness makes of a mesh and of the instances that exist.
LEMMA StalenessEffect ==
  ASSUME NEW mesh \in MapMesh, Bound(mesh), NEW e \in Map!Chunk,
         mapLive \subseteq Fade, Fade \ mapLive # {}, mesh.fade \in mapLive \cup {None}
  PROVE  LET s == Map!Staleness(mesh, e) IN
         /\ s.mesh \in MapMesh /\ Bound(s.mesh)
         /\ s.mesh.fade \in {None, mesh.fade} \cup (Fade \ mapLive)
         /\ s.live = (mapLive \ {mesh.fade}) \cup ({s.mesh.fade} \ {None})
<1>. DEFINE s == Map!Staleness(mesh, e)
<1>. USE Nowhere DEF MapMesh, Bound, Map!Staleness
<1>1. e.kind \in MapKind /\ e.faded \in BOOLEAN
  BY DEF Map!Chunk
<1>2. Map!NewFade \in Fade \ mapLive
  BY DEF Map!NewFade
<1>. HIDE DEF Map!NewFade
<1>3. CASE ~e.faded /\ mesh.fade = None
  BY <1>3
<1>4. CASE ~e.faded /\ mesh.fade # None
  BY <1>1, <1>4
<1>5. CASE e.faded /\ mesh.fade # None
  <2>1. s = [mesh |-> mesh, live |-> mapLive]
    BY <1>5
  <2>. QED  BY <2>1, <1>5
<1>6. CASE e.faded /\ mesh.fade = None
  BY <1>2, <1>6
<1>. QED  BY <1>1, <1>3, <1>4, <1>5, <1>6

LEMMA ChunkInv ==
  ASSUME MapInv, NEW e \in Map!Chunk, Map!UpdateChunk(e)
  PROVE  MapInv'
<1>. DEFINE k == e.points
            old == meshes[k]
            mesh == IF old # None THEN old ELSE [material |-> e.kind, fade |-> None]
            s == Map!Staleness(mesh, e)
<1>1. k \in Points /\ e.kind \in MapKind
  BY DEF Map!Chunk
<1>2. /\ nextMeshes[k] = None
      /\ Fade \ mapLive # {}
      /\ nextMeshes' = [nextMeshes EXCEPT ![k] = s.mesh]
      /\ meshes' = [meshes EXCEPT ![k] = None]
      /\ mapLive' = s.live
  BY DEF Map!UpdateChunk
<1>3. mesh \in MapMesh /\ Bound(mesh) /\ mesh.fade \in mapLive \cup {None}
  BY <1>1, Nowhere DEF MapInv, MapMesh, Bound, Holds
<1>4. /\ s.mesh \in MapMesh /\ Bound(s.mesh)
      /\ s.mesh.fade \in {None, mesh.fade} \cup (Fade \ mapLive)
      /\ mapLive' = (mapLive \ {mesh.fade}) \cup ({s.mesh.fade} \ {None})
  <2>. HIDE DEF s, mesh
  <2>1. mapLive \subseteq Fade
    BY DEF MapInv
  <2>. QED  BY <2>1, <1>2, <1>3, StalenessEffect DEF s
<1>. DEFINE n == s.mesh
<1>. HIDE DEF s
<1>5. s.mesh # None
  BY <1>4, Nowhere
<1>6. \A f \in Fade : mesh.fade = f <=> Holds(meshes, k, f)
  BY Nowhere DEF Holds
<1>. HIDE DEF mesh, k
<1>7. \A q \in Points, f \in Fade : Holds(nextMeshes', q, f) <=>
         IF q = k THEN s.mesh.fade = f ELSE Holds(nextMeshes, q, f)
  BY <1>1, <1>2, <1>5 DEF Holds, MapInv
<1>8. \A q \in Points, f \in Fade : Holds(meshes', q, f) <=> q # k /\ Holds(meshes, q, f)
  BY <1>1, <1>2 DEF Holds, MapInv
<1>9. ~ \E f \in Fade : Holds(nextMeshes, k, f)
  BY <1>2 DEF Holds
<1>10. FadesApart'
  BY <1>1, <1>4, <1>6, <1>7, <1>8, <1>9, Nowhere DEF MapInv, FadesApart
<1>11. mapLive' \subseteq Fade
  BY <1>4, Nowhere DEF MapInv, MapMesh
<1>12. \A f \in Fade : f \in mapLive' <=>
          \E q \in Points : Holds(meshes', q, f) \/ Holds(nextMeshes', q, f)
  BY <1>1, <1>4, <1>6, <1>7, <1>8, <1>9, Nowhere DEF MapInv, FadesApart
<1>13. /\ meshes' \in [Points -> MapMesh \cup {None}]
       /\ nextMeshes' \in [Points -> MapMesh \cup {None}]
       /\ \A q \in Points : meshes'[q] # None => Bound(meshes'[q]) /\ nextMeshes'[q] = None
       /\ \A q \in Points : nextMeshes'[q] # None => Bound(nextMeshes'[q])
  BY <1>1, <1>2, <1>4 DEF MapInv
<1>. QED  BY <1>10, <1>11, <1>12, <1>13 DEF MapInv

LEMMA EndMapInv == MapInv /\ Map!EndMap => MapInv'
<1>. SUFFICES ASSUME MapInv, Map!EndMap PROVE MapInv'
  OBVIOUS
<1>. USE Nowhere DEF MapInv
<1>1. /\ mapLive' = mapLive \ {meshes[k].fade : k \in {q \in Points : meshes[q] # None}}
      /\ meshes' = nextMeshes
      /\ nextMeshes' = [k \in Points |-> None]
  BY DEF Map!EndMap
<1>2. \A q \in Points, f \in Fade : ~Holds(nextMeshes', q, f) /\ Holds(meshes', q, f) = Holds(nextMeshes, q, f)
  BY <1>1 DEF Holds
<1>3. FadesApart'
  BY <1>2 DEF FadesApart
<1>4. \A f \in Fade : f \in mapLive' <=> f \in mapLive /\ ~ \E k \in Points : Holds(meshes, k, f)
  BY <1>1 DEF Holds
<1>5. \A f \in Fade : f \in mapLive' <=>
         \E q \in Points : Holds(meshes', q, f) \/ Holds(nextMeshes', q, f)
  BY <1>2, <1>4 DEF FadesApart
<1>. QED  BY <1>1, <1>3, <1>5

LEMMA MapInvMeans == MapInv => Map!MeshMaterial
<1>. SUFFICES ASSUME MapInv PROVE Map!MeshMaterial
  OBVIOUS
<1>. USE Nowhere DEF MapInv
<1>1. \A m \in Map!Drawn : m \in MapMesh /\ Bound(m)
  BY DEF Map!Drawn
<1>2. \A f \in Fade : f \in mapLive <=> \E m \in Map!Drawn : m.fade = f
  BY DEF Map!Drawn, Holds
<1>3. mapLive = {m.fade : m \in Map!Drawn} \ {None}
  BY <1>1, <1>2 DEF MapMesh
<1>4. \A k, q \in Points : meshes[k] # None /\ nextMeshes[q] # None =>
         k # q /\ (meshes[k].fade = nextMeshes[q].fade => meshes[k].fade = None)
  BY DEF FadesApart, Holds, MapMesh
<1>5. \A m \in {meshes, nextMeshes}, k, q \in Points : k # q /\ m[k] # None /\ m[q] # None =>
         (m[k].fade = m[q].fade => m[k].fade = None)
  BY DEF FadesApart, Holds, MapMesh
<1>. QED  BY <1>1, <1>3, <1>4, <1>5 DEF Map!MeshMaterial, Bound

-----------------------------------------------------------------------------
(* The grids on the ground.  A slot's texture holds cells of the kind and the  *)
(* time the slot has on record, so that the upload that is left out would      *)
(* change nothing.                                                             *)

GridSlot == [quad : GridKind \cup {None}, kind : GridKind \cup {None}, place : Place \cup {None},
             dims : Dims \cup {None}, texture : Texture \cup {None}, stamp : Stamp \cup {None}]

Upload == Row \X Stamp

\* The texture of slot i is x.
Owns(i, x) == i \in DOMAIN gridSlots /\ gridSlots[i].texture = x

\* What is on record of a texture is what was uploaded to it.
UploadOnRecord ==
  \A i \in DOMAIN gridSlots : gridSlots[i].texture # None =>
    LET s == gridSlots[i]  u == cells[s.texture] IN
    u \in Upload /\ KindOf[u[1]] = s.kind /\ u[2] = s.stamp

\* The slots that this frame has met show their grids.
MetShow ==
  \A i \in DOMAIN grids :
    LET s == gridSlots[i] g == grids[i] IN
    /\ s.quad = KindOf[g.row] /\ s.place = g.place /\ s.dims = g.dims /\ s.stamp = g.stamp
    /\ s.texture \in DOMAIN cells /\ sampler[s.quad] = s.texture

GridInv ==
  /\ left \in Nat /\ grids \in Seq(Grids!Grid)
  /\ gridSlots \in [1..(Len(grids) + left) -> GridSlot]
  /\ sampler \in [GridKind -> Texture \cup {None}]
  /\ DOMAIN cells \subseteq Texture
  /\ \A x \in Texture : x \in DOMAIN cells <=> \E i \in DOMAIN gridSlots : Owns(i, x)
  /\ \A i, j \in DOMAIN gridSlots, x \in Texture : Owns(i, x) /\ Owns(j, x) => i = j
  /\ \A i, j \in DOMAIN grids : grids[i].row = grids[j].row => i = j
  /\ \A i \in DOMAIN gridSlots : gridSlots[i].quad = gridSlots[i].kind
  /\ UploadOnRecord /\ MetShow

LEMMA NoneOfGrids == None \notin Texture \cup Dims \cup Place
BY LayerConstants

LEMMA KindsApart ==
  /\ \A r \in Row : KindOf[r] \in GridKind
  /\ \A r, q \in Row : KindOf[r] = KindOf[q] => r = q
BY LayerConstants

LEMMA GridInitInv == Grids!Init => GridInv
BY DEF Grids!Init, GridInv, UploadOnRecord, MetShow, Owns

LEMMA GridInvMeans == GridInv => Grids!TexturesAreOwned /\ Grids!GridsShowTheirCells
<1>. SUFFICES ASSUME GridInv PROVE Grids!TexturesAreOwned /\ Grids!GridsShowTheirCells
  OBVIOUS
<1>. USE NoneOfGrids DEF GridInv, Owns
<1>1. \A i \in DOMAIN gridSlots : gridSlots[i].texture \in Texture \cup {None}
  BY DEF GridSlot
<1>2. Grids!TexturesAreOwned
  <2>1. DOMAIN cells = {gridSlots[i].texture : i \in DOMAIN gridSlots} \ {None}
    <3>1. DOMAIN cells \subseteq Texture
      OBVIOUS
    <3>2. \A x \in Texture : x \in DOMAIN cells <=> \E i \in DOMAIN gridSlots : gridSlots[i].texture = x
      OBVIOUS
    <3>3. ASSUME NEW x \in DOMAIN cells
          PROVE  x \in {gridSlots[i].texture : i \in DOMAIN gridSlots} \ {None}
      <4>1. x \in Texture /\ x # None
        BY <3>1
      <4>2. PICK i \in DOMAIN gridSlots : gridSlots[i].texture = x
        BY <3>2, <4>1
      <4>. QED  BY ONLY <4>1, <4>2
    <3>4. ASSUME NEW i \in DOMAIN gridSlots, gridSlots[i].texture # None
          PROVE  gridSlots[i].texture \in DOMAIN cells
      <4>. DEFINE x == gridSlots[i].texture
      <4>1. x \in Texture
        BY <1>1, <3>4
      <4>. QED  BY <3>2, <4>1
    <3>. QED  BY ONLY <3>3, <3>4
  <2>2. \A i, j \in DOMAIN gridSlots :
          gridSlots[i].texture = gridSlots[j].texture /\ i # j => gridSlots[i].texture = None
    <3>1. \A i, j \in DOMAIN gridSlots, x \in Texture :
            gridSlots[i].texture = x /\ gridSlots[j].texture = x => i = j
      OBVIOUS
    <3>. QED  BY ONLY <1>1, <3>1
  <2>. QED  BY <2>1, <2>2 DEF Grids!TexturesAreOwned
<1>3. ASSUME NEW i \in DOMAIN grids
      PROVE  LET s == gridSlots[i] g == grids[i] x == sampler[s.quad] IN
             /\ s.place = g.place /\ s.dims = g.dims
             /\ x \in DOMAIN cells /\ cells[x] = <<g.row, g.stamp>>
  <2>. DEFINE s == gridSlots[i]  g == grids[i]
  <2>1. i \in DOMAIN gridSlots /\ g \in Grids!Grid
    OBVIOUS
  <2>2. /\ s.quad = KindOf[g.row] /\ s.place = g.place /\ s.dims = g.dims /\ s.stamp = g.stamp
        /\ s.texture \in DOMAIN cells /\ sampler[s.quad] = s.texture
    BY DEF MetShow
  <2>3. s.texture # None
    BY <2>2
  <2>. DEFINE u == cells[s.texture]
  <2>4. u \in Upload /\ KindOf[u[1]] = s.kind /\ u[2] = s.stamp /\ s.quad = s.kind
    BY <2>1, <2>3 DEF UploadOnRecord
  <2>5. g.row \in Row /\ u[1] \in Row /\ u = <<u[1], u[2]>>
    BY <2>1, <2>4 DEF Grids!Grid, Upload
  <2>6. u[1] = g.row
    <3>1. KindOf[u[1]] = KindOf[g.row]
      BY ONLY <2>2, <2>4
    <3>. QED  BY ONLY <2>5, <3>1, KindsApart
  <2>. QED  BY <2>2, <2>4, <2>5, <2>6
<1>. QED  BY <1>2, <1>3 DEF Grids!GridsShowTheirCells

LEMMA BeginGridsInv ==
  ASSUME GridInv, NEW n \in 0..MaxGrids, Grids!BeginFrame(n)
  PROVE  GridInv'
<1>. USE NoneOfGrids DEF GridInv
<1>1. /\ gridSlots' = [i \in 1..n |-> IF i \in DOMAIN gridSlots THEN gridSlots[i] ELSE Grids!NoSlot]
      /\ grids' = <<>> /\ left' = n /\ sampler' = sampler
      /\ cells' = [x \in DOMAIN cells \ {gridSlots[i].texture : i \in {j \in DOMAIN gridSlots : j > n}}
                     |-> cells[x]]
  BY DEF Grids!BeginFrame
<1>2. Grids!NoSlot \in GridSlot /\ Grids!NoSlot.texture = None
  BY DEF Grids!NoSlot, GridSlot
<1>. HIDE DEF Grids!NoSlot
<1>3. n \in Nat /\ Len(grids') + left' = n
  BY <1>1
<1>4. gridSlots' \in [1..n -> GridSlot]
  BY <1>1, <1>2, <1>3
<1>5. \A i, x : x \in Texture => (Owns(i, x)' <=> i \in 1..n /\ Owns(i, x))
  BY <1>1, <1>2 DEF Owns
<1>6. \A x \in Texture : x \in DOMAIN cells' <=>
         x \in DOMAIN cells /\ ~ \E i \in DOMAIN gridSlots : i > n /\ Owns(i, x)
  BY <1>1 DEF Owns
<1>7. \A x \in Texture : x \in DOMAIN cells' <=> \E i \in DOMAIN gridSlots' : Owns(i, x)'
  <2>. SUFFICES ASSUME NEW x \in Texture
                PROVE  x \in DOMAIN cells' <=> \E i \in 1..n : Owns(i, x)'
    BY <1>4
  <2>1. x \in DOMAIN cells' <=>
          x \in DOMAIN cells /\ ~ \E i \in DOMAIN gridSlots : i > n /\ Owns(i, x)
    BY <1>6
  <2>2. x \in DOMAIN cells <=> \E i \in DOMAIN gridSlots : Owns(i, x)
    OBVIOUS
  <2>3. \A i, j \in DOMAIN gridSlots : Owns(i, x) /\ Owns(j, x) => i = j
    OBVIOUS
  <2>4. \A i : Owns(i, x)' <=> i \in 1..n /\ Owns(i, x)
    BY <1>5
  <2>5. \A i : Owns(i, x) => i \in DOMAIN gridSlots
    BY DEF Owns
  <2>6. DOMAIN gridSlots \subseteq Nat \ {0} /\ n \in Nat
    BY <1>3
  <2>. HIDE DEF GridInv
  <2>. QED  BY ONLY <2>1, <2>2, <2>3, <2>4, <2>5, <2>6
<1>8. DOMAIN cells' \subseteq Texture
  BY <1>1
<1>9. UploadOnRecord'
  <2>1. ASSUME NEW i \in 1..n, gridSlots'[i].texture # None
        PROVE  /\ i \in DOMAIN gridSlots /\ gridSlots'[i] = gridSlots[i]
               /\ cells'[gridSlots[i].texture] = cells[gridSlots[i].texture]
    <3>1. i \in DOMAIN gridSlots /\ gridSlots'[i] = gridSlots[i]
      BY <1>1, <1>2, <2>1
    <3>2. gridSlots[i].texture \in Texture
      BY <2>1, <3>1 DEF GridSlot
    <3>3. gridSlots[i].texture \in DOMAIN cells'
      BY <1>4, <1>7, <2>1, <3>1, <3>2 DEF Owns
    <3>. QED  BY <1>1, <3>1, <3>3
  <2>. QED  BY <1>4, <2>1 DEF UploadOnRecord
<1>10. MetShow' /\ (\A i, j \in DOMAIN grids' : grids'[i].row = grids'[j].row => i = j)
  BY <1>1 DEF MetShow
<1>11. \A i, j \in DOMAIN gridSlots', x \in Texture : Owns(i, x)' /\ Owns(j, x)' => i = j
  BY <1>4, <1>5 DEF Owns
<1>12. \A i \in DOMAIN gridSlots' : gridSlots'[i].quad = gridSlots'[i].kind
  BY <1>1, <1>4 DEF Grids!NoSlot
<1>. QED  BY <1>1, <1>3, <1>4, <1>7, <1>8, <1>9, <1>10, <1>11, <1>12

\* Meeting a grid: the slot's texture is its own again or a new one, and what is in it
\* is the grid's.
LEMMA UpdateGridInv ==
  ASSUME GridInv, NEW g \in Grids!Grid, Grids!UpdateGrid(g)
  PROVE  GridInv'
<1>. DEFINE i == Len(grids) + 1
            s == gridSlots[i]
            dims == Grids!DimsChanged(s, g)
            geom == Grids!GeomChanged(s, g)
            x == IF dims THEN Grids!NewTexture ELSE s.texture
            n == [Grids!Quad(s, g) EXCEPT !.dims = g.dims, !.texture = x, !.stamp = g.stamp]
<1>. USE NoneOfGrids
<1>1. /\ left > 0 /\ Texture \ DOMAIN cells # {}
      /\ \A j \in DOMAIN grids : grids[j].row # g.row
      /\ gridSlots' = [gridSlots EXCEPT ![i] = n]
      /\ cells' = Grids!Uploaded(s, g)
      /\ sampler' = [sampler EXCEPT ![KindOf[g.row]] = x]
      /\ grids' = Append(grids, g)
      /\ left' = left - 1
  BY DEF Grids!UpdateGrid
<1>2. /\ i \in DOMAIN gridSlots /\ s \in GridSlot /\ Len(grids) \in Nat
      /\ DOMAIN gridSlots = 1..(Len(grids) + left)
      /\ Len(grids') = i /\ Len(grids') + left' = Len(grids) + left
  BY <1>1 DEF GridInv
<1>3. Grids!NewTexture \in Texture \ DOMAIN cells
  BY <1>1 DEF Grids!NewTexture
<1>4. /\ g.row \in Row /\ KindOf[g.row] \in GridKind
      /\ g.place \in Place /\ g.dims \in Dims /\ g.stamp \in Stamp
  BY KindsApart DEF Grids!Grid
<1>5. /\ dims <=> s.texture = None \/ s.dims # g.dims
      /\ geom <=> s.kind # KindOf[g.row] \/ s.place # g.place \/ s.dims # g.dims
  BY DEF Grids!DimsChanged, Grids!GeomChanged
<1>. HIDE DEF Grids!NewTexture
<1>6. x \in Texture /\ IF dims THEN x \notin DOMAIN cells ELSE x = s.texture /\ x \in DOMAIN cells
  BY <1>2, <1>3, <1>5 DEF GridSlot, GridInv, Owns
<1>7. /\ n \in GridSlot /\ n.texture = x /\ n.stamp = g.stamp /\ n.dims = g.dims /\ n.place = g.place
      /\ n.kind = KindOf[g.row]
      /\ n.quad = IF geom THEN KindOf[g.row] ELSE s.quad
  BY ZenonT(60), <1>2, <1>4, <1>5, <1>6 DEF Grids!Quad, GridSlot
<1>8. /\ DOMAIN cells' = (DOMAIN cells \ (IF dims THEN {s.texture} ELSE {})) \cup {x}
      /\ cells'[x] = IF dims \/ geom \/ s.stamp # g.stamp THEN <<g.row, g.stamp>> ELSE cells[x]
      /\ \A y \in DOMAIN cells' \ {x} : cells'[y] = cells[y]
  <2>. DEFINE dropped == DOMAIN cells \ (IF dims THEN {s.texture} ELSE {})
  <2>1. x \notin dropped \/ ~dims
    BY <1>6
  <2>2. DOMAIN [y \in dropped |-> cells[y]] = dropped
    OBVIOUS
  <2>3. cells' = IF dims \/ geom \/ s.stamp # g.stamp
                 THEN [y \in dropped \cup {x} |->
                         IF y = x THEN <<g.row, g.stamp>> ELSE [z \in dropped |-> cells[z]][y]]
                 ELSE [y \in dropped |-> cells[y]]
    <3>. HIDE DEF Grids!DimsChanged, Grids!GeomChanged
    <3>. QED  BY <1>1, <2>2, Zenon DEF Grids!Uploaded
  <2>4. ~dims => x \in dropped
    BY <1>6
  <2>5. dims \/ geom \/ s.stamp # g.stamp \/ x \in dropped
    BY <2>4
  <2>6. (IF dims THEN {s.texture} ELSE {}) \subseteq {s.texture}
    OBVIOUS
  <2>. HIDE DEF dims, geom, x
  <2>7. CASE dims \/ geom \/ s.stamp # g.stamp
    <3>. HIDE DEF dropped
    <3>1. cells' = [y \in dropped \cup {x} |->
                         IF y = x THEN <<g.row, g.stamp>> ELSE [z \in dropped |-> cells[z]][y]]
      BY <2>3, <2>7
    <3>2. /\ DOMAIN cells' = dropped \cup {x}
          /\ cells'[x] = <<g.row, g.stamp>>
          /\ \A y \in dropped \ {x} : cells'[y] = cells[y]
      BY ONLY <3>1
    <3>. QED  BY <3>2, <2>7 DEF dropped
  <2>8. CASE ~(dims \/ geom \/ s.stamp # g.stamp)
    <3>1. cells' = [y \in dropped |-> cells[y]] /\ x \in dropped
      BY <2>3, <2>4, <2>8
    <3>. HIDE DEF dropped
    <3>2. DOMAIN cells' = dropped /\ x \in dropped /\ \A y \in dropped : cells'[y] = cells[y]
      BY ONLY <3>1
    <3>. QED  BY <3>2, <2>8 DEF dropped
  <2>. QED  BY <2>7, <2>8
<1>. HIDE DEF n, x, dims, geom
<1>9. /\ cells'[x] \in Upload /\ KindOf[cells'[x][1]] = n.kind /\ cells'[x][2] = n.stamp
      /\ n.quad = n.kind
  <2>1. s.quad = s.kind
    BY <1>2 DEF GridInv
  <2>2. CASE dims \/ geom \/ s.stamp # g.stamp
    <3>1. cells'[x] = <<g.row, g.stamp>>
      BY <1>8, <2>2
    <3>. QED  BY <3>1, <1>4, <1>5, <1>7, <2>1 DEF Upload
  <2>3. CASE ~dims /\ ~geom /\ s.stamp = g.stamp
    <3>1. s.texture # None /\ x = s.texture /\ cells'[x] = cells[x]
      BY <1>5, <1>8, <2>3 DEF x
    <3>2. cells[x] \in Upload /\ KindOf[cells[x][1]] = s.kind /\ cells[x][2] = s.stamp
      BY <1>2, <3>1 DEF GridInv, UploadOnRecord
    <3>. QED  BY <3>1, <3>2, <1>5, <1>7, <2>1, <2>3
  <2>. QED  BY <2>2, <2>3
<1>10. gridSlots' \in [1..(Len(grids') + left') -> GridSlot]
  BY <1>1, <1>2, <1>7 DEF GridInv
<1>11. \A j \in DOMAIN gridSlots : gridSlots'[j] = IF j = i THEN n ELSE gridSlots[j]
  BY <1>1, <1>2 DEF GridInv
<1>12. DOMAIN gridSlots' = DOMAIN gridSlots
  BY <1>1
<1>13. \A j \in DOMAIN gridSlots, y \in Texture :
          Owns(j, y)' <=> IF j = i THEN y = x ELSE Owns(j, y)
  BY <1>7, <1>11, <1>12 DEF Owns
<1>14. \A j \in DOMAIN gridSlots : j # i => ~Owns(j, x)
  BY <1>2, <1>6 DEF GridInv, Owns
<1>15. /\ \A j, k \in DOMAIN gridSlots', y \in Texture : Owns(j, y)' /\ Owns(k, y)' => j = k
       /\ DOMAIN cells' \subseteq Texture
       /\ \A y \in Texture : y \in DOMAIN cells' <=> \E j \in DOMAIN gridSlots' : Owns(j, y)'
  <2>1. \A j, k \in DOMAIN gridSlots', y \in Texture : Owns(j, y)' /\ Owns(k, y)' => j = k
    BY <1>12, <1>13, <1>14 DEF GridInv
  <2>2. DOMAIN cells' \subseteq Texture
    BY <1>6, <1>8 DEF GridInv
  <2>3. \A y \in Texture : y \in DOMAIN cells' <=> y = x \/ (y \in DOMAIN cells /\ ~Owns(i, y))
    <3>1. \A y : Owns(i, y) <=> y = s.texture
      BY <1>2 DEF Owns
    <3>2. DOMAIN cells' = (DOMAIN cells \ (IF dims THEN {s.texture} ELSE {})) \cup {x}
      BY <1>8
    <3>3. ~dims => x = s.texture
      BY DEF x
    <3>4. dims => x \notin DOMAIN cells
      BY <1>6
    <3>. HIDE DEF s
    <3>. QED  BY ONLY <3>1, <3>2, <3>3, <3>4
  <2>4. \A y \in Texture : y \in DOMAIN cells <=> \E j \in DOMAIN gridSlots : Owns(j, y)
    BY DEF GridInv
  <2>5. \A y \in Texture : y \in DOMAIN cells' <=> \E j \in DOMAIN gridSlots' : Owns(j, y)'
    <3>. TAKE y \in Texture
    <3>1. \A j \in DOMAIN gridSlots : Owns(j, y)' <=> IF j = i THEN y = x ELSE Owns(j, y)
      BY <1>13
    <3>2. \A j \in DOMAIN gridSlots : j # i => ~Owns(j, x)
      BY <1>14
    <3>3. /\ y \in DOMAIN cells' <=> y = x \/ (y \in DOMAIN cells /\ ~Owns(i, y))
          /\ y \in DOMAIN cells <=> \E j \in DOMAIN gridSlots : Owns(j, y)
      BY <2>3, <2>4
    <3>4. i \in DOMAIN gridSlots /\ \A j, k \in DOMAIN gridSlots : Owns(j, y) /\ Owns(k, y) => j = k
      BY <1>2 DEF GridInv
    <3>5. ASSUME NEW j \in DOMAIN gridSlots, Owns(j, y)' PROVE y \in DOMAIN cells'
      <4>1. CASE j = i
        <5>1. Owns(j, y)' <=> IF j = i THEN y = x ELSE Owns(j, y)
          BY <3>1
        <5>2. y = x
          BY <4>1, <5>1, <3>5
        <5>. QED  BY <5>2, <3>3
      <4>2. CASE j # i
        <5>1. Owns(j, y) /\ ~Owns(i, y)
          BY <4>2, <3>1, <3>4, <3>5
        <5>. QED  BY <5>1, <3>3
      <4>. QED  BY <4>1, <4>2
    <3>6. ASSUME y \in DOMAIN cells' PROVE \E j \in DOMAIN gridSlots : Owns(j, y)'
      <4>1. CASE y = x
        BY <4>1, <3>1, <3>4
      <4>2. CASE y # x
        <5>1. PICK j \in DOMAIN gridSlots : Owns(j, y) /\ j # i
          BY <4>2, <3>3, <3>6
        <5>. QED  BY <5>1, <3>1
      <4>. QED  BY <4>1, <4>2
    <3>. QED  BY <3>5, <3>6, <1>12
  <2>. QED  BY ONLY <2>1, <2>2, <2>5
<1>16. UploadOnRecord'
  <2>. SUFFICES ASSUME NEW j \in DOMAIN gridSlots, gridSlots'[j].texture # None
                PROVE  LET t == gridSlots'[j]  u == cells'[t.texture] IN
                       u \in Upload /\ KindOf[u[1]] = t.kind /\ u[2] = t.stamp
    BY <1>12 DEF UploadOnRecord
  <2>1. CASE j = i
    BY <2>1, <1>7, <1>9, <1>11
  <2>2. CASE j # i
    <3>1. gridSlots'[j] = gridSlots[j] /\ gridSlots[j].texture \in Texture /\ gridSlots[j].texture # x
      BY <2>2, <1>11, <1>14 DEF GridInv, GridSlot, Owns
    <3>2. gridSlots[j].texture \in DOMAIN cells'
      BY <1>12, <1>15, <3>1 DEF Owns
    <3>3. cells'[gridSlots[j].texture] = cells[gridSlots[j].texture]
      BY <1>8, <3>1, <3>2
    <3>. QED  BY <3>1, <3>3 DEF GridInv, UploadOnRecord
  <2>. QED  BY <2>1, <2>2
<1>17. /\ grids' \in Seq(Grids!Grid) /\ DOMAIN grids' = 1..i
       /\ grids'[i] = g /\ \A j \in DOMAIN grids : j # i /\ grids'[j] = grids[j]
       /\ DOMAIN grids = 1..(i - 1)
  BY <1>1 DEF GridInv
<1>18. \A j, k \in DOMAIN grids' : grids'[j].row = grids'[k].row => j = k
  BY <1>1, <1>17 DEF GridInv
<1>19. MetShow'
  <2>. SUFFICES ASSUME NEW j \in 1..i
                PROVE  LET t == gridSlots'[j] h == grids'[j] IN
                       /\ t.quad = KindOf[h.row] /\ t.place = h.place /\ t.dims = h.dims
                       /\ t.stamp = h.stamp
                       /\ t.texture \in DOMAIN cells' /\ sampler'[t.quad] = t.texture
    BY <1>17 DEF MetShow
  <2>1. CASE j = i
    <3>1. grids'[j] = g /\ gridSlots'[j] = n
      BY <2>1, <1>2, <1>11, <1>17
    <3>2. x \in DOMAIN cells' /\ sampler'[KindOf[g.row]] = x
      BY <1>1, <1>4, <1>8 DEF GridInv
    <3>. QED  BY <3>1, <3>2, <1>7, <1>9
  <2>2. CASE j # i
    <3>1. j \in DOMAIN grids /\ j \in DOMAIN gridSlots /\ gridSlots'[j] = gridSlots[j] /\ grids'[j] = grids[j]
      <4>1. Len(grids) + 1 = i /\ i \in Nat /\ left \in Nat
        BY <1>2 DEF GridInv
      <4>2. j \in 1..(i - 1) /\ j \in 1..(Len(grids) + left)
        BY <4>1, <1>2, <2>2
      <4>. HIDE DEF i
      <4>. QED  BY <4>2, <2>2, <1>2, <1>11, <1>17
    <3>. DEFINE t == gridSlots[j] h == grids[j]
    <3>2. /\ t.quad = KindOf[h.row] /\ t.place = h.place /\ t.dims = h.dims /\ t.stamp = h.stamp
          /\ t.texture \in DOMAIN cells /\ sampler[t.quad] = t.texture
      BY <3>1 DEF GridInv, MetShow
    <3>3. h.row \in Row /\ h.row # g.row
      <4>1. h \in Grids!Grid
        BY <3>1 DEF GridInv
      <4>. QED  BY <4>1, <1>1, <3>1 DEF Grids!Grid
    <3>4. KindOf[h.row] # KindOf[g.row] /\ KindOf[h.row] \in GridKind
      BY <1>4, <3>3, KindsApart
    <3>5. t.texture \in Texture /\ Owns(j, t.texture)'
      BY <3>1, <3>2, <1>12 DEF GridInv, Owns
    <3>. QED  BY <3>1, <3>2, <3>4, <3>5, <1>1, <1>12, <1>15 DEF GridInv
  <2>. QED  BY <2>1, <2>2
<1>20. \A j \in DOMAIN gridSlots' : gridSlots'[j].quad = gridSlots'[j].kind
  BY <1>9, <1>11, <1>12 DEF GridInv
<1>21. left' \in Nat /\ sampler' \in [GridKind -> Texture \cup {None}]
  BY <1>1, <1>4, <1>6 DEF GridInv
<1>. QED  BY <1>10, <1>15, <1>16, <1>17, <1>18, <1>19, <1>20, <1>21 DEF GridInv

GridsNext == Grids!Next \/ UNCHANGED gridVars

LEMMA GridsNextInv == GridInv /\ GridsNext => GridInv'
<1>1. ASSUME GridInv, NEW n \in 0..MaxGrids, Grids!BeginFrame(n) PROVE GridInv'
  BY <1>1, BeginGridsInv
<1>2. ASSUME GridInv, NEW g \in Grids!Grid, Grids!UpdateGrid(g) PROVE GridInv'
  BY <1>2, UpdateGridInv
<1>3. ASSUME GridInv, UNCHANGED gridVars PROVE GridInv'
  BY <1>3 DEF gridVars, GridInv, UploadOnRecord, MetShow, Owns
<1>. QED  BY <1>1, <1>2, <1>3 DEF GridsNext, Grids!Next

-----------------------------------------------------------------------------
(* The slots.  What a slot keeps from the items it has drawn is enough to know *)
(* what its mesh was built from; so the rebuild that is left out would change  *)
(* nothing.                                                                    *)

Solid(x) == IF x = Empty THEN None ELSE x

Sig == (Word \X Slots!SlotShape) \cup (Word \X Slots!SlotShape \X BOOLEAN)
         \cup (Slots!SlotShape \X BOOLEAN) \cup Slots!SlotShape \cup {None}

Slot == [sig : Sig, kind : Word \cup {None}, mesh : Shape \cup {"CUBE", "box", None},
         material : Word \cup Fade \cup {None}, fade : Fade \cup {None}, alpha : Slots!Age,
         inScene : BOOLEAN, faded : BOOLEAN]

\* A slot with the instances that exist.
Updating == [slot : Slot, live : SUBSET Fade]

SlotBound(s) == s.mesh # None => s.material = IF s.fade = None THEN s.kind ELSE s.fade

\* What the signature on record, the file or the kind says of the mesh.
RibbonKept(s) ==
  s.sig # None => /\ s.sig \in Word \X Slots!SlotShape \X BOOLEAN
                  /\ s.kind = s.sig[1] /\ s.mesh = Solid(s.sig[2])
                  /\ s.inScene <=> s.mesh # None

AlertKept(s) ==
  s.sig # None => /\ s.sig \in Word \X Slots!SlotShape
                  /\ s.kind = s.sig[1] /\ s.mesh = Solid(s.sig[2])
                  /\ s.inScene <=> s.mesh # None

HeightKept(s) == s.mesh # None => s.sig = s.mesh /\ s.kind = "one"

MarkerKept(s) ==
  /\ s.kind = "CUBE" /\ s.mesh # None => s.mesh = "CUBE" /\ s.inScene
  /\ s.kind = "LINE_STRIP" /\ s.sig # None => s.mesh = Solid(s.sig) /\ (s.inScene <=> s.mesh # None)
  /\ s.kind = "MESH" /\ s.mesh # None =>
       s.mesh = (IF s.sig \in Loadable THEN s.sig ELSE "box") /\ s.inScene

CarpetKept(s) ==
  /\ s.fade = None
  /\ s.mesh # None => s.material = IF s.faded THEN "faded" ELSE "opaque"
  /\ s.sig # None => /\ s.sig \in Slots!SlotShape \X BOOLEAN
                     /\ s.mesh = Solid(s.sig[1])
                     /\ s.inScene <=> s.mesh # None

CloudKept(s) ==
  /\ s.fade = None
  /\ s.sig # None => s.mesh = Solid(s.sig) /\ s.kind = "one" /\ (s.inScene <=> s.mesh # None)

Kept(s) ==
  /\ layer # "carpet" => SlotBound(s)
  /\ layer = "ribbon" => RibbonKept(s)
  /\ layer = "alert" => AlertKept(s)
  /\ layer = "height" => HeightKept(s)
  /\ layer = "marker" => MarkerKept(s)
  /\ layer = "carpet" => CarpetKept(s)
  /\ layer = "cloud" => CloudKept(s)

\* A slot that has met item m; the carpets and clouds get their looks when the frame ends.
Shows(s, m) ==
  /\ s.mesh = Slots!Mesh(m)
  /\ s.mesh # None /\ layer # "carpet" => s.kind = m.kind
  /\ s.mesh # None /\ layer \notin {"carpet", "cloud"} => Slots!Seen(s) = Slots!Wanted(m)
  /\ s.mesh # None /\ layer \in {"carpet", "cloud"} => s.inScene
  /\ layer = "height" => (s.mesh # None /\ s.inScene <=> m.shape # Empty /\ m.age # "gone")

\* An update gives the slot's instance back, keeps it or takes one that was not alive.
FadeStep(s, lv, t, after) ==
  /\ t.fade \in {None, s.fade} \cup (Fade \ lv)
  /\ after = (lv \ {s.fade}) \cup ({t.fade} \ {None})

Meeting(b, m, r) ==
  /\ r \in Updating /\ Kept(r.slot) /\ Shows(r.slot, m)
  /\ FadeStep(b.slot, b.live, r.slot, r.live)

SlotHas(i, f) == slots[i].fade = f

SlotsInv ==
  /\ layer \in {"ribbon", "alert", "height", "marker", "carpet", "cloud"}
  /\ theme \in Slots!Theme /\ busy \in BOOLEAN /\ hole \in BOOLEAN
  /\ count \in 0..MaxSlots /\ at \in 1..(count + 1) /\ (~busy => at = count + 1)
  /\ slots \in [1..MaxSlots -> Slot]
  /\ scene \in [1..MaxSlots -> Slots!Item(layer) \cup {None}]
  /\ \A i \in 1..MaxSlots : Kept(slots[i]) /\ (i > count => slots[i] = Slots!NoSlot)
  /\ slotLive \subseteq Fade
  /\ \A f \in Fade : f \in slotLive <=> \E i \in 1..MaxSlots : SlotHas(i, f)
  /\ \A i, j \in 1..MaxSlots, f \in Fade : SlotHas(i, f) /\ SlotHas(j, f) => i = j
  /\ \A i \in 1..(at - 1) : scene[i] \in Slots!Item(layer) /\ Shows(slots[i], scene[i])
  /\ ~busy => /\ hole <=> Slots!GroundHole
              /\ layer \in {"carpet", "cloud"} => \A i \in 1..count :
                   slots[i].mesh # None => Slots!Seen(slots[i]) = Slots!Wanted(scene[i])

LEMMA Named ==
  /\ Word \cap (Fade \cup {None, Empty}) = {}
  /\ None \notin Shape \cup Fade \cup {Empty} /\ Empty \notin Shape /\ Loadable \subseteq Shape
  /\ None \notin (Word \X Slots!SlotShape) \cup (Word \X Slots!SlotShape \X BOOLEAN)
                   \cup (Slots!SlotShape \X BOOLEAN)
BY LayerConstants

LEMMA ItemNamed ==
  ASSUME NEW m \in Slots!Item(layer)
  PROVE  /\ m.shape \in Slots!SlotShape /\ m.age \in Slots!Age
         /\ m.kind \in Word
         /\ m.kind \in Slots!Kind(layer)
BY DEF Slots!Item, Slots!Kind, Word

\* A mesh built anew.
LEMMA BuiltEffect ==
  ASSUME NEW b \in Updating, NEW sig \in Sig, NEW kind \in Word, NEW shape \in Slots!SlotShape \cup {"CUBE", "box"}
  PROVE  LET r == Slots!Built(b, sig, kind, shape)  t == r.slot IN
         /\ r \in Updating /\ r.live = b.live
         /\ t.sig = sig /\ t.kind = kind /\ t.mesh = Solid(shape) /\ t.inScene = (shape # Empty)
         /\ t.material = IF shape = Empty THEN None ELSE kind
         /\ t.fade = b.slot.fade /\ t.faded = b.slot.faded
BY ZenonT(60) DEF Slots!Built, Solid, Slot, Updating, Slots!SlotShape

LEMMA DropEffect ==
  ASSUME NEW b \in Updating
  PROVE  LET r == Slots!DropFade(b)  t == r.slot IN
         /\ r \in Updating /\ r.live = b.live \ {b.slot.fade} /\ t.fade = None
         /\ t.sig = b.slot.sig /\ t.kind = b.slot.kind /\ t.mesh = b.slot.mesh
         /\ t.material = b.slot.material /\ t.alpha = b.slot.alpha
         /\ t.inScene = b.slot.inScene /\ t.faded = b.slot.faded
BY DEF Slots!DropFade, Slot, Updating

LEMMA BindEffect ==
  ASSUME NEW b \in Updating, NEW m \in Word \cup Fade
  PROVE  LET r == Slots!Bind(b, m)  t == r.slot IN
         /\ r \in Updating /\ r.live = b.live
         /\ t.sig = b.slot.sig /\ t.kind = b.slot.kind /\ t.mesh = b.slot.mesh
         /\ t.fade = b.slot.fade /\ t.alpha = b.slot.alpha
         /\ t.inScene = b.slot.inScene /\ t.faded = b.slot.faded
         /\ t.mesh # None => t.material = m
BY DEF Slots!Bind, Slot, Updating

\* The instance f is given to the slot.
Lend(b, f, age) == [b EXCEPT !.slot.fade = f, !.live = @ \cup {f}, !.slot.alpha = age]

LEMMA LentEffect ==
  ASSUME NEW b \in Updating, NEW f \in Fade, NEW age \in Slots!Age
  PROVE  LET r == Lend(b, f, age)  t == r.slot IN
         /\ r \in Updating /\ r.live = b.live \cup {f}
         /\ t.sig = b.slot.sig /\ t.kind = b.slot.kind /\ t.mesh = b.slot.mesh
         /\ t.inScene = b.slot.inScene
         /\ t.fade = f /\ t.material = b.slot.material /\ t.alpha = age
<1>. DEFINE r == Lend(b, f, age)
            t == r.slot
            k1 == [b EXCEPT !.slot.fade = f]
            k2 == [k1 EXCEPT !.live = @ \cup {f}]
<1>1. k1 \in Updating /\ k1.live = b.live /\ k1.slot = [b.slot EXCEPT !.fade = f]
  BY DEF Slot, Updating
<1>2. r = [k2 EXCEPT !.slot.alpha = age]
  BY DEF Lend
<1>. HIDE DEF k1
<1>3. k2 \in Updating /\ k2.live = b.live \cup {f} /\ k2.slot = k1.slot
  BY <1>1 DEF Updating
<1>. HIDE DEF k2
<1>4. r \in Updating /\ r.live = k2.live /\ t = [k2.slot EXCEPT !.alpha = age]
  BY <1>2, <1>3 DEF Slot, Updating
<1>5. b.slot \in Slot /\ t = [[b.slot EXCEPT !.fade = f] EXCEPT !.alpha = age]
  BY <1>1, <1>3, <1>4 DEF Updating
<1>. HIDE DEF r
<1>6. /\ t.sig = b.slot.sig /\ t.kind = b.slot.kind /\ t.mesh = b.slot.mesh
      /\ t.inScene = b.slot.inScene
      /\ t.fade = f /\ t.material = b.slot.material /\ t.alpha = age
  BY <1>5 DEF Slot
<1>. QED  BY <1>3, <1>4, <1>6 DEF r

LEMMA FadingEffect ==
  ASSUME NEW b \in Updating, SlotBound(b.slot), Fade \ b.live # {}, b.slot.fade \in b.live \cup {None},
         NEW plain \in BOOLEAN, NEW age \in Slots!Age, b.slot.kind \in Word
  PROVE  LET r == Slots!Fading(b, plain, b.slot.kind, age)  t == r.slot IN
         /\ r \in Updating /\ SlotBound(t)
         /\ t.sig = b.slot.sig /\ t.kind = b.slot.kind /\ t.mesh = b.slot.mesh
         /\ t.inScene = b.slot.inScene
         /\ t.fade = None <=> plain
         /\ t.alpha = IF plain THEN "fresh" ELSE age
         /\ FadeStep(b.slot, b.live, t, r.live)
<1>. DEFINE s == b.slot
            f == Slots!NewFade(b)
            r == Slots!Fading(b, plain, s.kind, age)
            t == r.slot
<1>1. f \in Fade /\ f \notin b.live /\ f # None
  BY Named DEF Slots!NewFade
<1>. HIDE DEF f
<1>2. s \in Slot /\ b.live \subseteq Fade /\ None \notin b.live /\ b.live \in SUBSET Fade
  BY Named DEF Updating
<1>3. CASE plain /\ s.fade = None
  <2>1. r = [b EXCEPT !.slot.alpha = "fresh"]
    BY <1>3 DEF Slots!Fading
  <2>2. /\ r \in Updating /\ r.live = b.live
        /\ t.sig = s.sig /\ t.kind = s.kind /\ t.mesh = s.mesh /\ t.inScene = s.inScene
        /\ t.fade = s.fade /\ t.material = s.material /\ t.alpha = "fresh"
    BY <2>1 DEF Slot, Updating, Slots!Age
  <2>. HIDE DEF r
  <2>. QED  BY <2>2, <1>2, <1>3 DEF SlotBound, FadeStep, r
<1>4. CASE plain /\ s.fade # None
  <2>. DEFINE k == Slots!Bind(b, s.kind)
              d == Slots!DropFade(k)
  <2>1. /\ k \in Updating /\ k.live = b.live /\ k.slot.sig = s.sig /\ k.slot.kind = s.kind
        /\ k.slot.mesh = s.mesh /\ k.slot.inScene = s.inScene /\ k.slot.fade = s.fade
        /\ k.slot.mesh # None => k.slot.material = s.kind
    BY BindEffect
  <2>2. r = [d EXCEPT !.slot.alpha = "fresh"]
    BY <1>4 DEF Slots!Fading
  <2>. HIDE DEF k
  <2>3. /\ d \in Updating /\ d.live = b.live \ {s.fade} /\ d.slot.sig = s.sig /\ d.slot.kind = s.kind
        /\ d.slot.mesh = s.mesh /\ d.slot.inScene = s.inScene /\ d.slot.fade = None
        /\ d.slot.mesh # None => d.slot.material = s.kind
    BY <2>1, DropEffect
  <2>. HIDE DEF d
  <2>4. /\ r \in Updating /\ r.live = d.live
        /\ t.sig = d.slot.sig /\ t.kind = d.slot.kind /\ t.mesh = d.slot.mesh
        /\ t.inScene = d.slot.inScene
        /\ t.fade = d.slot.fade /\ t.material = d.slot.material /\ t.alpha = "fresh"
    BY <2>2, <2>3 DEF Slot, Updating, Slots!Age
  <2>. HIDE DEF r
  <2>. QED  BY <2>3, <2>4, <1>2, <1>4 DEF SlotBound, FadeStep, r
<1>5. CASE ~plain /\ s.fade # None
  <2>1. r = [b EXCEPT !.slot.alpha = age]
    BY <1>5 DEF Slots!Fading
  <2>2. /\ r \in Updating /\ r.live = b.live
        /\ t.sig = s.sig /\ t.kind = s.kind /\ t.mesh = s.mesh /\ t.inScene = s.inScene
        /\ t.fade = s.fade /\ t.material = s.material /\ t.alpha = age
    BY <2>1 DEF Slot, Updating
  <2>. HIDE DEF r
  <2>. QED  BY <2>2, <1>2, <1>5 DEF SlotBound, FadeStep, r
<1>6. CASE ~plain /\ s.fade = None
  <2>. DEFINE k == Slots!Bind(b, f)
  <2>1. /\ k \in Updating /\ k.live = b.live /\ k.slot.sig = s.sig /\ k.slot.kind = s.kind
        /\ k.slot.mesh = s.mesh /\ k.slot.inScene = s.inScene /\ k.slot.fade = s.fade
        /\ k.slot.mesh # None => k.slot.material = f
    BY <1>1, BindEffect
  <2>2. r = Lend(k, f, age)
    BY <1>6 DEF Slots!Fading, f, Lend
  <2>. HIDE DEF k
  <2>3. /\ r \in Updating /\ r.live = k.live \cup {f}
        /\ t.sig = k.slot.sig /\ t.kind = k.slot.kind /\ t.mesh = k.slot.mesh
        /\ t.inScene = k.slot.inScene
        /\ t.fade = f /\ t.material = k.slot.material /\ t.alpha = age
    BY <2>1, <2>2, <1>1, LentEffect
  <2>. HIDE DEF r
  <2>. QED  BY <2>1, <2>3, <1>1, <1>2, <1>6 DEF SlotBound, FadeStep, r
<1>. QED  BY <1>3, <1>4, <1>5, <1>6

\* A mesh drawn as its instance asks.
LEMMA SeenIs ==
  ASSUME NEW s \in Slot, SlotBound(s), s.mesh # None, s.kind \in Word, s.inScene,
         layer \notin {"carpet", "cloud"}
  PROVE  Slots!Seen(s) = IF s.fade = None THEN "opaque" ELSE s.alpha
BY Named DEF Slots!Seen, SlotBound, Slot

LEMMA KeepStep ==
  ASSUME NEW b \in Updating, b.slot.fade \in b.live \cup {None}
  PROVE  FadeStep(b.slot, b.live, b.slot, b.live)
<1>1. None \notin b.live
  BY Named DEF Updating
<1>. QED  BY <1>1 DEF FadeStep

LEMMA StepsCompose ==
  ASSUME NEW b \in Updating, NEW c \in Updating, NEW r \in Updating,
         FadeStep(b.slot, b.live, c.slot, c.live), c.slot.fade \in {None, b.slot.fade},
         FadeStep(c.slot, c.live, r.slot, r.live)
  PROVE  FadeStep(b.slot, b.live, r.slot, r.live)
BY Named DEF FadeStep, Updating

LEMMA RibbonEffect ==
  ASSUME layer = "ribbon", theme \in Slots!Theme, NEW b \in Updating, Kept(b.slot), Fade \ b.live # {},
         b.slot.fade \in b.live \cup {None}, NEW m \in Slots!Item(layer)
  PROVE  Meeting(b, m, Slots!Ribbon(b, m))
<1>. DEFINE sig == <<m.kind, m.shape, theme.lengthFade>>
            d == Slots!DropFade(b)
            n == Slots!Built(d, sig, m.kind, m.shape)
            c == IF b.slot.sig = sig THEN b ELSE n
            plain == Slots!Plain(m.age)
            r == Slots!Ribbon(b, m)
<1>1. m.shape \in Slots!SlotShape /\ m.age \in Slots!Age /\ m.kind \in Word
  BY ItemNamed
<1>2. sig \in Word \X Slots!SlotShape \X BOOLEAN /\ sig \in Sig /\ sig # None
  BY <1>1, Named DEF Slots!Theme, Sig
<1>3. sig[1] = m.kind /\ sig[2] = m.shape
  OBVIOUS
<1>. HIDE DEF sig
<1>4. plain \in BOOLEAN /\ (plain => m.age = "fresh")
  BY DEF Slots!Plain
<1>5. r = Slots!Fading(c, plain, c.slot.kind, m.age)
  BY DEF Slots!Ribbon, sig
<1>6. d \in Updating /\ d.live = b.live \ {b.slot.fade} /\ d.slot.fade = None
  BY DropEffect
<1>7. /\ n \in Updating /\ n.live = b.live \ {b.slot.fade} /\ n.slot.fade = None
      /\ n.slot.sig = sig /\ n.slot.kind = m.kind /\ n.slot.mesh = Solid(m.shape)
      /\ n.slot.inScene = (m.shape # Empty)
      /\ n.slot.material = IF m.shape = Empty THEN None ELSE m.kind
  <2>. HIDE DEF d
  <2>. QED  BY <1>1, <1>2, <1>6, BuiltEffect
<1>. HIDE DEF d, n
<1>8. /\ c \in Updating /\ SlotBound(c.slot) /\ c.slot.sig = sig /\ c.slot.kind = m.kind
      /\ c.slot.mesh = Solid(m.shape) /\ c.slot.inScene = (c.slot.mesh # None)
      /\ FadeStep(b.slot, b.live, c.slot, c.live) /\ c.slot.fade \in {None, b.slot.fade}
  <2>1. CASE b.slot.sig = sig
    <3>1. c = b
      BY <2>1
    <3>. HIDE DEF c
    <3>2. SlotBound(b.slot) /\ RibbonKept(b.slot) /\ b.slot.sig # None
      BY <2>1, <1>2 DEF Kept
    <3>3. /\ b.slot.kind = m.kind /\ b.slot.mesh = Solid(m.shape)
          /\ b.slot.inScene <=> b.slot.mesh # None
      BY <2>1, <1>3, <3>2 DEF RibbonKept
    <3>4. b.slot.inScene = (b.slot.mesh # None)
      BY <3>3 DEF Updating, Slot
    <3>. QED  BY <2>1, <3>1, <3>2, <3>3, <3>4, KeepStep
  <2>2. CASE b.slot.sig # sig
    BY <2>2, <1>1, <1>7, Named DEF SlotBound, FadeStep, Solid, Slots!SlotShape
  <2>. QED  BY <2>1, <2>2
<1>. HIDE DEF c
<1>9. c.slot.fade \in c.live \cup {None} /\ Fade \ c.live # {}
  BY <1>8, Named DEF FadeStep, Updating
<1>. DEFINE t == r.slot
<1>10. /\ r \in Updating /\ SlotBound(t)
       /\ t.sig = sig /\ t.kind = m.kind /\ t.mesh = Solid(m.shape)
       /\ t.inScene = (t.mesh # None)
       /\ t.fade = None <=> plain
       /\ t.alpha = IF plain THEN "fresh" ELSE m.age
       /\ FadeStep(c.slot, c.live, t, r.live)
  BY <1>1, <1>4, <1>5, <1>8, <1>9, FadingEffect
<1>. HIDE DEF r
<1>11. FadeStep(b.slot, b.live, t, r.live)
  BY <1>8, <1>10, StepsCompose
<1>12. Kept(t)
  BY <1>2, <1>3, <1>10 DEF Kept, RibbonKept
<1>13. t.mesh = Slots!Mesh(m)
  BY <1>10 DEF Slots!Mesh, Solid
<1>14. t.mesh # None => Slots!Seen(t) = Slots!Wanted(m)
  BY <1>1, <1>4, <1>10, SeenIs DEF Slots!Wanted, Updating
<1>. QED  BY <1>10, <1>11, <1>12, <1>13, <1>14 DEF Meeting, Shows, r

LEMMA AlertEffect ==
  ASSUME layer = "alert", NEW b \in Updating, Kept(b.slot), Fade \ b.live # {},
         b.slot.fade \in b.live \cup {None}, NEW m \in Slots!Item(layer)
  PROVE  Meeting(b, m, Slots!Alert(b, m))
<1>. DEFINE sig == <<m.kind, m.shape>>
            d == Slots!DropFade(b)
            n == Slots!Built(d, sig, m.kind, m.shape)
            c == IF b.slot.sig = sig THEN b ELSE n
            plain == (m.age = "fresh")
            r == Slots!Alert(b, m)
<1>1. m.shape \in Slots!SlotShape /\ m.age \in Slots!Age /\ m.kind \in Word
  BY ItemNamed
<1>2. sig \in Word \X Slots!SlotShape /\ sig \in Sig /\ sig # None
  BY <1>1, Named DEF Sig
<1>3. sig[1] = m.kind /\ sig[2] = m.shape
  OBVIOUS
<1>. HIDE DEF sig
<1>4. plain \in BOOLEAN /\ (plain <=> m.age = "fresh")
  OBVIOUS
<1>5. r = Slots!Fading(c, plain, c.slot.kind, m.age)
  BY DEF Slots!Alert, sig
<1>. HIDE DEF plain
<1>6. d \in Updating /\ d.live = b.live \ {b.slot.fade} /\ d.slot.fade = None
  BY DropEffect
<1>7. /\ n \in Updating /\ n.live = b.live \ {b.slot.fade} /\ n.slot.fade = None
      /\ n.slot.sig = sig /\ n.slot.kind = m.kind /\ n.slot.mesh = Solid(m.shape)
      /\ n.slot.inScene = (m.shape # Empty)
      /\ n.slot.material = IF m.shape = Empty THEN None ELSE m.kind
  <2>. HIDE DEF d
  <2>. QED  BY <1>1, <1>2, <1>6, BuiltEffect
<1>. HIDE DEF d, n
<1>8. /\ c \in Updating /\ SlotBound(c.slot) /\ c.slot.sig = sig /\ c.slot.kind = m.kind
      /\ c.slot.mesh = Solid(m.shape) /\ c.slot.inScene = (c.slot.mesh # None)
      /\ FadeStep(b.slot, b.live, c.slot, c.live) /\ c.slot.fade \in {None, b.slot.fade}
  <2>1. CASE b.slot.sig = sig
    <3>1. c = b
      BY <2>1
    <3>. HIDE DEF c
    <3>2. SlotBound(b.slot) /\ AlertKept(b.slot) /\ b.slot.sig # None
      BY <2>1, <1>2 DEF Kept
    <3>3. /\ b.slot.kind = m.kind /\ b.slot.mesh = Solid(m.shape)
          /\ b.slot.inScene <=> b.slot.mesh # None
      BY <2>1, <1>3, <3>2 DEF AlertKept
    <3>4. b.slot.inScene = (b.slot.mesh # None)
      BY <3>3 DEF Updating, Slot
    <3>. QED  BY <2>1, <3>1, <3>2, <3>3, <3>4, KeepStep
  <2>2. CASE b.slot.sig # sig
    BY <2>2, <1>1, <1>7, Named DEF SlotBound, FadeStep, Solid, Slots!SlotShape
  <2>. QED  BY <2>1, <2>2
<1>. HIDE DEF c
<1>9. c.slot.fade \in c.live \cup {None} /\ Fade \ c.live # {}
  BY <1>8, Named DEF FadeStep, Updating
<1>. DEFINE t == r.slot
<1>10. /\ r \in Updating /\ SlotBound(t)
       /\ t.sig = sig /\ t.kind = m.kind /\ t.mesh = Solid(m.shape)
       /\ t.inScene = (t.mesh # None)
       /\ t.fade = None <=> plain
       /\ t.alpha = IF plain THEN "fresh" ELSE m.age
       /\ FadeStep(c.slot, c.live, t, r.live)
  BY <1>1, <1>4, <1>5, <1>8, <1>9, FadingEffect
<1>. HIDE DEF r
<1>11. FadeStep(b.slot, b.live, t, r.live)
  BY <1>8, <1>10, StepsCompose
<1>12. Kept(t)
  BY <1>2, <1>3, <1>10 DEF Kept, AlertKept
<1>13. t.mesh = Slots!Mesh(m)
  BY <1>10 DEF Slots!Mesh, Solid
<1>14. t.mesh # None => Slots!Seen(t) = Slots!Wanted(m)
  BY <1>1, <1>4, <1>10, SeenIs DEF Slots!Wanted, Updating
<1>. QED  BY <1>10, <1>11, <1>12, <1>13, <1>14 DEF Meeting, Shows, r

LEMMA InSceneEffect ==
  ASSUME NEW b \in Updating, NEW v \in BOOLEAN
  PROVE  LET r == [b EXCEPT !.slot.inScene = v]  t == r.slot IN
         /\ r \in Updating /\ r.live = b.live
         /\ t.sig = b.slot.sig /\ t.kind = b.slot.kind /\ t.mesh = b.slot.mesh
         /\ t.material = b.slot.material /\ t.fade = b.slot.fade /\ t.alpha = b.slot.alpha
         /\ t.inScene = v
<1>. DEFINE r == [b EXCEPT !.slot.inScene = v]
            t == r.slot
<1>1. b.slot \in Slot
  BY DEF Updating
<1>2. r.live = b.live /\ t = [b.slot EXCEPT !.inScene = v]
  BY DEF Updating
<1>3. r \in Updating
  BY DEF Updating, Slot
<1>. HIDE DEF r
<1>. QED  BY <1>1, <1>2, <1>3 DEF Slot, r

LEMMA HeightEffect ==
  ASSUME layer = "height", NEW b \in Updating, Kept(b.slot), Fade \ b.live # {},
         b.slot.fade \in b.live \cup {None}, NEW m \in Slots!Item(layer)
  PROVE  Meeting(b, m, Slots!Height(b, m))
<1>. DEFINE d == Slots!DropFade(b)
            n == Slots!Built(d, m.shape, m.kind, m.shape)
            o == [n EXCEPT !.slot.inScene = FALSE]
            keep == b.slot.mesh # None /\ b.slot.sig = m.shape
            c == IF keep THEN b ELSE o
            plain == (m.age # "fading")
            f == Slots!Fading(c, plain, m.kind, m.age)
            r == Slots!Height(b, m)
            t == r.slot
<1>1. m.shape \in Slots!SlotShape /\ m.age \in Slots!Age /\ m.kind \in Word /\ m.kind = "one"
  BY ItemNamed DEF Slots!Kind
<1>2. plain \in BOOLEAN /\ (~plain <=> m.age = "fading")
  OBVIOUS
<1>. HIDE DEF plain
<1>3. d \in Updating /\ d.live = b.live \ {b.slot.fade} /\ d.slot.fade = None
  BY DropEffect
<1>4. ASSUME m.shape = Empty PROVE Meeting(b, m, r)
  <2>1. r = [d EXCEPT !.slot = Slots!NoSlot]
    BY <1>4 DEF Slots!Height
  <2>. HIDE DEF d
  <2>2. Slots!NoSlot \in Slot
    BY DEF Slots!NoSlot, Slot, Sig, Slots!Age
  <2>3. r \in Updating /\ t = Slots!NoSlot /\ r.live = b.live \ {b.slot.fade}
    BY <1>3, <2>1, <2>2 DEF Updating
  <2>. HIDE DEF r
  <2>4. t.mesh = None /\ t.fade = None
    BY <2>3 DEF Slots!NoSlot
  <2>5. Kept(t) /\ FadeStep(b.slot, b.live, t, r.live)
    BY <2>3, <2>4 DEF Kept, SlotBound, HeightKept, FadeStep
  <2>6. Shows(t, m)
    BY <1>1, <1>4, <2>4 DEF Shows, Slots!Mesh
  <2>. QED  BY <2>3, <2>5, <2>6 DEF Meeting
<1>5. ASSUME m.shape # Empty PROVE Meeting(b, m, r)
  <2>1. r = [f EXCEPT !.slot.inScene = (m.age # "gone")]
    BY <1>5 DEF Slots!Height, plain
  <2>2. m.shape \in Shape /\ Solid(m.shape) = m.shape /\ m.shape # None /\ m.shape \in Sig
    BY <1>1, <1>5, Named DEF Solid, Slots!SlotShape, Sig
  <2>3. /\ n \in Updating /\ n.live = b.live \ {b.slot.fade} /\ n.slot.fade = None
        /\ n.slot.sig = m.shape /\ n.slot.kind = m.kind /\ n.slot.mesh = m.shape
        /\ n.slot.material = m.kind
    <3>. HIDE DEF d
    <3>. QED  BY <1>1, <1>3, <1>5, <2>2, BuiltEffect
  <2>. HIDE DEF d, n
  <2>4. /\ o \in Updating /\ o.live = n.live /\ o.slot.fade = n.slot.fade
        /\ o.slot.sig = n.slot.sig /\ o.slot.kind = n.slot.kind /\ o.slot.mesh = n.slot.mesh
        /\ o.slot.material = n.slot.material
    BY <2>3, InSceneEffect
  <2>. HIDE DEF o
  <2>5. /\ c \in Updating /\ SlotBound(c.slot) /\ c.slot.sig = m.shape /\ c.slot.kind = m.kind
        /\ c.slot.mesh = m.shape
        /\ FadeStep(b.slot, b.live, c.slot, c.live) /\ c.slot.fade \in {None, b.slot.fade}
    <3>1. CASE keep
      <4>1. c = b
        BY <3>1
      <4>. HIDE DEF c
      <4>2. SlotBound(b.slot) /\ HeightKept(b.slot)
        BY DEF Kept
      <4>. QED  BY <1>1, <3>1, <4>1, <4>2, KeepStep DEF HeightKept
    <3>2. CASE ~keep
      <4>1. c = o
        BY <3>2
      <4>. HIDE DEF c
      <4>. QED  BY <4>1, <2>3, <2>4 DEF SlotBound, FadeStep
    <3>. QED  BY <3>1, <3>2
  <2>. HIDE DEF c
  <2>6. c.slot.fade \in c.live \cup {None} /\ Fade \ c.live # {}
    BY <2>5, Named DEF FadeStep, Updating
  <2>7. /\ f \in Updating /\ SlotBound(f.slot)
        /\ f.slot.sig = m.shape /\ f.slot.kind = m.kind /\ f.slot.mesh = m.shape
        /\ f.slot.fade = None <=> plain
        /\ f.slot.alpha = IF plain THEN "fresh" ELSE m.age
        /\ FadeStep(c.slot, c.live, f.slot, f.live)
    <3>1. f = Slots!Fading(c, plain, c.slot.kind, m.age)
      BY <2>5
    <3>. HIDE DEF f
    <3>. QED  BY <1>1, <1>2, <2>5, <2>6, <3>1, FadingEffect
  <2>. HIDE DEF f
  <2>8. /\ r \in Updating /\ r.live = f.live
        /\ t.sig = f.slot.sig /\ t.kind = f.slot.kind /\ t.mesh = f.slot.mesh
        /\ t.material = f.slot.material /\ t.fade = f.slot.fade /\ t.alpha = f.slot.alpha
        /\ t.inScene = (m.age # "gone")
    <3>. DEFINE v == (m.age # "gone")
    <3>1. v \in BOOLEAN /\ r = [f EXCEPT !.slot.inScene = v]
      BY <2>1
    <3>. HIDE DEF v, r
    <3>2. /\ r \in Updating /\ r.live = f.live
          /\ t.sig = f.slot.sig /\ t.kind = f.slot.kind /\ t.mesh = f.slot.mesh
          /\ t.material = f.slot.material /\ t.fade = f.slot.fade /\ t.alpha = f.slot.alpha
          /\ t.inScene = v
      BY <2>7, <3>1, InSceneEffect
    <3>. QED  BY <3>2 DEF v
  <2>. HIDE DEF r
  <2>9. FadeStep(c.slot, c.live, t, r.live)
    BY <2>7, <2>8 DEF FadeStep
  <2>10. FadeStep(b.slot, b.live, t, r.live)
    BY <2>5, <2>8, <2>9, StepsCompose
  <2>11. SlotBound(t)
    BY <2>7, <2>8 DEF SlotBound
  <2>12. Kept(t)
    BY <1>1, <2>7, <2>8, <2>11 DEF Kept, HeightKept
  <2>13. t.mesh = Slots!Mesh(m)
    BY <1>5, <2>7, <2>8 DEF Slots!Mesh
  <2>14. t.mesh # None => Slots!Seen(t) = Slots!Wanted(m)
    <3>1. CASE m.age = "gone"
      BY <2>8, <3>1 DEF Slots!Seen, Slots!Wanted
    <3>2. CASE m.age # "gone"
      <4>1. t.mesh # None /\ t.kind \in Word /\ t.inScene /\ t \in Slot
        BY <1>1, <2>2, <2>7, <2>8, <3>2 DEF Updating
      <4>2. Slots!Seen(t) = IF t.fade = None THEN "opaque" ELSE t.alpha
        BY <2>11, <4>1, SeenIs
      <4>. QED  BY <1>1, <1>2, <2>7, <2>8, <3>2, <4>2 DEF Slots!Wanted, Slots!Age
    <3>. QED  BY <3>1, <3>2
  <2>15. t.mesh # None /\ t.inScene <=> m.shape # Empty /\ m.age # "gone"
    BY <1>5, <2>2, <2>7, <2>8
  <2>. QED  BY <2>7, <2>8, <2>10, <2>12, <2>13, <2>14, <2>15 DEF Meeting, Shows
<1>. QED  BY <1>4, <1>5

LEMMA UnfadedEffect ==
  ASSUME NEW b \in Updating, NEW v \in BOOLEAN
  PROVE  [b EXCEPT !.slot.faded = v] \in Updating
BY DEF Updating, Slot

LEMMA CarpetEffect ==
  ASSUME layer = "carpet", theme \in Slots!Theme, NEW b \in Updating, Kept(b.slot),
         b.slot.fade \in b.live \cup {None}, NEW m \in Slots!Item(layer)
  PROVE  Meeting(b, m, Slots!Carpet(b, m))
<1>. DEFINE sig == <<m.shape, theme.lengthFade>>
            n == Slots!Built(b, sig, "opaque", m.shape)
            r == Slots!Carpet(b, m)
            t == r.slot
<1>1. m.shape \in Slots!SlotShape /\ "opaque" \in Word
  BY ItemNamed DEF Word
<1>2. sig \in Slots!SlotShape \X BOOLEAN /\ sig \in Sig /\ sig # None /\ sig[1] = m.shape
  BY <1>1, Named DEF Slots!Theme, Sig
<1>3. r = IF b.slot.sig = sig THEN b ELSE [n EXCEPT !.slot.faded = FALSE]
  BY DEF Slots!Carpet
<1>. HIDE DEF sig
<1>4. b.slot.fade = None /\ b.slot \in Slot
  BY DEF Kept, CarpetKept, Updating
<1>5. ASSUME b.slot.sig # sig
      PROVE  /\ r \in Updating /\ r.live = b.live /\ t.fade = None
             /\ t.sig = sig /\ t.mesh = Solid(m.shape) /\ t.inScene = (m.shape # Empty)
             /\ t.mesh # None => t.material = "opaque"
             /\ t.faded = FALSE
  <2>1. /\ n \in Updating /\ n.live = b.live /\ n.slot.fade = None
        /\ n.slot.sig = sig /\ n.slot.mesh = Solid(m.shape) /\ n.slot.inScene = (m.shape # Empty)
        /\ n.slot.material = IF m.shape = Empty THEN None ELSE "opaque"
    BY <1>1, <1>2, <1>4, BuiltEffect
  <2>2. n.slot \in Slot /\ (n.slot.mesh # None => n.slot.material = "opaque")
    BY <2>1 DEF Solid, Updating
  <2>. HIDE DEF n
  <2>3. r = [n EXCEPT !.slot.faded = FALSE]
    BY <1>3, <1>5
  <2>4. r.live = n.live /\ t = [n.slot EXCEPT !.faded = FALSE]
    BY <2>1, <2>3 DEF Updating
  <2>. HIDE DEF r
  <2>5. r \in Updating
    BY <2>1, <2>3, UnfadedEffect
  <2>6. /\ t.fade = n.slot.fade /\ t.sig = n.slot.sig /\ t.mesh = n.slot.mesh
        /\ t.inScene = n.slot.inScene /\ t.material = n.slot.material /\ t.faded = FALSE
    BY <2>2, <2>4 DEF Slot
  <2>. QED  BY <2>1, <2>2, <2>4, <2>5, <2>6
<1>6. ASSUME b.slot.sig = sig PROVE r = b
  BY <1>3, <1>6
<1>. HIDE DEF r
<1>7. /\ r \in Updating /\ r.live = b.live /\ t.fade = None /\ CarpetKept(t)
      /\ t.mesh = Solid(m.shape) /\ (t.inScene <=> t.mesh # None)
  <2>1. CASE b.slot.sig = sig
    <3>1. CarpetKept(b.slot)
      BY DEF Kept
    <3>. QED  BY <1>2, <1>6, <2>1, <3>1 DEF CarpetKept
  <2>2. CASE b.slot.sig # sig
    <3>1. t.mesh # None <=> m.shape # Empty
      BY <1>1, <1>5, <2>2, Named DEF Solid, Slots!SlotShape
    <3>. QED  BY <1>2, <1>5, <2>2, <3>1 DEF CarpetKept
  <2>. QED  BY <2>1, <2>2
<1>8. FadeStep(b.slot, b.live, t, r.live)
  BY <1>4, <1>7, Named DEF FadeStep, Updating
<1>9. t.mesh = Slots!Mesh(m)
  BY <1>7 DEF Slots!Mesh, Solid
<1>. QED  BY <1>7, <1>8, <1>9 DEF Meeting, Kept, Shows, r

LEMMA CloudEffect ==
  ASSUME layer = "cloud", NEW b \in Updating, Kept(b.slot),
         b.slot.fade \in b.live \cup {None}, NEW m \in Slots!Item(layer)
  PROVE  Meeting(b, m, Slots!Cloud(b, m))
<1>. DEFINE r == Slots!Cloud(b, m)
            t == r.slot
<1>1. m.shape \in Slots!SlotShape /\ m.kind \in Word /\ m.kind = "one" /\ m.shape \in Sig
  BY ItemNamed DEF Slots!Kind, Sig
<1>2. r = IF b.slot.sig = m.shape THEN b ELSE Slots!Built(b, m.shape, m.kind, m.shape)
  BY DEF Slots!Cloud
<1>3. b.slot.fade = None /\ b.slot \in Slot
  BY DEF Kept, CloudKept, Updating
<1>4. ASSUME b.slot.sig # m.shape
      PROVE  /\ r \in Updating /\ r.live = b.live /\ t.fade = None
             /\ t.sig = m.shape /\ t.mesh = Solid(m.shape) /\ t.inScene = (m.shape # Empty)
             /\ t.material = (IF m.shape = Empty THEN None ELSE m.kind) /\ t.kind = m.kind
  BY <1>1, <1>2, <1>3, <1>4, BuiltEffect
<1>5. ASSUME b.slot.sig = m.shape PROVE r = b
  BY <1>2, <1>5
<1>. HIDE DEF r
<1>6. /\ r \in Updating /\ r.live = b.live /\ t.fade = None /\ CloudKept(t) /\ SlotBound(t)
      /\ t.mesh = Solid(m.shape) /\ (t.inScene <=> t.mesh # None) /\ t.kind = m.kind
  <2>1. CASE b.slot.sig = m.shape
    <3>1. CloudKept(b.slot) /\ SlotBound(b.slot) /\ m.shape # None
      BY <1>1, Named DEF Kept, Slots!SlotShape
    <3>. QED  BY <1>1, <1>5, <2>1, <3>1 DEF CloudKept
  <2>2. CASE b.slot.sig # m.shape
    <3>1. t.mesh # None <=> m.shape # Empty
      BY <1>1, <1>4, <2>2, Named DEF Solid, Slots!SlotShape
    <3>. QED  BY <1>1, <1>4, <2>2, <3>1 DEF CloudKept, SlotBound
  <2>. QED  BY <2>1, <2>2
<1>7. FadeStep(b.slot, b.live, t, r.live)
  BY <1>3, <1>6, Named DEF FadeStep, Updating
<1>8. t.mesh = Slots!Mesh(m)
  BY <1>6 DEF Slots!Mesh, Solid
<1>. QED  BY <1>6, <1>7, <1>8 DEF Meeting, Kept, Shows, r

LEMMA ReleasedEffect ==
  ASSUME NEW b \in Updating
  PROVE  LET r == Slots!Released(b) IN
         /\ r \in Updating /\ r.live = b.live \ {b.slot.fade} /\ r.slot = Slots!NoSlot
<1>1. Slots!NoSlot \in Slot
  BY DEF Slots!NoSlot, Slot, Sig, Slots!Age
<1>. DEFINE d == Slots!DropFade(b)
<1>2. d \in Updating /\ d.live = b.live \ {b.slot.fade}
  BY DropEffect
<1>3. Slots!Released(b) = [d EXCEPT !.slot = Slots!NoSlot]
  BY DEF Slots!Released
<1>. HIDE DEF d
<1>. QED  BY <1>1, <1>2, <1>3 DEF Updating

\* The geometry of a marker of the slot's own kind.
LEMMA GeometryEffect ==
  ASSUME layer = "marker", NEW b \in Updating, NEW m \in Slots!Item(layer), m.kind # "unknown",
         b.slot.kind = m.kind, MarkerKept(b.slot)
  PROVE  LET g == Slots!MarkerGeometry(b, m)  t == g.slot IN
         /\ g \in Updating /\ g.live = b.live /\ t.fade = b.slot.fade
         /\ t.kind = m.kind /\ t.mesh = Slots!Mesh(m) /\ (t.inScene <=> t.mesh # None)
         /\ MarkerKept(t)
<1>. DEFINE g == Slots!MarkerGeometry(b, m)
            t == g.slot
<1>1. m.shape \in Slots!SlotShape /\ m.kind \in Word /\ m.kind \in {"CUBE", "LINE_STRIP", "MESH"}
  BY ItemNamed DEF Slots!Kind
<1>2. /\ None \in Sig /\ m.shape \in Sig /\ m.shape # None /\ m.shape \in Slots!SlotShape
      /\ "CUBE" # None /\ "box" # None /\ "CUBE" # Empty /\ "box" # Empty
      /\ (m.shape \in Loadable => m.shape # Empty)
  BY <1>1, Named DEF Sig, Slots!SlotShape, Word
<1>3. b.slot \in Slot
  BY DEF Updating
<1>4. CASE m.kind = "CUBE"
  <2>1. CASE b.slot.mesh # None
    <3>1. g = b /\ Slots!Mesh(m) = "CUBE"
      BY <1>4, <2>1 DEF Slots!MarkerGeometry, Slots!Mesh
    <3>. QED  BY <1>2, <1>4, <2>1, <3>1 DEF MarkerKept
  <2>2. CASE b.slot.mesh = None
    <3>1. g = Slots!Built(b, None, m.kind, m.kind) /\ Slots!Mesh(m) = "CUBE"
      BY <1>4, <2>2 DEF Slots!MarkerGeometry, Slots!Mesh
    <3>2. /\ g \in Updating /\ g.live = b.live
          /\ t.sig = None /\ t.kind = m.kind /\ t.mesh = Solid(m.kind) /\ t.inScene = (m.kind # Empty)
          /\ t.fade = b.slot.fade
      BY <1>1, <1>2, <1>4, <3>1, BuiltEffect
    <3>. HIDE DEF g
    <3>3. t.mesh = "CUBE" /\ t.inScene
      BY <1>2, <1>4, <3>2 DEF Solid
    <3>. QED  BY <1>2, <1>4, <3>1, <3>2, <3>3 DEF MarkerKept, g
  <2>. QED  BY <2>1, <2>2
<1>5. CASE m.kind = "LINE_STRIP"
  <2>1. Slots!Mesh(m) = Solid(m.shape)
    BY <1>5 DEF Slots!Mesh, Solid
  <2>2. CASE b.slot.sig = m.shape
    <3>1. g = b
      BY <1>5, <2>2 DEF Slots!MarkerGeometry
    <3>. QED  BY <1>2, <1>5, <2>1, <2>2, <3>1 DEF MarkerKept
  <2>3. CASE b.slot.sig # m.shape
    <3>1. g = Slots!Built(b, m.shape, m.kind, m.shape)
      BY <1>5, <2>3 DEF Slots!MarkerGeometry
    <3>2. /\ g \in Updating /\ g.live = b.live
          /\ t.sig = m.shape /\ t.kind = m.kind /\ t.mesh = Solid(m.shape)
          /\ t.inScene = (m.shape # Empty) /\ t.fade = b.slot.fade
      BY <1>1, <1>2, <3>1, BuiltEffect
    <3>. HIDE DEF g
    <3>3. t.inScene <=> t.mesh # None
      BY <1>2, <3>2 DEF Solid
    <3>. QED  BY <1>2, <1>5, <2>1, <3>2, <3>3 DEF MarkerKept, g
  <2>. QED  BY <2>2, <2>3
<1>6. CASE m.kind = "MESH"
  <2>. DEFINE file == IF m.shape \in Loadable THEN m.shape ELSE "box"
  <2>1. Slots!Mesh(m) = file
    BY <1>6 DEF Slots!Mesh
  <2>2. file \in Slots!SlotShape \cup {"CUBE", "box"} /\ Solid(file) = file /\ file # None /\ file # Empty
    BY <1>2, Named DEF Solid, Slots!SlotShape
  <2>3. CASE b.slot.sig = m.shape /\ b.slot.mesh # None
    <3>1. g = b
      BY <1>6, <2>3 DEF Slots!MarkerGeometry
    <3>. QED  BY <1>2, <1>6, <2>1, <2>3, <3>1 DEF MarkerKept
  <2>4. CASE ~(b.slot.sig = m.shape /\ b.slot.mesh # None)
    <3>1. g = Slots!Built(b, m.shape, m.kind, file)
      BY <1>6, <2>4 DEF Slots!MarkerGeometry
    <3>2. /\ g \in Updating /\ g.live = b.live
          /\ t.sig = m.shape /\ t.kind = m.kind /\ t.mesh = Solid(file)
          /\ t.inScene = (file # Empty) /\ t.fade = b.slot.fade
      <4>. HIDE DEF file, g
      <4>. QED  BY <1>1, <1>2, <2>2, <3>1, BuiltEffect
    <3>. HIDE DEF g
    <3>3. t.inScene /\ t.mesh = file /\ t.mesh # None
      BY <2>2, <3>2
    <3>. QED  BY <1>2, <1>6, <2>1, <3>2, <3>3 DEF MarkerKept, g
  <2>. QED  BY <2>3, <2>4
<1>. QED  BY <1>1, <1>4, <1>5, <1>6

\* The material of a marker, bound again in every frame.
LEMMA MarkerMaterialEffect ==
  ASSUME NEW b \in Updating, Fade \ b.live # {}, b.slot.fade \in b.live \cup {None},
         NEW m \in Slots!Item(layer), b.slot.kind = m.kind
  PROVE  LET r == Slots!MarkerMaterial(b, m)  t == r.slot IN
         /\ r \in Updating /\ SlotBound(t)
         /\ t.sig = b.slot.sig /\ t.kind = b.slot.kind /\ t.mesh = b.slot.mesh
         /\ t.inScene = b.slot.inScene
         /\ t.fade = None <=> m.age = "fresh"
         /\ t.alpha = m.age
         /\ FadeStep(b.slot, b.live, t, r.live)
<1>. DEFINE r == Slots!MarkerMaterial(b, m)
            t == r.slot
            f == IF b.slot.fade = None THEN Slots!NewFade(b) ELSE b.slot.fade
<1>1. m.kind \in Word /\ m.age \in Slots!Age
  BY ItemNamed
<1>2. b.slot \in Slot /\ b.live \subseteq Fade /\ None \notin b.live
  BY Named DEF Updating
<1>3. f \in Fade /\ f # None /\ (b.slot.fade = None => f \notin b.live)
      /\ (b.slot.fade # None => f = b.slot.fade /\ f \in b.live)
  BY <1>2, Named DEF Slots!NewFade, Slot
<1>. HIDE DEF f
<1>4. CASE m.age = "fresh"
  <2>. DEFINE d == Slots!DropFade(b)
              k == Slots!Bind(d, m.kind)
  <2>1. r = [k EXCEPT !.slot.alpha = "fresh"]
    BY <1>4 DEF Slots!MarkerMaterial
  <2>2. /\ d \in Updating /\ d.live = b.live \ {b.slot.fade} /\ d.slot.fade = None
        /\ d.slot.sig = b.slot.sig /\ d.slot.kind = b.slot.kind /\ d.slot.mesh = b.slot.mesh
        /\ d.slot.inScene = b.slot.inScene
    BY DropEffect
  <2>. HIDE DEF d
  <2>3. /\ k \in Updating /\ k.live = d.live
        /\ k.slot.sig = d.slot.sig /\ k.slot.kind = d.slot.kind /\ k.slot.mesh = d.slot.mesh
        /\ k.slot.fade = d.slot.fade /\ k.slot.inScene = d.slot.inScene
        /\ k.slot.mesh # None => k.slot.material = m.kind
    BY <1>1, <2>2, BindEffect
  <2>. HIDE DEF k
  <2>4. r.live = k.live /\ t = [k.slot EXCEPT !.alpha = "fresh"] /\ k.slot \in Slot
    BY <2>1, <2>3 DEF Updating
  <2>5. r \in Updating
    BY <2>1, <2>3 DEF Updating, Slot, Slots!Age
  <2>. HIDE DEF r
  <2>6. /\ t.sig = k.slot.sig /\ t.kind = k.slot.kind /\ t.mesh = k.slot.mesh
        /\ t.inScene = k.slot.inScene /\ t.fade = k.slot.fade /\ t.material = k.slot.material
        /\ t.alpha = "fresh"
    BY <2>4 DEF Slot
  <2>7. SlotBound(t) /\ FadeStep(b.slot, b.live, t, r.live)
    BY <2>2, <2>3, <2>4, <2>6 DEF SlotBound, FadeStep
  <2>. QED  BY <1>4, <2>2, <2>3, <2>5, <2>6, <2>7 DEF r
<1>5. CASE m.age # "fresh"
  <2>. DEFINE k == Slots!Bind(b, f)
  <2>1. r = Lend(k, f, m.age)
    BY <1>5 DEF Slots!MarkerMaterial, Lend, f
  <2>2. /\ k \in Updating /\ k.live = b.live
        /\ k.slot.sig = b.slot.sig /\ k.slot.kind = b.slot.kind /\ k.slot.mesh = b.slot.mesh
        /\ k.slot.fade = b.slot.fade /\ k.slot.inScene = b.slot.inScene
        /\ k.slot.mesh # None => k.slot.material = f
    BY <1>3, BindEffect
  <2>. HIDE DEF k, r
  <2>3. /\ r \in Updating /\ r.live = k.live \cup {f}
        /\ t.sig = k.slot.sig /\ t.kind = k.slot.kind /\ t.mesh = k.slot.mesh
        /\ t.inScene = k.slot.inScene
        /\ t.fade = f /\ t.material = k.slot.material /\ t.alpha = m.age
    BY <1>1, <1>3, <2>1, <2>2, LentEffect
  <2>4. SlotBound(t) /\ FadeStep(b.slot, b.live, t, r.live)
    BY <1>2, <1>3, <2>2, <2>3 DEF SlotBound, FadeStep
  <2>. QED  BY <1>3, <1>5, <2>2, <2>3, <2>4 DEF r
<1>. QED  BY <1>4, <1>5

LEMMA MarkerEffect ==
  ASSUME layer = "marker", NEW b \in Updating, Kept(b.slot), Fade \ b.live # {},
         b.slot.fade \in b.live \cup {None}, NEW m \in Slots!Item(layer)
  PROVE  Meeting(b, m, Slots!Marker(b, m))
<1>1. m.kind \in Word /\ m.age \in Slots!Age /\ m.kind # None
  BY ItemNamed, Named
<1>2. b.slot \in Slot /\ b.live \subseteq Fade /\ None \notin b.live
  BY Named DEF Updating
<1>. DEFINE p == Slots!Released(b)
<1>3. p \in Updating /\ p.live = b.live \ {b.slot.fade} /\ p.slot = Slots!NoSlot
  BY ReleasedEffect
<1>4. Slots!NoSlot.fade = None /\ Slots!NoSlot.mesh = None /\ Slots!NoSlot.sig = None
      /\ Slots!NoSlot.kind = None
  BY DEF Slots!NoSlot
<1>5. FadeStep(b.slot, b.live, p.slot, p.live)
  BY <1>3, <1>4 DEF FadeStep
<1>6. CASE m.kind = "unknown"
  <2>1. Slots!Marker(b, m) = p
    BY <1>6 DEF Slots!Marker
  <2>. HIDE DEF p
  <2>2. Kept(p.slot)
    BY <1>3, <1>4, <1>1 DEF Kept, SlotBound, MarkerKept
  <2>3. Shows(p.slot, m)
    BY <1>3, <1>4, <1>6 DEF Shows, Slots!Mesh
  <2>. QED  BY <1>3, <1>5, <2>1, <2>2, <2>3 DEF Meeting
<1>7. CASE m.kind # "unknown"
  <2>. DEFINE q == [p EXCEPT !.slot.kind = m.kind]
              c == IF b.slot.kind = m.kind THEN b ELSE q
              g == Slots!MarkerGeometry(c, m)
              r == Slots!Marker(b, m)
              t == r.slot
  <2>1. r = Slots!MarkerMaterial(g, m)
    BY <1>7 DEF Slots!Marker
  <2>. HIDE DEF p
  <2>2. /\ q \in Updating /\ q.live = p.live /\ q.slot.kind = m.kind
        /\ q.slot.fade = None /\ q.slot.mesh = None /\ q.slot.sig = None
    <3>1. q.live = p.live /\ q.slot = [Slots!NoSlot EXCEPT !.kind = m.kind]
      BY <1>3 DEF Updating
    <3>2. q \in Updating
      BY <1>1, <1>3 DEF Updating, Slot
    <3>. HIDE DEF q
    <3>. QED  BY <3>1, <3>2 DEF Slots!NoSlot
  <2>. HIDE DEF q
  <2>3. /\ c \in Updating /\ c.slot.kind = m.kind /\ MarkerKept(c.slot)
        /\ FadeStep(b.slot, b.live, c.slot, c.live) /\ c.slot.fade \in {None, b.slot.fade}
    <3>1. CASE b.slot.kind = m.kind
      <4>1. c = b
        BY <3>1
      <4>. HIDE DEF c
      <4>. QED  BY <3>1, <4>1, KeepStep DEF Kept
    <3>2. CASE b.slot.kind # m.kind
      <4>1. c = q
        BY <3>2
      <4>. HIDE DEF c
      <4>2. MarkerKept(q.slot)
        BY <2>2 DEF MarkerKept
      <4>. QED  BY <1>3, <2>2, <4>1, <4>2 DEF FadeStep
    <3>. QED  BY <3>1, <3>2
  <2>. HIDE DEF c
  <2>4. /\ g \in Updating /\ g.live = c.live /\ g.slot.fade = c.slot.fade
        /\ g.slot.kind = m.kind /\ g.slot.mesh = Slots!Mesh(m)
        /\ (g.slot.inScene <=> g.slot.mesh # None) /\ MarkerKept(g.slot)
    BY <1>7, <2>3, GeometryEffect
  <2>. HIDE DEF g
  <2>5. g.slot.fade \in g.live \cup {None} /\ Fade \ g.live # {}
        /\ FadeStep(b.slot, b.live, g.slot, g.live)
    BY <1>2, <2>3, <2>4, Named DEF FadeStep
  <2>6. /\ r \in Updating /\ SlotBound(t)
        /\ t.sig = g.slot.sig /\ t.kind = g.slot.kind /\ t.mesh = g.slot.mesh
        /\ t.inScene = g.slot.inScene
        /\ t.fade = None <=> m.age = "fresh"
        /\ t.alpha = m.age
        /\ FadeStep(g.slot, g.live, t, r.live)
    BY <2>1, <2>4, <2>5, MarkerMaterialEffect
  <2>. HIDE DEF r
  <2>7. FadeStep(b.slot, b.live, t, r.live)
    BY <2>3, <2>4, <2>5, <2>6, StepsCompose
  <2>8. MarkerKept(t)
    BY <2>4, <2>6 DEF MarkerKept
  <2>9. t.mesh # None => Slots!Seen(t) = Slots!Wanted(m)
    <3>. SUFFICES ASSUME t.mesh # None PROVE Slots!Seen(t) = Slots!Wanted(m)
      OBVIOUS
    <3>1. t \in Slot /\ t.kind \in Word /\ t.inScene
      BY <1>1, <2>4, <2>6 DEF Updating
    <3>2. Slots!Seen(t) = IF t.fade = None THEN "opaque" ELSE t.alpha
      BY <2>6, <3>1, SeenIs
    <3>. QED  BY <2>6, <3>2 DEF Slots!Wanted
  <2>. QED  BY <2>4, <2>6, <2>7, <2>8, <2>9 DEF Meeting, Kept, Shows, r
<1>. QED  BY <1>6, <1>7

LEMMA NoSlotIs ==
  /\ Slots!NoSlot \in Slot /\ Kept(Slots!NoSlot)
  /\ Slots!NoSlot.fade = None /\ Slots!NoSlot.mesh = None /\ Slots!NoSlot.inScene = FALSE
<1>1. Slots!NoSlot \in Slot
  BY DEF Slots!NoSlot, Slot, Sig, Slots!Age
<1>2. /\ Slots!NoSlot.fade = None /\ Slots!NoSlot.mesh = None /\ Slots!NoSlot.inScene = FALSE
      /\ Slots!NoSlot.sig = None /\ Slots!NoSlot.kind = None
  BY DEF Slots!NoSlot
<1>3. None \notin Word /\ "CUBE" \in Word /\ "LINE_STRIP" \in Word /\ "MESH" \in Word
  BY Named DEF Word
<1>4. Kept(Slots!NoSlot)
  BY <1>2, <1>3 DEF Kept, SlotBound, RibbonKept, AlertKept, HeightKept, MarkerKept, CarpetKept, CloudKept
<1>. QED  BY <1>1, <1>2, <1>4

LEMMA SlotsInitInv == Slots!Init => SlotsInv
<1>. SUFFICES ASSUME Slots!Init PROVE SlotsInv
  OBVIOUS
<1>1. /\ layer \in {"ribbon", "alert", "height", "marker", "carpet", "cloud"}
      /\ theme \in Slots!Theme /\ MaxSlots \in Nat \ {0}
      /\ slots = [i \in 1..MaxSlots |-> Slots!NoSlot] /\ slotLive = {}
      /\ scene = [i \in 1..MaxSlots |-> None]
      /\ count = 0 /\ at = 1 /\ hole = FALSE /\ busy = FALSE
  BY LayerConstants DEF Slots!Init
<1>2. \A i \in 1..MaxSlots : slots[i] = Slots!NoSlot
  BY <1>1
<1>3. \A i \in 1..MaxSlots : Kept(slots[i]) /\ ~ \E f \in Fade : SlotHas(i, f)
  BY <1>2, NoSlotIs, Named DEF SlotHas
<1>4. ~Slots!GroundHole
  BY <1>1 DEF Slots!GroundHole
<1>5. 1..count = {} /\ 1..(at - 1) = {} /\ count \in 0..MaxSlots /\ at \in 1..(count + 1) /\ at = count + 1
  BY <1>1
<1>6. /\ slots \in [1..MaxSlots -> Slot]
      /\ scene \in [1..MaxSlots -> Slots!Item(layer) \cup {None}]
  BY <1>1, NoSlotIs
<1>. QED  BY <1>1, <1>2, <1>3, <1>4, <1>5, <1>6 DEF SlotsInv

LEMMA SlotsInvMeans == SlotsInv => Slots!SlotMaterial /\ Slots!DrawsTheScene
<1>. SUFFICES ASSUME SlotsInv PROVE Slots!SlotMaterial /\ Slots!DrawsTheScene
  OBVIOUS
<1>1. /\ MaxSlots \in Nat \ {0} /\ count \in 0..MaxSlots
      /\ \A i \in 1..MaxSlots : slots[i] \in Slot /\ slots[i].fade \in Fade \cup {None} /\ Kept(slots[i])
  BY LayerConstants DEF SlotsInv, Slot
<1>2. Slots!SlotMaterial
  <2>1. \A i \in 1..MaxSlots : slots[i].mesh # None /\ layer # "carpet" =>
          slots[i].material = IF slots[i].fade = None THEN slots[i].kind ELSE slots[i].fade
    BY <1>1 DEF Kept, SlotBound
  <2>2. slotLive = {slots[i].fade : i \in 1..MaxSlots} \ {None}
    <3>1. /\ \A i \in 1..MaxSlots : slots[i].fade \in Fade \cup {None}
          /\ slotLive \subseteq Fade /\ None \notin Fade
          /\ \A f \in Fade : f \in slotLive <=> \E i \in 1..MaxSlots : slots[i].fade = f
      BY <1>1, Named DEF SlotsInv, SlotHas
    <3>. QED  BY ONLY <3>1
  <2>3. \A i, j \in 1..MaxSlots :
          slots[i].fade = slots[j].fade /\ i # j => slots[i].fade = None
    <3>1. \A i, j \in 1..MaxSlots, f \in Fade : slots[i].fade = f /\ slots[j].fade = f => i = j
      BY DEF SlotsInv, SlotHas
    <3>2. \A i \in 1..MaxSlots : slots[i].fade \in Fade \cup {None}
      BY <1>1
    <3>. QED  BY ONLY <3>1, <3>2
  <2>. QED  BY <2>1, <2>2, <2>3 DEF Slots!SlotMaterial
<1>3. ASSUME ~busy PROVE /\ \A i \in Slots!Present :
                              LET s == slots[i] m == scene[i] IN
                              /\ s.mesh = Slots!Mesh(m)
                              /\ s.mesh # None => Slots!Seen(s) = Slots!Wanted(m)
                              /\ s.mesh # None /\ layer # "carpet" => s.kind = m.kind
                         /\ hole <=> layer = "height" /\ slots[1].mesh # None /\ slots[1].inScene
  <2>1. \A i \in 1..count : scene[i] \in Slots!Item(layer) /\ Shows(slots[i], scene[i])
    BY <1>1, <1>3 DEF SlotsInv
  <2>2. ASSUME NEW i \in Slots!Present
        PROVE  LET s == slots[i] m == scene[i] IN
               /\ s.mesh = Slots!Mesh(m)
               /\ s.mesh # None => Slots!Seen(s) = Slots!Wanted(m)
               /\ s.mesh # None /\ layer # "carpet" => s.kind = m.kind
    <3>1. i \in 1..count
      BY <1>1 DEF Slots!Present
    <3>2. layer \in {"carpet", "cloud"} =>
            (slots[i].mesh # None => Slots!Seen(slots[i]) = Slots!Wanted(scene[i]))
      BY <1>3, <3>1 DEF SlotsInv
    <3>3. Shows(slots[i], scene[i])
      BY <2>1, <3>1
    <3>. QED  BY <3>2, <3>3 DEF Shows
  <2>3. hole <=> layer = "height" /\ slots[1].mesh # None /\ slots[1].inScene
    <3>1. hole <=> Slots!GroundHole
      BY <1>3 DEF SlotsInv
    <3>2. CASE count = 0
      <4>1. slots[1] = Slots!NoSlot
        BY <1>1, <3>2 DEF SlotsInv
      <4>. QED  BY <3>1, <3>2, <4>1, NoSlotIs DEF Slots!GroundHole
    <3>3. CASE count > 0
      <4>1. Shows(slots[1], scene[1])
        BY <1>1, <2>1, <3>3
      <4>. QED  BY <3>1, <3>3, <4>1 DEF Slots!GroundHole, Shows
    <3>. QED  BY <1>1, <3>2, <3>3
  <2>. QED  BY <2>2, <2>3
<1>4. Slots!DrawsTheScene
  BY <1>3 DEF Slots!DrawsTheScene
<1>. QED  BY <1>2, <1>4

LEMMA BeginSlotsInv ==
  ASSUME SlotsInv, NEW n \in 0..MaxSlots, NEW t \in Slots!Theme, Slots!BeginFrame(n, t)
  PROVE  SlotsInv'
<1>1. /\ theme' = t /\ slots' = [i \in 1..MaxSlots |-> IF i > n THEN Slots!NoSlot ELSE slots[i]]
      /\ slotLive' = slotLive \ {slots[i].fade : i \in n+1..MaxSlots}
      /\ scene' = [i \in 1..MaxSlots |-> None]
      /\ count' = n /\ at' = 1 /\ busy' = TRUE /\ layer' = layer /\ hole' = hole
  BY DEF Slots!BeginFrame
<1>2. MaxSlots \in Nat \ {0} /\ n \in Nat
  BY LayerConstants
<1>3. slots' \in [1..MaxSlots -> Slot] /\ \A i \in 1..MaxSlots : slots'[i] = IF i > n THEN Slots!NoSlot ELSE slots[i]
  BY <1>1, NoSlotIs DEF SlotsInv
<1>4. \A i \in 1..MaxSlots : Kept(slots[i])' /\ (i > n => slots'[i] = Slots!NoSlot)
  <2>1. \A x : Kept(x)' <=> Kept(x)
    BY <1>1 DEF Kept, SlotBound, RibbonKept, AlertKept, HeightKept, MarkerKept, CarpetKept, CloudKept
  <2>2. \A i \in 1..MaxSlots : Kept(slots'[i])
    BY <1>3, NoSlotIs DEF SlotsInv
  <2>. QED  BY <1>3, <2>1, <2>2
<1>5. \A i \in 1..MaxSlots, f \in Fade : SlotHas(i, f)' <=> i <= n /\ SlotHas(i, f)
  BY <1>2, <1>3, NoSlotIs, Named DEF SlotHas
<1>6. slotLive' \subseteq Fade
      /\ \A f \in Fade : f \in slotLive' <=> \E i \in 1..MaxSlots : SlotHas(i, f)'
  <2>1. \A f \in Fade : f \in slotLive' <=>
          f \in slotLive /\ ~ \E i \in n+1..MaxSlots : SlotHas(i, f)
    BY <1>1 DEF SlotHas
  <2>2. \A f \in Fade : f \in slotLive <=> \E i \in 1..MaxSlots : SlotHas(i, f)
    BY DEF SlotsInv
  <2>3. \A i, j \in 1..MaxSlots, f \in Fade : SlotHas(i, f) /\ SlotHas(j, f) => i = j
    BY DEF SlotsInv
  <2>4. ASSUME NEW f \in Fade PROVE f \in slotLive' <=> \E i \in 1..MaxSlots : SlotHas(i, f)'
    <3>1. /\ \A i \in 1..MaxSlots : SlotHas(i, f)' <=> i <= n /\ SlotHas(i, f)
          /\ f \in slotLive' <=> f \in slotLive /\ ~ \E i \in n+1..MaxSlots : SlotHas(i, f)
          /\ f \in slotLive <=> \E i \in 1..MaxSlots : SlotHas(i, f)
          /\ \A i, j \in 1..MaxSlots : SlotHas(i, f) /\ SlotHas(j, f) => i = j
      BY <1>5, <2>1, <2>2, <2>3
    <3>. QED  BY ONLY <1>2, <3>1
  <2>5. slotLive' \subseteq Fade
    BY <1>1 DEF SlotsInv
  <2>. QED  BY <2>4, <2>5
<1>7. \A i, j \in 1..MaxSlots, f \in Fade : SlotHas(i, f)' /\ SlotHas(j, f)' => i = j
  BY <1>5 DEF SlotsInv
<1>8. scene' \in [1..MaxSlots -> Slots!Item(layer) \cup {None}]
  BY <1>1
<1>9. 1..(at' - 1) = {}
  BY <1>1
<1>10. /\ layer' \in {"ribbon", "alert", "height", "marker", "carpet", "cloud"}
       /\ theme' \in Slots!Theme /\ busy' \in BOOLEAN /\ hole' \in BOOLEAN
       /\ count' \in 0..MaxSlots /\ at' \in 1..(count' + 1) /\ (~busy' => at' = count' + 1)
  BY <1>1, <1>2 DEF SlotsInv
<1>. QED  BY <1>1, <1>3, <1>4, <1>6, <1>7, <1>8, <1>9, <1>10 DEF SlotsInv

\* What is said of a slot depends on the layer and the theme only.
LEMMA ShowsStays ==
  ASSUME layer \in {"ribbon", "alert", "height", "marker", "carpet", "cloud"},
         layer' = layer, theme' = theme
  PROVE  (\A s : Kept(s)' <=> Kept(s)) /\ (\A s, m : Shows(s, m)' <=> Shows(s, m))
<1>1. \A s : Kept(s)' <=> Kept(s)
  BY DEF Kept, SlotBound, RibbonKept, AlertKept, HeightKept, MarkerKept, CarpetKept, CloudKept
<1>2. \A m : Slots!Mesh(m)' = Slots!Mesh(m)
  BY DEF Slots!Mesh
<1>3. \A s : Slots!Seen(s)' = Slots!Seen(s)
  BY DEF Slots!Seen
<1>4. layer \notin {"carpet", "cloud"} => \A m : Slots!Wanted(m)' = Slots!Wanted(m)
  <2>1. \A a : Slots!Plain(a)' <=> Slots!Plain(a)
    BY DEF Slots!Plain
  <2>. QED  BY <2>1 DEF Slots!Wanted
<1>5. \A s, m : Shows(s, m)' <=> Shows(s, m)
  BY <1>2, <1>3, <1>4 DEF Shows
<1>. QED  BY <1>1, <1>5

LEMMA UpdateSlotInv ==
  ASSUME SlotsInv, NEW m \in Slots!Item(layer), Slots!UpdateSlot(m)
  PROVE  SlotsInv'
<1>. DEFINE b == Slots!State
            r == Slots!Meets(m)
<1>1. /\ busy /\ at <= count /\ Fade \ slotLive # {}
      /\ slots' = [slots EXCEPT ![at] = r.slot] /\ slotLive' = r.live
      /\ scene' = [scene EXCEPT ![at] = m] /\ at' = at + 1
      /\ layer' = layer /\ theme' = theme /\ count' = count /\ hole' = hole /\ busy' = busy
  BY DEF Slots!UpdateSlot
<1>2. /\ at \in 1..MaxSlots /\ at \in Nat /\ count \in 0..MaxSlots /\ MaxSlots \in Nat
      /\ slots[at] \in Slot /\ Kept(slots[at]) /\ slotLive \in SUBSET Fade /\ theme \in Slots!Theme
  BY <1>1, LayerConstants DEF SlotsInv
<1>3. b \in Updating /\ b.slot = slots[at] /\ b.live = slotLive
  BY <1>2 DEF Slots!State, Updating
<1>4. b.slot.fade \in b.live \cup {None}
  BY <1>2, <1>3 DEF SlotsInv, SlotHas, Slot
<1>. HIDE DEF b
<1>5. Meeting(b, m, r)
  <2>1. Kept(b.slot) /\ Fade \ b.live # {}
    BY <1>1, <1>2, <1>3
  <2>2. CASE layer = "ribbon"
    BY <1>2, <1>3, <1>4, <2>1, <2>2, RibbonEffect DEF Slots!Meets, b
  <2>3. CASE layer = "alert"
    BY <1>3, <1>4, <2>1, <2>3, AlertEffect DEF Slots!Meets, b
  <2>4. CASE layer = "height"
    BY <1>3, <1>4, <2>1, <2>4, HeightEffect DEF Slots!Meets, b
  <2>5. CASE layer = "marker"
    BY <1>3, <1>4, <2>1, <2>5, MarkerEffect DEF Slots!Meets, b
  <2>6. CASE layer = "carpet"
    BY <1>2, <1>3, <1>4, <2>1, <2>6, CarpetEffect DEF Slots!Meets, b
  <2>7. CASE layer = "cloud"
    BY <1>3, <1>4, <2>1, <2>7, CloudEffect DEF Slots!Meets, b
  <2>. QED  BY <2>2, <2>3, <2>4, <2>5, <2>6, <2>7 DEF SlotsInv
<1>. HIDE DEF r
<1>. DEFINE t == r.slot
<1>6. t \in Slot /\ Kept(t) /\ Shows(t, m) /\ r.live \subseteq Fade
      /\ FadeStep(slots[at], slotLive, t, slotLive')
  BY <1>1, <1>3, <1>5 DEF Meeting, Updating
<1>7. slots' \in [1..MaxSlots -> Slot] /\ \A i \in 1..MaxSlots : slots'[i] = IF i = at THEN t ELSE slots[i]
  <2>1. slots \in [1..MaxSlots -> Slot]
    BY DEF SlotsInv
  <2>. QED  BY <1>1, <1>2, <1>6, <2>1
<1>8. /\ scene' \in [1..MaxSlots -> Slots!Item(layer) \cup {None}]
      /\ \A i \in 1..MaxSlots : scene'[i] = IF i = at THEN m ELSE scene[i]
  <2>1. scene \in [1..MaxSlots -> Slots!Item(layer) \cup {None}]
    BY DEF SlotsInv
  <2>. QED  BY <1>1, <1>2, <2>1
<1>9. /\ layer \in {"ribbon", "alert", "height", "marker", "carpet", "cloud"}
      /\ \A x : Kept(x)' <=> Kept(x)
      /\ \A x, y : Shows(x, y)' <=> Shows(x, y)
  <2>1. layer \in {"ribbon", "alert", "height", "marker", "carpet", "cloud"}
    BY DEF SlotsInv
  <2>. QED  BY <1>1, <2>1, ShowsStays
<1>10. \A i \in 1..MaxSlots : Kept(slots[i])' /\ (i > count' => slots'[i] = Slots!NoSlot)
  <2>1. \A i \in 1..MaxSlots : Kept(slots'[i]) /\ (i > count' => slots'[i] = Slots!NoSlot)
    BY <1>1, <1>2, <1>6, <1>7 DEF SlotsInv
  <2>. QED  BY <1>9, <2>1
<1>11. \A i \in 1..(at' - 1) : scene'[i] \in Slots!Item(layer) /\ Shows(slots[i], scene[i])'
  <2>1. ASSUME NEW i \in 1..(at' - 1) PROVE scene'[i] \in Slots!Item(layer) /\ Shows(slots'[i], scene'[i])
    <3>1. CASE i = at
      BY <1>2, <1>6, <1>7, <1>8, <3>1
    <3>2. CASE i # at
      <4>1. i \in 1..(at - 1) /\ i \in 1..MaxSlots
        BY <1>1, <1>2, <3>2
      <4>2. scene[i] \in Slots!Item(layer) /\ Shows(slots[i], scene[i])
        BY <4>1 DEF SlotsInv
      <4>. QED  BY <1>7, <1>8, <3>2, <4>1, <4>2
    <3>. QED  BY <3>1, <3>2
  <2>. QED  BY <1>9, <2>1
<1>12. \A i \in 1..MaxSlots, f \in Fade : SlotHas(i, f)' <=> IF i = at THEN t.fade = f ELSE SlotHas(i, f)
  BY <1>7 DEF SlotHas
<1>13. /\ \A f \in Fade : f \in slotLive <=> \E i \in 1..MaxSlots : SlotHas(i, f)
       /\ \A i, j \in 1..MaxSlots, f \in Fade : SlotHas(i, f) /\ SlotHas(j, f) => i = j
       /\ \A f \in Fade : SlotHas(at, f) <=> slots[at].fade = f
  BY DEF SlotsInv, SlotHas
<1>14. /\ t.fade \in {None, slots[at].fade} \cup (Fade \ slotLive)
       /\ \A f \in Fade : f \in slotLive' <=> (f \in slotLive /\ f # slots[at].fade) \/ f = t.fade
  BY <1>6, Named DEF FadeStep
<1>15. \A f \in Fade : f \in slotLive' <=> \E i \in 1..MaxSlots : SlotHas(i, f)'
  BY ONLY <1>2, <1>12, <1>13, <1>14
<1>16. \A i, j \in 1..MaxSlots, f \in Fade : SlotHas(i, f)' /\ SlotHas(j, f)' => i = j
  BY ONLY <1>2, <1>12, <1>13, <1>14, Named
<1>17. /\ layer' \in {"ribbon", "alert", "height", "marker", "carpet", "cloud"}
       /\ theme' \in Slots!Theme /\ busy' \in BOOLEAN /\ hole' \in BOOLEAN
       /\ count' \in 0..MaxSlots /\ at' \in 1..(count' + 1) /\ busy' /\ slotLive' \subseteq Fade
  BY <1>1, <1>2, <1>6 DEF SlotsInv
<1>. QED  BY <1>1, <1>7, <1>8, <1>10, <1>11, <1>15, <1>16, <1>17 DEF SlotsInv

LEMMA EndSlotsInv ==
  ASSUME SlotsInv, Slots!EndFrame
  PROVE  SlotsInv'
<1>1. /\ busy /\ at > count
      /\ slots' = [i \in 1..MaxSlots |->
                IF i \notin Slots!Present THEN slots[i]
                ELSE CASE layer = "carpet" -> Slots!Rebound(slots[i], ~Slots!Plain(Slots!Freshest))
                       [] layer = "cloud" -> [slots[i] EXCEPT !.alpha = Slots!Freshest]
                       [] OTHER -> slots[i]]
      /\ hole' = Slots!GroundHole /\ busy' = FALSE
      /\ layer' = layer /\ theme' = theme /\ slotLive' = slotLive /\ scene' = scene
      /\ count' = count /\ at' = at
  BY DEF Slots!EndFrame
<1>2. /\ at = count + 1 /\ count \in 0..MaxSlots /\ MaxSlots \in Nat /\ count \in Nat
      /\ layer \in {"ribbon", "alert", "height", "marker", "carpet", "cloud"}
      /\ \A i : i \in Slots!Present <=> i \in 1..count
  BY <1>1, LayerConstants DEF SlotsInv, Slots!Present
<1>. DEFINE want == ~Slots!Plain(Slots!Freshest)
<1>3. Slots!Freshest \in Slots!Age /\ want \in BOOLEAN
  BY DEF Slots!Freshest, Slots!Age
<1>4. (\A s : Kept(s)' <=> Kept(s)) /\ (\A s, m : Shows(s, m)' <=> Shows(s, m))
  BY <1>1, <1>2, ShowsStays
<1>5. (\A m : Slots!Wanted(m)' = Slots!Wanted(m)) /\ (\A s : Slots!Seen(s)' = Slots!Seen(s))
      /\ (Slots!GroundHole' <=> Slots!GroundHole)
  BY <1>1 DEF Slots!Wanted, Slots!Plain, Slots!Freshest, Slots!Present, Slots!Seen, Slots!GroundHole
\* What the end of the frame makes of a slot that has been met.
<1>6. ASSUME NEW i \in 1..MaxSlots
      PROVE  /\ slots'[i] \in Slot /\ slots'[i].fade = slots[i].fade /\ Kept(slots'[i])
             /\ i > count => slots'[i] = Slots!NoSlot
             /\ i <= count => /\ Shows(slots'[i], scene[i])
                              /\ layer \in {"carpet", "cloud"} =>
                                   (slots'[i].mesh # None => Slots!Seen(slots'[i]) = Slots!Wanted(scene[i]))
  <2>. DEFINE s == slots[i]  t == slots'[i]
  <2>1. s \in Slot /\ Kept(s) /\ (i > count => s = Slots!NoSlot)
    BY DEF SlotsInv
  <2>2. i <= count => Shows(s, scene[i])
    BY <1>2 DEF SlotsInv
  <2>3. CASE i > count \/ layer \notin {"carpet", "cloud"}
    <3>1. t = s
      BY <1>1, <1>2, <2>3
    <3>. HIDE DEF s, t
    <3>. QED  BY <1>2, <2>1, <2>2, <2>3, <3>1 DEF s, t
  <2>4. CASE i <= count /\ layer = "carpet"
    <3>1. t = Slots!Rebound(s, want)
      BY <1>1, <1>2, <2>4
    <3>2. CarpetKept(s) /\ Shows(s, scene[i])
      BY <2>1, <2>2, <2>4 DEF Kept
    <3>. HIDE DEF want, s, t
    <3>3. /\ t \in Slot /\ t.fade = s.fade /\ t.mesh = s.mesh /\ t.sig = s.sig /\ t.kind = s.kind
          /\ t.inScene = s.inScene /\ t.faded = want
          /\ t.mesh # None => t.material = IF want THEN "faded" ELSE "opaque"
      <4>1. CASE s.faded = want
        <5>1. t = s
          BY <3>1, <4>1 DEF Slots!Rebound
        <5>. QED  BY <2>1, <3>2, <4>1, <5>1 DEF CarpetKept
      <4>2. CASE s.faded # want
        <5>. DEFINE x == IF s.mesh = None THEN None ELSE IF want THEN "faded" ELSE "opaque"
        <5>1. t = [s EXCEPT !.faded = want, !.material = x]
          BY <3>1, <4>2 DEF Slots!Rebound
        <5>2. x \in Word \cup {None} /\ (s.mesh # None => x = IF want THEN "faded" ELSE "opaque")
          BY DEF Word
        <5>. HIDE DEF x
        <5>. QED  BY <1>3, <2>1, <5>1, <5>2 DEF Slot
      <4>. QED  BY <4>1, <4>2
    <3>4. CarpetKept(t)
      BY <3>2, <3>3 DEF CarpetKept
    <3>5. t.mesh # None => Slots!Seen(t) = Slots!Wanted(scene[i])
      BY <2>4, <3>2, <3>3 DEF Shows, Slots!Seen, Slots!Wanted, want
    <3>6. Kept(t) /\ Shows(t, scene[i])
      BY <2>4, <3>2, <3>3, <3>4 DEF Kept, Shows
    <3>. QED  BY <1>2, <2>4, <3>3, <3>5, <3>6 DEF s, t
  <2>5. CASE i <= count /\ layer = "cloud"
    <3>1. t = [s EXCEPT !.alpha = Slots!Freshest]
      BY <1>1, <1>2, <2>5
    <3>2. CloudKept(s) /\ SlotBound(s) /\ Shows(s, scene[i])
      BY <2>1, <2>2, <2>5 DEF Kept
    <3>. HIDE DEF s, t
    <3>3. /\ t \in Slot /\ t.fade = s.fade /\ t.mesh = s.mesh /\ t.sig = s.sig /\ t.kind = s.kind
          /\ t.inScene = s.inScene /\ t.material = s.material /\ t.alpha = Slots!Freshest
      BY <1>3, <2>1, <3>1 DEF Slot, s
    <3>4. CloudKept(t) /\ SlotBound(t)
      BY <3>2, <3>3 DEF CloudKept, SlotBound
    <3>5. t.mesh # None => Slots!Seen(t) = Slots!Wanted(scene[i])
      BY <2>5, <3>2, <3>3 DEF Shows, Slots!Seen, Slots!Wanted
    <3>6. Kept(t) /\ Shows(t, scene[i])
      BY <2>5, <3>2, <3>3, <3>4 DEF Kept, Shows
    <3>. QED  BY <1>2, <2>5, <3>3, <3>5, <3>6 DEF s, t
  <2>. QED  BY <1>2, <2>3, <2>4, <2>5
<1>7. slots' \in [1..MaxSlots -> Slot]
  BY <1>1, <1>6
<1>8. \A i \in 1..MaxSlots, f \in Fade : SlotHas(i, f)' <=> SlotHas(i, f)
  BY <1>6 DEF SlotHas
<1>9. /\ slotLive' \subseteq Fade
      /\ \A f \in Fade : f \in slotLive' <=> \E i \in 1..MaxSlots : SlotHas(i, f)'
      /\ \A i, j \in 1..MaxSlots, f \in Fade : SlotHas(i, f)' /\ SlotHas(j, f)' => i = j
  BY <1>1, <1>8 DEF SlotsInv
<1>10. \A i \in 1..MaxSlots : Kept(slots[i])' /\ (i > count' => slots'[i] = Slots!NoSlot)
  BY <1>1, <1>4, <1>6
<1>11. \A i \in 1..(at' - 1) : scene'[i] \in Slots!Item(layer') /\ Shows(slots[i], scene[i])'
  BY <1>1, <1>2, <1>4, <1>6 DEF SlotsInv
<1>12. layer' \in {"carpet", "cloud"} => \A i \in 1..count' :
          slots'[i].mesh # None => Slots!Seen(slots[i])' = Slots!Wanted(scene[i])'
  BY <1>1, <1>2, <1>5, <1>6
<1>13. /\ layer' \in {"ribbon", "alert", "height", "marker", "carpet", "cloud"}
       /\ theme' \in Slots!Theme /\ busy' \in BOOLEAN /\ hole' \in BOOLEAN
       /\ count' \in 0..MaxSlots /\ at' \in 1..(count' + 1) /\ at' = count' + 1
       /\ scene' \in [1..MaxSlots -> Slots!Item(layer') \cup {None}]
  BY <1>1, <1>2 DEF SlotsInv, Slots!GroundHole
<1>14. hole' <=> Slots!GroundHole'
  BY <1>1, <1>5
<1>. QED  BY <1>7, <1>9, <1>10, <1>11, <1>12, <1>13, <1>14 DEF SlotsInv

SlotsNext == Slots!Next \/ UNCHANGED slotVars

LEMMA SlotsNextInv == SlotsInv /\ SlotsNext => SlotsInv'
<1>1. ASSUME SlotsInv, NEW n \in 0..MaxSlots, NEW t \in Slots!Theme, Slots!BeginFrame(n, t)
      PROVE  SlotsInv'
  BY <1>1, BeginSlotsInv
<1>2. ASSUME SlotsInv, NEW m \in Slots!Item(layer), Slots!UpdateSlot(m) PROVE SlotsInv'
  BY <1>2, UpdateSlotInv
<1>3. ASSUME SlotsInv, Slots!EndFrame PROVE SlotsInv'
  BY <1>3, EndSlotsInv
<1>4. ASSUME SlotsInv, UNCHANGED slotVars PROVE SlotsInv'
  <2>1. /\ layer' = layer /\ theme' = theme /\ slots' = slots /\ slotLive' = slotLive /\ scene' = scene
        /\ count' = count /\ at' = at /\ hole' = hole /\ busy' = busy
    BY <1>4 DEF slotVars
  <2>2. (\A s : Kept(s)' <=> Kept(s)) /\ (\A s, m : Shows(s, m)' <=> Shows(s, m))
    BY <1>4, <2>1, ShowsStays DEF SlotsInv
  <2>3. (\A m : Slots!Wanted(m)' = Slots!Wanted(m)) /\ (\A s : Slots!Seen(s)' = Slots!Seen(s))
        /\ (Slots!GroundHole' <=> Slots!GroundHole)
    BY <2>1 DEF Slots!Wanted, Slots!Plain, Slots!Freshest, Slots!Present, Slots!Seen, Slots!GroundHole
  <2>4. \A i, f : SlotHas(i, f)' <=> SlotHas(i, f)
    BY <2>1 DEF SlotHas
  <2>. QED  BY <1>4, <2>1, <2>2, <2>3, <2>4 DEF SlotsInv
<1>. QED  BY <1>1, <1>2, <1>3, <1>4 DEF SlotsNext, Slots!Next

-----------------------------------------------------------------------------
(* The layers together. *)

MapNext == Map!Next \/ UNCHANGED mapVars

LEMMA MapNextInv == MapInv /\ MapNext => MapInv'
<1>1. ASSUME MapInv, NEW e \in Map!Chunk, Map!UpdateChunk(e) PROVE MapInv'
  BY <1>1, ChunkInv
<1>2. ASSUME MapInv, UNCHANGED mapVars PROVE MapInv'
  BY <1>2 DEF mapVars, MapInv, FadesApart, Holds, Bound
<1>. QED  BY <1>1, <1>2, EndMapInv DEF MapNext, Map!Next

LayersInv == MapInv /\ GridInv /\ SlotsInv

LEMMA LayersInvHolds == LayersSpec => []LayersInv
<1>1. LayersInit => LayersInv
  BY MapInitInv, GridInitInv, SlotsInitInv DEF LayersInit, LayersInv
<1>2. LayersInv /\ [LayersNext]_layerVars => LayersInv'
  <2>1. [LayersNext]_layerVars => MapNext /\ GridsNext /\ SlotsNext
    BY DEF LayersNext, layerVars, MapNext, GridsNext, SlotsNext
  <2>. QED  BY <2>1, MapNextInv, GridsNextInv, SlotsNextInv DEF LayersInv
<1>. QED  BY <1>1, <1>2, PTL DEF LayersSpec

\* Whatever the slots and the map drew before, what is drawn is bound to the instance it
\* has to itself or to its kind's, no other instance is alive, and no texture is lost.
THEOREM LayersMeshesAreBound == LayersSpec => []MeshesAreBound
<1>1. LayersInv => MeshesAreBound
  BY MapInvMeans, GridInvMeans, SlotsInvMeans DEF LayersInv, MeshesAreBound
<1>. QED  BY <1>1, LayersInvHolds, PTL

\* After every frame each slot draws the item of its place as its age and the theme ask,
\* the grids their latest cells, and the ground is open under a drawn height grid only,
\* although a slot is rebuilt, bound or uploaded only where its record differs.
THEOREM LayersDrawTheScene == LayersSpec => []DrawsTheScene
<1>1. LayersInv => DrawsTheScene
  BY GridInvMeans, SlotsInvMeans DEF LayersInv, DrawsTheScene
<1>. QED  BY <1>1, LayersInvHolds, PTL

-----------------------------------------------------------------------------
\* The objects of the layers are those of ObjectPools: its theorems hold of them.
THEOREM LayersKeepThePools == LayersSpec => Spec
<1>1. LayersInit => Init
  BY DEF LayersInit
<1>2. [LayersNext]_layerVars => [Next]_vars
  BY DEF LayersNext, layerVars
<1>. QED  BY <1>1, <1>2, PTL DEF LayersSpec, Spec
=============================================================================
